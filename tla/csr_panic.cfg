CONSTANTS
  NoValue = NoValue
  Inputs <- MCInputs
  Signatures <- MCSignatures
  SignerKeys <- MCSignerKeys
  Faults = {"version_last"}

SPECIFICATION ClientSpec

\* The decoder returns, or panics, once pc = "done".

INVARIANT
  NoPanic
