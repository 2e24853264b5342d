\* A [0] version header that declares no content, followed by an INTEGER.
CONSTANTS
  NoValue = NoValue
  Inputs <- MCInputs
  Faults = {"version_len"}

SPECIFICATION Spec

PROPERTY
  DecodeRefined
