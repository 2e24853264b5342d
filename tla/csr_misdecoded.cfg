\* Inputs the decoder mishandles: a CSR with an attribute no parser is
\* registered for, and one of version 2 (both well-formed); a version
\* INTEGER wrapped in [0].
CONSTANTS
  NoValue = NoValue
  Inputs <- MCInputs
  Signatures <- MCSignatures
  SignerKeys <- MCSignerKeys
  Faults = {"unknown_attribute", "version_unknown", "version_tagged"}

SPECIFICATION ClientSpec

PROPERTY
  DecodeRefined
