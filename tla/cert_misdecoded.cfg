\* Inputs that encode no certificate, each with a malformed element inside
\* a SEQUENCE that the closure leaves undecoded: an element after the
\* extensions, AlgorithmIdentifier parameters whose length overruns the
\* SEQUENCE, an empty [1] issuerUniqueID.
CONSTANTS
  NoValue = NoValue
  Inputs <- MCInputs
  Faults = {"tbs_trailing", "params_bad", "issuer_uid_empty"}

SPECIFICATION Spec

PROPERTY
  DecodeRefined
