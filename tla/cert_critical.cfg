\* The well-formed certificates, some with an unknown critical extension.
CONSTANTS
  NoValue = NoValue
  Inputs <- MCInputs
  Faults = {}
SPECIFICATION Spec
INVARIANT
  CriticalExtensionsUnderstood
