CONSTANTS
  NoValue = NoValue
  Inputs <- MCInputs
  Faults = {"revoked_bad", "entry_ext_bad"}

SPECIFICATION ClientSpec

INVARIANT
  RevocationQueriesSound
