\* An issuer Name whose second RDN is an empty SET.
CONSTANTS
  NoValue = NoValue
  Inputs <- MCInputs
  Faults = {"bad_rdn"}
SPECIFICATION Spec
INVARIANT
  NameRawExact
