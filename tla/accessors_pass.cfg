CONSTANTS
  NoValue = NoValue
  Inputs <- VerifyInputs
  Signatures <- MCSignatures
  SignerKeys <- MCSignerKeys
  Faults = {}
  MaxTime = 4

SPECIFICATION ClientSpec

\* The clock stops at MaxTime; queries stay enabled once decoded.
INVARIANTS
  ValidityQueriesSound
  IsCaSound
  
  VerifySignatureSound
