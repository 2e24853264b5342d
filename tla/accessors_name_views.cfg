\* Names read through iter_state_or_province and through Display.
CONSTANTS
  NoValue = NoValue
  Inputs <- NameViewsInputs
  Signatures <- MCSignatures
  SignerKeys <- MCSignerKeys
  Faults = {}
  MaxTime = 4

SPECIFICATION ClientSpec

INVARIANT
  NameViewsSound
