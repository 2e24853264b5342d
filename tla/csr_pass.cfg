CONSTANTS
  NoValue = NoValue
  Inputs <- MCInputs
  Signatures <- MCSignatures
  SignerKeys <- MCSignerKeys
  Faults = {"version_hdr_bad", "version_wide", "version_empty",
            "subject_bad", "spki_bad", "attributes_absent", "attribute_not_set",
            "truncated", "csr_bad", "cri_bad", "sigalg_bad", "sigvalue_bad",
            "csr_short"}

SPECIFICATION ClientSpec

INVARIANTS
  TypeOK
  SignedSpan
  RequestedExtensionsSound
  VerifySignatureSound

PROPERTY
  DecodeRefined
