\* Every well-formed certificate and the malformed variants the decoder
\* rejects.
CONSTANTS
  NoValue = NoValue
  Inputs <- MCInputs
  Faults = {"version_wide", "version_bad", "serial_bad", "signature_bad",
            "issuer_bad", "subject_bad", "spki_bad",
            "issuer_uid_bad", "subject_uid_bad", "extensions_bad", "truncated",
            "cert_bad", "tbs_bad", "sigalg_bad", "sigvalue_bad",
            "validity_short", "validity_overrun", "cert_short"}

SPECIFICATION Spec

INVARIANTS
  TypeOK
  SignedSpan


  
