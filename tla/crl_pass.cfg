CONSTANTS
  NoValue = NoValue
  Inputs <- MCInputs
  Faults = {"version_long", "version_wide", "signature_bad", "issuer_bad",
            "this_update_bad", "next_update_bad", "extensions_bad", "truncated", "crl_bad", "tbs_bad", "sigalg_bad",
            "sigvalue_bad", "crl_short"}

SPECIFICATION ClientSpec

INVARIANTS
  TypeOK
  SignedSpan
  RevocationQueriesSound

PROPERTY
  DecodeRefined
