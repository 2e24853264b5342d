----------------------------- MODULE X509Samples -----------------------------
(***************************************************************************)
(* Field values the MC modules build their inputs from: names, algorithm   *)
(* identifiers and extension lists, one or two of each shape the decoders  *)
(* branch on.                                                              *)
(***************************************************************************)
EXTENDS X509Encode

CN == <<3>>          \* 2.5.4.3 commonName
C == <<6>>           \* 2.5.4.6 countryName
BC == OID_X509_EXT_BASIC_CONSTRAINTS
KU == OID_X509_EXT_KEY_USAGE
UnknownExt == <<99>>

Atv(t, v) == [attr_type |-> t, attr_value |-> Prim("STR", <<v>>)]

\* CN=1, and C=2, CN=1 + CN=2 (a multi-valued last RDN).
NameA == << <<Atv(CN, 1)>> >>
NameB == << <<Atv(C, 2)>>, <<Atv(CN, 1), Atv(CN, 2)>> >>

SigAlg == [algorithm |-> <<1, 11>>, parameters |-> Prim("NULL", <<>>)]
KeyAlg == [algorithm |-> <<1, 1>>, parameters |-> NoValue]

Ext(o, crit, val) == [oid |-> o, critical |-> crit, value |-> val]

GoodSigAlg == EncAlg(SigAlg)
GoodSig == Prim("BIT", <<0, 9>>)

=============================================================================
