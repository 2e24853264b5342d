------------------------------ MODULE MC_X509Crl ------------------------------
(***************************************************************************)
(* Inputs for X509Crl: the DER encodings of a family of well-formed CRLs,  *)
(* whose decoded value is known, and one malformed variant per field and   *)
(* per envelope element, selected by name through the constant Faults.    *)
(***************************************************************************)
EXTENDS X509CrlClient, X509Samples

CONSTANT Faults   \* names of the malformed inputs to add

E1 == [serial |-> <<7>>, date |-> 2, exts |-> <<>>]
E2 == [serial |-> <<8>>, date |-> 2,
       exts |-> <<Ext(OID_X509_EXT_REASON_CODE, FALSE, <<1>>),
                  Ext(OID_X509_EXT_INVALIDITY_DATE, TRUE, <<0>>)>>]

\* The entry extension encoded last under oid, as its typed getter should
\* read it (every value encoded here is one the registry decodes).
Encoded(exts, oid) ==
  LET js == {j \in DOMAIN exts : exts[j].oid = oid}
      j == CHOOSE j \in js : \A j2 \in js : j2 <= j
  IN IF js = {} THEN NoValue ELSE [critical |-> exts[j].critical, value |-> exts[j].value[1]]

EntryOf(r) ==
  [serial |-> r.serial,
   reason_code |-> Encoded(r.exts, OID_X509_EXT_REASON_CODE),
   invalidity_date |-> Encoded(r.exts, OID_X509_EXT_INVALIDITY_DATE)]

\* The revoked entries a revoked list encodes, as the history records them.
Entries(rs) == IF rs = NoValue THEN <<>> ELSE [k \in 1..Len(rs) |-> EntryOf(rs[k])]

CrlDesc(v, nu, rs, exts) ==
  [version |-> v, signature |-> SigAlg, issuer |-> NameB, this_update |-> 1,
   next_update |-> nu, revoked |-> rs, exts |-> exts,
   signature_algorithm |-> SigAlg, signature_value |-> <<0, 9>>]

\* v1 and v2; next_update absent or present; the revoked list omitted,
\* empty, one entry, or two of which the second has an entry extension;
\* no CRL extensions, or one.
WellFormed ==
  {CrlDesc(v, nu, rs, x) : v \in {NoValue, 1}, nu \in {NoValue, 3},
                           rs \in {NoValue, <<>>, <<E1>>, <<E1, E2>>},
                           x \in {<<>>, <<Ext(OID_X509_EXT_CRL_NUMBER, FALSE, <<0>>)>>}}

Base == CrlDesc(1, 3, <<E1, E2>>, <<Ext(OID_X509_EXT_CRL_NUMBER, FALSE, <<0>>)>>)

\* Base with the encoding of TBSCertList field k replaced by cells.
WithField(k, cells) ==
  EncCrlFrom([CrlTbsPieces(Base) EXCEPT ![k] = cells], Base)

WithEnvelope(tbsTag, sigAlgCells, sigCells) ==
  TLV("SEQ", TLV(tbsTag, Concat(CrlTbsPieces(Base))) \o sigAlgCells \o sigCells)

\* The second entry of Base with its revocationDate missing, and with an
\* entry extension that lacks its OCTET STRING.
E2NoDate == TLV("SEQ", Prim("INT", E2.serial))
E2BadExt == TLV("SEQ", Prim("INT", E2.serial) \o Prim("TIME", <<E2.date>>)
                       \o TLV("SEQ", TLV("SEQ", EncOid(OID_X509_EXT_REASON_CODE))))

FaultInput ==
  [ version_long |-> WithField(1, <<Hdr("INT", 90)>>),
    version_wide |-> WithField(1, Prim("INT", <<1, 0, 0, 0, 0>>)),
    signature_bad |-> WithField(2, TLV("SEQ", Prim("INT", <<1>>))),
    issuer_bad |-> WithField(3, TLV("SET", <<>>)),
    this_update_bad |-> WithField(4, Prim("OCT", <<1>>)),
    next_update_bad |-> WithField(5, Prim("TIME", <<>>)),
    revoked_bad |-> WithField(6, TLV("SEQ", EncRevoked(E1) \o E2NoDate)),
    entry_ext_bad |-> WithField(6, TLV("SEQ", EncRevoked(E1) \o E2BadExt)),
    extensions_bad |-> WithField(7, TLV("C0", TLV("SEQ", TLV("SEQ", EncOid(OID_X509_EXT_CRL_NUMBER))))),
    truncated |-> Front(EncCrl(Base)),
    crl_bad |-> TLV("SET", SubSeq(EncCrl(Base), 2, Len(EncCrl(Base)))),
    tbs_bad |-> WithEnvelope("SET", GoodSigAlg, GoodSig),
    sigalg_bad |-> WithEnvelope("SEQ", Prim("INT", <<1>>), GoodSig),
    crl_short |-> TLV("SEQ", TLV("SEQ", Concat(CrlTbsPieces(Base))) \o GoodSigAlg) \o GoodSig,
    sigvalue_bad |-> WithEnvelope("SEQ", GoodSigAlg, Prim("OCT", <<0, 9>>)) ]

\* An entry extension encoded with no value: no getter answer matches it.
UnreadableExtension == [critical |-> FALSE, value |-> NoValue]

\* The entries present in each malformed input: Base's, except where the
\* second entry lost its extensions along with its date, or carries a
\* ReasonCode extension with no value, which no reading may report as
\* absent.
FaultEntries(f) ==
  CASE f = "revoked_bad" -> <<EntryOf(E1), EntryOf([E2 EXCEPT !.exts = <<>>])>>
    [] f = "entry_ext_bad" ->
         <<EntryOf(E1), [EntryOf(E2) EXCEPT !.reason_code = UnreadableExtension,
                                            !.invalidity_date = NoValue]>>
    [] OTHER -> Entries(Base.revoked)

MCInputs ==
  {[bytes |-> EncCrl(d), expect |-> ExpectedCrl(d), revoked |-> Entries(d.revoked)]
     : d \in WellFormed}
  \cup {[bytes |-> FaultInput[f], expect |-> NoValue, revoked |-> FaultEntries(f)]
          : f \in Faults}

=============================================================================
