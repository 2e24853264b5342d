------------------------- MODULE MC_X509Certificate -------------------------
(***************************************************************************)
(* Inputs for X509Certificate: the DER encodings of a family of           *)
(* well-formed certificates, whose decoded value is known, and one         *)
(* malformed variant per field and per envelope element, selected by name *)
(* through the constant Faults.                                            *)
(***************************************************************************)
EXTENDS X509Certificate, X509Samples

CONSTANT Faults   \* names of the malformed inputs to add

\* Extension lists: none; one; a duplicate OID (the last must win); a
\* registered OID its decoder rejects; unknown OIDs, critical or not.
ExtLists ==
  { <<>>,
    <<Ext(BC, TRUE, <<1>>)>>,
    <<Ext(BC, FALSE, <<0>>), Ext(KU, FALSE, <<1>>), Ext(BC, TRUE, <<1>>)>>,
    <<Ext(KU, FALSE, <<7>>)>>,
    <<Ext(UnknownExt, FALSE, <<0>>)>>,
    <<Ext(UnknownExt, TRUE, <<0>>)>> }

Desc(v, iss, sub, uid, exts) ==
  [version |-> v, serial |-> <<5>>, signature |-> SigAlg, issuer |-> iss,
   validity |-> [not_before |-> 1, not_after |-> 3], subject |-> sub,
   subject_pki |-> [algorithm |-> KeyAlg, subject_public_key |-> <<0, 4>>],
   issuer_uid |-> uid, subject_uid |-> uid, exts |-> exts,
   signature_algorithm |-> SigAlg, signature_value |-> <<0, 9>>]

WellFormed ==
  {Desc(v, a, s, u, x) : v \in {0, 2}, a \in {NameA, NameB}, s \in {NameA, NameB},
                         u \in {NoValue, <<0, 6>>}, x \in ExtLists}

Base == Desc(2, NameB, NameA, <<0, 6>>, <<Ext(BC, TRUE, <<1>>)>>)

\* Base with the encoding of TBSCertificate field k replaced by cells.
WithField(k, cells) ==
  EncCertificateFrom([TbsPieces(Base) EXCEPT ![k] = cells], Base)

\* Base with its envelope rebuilt from a TBS tag and the two trailing parts.
WithEnvelope(tbsTag, sigAlgCells, sigCells) ==
  TLV("SEQ", TLV(tbsTag, Concat(TbsPieces(Base))) \o sigAlgCells \o sigCells)

FaultInput ==
  [ version_len |-> WithField(1, <<Hdr("C0", 0)>> \o Prim("INT", <<2>>)),
    version_wide |-> WithField(1, TLV("C0", Prim("INT", <<1, 0, 0, 0, 0>>))),
    version_bad |-> WithField(1, TLV("C0", Prim("OCT", <<2>>))),
    serial_bad |-> WithField(2, Prim("OCT", <<5>>)),
    signature_bad |-> WithField(3, TLV("SEQ", Prim("INT", <<1>>))),
    params_bad |-> WithField(3, TLV("SEQ", EncOid(SigAlg.algorithm) \o <<Hdr("NULL", 4)>>)),
    bad_rdn |-> WithField(4, TLV("SEQ", EncRdn(NameB[1]) \o TLV("SET", <<>>)
                                        \o EncRdn(NameB[2]))),
    issuer_bad |-> WithField(4, TLV("SET", <<>>)),
    validity_short |-> WithField(5, TLV("SEQ", Prim("TIME", <<1>>))),
    validity_overrun |-> WithField(5, TLV("SEQ", Prim("TIME", <<1>>)
                                         \o <<Hdr("TIME", 2), Octet(3)>>)),
    subject_bad |-> WithField(6, Prim("STR", <<1>>)),
    spki_bad |-> WithField(7, TLV("SEQ", EncAlg(KeyAlg))),
    issuer_uid_bad |-> WithField(8, <<Hdr("C1", 20), Octet(0)>>),
    issuer_uid_empty |-> WithField(8, Prim("C1", <<>>)),
    subject_uid_bad |-> WithField(9, <<Hdr("C2", 20), Octet(0)>>),
    extensions_bad |-> WithField(10, TLV("C3", TLV("SEQ", TLV("SEQ", EncOid(BC))))),
    tbs_trailing |-> WithField(10, EncExtensions(Base.exts, "C3") \o Prim("INT", <<1>>)),
    truncated |-> Front(EncCertificate(Base)),
    cert_bad |-> TLV("SET", SubSeq(EncCertificate(Base), 2, Len(EncCertificate(Base)))),
    tbs_bad |-> WithEnvelope("SET", GoodSigAlg, GoodSig),
    sigalg_bad |-> WithEnvelope("SEQ", Prim("INT", <<1>>), GoodSig),
    cert_short |-> TLV("SEQ", TLV("SEQ", Concat(TbsPieces(Base))) \o GoodSigAlg) \o GoodSig,
    sigvalue_bad |-> WithEnvelope("SEQ", GoodSigAlg, Prim("OCT", <<0, 9>>)) ]

MCInputs ==
  {[bytes |-> EncCertificate(d), expect |-> ExpectedCertificate(d)] : d \in WellFormed}
  \cup {[bytes |-> FaultInput[f], expect |-> NoValue] : f \in Faults}

=============================================================================
