------------------------------ MODULE MC_X509Csr ------------------------------
(***************************************************************************)
(* Inputs for X509Csr: the DER encodings of a family of well-formed CSRs,  *)
(* whose decoded value is known, and named variants: malformed ones, one   *)
(* per field and envelope element, which carry no expected value, and two  *)
(* well-formed ones the decoder mishandles: an attribute it has no parser  *)
(* for, and a version other than v1.  Every well-formed request is signed  *)
(* by its own key, and one more by another key (MCSignatures).             *)
(***************************************************************************)
EXTENDS X509CsrClient, X509Samples

CONSTANT Faults   \* names of the variant inputs to add

ExtReq(exts) == [oid |-> OID_PKCS9_EXTENSION_REQUEST, exts |-> exts]
Challenge == [oid |-> <<9, 7>>, exts |-> <<>>]   \* challengePassword's OID

CsrDesc(sub, attrs) ==
  [version |-> 0, subject |-> sub,
   subject_pki |-> [algorithm |-> KeyAlg, subject_public_key |-> <<0, 4>>],
   attrs |-> attrs, signature_algorithm |-> SigAlg, signature_value |-> <<0, 9>>]

\* No attributes, one extension request, or two extension requests of
\* which the last must win.
AttrLists ==
  << <<>>, <<ExtReq(<<Ext(BC, TRUE, <<1>>)>>)>>,
     <<ExtReq(<<Ext(BC, TRUE, <<1>>)>>),
       ExtReq(<<Ext(KU, FALSE, <<1>>), Ext(UnknownExt, FALSE, <<0>>)>>)>> >>

Subjects == <<NameA, NameB>>

\* The key of CsrDesc is <<0, 4>>; another holder's is <<0, 5>>.
OtherKey == [algorithm |-> KeyAlg, subject_public_key |-> <<0, 5>>]

MCSignerKeys == {OtherKey}

\* The signature token of subject s and attribute list a.
Token(s, a) == 3 * (s - 1) + a

\* Each well-formed request signed with its own key (tokens 1-6), and one
\* more signature by the other key over the first (token 7).
MCSignatures ==
  [k \in 1..7 |->
     IF k = 7 THEN [key |-> <<5>>, alg |-> "RSA_PKCS1_2048_8192_SHA256",
                    msg |-> TLV("SEQ", Concat(CriPieces(CsrDesc(NameA, <<>>))))]
     ELSE LET s == (k - 1) \div 3 + 1
              a == ((k - 1) % 3) + 1
          IN [key |-> <<4>>, alg |-> "RSA_PKCS1_2048_8192_SHA256",
              msg |-> TLV("SEQ", Concat(CriPieces(CsrDesc(Subjects[s], AttrLists[a]))))]]

\* Two subjects times the attribute lists, each carrying its own
\* signature; and the first signed by the other key instead.
WellFormed ==
  {[CsrDesc(Subjects[s], AttrLists[a]) EXCEPT !.signature_value = <<0, Token(s, a)>>]
     : s \in 1..2, a \in 1..3}
  \cup {[CsrDesc(NameA, <<>>) EXCEPT !.signature_value = <<0, 7>>]}

Base == CsrDesc(NameB, <<ExtReq(<<Ext(BC, TRUE, <<1>>)>>)>>)

\* Base with the encoding of CertificationRequestInfo field k replaced.
WithField(k, cells) == EncCsrFrom([CriPieces(Base) EXCEPT ![k] = cells], Base)

\* Base whose CertificationRequestInfo holds only the given cells.
WithCri(cells) == EncCsrFrom(<<cells>>, Base)

WithEnvelope(criTag, sigAlgCells, sigCells) ==
  TLV("SEQ", TLV(criTag, Concat(CriPieces(Base))) \o sigAlgCells \o sigCells)

FaultInput ==
  [ version_last |-> WithCri(Prim("INT", <<>>)),
    version_hdr_bad |-> WithField(1, <<Octet(0)>>),
    version_wide |-> WithField(1, Prim("INT", <<0, 0>>)),
    version_tagged |-> WithField(1, TLV("C0", Prim("INT", <<0>>))),
    version_empty |-> WithField(1, Prim("INT", <<>>)),
    subject_bad |-> WithField(2, TLV("SET", <<>>)),
    spki_bad |-> WithField(3, TLV("SEQ", EncAlg(KeyAlg))),
    attributes_absent |-> WithField(4, <<>>),
    attribute_not_set |-> WithField(4, TLV("C0", TLV("SEQ", EncOid(Challenge.oid)
                                                         \o Prim("STR", <<1>>)))),
    unknown_attribute |-> EncCsr(CsrDesc(NameB, <<Challenge>>)),
    version_unknown |-> EncCsr([Base EXCEPT !.version = 2]),
    truncated |-> Front(EncCsr(Base)),
    csr_bad |-> TLV("SET", SubSeq(EncCsr(Base), 2, Len(EncCsr(Base)))),
    cri_bad |-> WithEnvelope("SET", GoodSigAlg, GoodSig),
    sigalg_bad |-> WithEnvelope("SEQ", Prim("INT", <<1>>), GoodSig),
    csr_short |-> TLV("SEQ", TLV("SEQ", Concat(CriPieces(Base))) \o GoodSigAlg) \o GoodSig,
    sigvalue_bad |-> WithEnvelope("SEQ", GoodSigAlg, Prim("OCT", <<0, 9>>)) ]

\* The value a variant encodes: none, except for the two well-formed ones.
FaultExpect(f) ==
  CASE f = "unknown_attribute" -> ExpectedCsr(CsrDesc(NameB, <<Challenge>>))
    [] f = "version_unknown" -> ExpectedCsr([Base EXCEPT !.version = 2])
    [] OTHER -> NoValue

MCInputs ==
  {[bytes |-> EncCsr(d), expect |-> ExpectedCsr(d)] : d \in WellFormed}
  \cup {[bytes |-> FaultInput[f], expect |-> FaultExpect(f)] : f \in Faults}

=============================================================================
