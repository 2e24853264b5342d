----------------------------- MODULE X509Encode -----------------------------
(***************************************************************************)
(* Reference definitions: the DER encoding of the RFC 5280 structures, and *)
(* the value a decoder must return for each.  They are written from the   *)
(* ASN.1 grammar, independently of the decoder modules, and are used to    *)
(* build the inputs of the model and the expected results.                 *)
(*                                                                         *)
(* A certificate description d has the fields of TbsCertificate with the  *)
(* extensions as the ordered list in which they are encoded (exts), plus  *)
(* signature_algorithm and signature_value.                                *)
(***************************************************************************)
EXTENDS X509Fields

EncOid(o) == Prim("OID", o)

Concat(pieces) == FlattenSeq(pieces)

EncAtv(a) == TLV("SEQ", EncOid(a.attr_type) \o a.attr_value)
EncRdn(r) == TLV("SET", Concat([k \in 1..Len(r) |-> EncAtv(r[k])]))
EncName(rdns) == TLV("SEQ", Concat([k \in 1..Len(rdns) |-> EncRdn(rdns[k])]))

\* The decoded Name: its RDNs and the exact bytes of its element.
ExpectedName(rdns) == [rdn_seq |-> rdns, raw |-> EncName(rdns)]

EncAlg(a) ==
  TLV("SEQ", EncOid(a.algorithm)
             \o (IF a.parameters = NoValue THEN <<>> ELSE a.parameters))

\* [0] EXPLICIT Version DEFAULT v1: v1 is not encoded.
EncVersion(v) == IF v = 0 THEN <<>> ELSE TLV("C0", Prim("INT", <<v>>))

EncValidity(v) ==
  TLV("SEQ", Prim("TIME", <<v.not_before>>) \o Prim("TIME", <<v.not_after>>))

EncSpki(k) == TLV("SEQ", EncAlg(k.algorithm) \o Prim("BIT", k.subject_public_key))

EncUid(u, tag) == IF u = NoValue THEN <<>> ELSE Prim(tag, u)

EncExt(x) ==
  TLV("SEQ", EncOid(x.oid)
             \o (IF x.critical THEN Prim("BOOL", <<255>>) ELSE <<>>)
             \o Prim("OCT", x.value))

EncExtensionList(exts) == TLV("SEQ", Concat([k \in 1..Len(exts) |-> EncExt(exts[k])]))

\* [tag] EXPLICIT Extensions OPTIONAL: nothing when there are none.
EncExtensions(exts, tag) == IF exts = <<>> THEN <<>> ELSE TLV(tag, EncExtensionList(exts))

\* The encodings of the ten TBSCertificate fields, in order.
TbsPieces(d) ==
  << EncVersion(d.version), Prim("INT", d.serial), EncAlg(d.signature),
     EncName(d.issuer), EncValidity(d.validity), EncName(d.subject),
     EncSpki(d.subject_pki), EncUid(d.issuer_uid, "C1"),
     EncUid(d.subject_uid, "C2"), EncExtensions(d.exts, "C3") >>

EncCertificateFrom(tbsPieces, d) ==
  TLV("SEQ", TLV("SEQ", Concat(tbsPieces))
             \o EncAlg(d.signature_algorithm)
             \o Prim("BIT", d.signature_value))

EncCertificate(d) == EncCertificateFrom(TbsPieces(d), d)

ExpectedExtension(x) ==
  [oid |-> x.oid, critical |-> x.critical, value |-> x.value,
   parsed_extension |-> ParseExtension(x.value, x.oid)]

\* The extensions map RFC 5280 and spec section 9 call for: each OID of
\* the list mapped to its last occurrence.
ExpectedExtensions(exts) ==
  LET oids == {exts[k].oid : k \in 1..Len(exts)}
      last(o) == CHOOSE k \in 1..Len(exts) :
                   exts[k].oid = o /\ \A j \in k+1..Len(exts) : exts[j].oid # o
  IN [o \in oids |-> ExpectedExtension(exts[last(o)])]

ExpectedCertificate(d) ==
  [tbs_certificate |->
     [version |-> d.version, serial |-> d.serial, signature |-> d.signature,
      issuer |-> ExpectedName(d.issuer), validity |-> d.validity,
      subject |-> ExpectedName(d.subject), subject_pki |-> d.subject_pki,
      issuer_uid |-> d.issuer_uid, subject_uid |-> d.subject_uid,
      extensions |-> ExpectedExtensions(d.exts),
      raw |-> TLV("SEQ", Concat(TbsPieces(d)))],
   signature_algorithm |-> d.signature_algorithm,
   signature_value |-> d.signature_value]

-----------------------------------------------------------------------------
(* CRLs.  A description has version (NoValue or 1), signature, issuer,     *)
(* this_update, next_update (NoValue or a time), revoked (NoValue when the *)
(* field is omitted, else a list of [serial, date, exts]), exts, and the   *)
(* two envelope fields.                                                    *)

EncOptTime(t) == IF t = NoValue THEN <<>> ELSE Prim("TIME", <<t>>)

EncRevoked(r) ==
  TLV("SEQ", Prim("INT", r.serial) \o Prim("TIME", <<r.date>>)
             \o (IF r.exts = <<>> THEN <<>> ELSE EncExtensionList(r.exts)))

EncRevokedList(rs) ==
  IF rs = NoValue THEN <<>>
  ELSE TLV("SEQ", Concat([k \in 1..Len(rs) |-> EncRevoked(rs[k])]))

CrlTbsPieces(d) ==
  << IF d.version = NoValue THEN <<>> ELSE Prim("INT", <<d.version>>),
     EncAlg(d.signature), EncName(d.issuer), Prim("TIME", <<d.this_update>>),
     EncOptTime(d.next_update), EncRevokedList(d.revoked),
     EncExtensions(d.exts, "C0") >>

EncCrlFrom(tbsPieces, d) ==
  TLV("SEQ", TLV("SEQ", Concat(tbsPieces))
             \o EncAlg(d.signature_algorithm)
             \o Prim("BIT", d.signature_value))

EncCrl(d) == EncCrlFrom(CrlTbsPieces(d), d)

ExpectedRevoked(rs) ==
  IF rs = NoValue THEN <<>>
  ELSE [k \in 1..Len(rs) |->
          [user_certificate |-> rs[k].serial, revocation_date |-> rs[k].date,
           extensions |-> ExpectedExtensions(rs[k].exts)]]

ExpectedCrl(d) ==
  [tbs_cert_list |->
     [version |-> d.version, signature |-> d.signature,
      issuer |-> ExpectedName(d.issuer), this_update |-> d.this_update,
      next_update |-> d.next_update,
      revoked_certificates |-> ExpectedRevoked(d.revoked),
      extensions |-> ExpectedExtensions(d.exts),
      raw |-> TLV("SEQ", Concat(CrlTbsPieces(d)))],
   signature_algorithm |-> d.signature_algorithm,
   signature_value |-> d.signature_value]

-----------------------------------------------------------------------------
(* CSRs (RFC 2986).  A description has version, subject, subject_pki,     *)
(* attrs (a list of [oid, exts]: an attribute whose SET holds one SEQUENCE *)
(* OF Extension), and the two envelope fields.                             *)

EncAttributeValue(a) == TLV("SET", EncExtensionList(a.exts))

EncAttribute(a) == TLV("SEQ", EncOid(a.oid) \o EncAttributeValue(a))

\* The encodings of the four CertificationRequestInfo fields, in order;
\* attributes is [0] IMPLICIT SET OF Attribute, present even when empty.
CriPieces(d) ==
  << Prim("INT", <<d.version>>), EncName(d.subject), EncSpki(d.subject_pki),
     TLV("C0", Concat([k \in 1..Len(d.attrs) |-> EncAttribute(d.attrs[k])])) >>

EncCsrFrom(criPieces, d) ==
  TLV("SEQ", TLV("SEQ", Concat(criPieces))
             \o EncAlg(d.signature_algorithm)
             \o Prim("BIT", d.signature_value))

EncCsr(d) == EncCsrFrom(CriPieces(d), d)

\* An attribute keeps its value element whole (spec 4.4); an extension
\* request carries the extension map of its SEQUENCE OF Extension.
ExpectedAttribute(a) ==
  [oid |-> a.oid, value |-> EncAttributeValue(a),
   parsed_attribute |->
     IF a.oid = OID_PKCS9_EXTENSION_REQUEST
     THEN [variant |-> a.oid, data |-> ExpectedExtensions(a.exts)]
     ELSE UnsupportedAttribute]

ExpectedAttributes(attrs) ==
  LET oids == {attrs[k].oid : k \in 1..Len(attrs)}
      last(o) == CHOOSE k \in 1..Len(attrs) :
                   attrs[k].oid = o /\ \A j \in k+1..Len(attrs) : attrs[j].oid # o
  IN [o \in oids |-> ExpectedAttribute(attrs[last(o)])]

ExpectedCsr(d) ==
  [certification_request_info |->
     [version |-> d.version, subject |-> ExpectedName(d.subject),
      subject_pki |-> d.subject_pki,
      attributes |-> ExpectedAttributes(d.attrs),
      raw |-> TLV("SEQ", Concat(CriPieces(d)))],
   signature_algorithm |-> d.signature_algorithm,
   signature_value |-> d.signature_value]

=============================================================================
