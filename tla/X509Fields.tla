----------------------------- MODULE X509Fields -----------------------------
(***************************************************************************)
(* The field decoders the TBS assemblers call (src/src/x509.rs), and the   *)
(* repository helpers they rely on that are not under src/ (the x509_parser *)
(* module, the extension parsers, ASN1Time), modelled from spec.md.        *)
(* OIDs are sequences of arcs after a common prefix: <<29, 19>> is         *)
(* 2.5.29.19; a time is a single octet, ordered as integers.               *)
(***************************************************************************)
EXTENDS X509Name, TLC

OID_X509_EXT_BASIC_CONSTRAINTS == <<29, 19>>
OID_X509_EXT_KEY_USAGE == <<29, 15>>
OID_X509_EXT_CRL_NUMBER == <<29, 20>>
OID_X509_EXT_REASON_CODE == <<29, 21>>
OID_X509_EXT_INVALIDITY_DATE == <<29, 24>>

\* The fixed registry of extension OIDs with a specific decoder (spec 4.4).
ExtensionRegistry == {OID_X509_EXT_BASIC_CONSTRAINTS, OID_X509_EXT_KEY_USAGE,
                      OID_X509_EXT_CRL_NUMBER, OID_X509_EXT_REASON_CODE,
                      OID_X509_EXT_INVALIDITY_DATE}

UnsupportedExtension == [variant |-> <<>>, data |-> NoValue]   \* no typed payload

OID_PKCS9_EXTENSION_REQUEST == <<9, 14>>   \* 1.2.840.113549.1.9.14

UnsupportedAttribute == [variant |-> <<>>, data |-> <<>>]

-----------------------------------------------------------------------------
(* Repository code not under src/, modelled from spec.md.  These helpers  *)
(* of x509_parser return an X509Result: their der_parser errors are mapped *)
(* into an X509Error, as every conversion in x509.rs is (map_err(|_| ..)), *)
(* so a window that ends inside their element is an Error, never          *)
(* Incomplete (spec 7 keeps Truncated for a buffer that ends early, which *)
(* the outermost container already reports).                              *)

\* ASN1Time::from_der: a UTCTime or GeneralizedTime (spec 4.5).
ASN1TimeFromDer(b, p, e) ==
  OrErr(Then(Primitive(b, p, e, "TIME"), LAMBDA r :
          IF Len(r.v) # 1 THEN Fail("err", p) ELSE Ok(r.p, r.v[1])))

\* x509_parser::parse_serial: an INTEGER; its raw octets stand for both
\* the BigUint and raw_serial (spec 4.6).
ParseSerial(b, p, e) ==
  OrErr(Then(Primitive(b, p, e, "INT"), LAMBDA r :
          IF r.v = <<>> THEN Fail("err", p) ELSE r))

\* x509_parser::der_read_critical: BOOLEAN DEFAULT FALSE (spec 4.4).
DerReadCritical(b, p, e) ==
  IF p >= e \/ b[p].t # "BOOL" THEN Ok(p, FALSE)
  ELSE OrErr(Then(Primitive(b, p, e, "BOOL"), LAMBDA r :
               IF Len(r.v) # 1 THEN Fail("err", p) ELSE Ok(r.p, r.v[1] # 0)))

\* extensions::parser::parse_extension, the dispatch of spec 4.4: a
\* registered OID's decoder accepts one octet 0 or 1 (BasicConstraints cA,
\* KeyUsage bits, CRLNumber, ReasonCode, InvalidityDate); an unregistered OID, or a decoder that fails, gives
\* UnsupportedExtension with the octets kept in X509Extension.value.
ParseExtension(value, oid) ==
  IF oid \in ExtensionRegistry /\ value \in {<<0>>, <<1>>}
  THEN [variant |-> oid, data |-> value[1]]
  ELSE UnsupportedExtension

\* TbsCertificate::basic_constraints, key_usage and the other typed getters
\* (RevokedCertificate::reason_code, CertificateRevocationList::crl_number
\* alike): the extension of the map stored under the getter's OID, when its
\* parsed variant is the getter's; with its critical flag.
ExtensionGetter(exts, oid) ==
  IF oid \notin DOMAIN exts THEN NoValue
  ELSE IF exts[oid].parsed_extension.variant # oid THEN NoValue
  ELSE [critical |-> exts[oid].critical, value |-> exts[oid].parsed_extension.data]

\* x509_parser::parse_signature_value: a BIT STRING.
ParseSignatureValue(b, p, e) ==
  OrErr(Then(Primitive(b, p, e, "BIT"), LAMBDA r :
          IF r.v = <<>> THEN Fail("err", p) ELSE r))

-----------------------------------------------------------------------------
(* x509.rs                                                                 *)

V1 == 0

X509VersionFromDer(b, p, e) ==
  Then(OrErr(ReadHeader(b, p, e)), LAMBDA h :
    IF TagNumber(h.v.t) = 0 THEN OrErr(ParseU32(b, h.p, e)) ELSE Ok(p, V1))

\* A faulty variant of X509Version::from_der_required: the untagged
\* version's header is skipped and its content left in place.
X509VersionRequiredNoSkip(b, p, e) ==
  Then(OrErr(ReadHeader(b, p, e)), LAMBDA h :
    IF TagNumber(h.v.t) = 0 THEN OrErr(ParseU32(b, h.p, e)) ELSE Ok(h.p, V1))

\* X509Version::from_der_required: as from_der, but any other header is
\* skipped together with the octet after it (&rem[1..]), and the value is
\* V1 whatever that octet holds.  Slicing an empty rem panics.  When the
\* octet after the header is the first octet of another header, the
\* cursor lands inside that header and the next read is ill-formed.
X509VersionFromDerRequired(b, p, e) ==
  Then(OrErr(ReadHeader(b, p, e)), LAMBDA h :
    CASE TagNumber(h.v.t) = 0 -> OrErr(ParseU32(b, h.p, e))
      [] h.p >= e -> Fail("panic", h.p)
      [] b[h.p].t = "octet" -> Ok(h.p + 1, V1)
      [] OTHER -> Fail("err", h.p + 1))

\* AlgorithmIdentifier::from_der: an OID and opt(complete(parse_der)).
AlgorithmIdentifier(b, p, e) ==
  Then(Container(b, p, e, "SEQ"), LAMBDA c :
  Then(OrErr(Primitive(b, c.v.cs, c.v.ce, "OID")), LAMBDA oid :
    LET alg(par) == Ok(c.p, [algorithm |-> oid.v,
                             parameters |-> IF par.st = "ok" THEN par.v ELSE NoValue])
    IN alg(Complete(ParseAny(b, oid.p, c.v.ce)))))

\* parse_der_bitstring: the content octets, of which the first is the
\* count of unused bits.
BitString(b, p, e) ==
  Then(Primitive(b, p, e, "BIT"), LAMBDA r :
    IF r.v = <<>> THEN Fail("err", p) ELSE r)

\* SubjectPublicKeyInfo::from_der: the AlgorithmIdentifier's errors pass
\* through unchanged; the BIT STRING's become InvalidSPKI.
SubjectPublicKeyInfo(b, p, e) ==
  Then(Container(b, p, e, "SEQ"), LAMBDA c :
  Then(AlgorithmIdentifier(b, c.v.cs, c.v.ce), LAMBDA alg :
  Then(OrErr(BitString(b, alg.p, c.v.ce)), LAMBDA key :
    Ok(c.p, [algorithm |-> alg.v, subject_public_key |-> key.v]))))

\* Validity::from_der: two times inside a SEQUENCE.
Validity(b, p, e) ==
  Then(Container(b, p, e, "SEQ"), LAMBDA c :
  Then(ASN1TimeFromDer(b, c.v.cs, c.v.ce), LAMBDA nb :
  Then(ASN1TimeFromDer(b, nb.p, c.v.ce), LAMBDA na :
    Ok(c.p, [not_before |-> nb.v, not_after |-> na.v]))))

\* UniqueIdentifier::parse(i, tag), mapped to InvalidIssuerUID or
\* InvalidSubjectUID: parse_ber_optional of an IMPLICIT BIT STRING whose
\* tag number (not class) must be tag.  The optional turns a decode error
\* of the element (wrong tag, bad header, empty BIT STRING) into None
\* without consuming input; only Incomplete reaches the map_err.
UniqueIdentifier(b, p, e, tag) ==
  LET opt(x) ==
        CASE x.st = "inc" -> Fail("err", p)
          [] x.st = "err" \/ TagNumber(x.v.t) # tag \/ x.v.cs = x.v.ce -> Ok(p, NoValue)
          [] OTHER -> Ok(x.p, Content(b, p))
  IN IF p >= e THEN Ok(p, NoValue) ELSE opt(Element(b, p, e))

\* X509Extension::from_der: OID, critical, OCTET STRING, then the dispatch
\* over the octets; every failure becomes InvalidExtensions.  The critical
\* flag is decoded and stored; the dispatch is not given it.
X509Extension(b, p, e) ==
  OrErr(
    Then(Container(b, p, e, "SEQ"), LAMBDA c :
    Then(Primitive(b, c.v.cs, c.v.ce, "OID"), LAMBDA oid :
    Then(DerReadCritical(b, oid.p, c.v.ce), LAMBDA crit :
    Then(Primitive(b, crit.p, c.v.ce, "OCT"), LAMBDA val :
      Ok(c.p, [oid |-> oid.v, critical |-> crit.v, value |-> val.v,
               parsed_extension |-> ParseExtension(val.v, oid.v)]))))))

\* x509_parser::extensions_sequence_to_map: a later extension with the
\* same OID overwrites an earlier one (spec 9).
ExtensionsSequenceToMap(exts) ==
  FoldLeft(LAMBDA m, x : (x.oid :> x) @@ m, <<>>, exts)

\* The extensions of a SEQUENCE OF Extension, [p, e) decoded to its end.
RECURSIVE ExtensionList(_, _, _)
ExtensionList(b, p, e) ==
  IF p = e THEN Ok(p, <<>>)
  ELSE Then(X509Extension(b, p, e), LAMBDA x :
         Then(ExtensionList(b, x.p, e), LAMBDA rest : Prefixed(x.v, rest)))

\* x509_parser::parse_extension_sequence: a SEQUENCE OF Extension.
ParseExtensionSequence(b, p, e) ==
  Then(Container(b, p, e, "SEQ"), LAMBDA s :
  Then(ExtensionList(b, s.v.cs, s.v.ce), LAMBDA l : Ok(s.p, l.v)))

\* x509_parser::parse_extensions(i, tag): [tag] EXPLICIT Extensions
\* OPTIONAL; an absent tag gives the empty map (spec 4.6).
ParseExtensions(b, p, e, tag) ==
  IF p >= e \/ b[p].t # tag THEN Ok(p, <<>>)
  ELSE OrErr(
    Then(Container(b, p, e, tag), LAMBDA x :
    Then(Container(b, x.v.cs, x.v.ce, "SEQ"), LAMBDA s :
    Then(ExtensionList(b, s.v.cs, s.v.ce), LAMBDA l :
      Ok(x.p, ExtensionsSequenceToMap(l.v))))))

=============================================================================
