------------------------------ MODULE X509Name ------------------------------
(***************************************************************************)
(* The Name decoder of src/src/x509.rs: AttributeTypeAndValue, Relative-   *)
(* DistinguishedName and X509Name::from_der.  A decoded name is            *)
(* [rdn_seq, raw]: rdn_seq a sequence of RDNs, each a non-empty sequence  *)
(* of [attr_type, attr_value]; raw the cells from the Name header to the  *)
(* last RDN decoded (the zero-copy slice &start_i[..len]).                 *)
(***************************************************************************)
EXTENDS DerCodec

\* AttributeTypeAndValue::from_der: an OID then an ANY inside a SEQUENCE;
\* both failures are mapped to InvalidX509Name, Incomplete included.
AttributeTypeAndValue(b, p, e) ==
  Then(Container(b, p, e, "SEQ"), LAMBDA c :
  Then(OrErr(Primitive(b, c.v.cs, c.v.ce, "OID")), LAMBDA oid :
  Then(OrErr(ParseAny(b, oid.p, c.v.ce)), LAMBDA val :
    Ok(c.p, [attr_type |-> oid.v, attr_value |-> val.v]))))

\* many0(complete(AttributeTypeAndValue::from_der)) over [p, e): the
\* attributes decoded before the first failure, and where that failure is.
RECURSIVE AttributeList(_, _, _)
AttributeList(b, p, e) ==
  LET more(a) == IF a.st # "ok" THEN Ok(p, <<>>)
                 ELSE Prefixed(a.v, AttributeList(b, a.p, e))
  IN more(Complete(AttributeTypeAndValue(b, p, e)))

\* RelativeDistinguishedName::from_der: a SET holding many1 attributes.
RelativeDistinguishedName(b, p, e) ==
  Then(Container(b, p, e, "SET"), LAMBDA c :
    LET set(s) == IF s.v = <<>> THEN Fail("err", p) ELSE Ok(c.p, s.v)
    IN set(AttributeList(b, c.v.cs, c.v.ce)))

\* many0(complete(RelativeDistinguishedName::from_der)) over [p, e).
RECURSIVE RdnList(_, _, _)
RdnList(b, p, e) ==
  LET more(r) == IF r.st # "ok" THEN Ok(p, <<>>)
                 ELSE Prefixed(r.v, RdnList(b, r.p, e))
  IN more(Complete(RelativeDistinguishedName(b, p, e)))

\* X509Name::from_der: the RDNs of a SEQUENCE; raw runs from the Name
\* header at p to where the RDN loop stopped, not to the end of the element.
X509NameFromDer(b, p, e) ==
  Then(Container(b, p, e, "SEQ"), LAMBDA c :
    LET name(s) == Ok(c.p, [rdn_seq |-> s.v, raw |-> SubSeq(b, p, s.p - 1)])
    IN name(RdnList(b, c.v.cs, c.v.ce)))

=============================================================================
