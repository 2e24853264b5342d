------------------------------- MODULE X509Csr -------------------------------
(***************************************************************************)
(* X509CertificationRequest::from_der and                                  *)
(* X509CertificationRequestInfo::from_der of src/src/x509.rs as a state    *)
(* machine, one action per statement of the two closures; the attribute    *)
(* wrapper X509CriAttribute::from_der as an operator.  A decode step may   *)
(* end in a panic (st = "panic"): the thread unwinds and the caller gets   *)
(* no result at all.                                                       *)
(***************************************************************************)
EXTENDS X509Encode

CONSTANT Inputs   \* a set of [bytes |-> buffer, expect |-> value or NoValue]

VARIABLES
  buf,       \* the input slice
  expect,    \* history: the CSR buf encodes, or NoValue
  pc,        \* the statement about to run
  i,         \* the cursor: the remaining input is buf[i..]
  csrEnd,    \* end of the CertificationRequest SEQUENCE's content window
  criStart,  \* start_i of X509CertificationRequestInfo::from_der
  criEnd,    \* end of the CertificationRequestInfo content window
  fields,    \* the fields decoded so far, by name
  csr,       \* the returned CSR, NoValue until Ok
  st         \* "running", or the result: "ok", "err", "inc" or "panic"

vars == <<buf, expect, pc, i, csrEnd, criStart, criEnd, fields, csr, st>>

-----------------------------------------------------------------------------
(* Repository code not under src/, modelled from spec.md.                  *)

\* cri_attributes::parser::parse_attribute: the decoder registered for the
\* OID runs on the input after the SET header (an extension request: a
\* SEQUENCE OF Extension); any other OID is Unsupported and consumes
\* nothing (spec 4.4).
ParseAttribute(b, p, e, oid) ==
  IF oid # OID_PKCS9_EXTENSION_REQUEST THEN Ok(p, UnsupportedAttribute)
  ELSE Then(ParseExtensionSequence(b, p, e), LAMBDA l :
         Ok(l.p, [variant |-> oid, data |-> ExtensionsSequenceToMap(l.v)]))

\* x509_parser::parse_cri_attributes: [0] IMPLICIT SET OF Attribute, each
\* decoded, as a map in which a later OID overwrites an earlier one.
RECURSIVE CriAttributeList(_, _, _)

CriAttributesToMap(attrs) ==
  FoldLeft(LAMBDA m, a : (a.oid :> a) @@ m, <<>>, attrs)

-----------------------------------------------------------------------------
(* x509.rs                                                                 *)

\* X509CriAttribute::from_der: the OID, then a header that must be a SET;
\* the attribute's decoder runs on what follows that header up to the end
\* of the Attribute SEQUENCE, and value is the span from the SET header to
\* where that decoder stopped.  Every failure becomes InvalidAttributes.
X509CriAttribute(b, p, e) ==
  OrErr(
    Then(Container(b, p, e, "SEQ"), LAMBDA c :
    Then(Primitive(b, c.v.cs, c.v.ce, "OID"), LAMBDA oid :
    Then(ReadHeader(b, oid.p, c.v.ce), LAMBDA h :
      IF TagNumber(h.v.t) # TagNumber("SET") THEN Fail("err", oid.p)
      ELSE Then(ParseAttribute(b, h.p, c.v.ce, oid.v), LAMBDA a :
             Ok(c.p, [oid |-> oid.v, value |-> SubSeq(b, oid.p, a.p - 1),
                      parsed_attribute |-> a.v]))))))

CriAttributeList(b, p, e) ==
  IF p = e THEN Ok(p, <<>>)
  ELSE Then(X509CriAttribute(b, p, e), LAMBDA x :
         Then(CriAttributeList(b, x.p, e), LAMBDA rest : Prefixed(x.v, rest)))

ParseCriAttributes(b, p, e) ==
  OrErr(
    Then(Container(b, p, e, "C0"), LAMBDA x :
    Then(CriAttributeList(b, x.v.cs, x.v.ce), LAMBDA l :
      Ok(x.p, CriAttributesToMap(l.v)))))

-----------------------------------------------------------------------------
(* The decoder.                                                            *)

CriFieldNames == {"version", "subject", "subject_pki", "attributes", "raw"}

Init ==
  /\ \E in \in Inputs : buf = in.bytes /\ expect = in.expect
  /\ pc = "csr"
  /\ i = 1
  /\ csrEnd = 1 /\ criStart = 1 /\ criEnd = 1
  /\ fields = <<>>
  /\ csr = NoValue
  /\ st = "running"

\* The `?` of a failed step, or the unwinding of a panic.
Abort(r) ==
  /\ st' = r.st
  /\ pc' = "done"
  /\ UNCHANGED <<buf, expect, i, csrEnd, criStart, criEnd, fields, csr>>

\* let (i, name) = r?; then continue at next.
Step(name, r, next) ==
  \/ /\ r.st = "ok"
     /\ i' = r.p
     /\ fields' = (name :> r.v) @@ fields
     /\ pc' = next
     /\ UNCHANGED <<buf, expect, csrEnd, criStart, criEnd, csr, st>>
  \/ /\ r.st # "ok"
     /\ Abort(r)

\* X509CertificationRequest::from_der: the outer SEQUENCE.
OpenCsr ==
  /\ pc = "csr"
  /\ LET x == Container(buf, i, Len(buf) + 1, "SEQ") IN
     \/ /\ x.st = "ok"
        /\ i' = x.v.cs
        /\ csrEnd' = x.v.ce
        /\ pc' = "cri"
        /\ UNCHANGED <<buf, expect, criStart, criEnd, fields, csr, st>>
     \/ /\ x.st # "ok"
        /\ Abort(x)

\* A faulty variant: start_i taken inside the closure, at the content.
OpenCriInnerStart ==
  /\ pc = "cri"
  /\ LET x == Container(buf, i, csrEnd, "SEQ") IN
     \/ /\ x.st = "ok"
        /\ criStart' = x.v.cs
        /\ i' = x.v.cs
        /\ criEnd' = x.v.ce
        /\ pc' = "version"
        /\ UNCHANGED <<buf, expect, csrEnd, fields, csr, st>>
     \/ /\ x.st # "ok"
        /\ Abort(x)

\* X509CertificationRequestInfo::from_der: start_i = i, then its SEQUENCE.
OpenCri ==
  /\ pc = "cri"
  /\ LET x == Container(buf, i, csrEnd, "SEQ") IN
     \/ /\ x.st = "ok"
        /\ criStart' = i
        /\ i' = x.v.cs
        /\ criEnd' = x.v.ce
        /\ pc' = "version"
        /\ UNCHANGED <<buf, expect, csrEnd, fields, csr, st>>
     \/ /\ x.st # "ok"
        /\ Abort(x)

DecodeVersion ==
  /\ pc = "version"
  /\ Step("version", X509VersionFromDerRequired(buf, i, criEnd), "subject")

DecodeSubject ==
  /\ pc = "subject"
  /\ Step("subject", X509NameFromDer(buf, i, criEnd), "subject_pki")

DecodeSubjectPki ==
  /\ pc = "subject_pki"
  /\ Step("subject_pki", SubjectPublicKeyInfo(buf, i, criEnd), "attributes")

DecodeAttributes ==
  /\ pc = "attributes"
  /\ Step("attributes", ParseCriAttributes(buf, i, criEnd), "close_cri")

\* raw: &start_i[..start_i.offset(i)]; the container then resumes after
\* the whole element.
CloseCri ==
  /\ pc = "close_cri"
  /\ fields' = ("raw" :> SubSeq(buf, criStart, i - 1)) @@ fields
  /\ i' = criEnd
  /\ pc' = "signature_algorithm"
  /\ UNCHANGED <<buf, expect, csrEnd, criStart, criEnd, csr, st>>

DecodeSignatureAlgorithm ==
  /\ pc = "signature_algorithm"
  /\ Step("signature_algorithm", AlgorithmIdentifier(buf, i, csrEnd),
          "signature_value")

DecodeSignatureValue ==
  /\ pc = "signature_value"
  /\ Step("signature_value", ParseSignatureValue(buf, i, csrEnd), "close")

\* A faulty variant: the remainder taken one cell past the CSR
\* element.
CloseCsrPastEnd ==
  /\ pc = "close"
  /\ csr' = [certification_request_info |-> [f \in CriFieldNames |-> fields[f]],
             signature_algorithm |-> fields["signature_algorithm"],
             signature_value |-> fields["signature_value"]]
  /\ i' = csrEnd + 1
  /\ st' = "ok"
  /\ pc' = "done"
  /\ UNCHANGED <<buf, expect, csrEnd, criStart, criEnd, fields>>

\* Ok((i, cert)): the remainder is what follows the CSR element.
CloseCsr ==
  /\ pc = "close"
  /\ csr' = [certification_request_info |-> [f \in CriFieldNames |-> fields[f]],
             signature_algorithm |-> fields["signature_algorithm"],
             signature_value |-> fields["signature_value"]]
  /\ i' = csrEnd
  /\ st' = "ok"
  /\ pc' = "done"
  /\ UNCHANGED <<buf, expect, csrEnd, criStart, criEnd, fields>>

\* from_der has returned: the caller holds the result.
Returned == pc = "done" /\ UNCHANGED vars

Next ==
  \/ OpenCsr \/ OpenCri
  \/ DecodeVersion \/ DecodeSubject \/ DecodeSubjectPki \/ DecodeAttributes
  \/ CloseCri \/ DecodeSignatureAlgorithm \/ DecodeSignatureValue
  \/ CloseCsr
  \/ Returned

Spec == Init /\ [][Next]_vars

\* The decoder seen by its caller: no result until pc = "done", then the
\* result and the number of cells after the CertificationRequest element.
Abstract == INSTANCE Decoder WITH
  result <- IF pc = "done"
            THEN [st |-> st, v |-> csr,
                  rest |-> IF st = "ok" THEN Len(buf) + 1 - i ELSE 0]
            ELSE NoValue

-----------------------------------------------------------------------------
(* Properties.                                                             *)

Pcs == {"csr", "cri", "version", "subject", "subject_pki", "attributes",
        "close_cri", "signature_algorithm", "signature_value", "close", "done"}

CriPcs == {"version", "subject", "subject_pki", "attributes", "close_cri"}

\* Every variable in its range; the cursor stays inside the content window
\* of the SEQUENCE whose closure is running.
TypeOK ==
  /\ pc \in Pcs
  /\ i \in 1..Len(buf) + 1
  /\ st \in {"running", "ok", "err", "inc", "panic"}
  /\ DOMAIN fields \subseteq CriFieldNames \cup {"signature_algorithm", "signature_value"}
  /\ pc \in CriPcs => i \in criStart..criEnd
  /\ pc \in {"signature_algorithm", "signature_value", "close"} => i <= csrEnd
  /\ (pc = "done") = (st # "running")
  /\ (csr # NoValue) = (st = "ok")

\* The CertificationRequestInfo element: the first inside the CSR.
CriElement == SubSeq(buf, 2, 2 + buf[2].n)

\* X509CertificationRequest::from_der implements the safety part of
\* Decoder: on the DER encoding of a CertificationRequest it returns that
\* value with raw the whole signed element and nothing left over; on any
\* other input it returns an error and no partial object (spec 7),
\* Truncated when the input ends inside the element (spec 8).
DecodeRefined == Abstract!Safety

\* Whatever the input, the bytes a successful decode keeps as the signed
\* CertificationRequestInfo start at its header and stay within it.
SignedSpan ==
  pc = "done" /\ st = "ok" =>
    /\ csr.certification_request_info.raw # <<>>
    /\ IsPrefix(csr.certification_request_info.raw, CriElement)

\* Decoding any input returns, Ok or an error, and never panics (spec:
\* the decoder must be safe on attacker-controlled input).
NoPanic == st # "panic"

=============================================================================
