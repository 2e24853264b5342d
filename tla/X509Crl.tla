------------------------------- MODULE X509Crl -------------------------------
(***************************************************************************)
(* CertificateRevocationList::from_der and TbsCertList::from_der of        *)
(* src/src/x509.rs as a state machine, one action per statement of the two *)
(* closures, over the field decoders of X509Fields; RevokedCertificate and *)
(* the revoked-list helpers as operators.  expect and revoked are history  *)
(* variables: the CRL the input encodes (NoValue if it is malformed), and  *)
(* the revoked entries actually present in the input, each as [serial,    *)
(* reason_code, invalidity_date], the extensions as their getters should   *)
(* read them.                                                              *)
(***************************************************************************)
EXTENDS X509Encode

CONSTANT Inputs   \* a set of [bytes, expect, revoked]

VARIABLES
  buf,       \* the input slice
  expect,    \* history: the CRL buf encodes, or NoValue
  revoked,   \* history: the revoked entries present in buf
  pc,        \* the statement about to run
  i,         \* the cursor: the remaining input is buf[i..]
  crlEnd,    \* end of the CertificateList SEQUENCE's content window
  tbsStart,  \* start_i of TbsCertList::from_der
  tbsEnd,    \* end of the TBSCertList content window
  fields,    \* the fields decoded so far, by name
  crl,       \* the returned CRL, NoValue until Ok
  st         \* "running", or the result: "ok", "err" or "inc"

vars == <<buf, expect, revoked, pc, i, crlEnd, tbsStart, tbsEnd, fields, crl, st>>

-----------------------------------------------------------------------------
(* Repository code not under src/, modelled from spec.md.                  *)

\* ASN1Time::from_der_opt: an optional time; absent when the next element
\* is not a time, a decode error when it is one and is malformed.
ASN1TimeFromDerOpt(b, p, e) ==
  IF p >= e \/ b[p].t # "TIME" THEN Ok(p, NoValue) ELSE ASN1TimeFromDer(b, p, e)

-----------------------------------------------------------------------------
(* x509.rs                                                                 *)

\* RevokedCertificate::from_der: serial, revocationDate, then the entry
\* extensions under opt(complete(..)): any failure of the extension
\* sequence, Incomplete included, gives None, i.e. an empty map, and the
\* SEQUENCE's container drops the undecoded rest.
RevokedCertificate(b, p, e) ==
  Then(Container(b, p, e, "SEQ"), LAMBDA c :
  Then(ParseSerial(b, c.v.cs, c.v.ce), LAMBDA s :
  Then(ASN1TimeFromDer(b, s.p, c.v.ce), LAMBDA d :
    LET entry(x) ==
          Ok(c.p, [user_certificate |-> s.v, revocation_date |-> d.v,
                   extensions |-> IF x.st = "ok" THEN ExtensionsSequenceToMap(x.v)
                                  ELSE <<>>])
    IN entry(Complete(ParseExtensionSequence(b, d.p, c.v.ce))))))

\* x509_parser::parse_revoked_certificates (spec 4.7): a SEQUENCE OF
\* RevokedCertificate, every entry decoded.
RECURSIVE RevokedList(_, _, _)
RevokedList(b, p, e) ==
  IF p = e THEN Ok(p, <<>>)
  ELSE Then(RevokedCertificate(b, p, e), LAMBDA x :
         Then(RevokedList(b, x.p, e), LAMBDA rest : Prefixed(x.v, rest)))

ParseRevokedCertificates(b, p, e) ==
  Then(Container(b, p, e, "SEQ"), LAMBDA s :
  Then(RevokedList(b, s.v.cs, s.v.ce), LAMBDA l : Ok(s.p, l.v)))

\* A faulty variant of the version statement: the INTEGER required.
TbsCertListVersionRequired(b, p, e) == OrErr(ParseU32(b, p, e))

\* opt(map(parse_ber_u32, X509Version))(i).or(Err(InvalidVersion)): an
\* Error gives None at the same input; Incomplete becomes InvalidVersion.
TbsCertListVersion(b, p, e) ==
  LET opt(r) == IF r.st = "err" THEN Ok(p, NoValue) ELSE OrErr(r)
  IN opt(ParseU32(b, p, e))

-----------------------------------------------------------------------------
(* The decoder.                                                            *)

TbsCertListFieldNames ==
  {"version", "signature", "issuer", "this_update", "next_update",
   "revoked_certificates", "extensions", "raw"}

Init ==
  /\ \E in \in Inputs :
       buf = in.bytes /\ expect = in.expect /\ revoked = in.revoked
  /\ pc = "crl"
  /\ i = 1
  /\ crlEnd = 1 /\ tbsStart = 1 /\ tbsEnd = 1
  /\ fields = <<>>
  /\ crl = NoValue
  /\ st = "running"

\* The `?` of a failed step: the error is returned to the caller.
Abort(r) ==
  /\ st' = r.st
  /\ pc' = "done"
  /\ UNCHANGED <<buf, expect, revoked, i, crlEnd, tbsStart, tbsEnd, fields, crl>>

\* let (i, name) = r?; then continue at next.
Step(name, r, next) ==
  \/ /\ r.st = "ok"
     /\ i' = r.p
     /\ fields' = (name :> r.v) @@ fields
     /\ pc' = next
     /\ UNCHANGED <<buf, expect, revoked, crlEnd, tbsStart, tbsEnd, crl, st>>
  \/ /\ r.st # "ok"
     /\ Abort(r)

\* CertificateRevocationList::from_der: the outer SEQUENCE.
OpenCrl ==
  /\ pc = "crl"
  /\ LET x == Container(buf, i, Len(buf) + 1, "SEQ") IN
     \/ /\ x.st = "ok"
        /\ i' = x.v.cs
        /\ crlEnd' = x.v.ce
        /\ pc' = "tbs"
        /\ UNCHANGED <<buf, expect, revoked, tbsStart, tbsEnd, fields, crl, st>>
     \/ /\ x.st # "ok"
        /\ Abort(x)

\* A faulty variant: start_i taken inside the closure, at the content.
OpenTbsCertListInnerStart ==
  /\ pc = "tbs"
  /\ LET x == Container(buf, i, crlEnd, "SEQ") IN
     \/ /\ x.st = "ok"
        /\ tbsStart' = x.v.cs
        /\ i' = x.v.cs
        /\ tbsEnd' = x.v.ce
        /\ pc' = "version"
        /\ UNCHANGED <<buf, expect, revoked, crlEnd, fields, crl, st>>
     \/ /\ x.st # "ok"
        /\ Abort(x)

\* TbsCertList::from_der: start_i = i, then its SEQUENCE.
OpenTbsCertList ==
  /\ pc = "tbs"
  /\ LET x == Container(buf, i, crlEnd, "SEQ") IN
     \/ /\ x.st = "ok"
        /\ tbsStart' = i
        /\ i' = x.v.cs
        /\ tbsEnd' = x.v.ce
        /\ pc' = "version"
        /\ UNCHANGED <<buf, expect, revoked, crlEnd, fields, crl, st>>
     \/ /\ x.st # "ok"
        /\ Abort(x)

DecodeVersion ==
  /\ pc = "version"
  /\ Step("version", TbsCertListVersion(buf, i, tbsEnd), "signature")

DecodeSignature ==
  /\ pc = "signature"
  /\ Step("signature", AlgorithmIdentifier(buf, i, tbsEnd), "issuer")

DecodeIssuer ==
  /\ pc = "issuer"
  /\ Step("issuer", X509NameFromDer(buf, i, tbsEnd), "this_update")

DecodeThisUpdate ==
  /\ pc = "this_update"
  /\ Step("this_update", ASN1TimeFromDer(buf, i, tbsEnd), "next_update")

DecodeNextUpdate ==
  /\ pc = "next_update"
  /\ Step("next_update", ASN1TimeFromDerOpt(buf, i, tbsEnd), "revoked_certificates")

\* opt(complete(parse_revoked_certificates)), then unwrap_or_default: any
\* failure leaves the cursor where it was and gives the empty list.
DecodeRevokedCertificates ==
  /\ pc = "revoked_certificates"
  /\ LET r == Complete(ParseRevokedCertificates(buf, i, tbsEnd)) IN
     /\ i' = IF r.st = "ok" THEN r.p ELSE i
     /\ fields' = ("revoked_certificates" :> IF r.st = "ok" THEN r.v ELSE <<>>) @@ fields
  /\ pc' = "extensions"
  /\ UNCHANGED <<buf, expect, revoked, crlEnd, tbsStart, tbsEnd, crl, st>>

DecodeExtensions ==
  /\ pc = "extensions"
  /\ Step("extensions", ParseExtensions(buf, i, tbsEnd, "C0"), "close_tbs")

\* raw: &start_i[..start_i.offset(i)]; the SEQUENCE's container then
\* resumes after the whole element, dropping any content not decoded.
CloseTbsCertList ==
  /\ pc = "close_tbs"
  /\ fields' = ("raw" :> SubSeq(buf, tbsStart, i - 1)) @@ fields
  /\ i' = tbsEnd
  /\ pc' = "signature_algorithm"
  /\ UNCHANGED <<buf, expect, revoked, crlEnd, tbsStart, tbsEnd, crl, st>>

DecodeSignatureAlgorithm ==
  /\ pc = "signature_algorithm"
  /\ Step("signature_algorithm", AlgorithmIdentifier(buf, i, crlEnd),
          "signature_value")

DecodeSignatureValue ==
  /\ pc = "signature_value"
  /\ Step("signature_value", ParseSignatureValue(buf, i, crlEnd), "close")

\* A faulty variant: the remainder taken one cell past the CertificateList
\* element.
CloseCrlPastEnd ==
  /\ pc = "close"
  /\ crl' = [tbs_cert_list |-> [f \in TbsCertListFieldNames |-> fields[f]],
             signature_algorithm |-> fields["signature_algorithm"],
             signature_value |-> fields["signature_value"]]
  /\ i' = crlEnd + 1
  /\ st' = "ok"
  /\ pc' = "done"
  /\ UNCHANGED <<buf, expect, revoked, crlEnd, tbsStart, tbsEnd, fields>>

\* Ok((i, crl)): the remainder is what follows the CertificateList element.
CloseCrl ==
  /\ pc = "close"
  /\ crl' = [tbs_cert_list |-> [f \in TbsCertListFieldNames |-> fields[f]],
             signature_algorithm |-> fields["signature_algorithm"],
             signature_value |-> fields["signature_value"]]
  /\ i' = crlEnd
  /\ st' = "ok"
  /\ pc' = "done"
  /\ UNCHANGED <<buf, expect, revoked, crlEnd, tbsStart, tbsEnd, fields>>

\* from_der has returned: the caller holds the result.
Returned == pc = "done" /\ UNCHANGED vars

Next ==
  \/ OpenCrl \/ OpenTbsCertList
  \/ DecodeVersion \/ DecodeSignature \/ DecodeIssuer \/ DecodeThisUpdate
  \/ DecodeNextUpdate \/ DecodeRevokedCertificates \/ DecodeExtensions
  \/ CloseTbsCertList \/ DecodeSignatureAlgorithm \/ DecodeSignatureValue
  \/ CloseCrl
  \/ Returned

Spec == Init /\ [][Next]_vars

\* The decoder seen by its caller: no result until pc = "done", then the
\* result and the number of cells after the CertificateList element.
Abstract == INSTANCE Decoder WITH
  result <- IF pc = "done"
            THEN [st |-> st, v |-> crl,
                  rest |-> IF st = "ok" THEN Len(buf) + 1 - i ELSE 0]
            ELSE NoValue

-----------------------------------------------------------------------------
(* Properties.                                                             *)

Pcs == {"crl", "tbs", "version", "signature", "issuer", "this_update",
        "next_update", "revoked_certificates", "extensions", "close_tbs",
        "signature_algorithm", "signature_value", "close", "done"}

TbsPcs == {"version", "signature", "issuer", "this_update", "next_update",
           "revoked_certificates", "extensions", "close_tbs"}

\* Every variable in its range; the cursor stays inside the content window
\* of the SEQUENCE whose closure is running.
TypeOK ==
  /\ pc \in Pcs
  /\ i \in 1..Len(buf) + 1
  /\ st \in {"running", "ok", "err", "inc"}
  /\ DOMAIN fields \subseteq TbsCertListFieldNames \cup {"signature_algorithm", "signature_value"}
  /\ pc \in TbsPcs => i \in tbsStart..tbsEnd
  /\ pc \in {"signature_algorithm", "signature_value", "close"} => i <= crlEnd
  /\ (pc = "done") = (st # "running")
  /\ (crl # NoValue) = (st = "ok")

\* The TBSCertList element: the first element inside the CertificateList.
TbsElement == SubSeq(buf, 2, 2 + buf[2].n)

\* CertificateRevocationList::from_der implements the safety part of Decoder: on the DER
\* encoding of a CertificateList it returns that value with raw the whole signed
\* element and nothing left over; on any other input it returns an error
\* and no partial object (spec 7), Truncated when the input ends inside
\* the CertificateList element (spec 8).
DecodeRefined == Abstract!Safety

\* Whatever the input, the bytes a successful decode keeps as the signed
\* TBSCertList (TbsCertList.raw) start at its header and stay within it.
SignedSpan ==
  pc = "done" /\ st = "ok" =>
    /\ crl.tbs_cert_list.raw # <<>>
    /\ IsPrefix(crl.tbs_cert_list.raw, TbsElement)

=============================================================================
