--------------------------- MODULE X509Certificate ---------------------------
(***************************************************************************)
(* X509Certificate::from_der and TbsCertificate::from_der of               *)
(* src/src/x509.rs as a state machine: one action per statement of the two *)
(* closures, in their order, each either advancing the cursor and storing  *)
(* the field or returning the error that `?` propagates.  The buffer is    *)
(* chosen in Init among Inputs and never changes (the decoder only reads   *)
(* it); expect is a history variable holding the certificate the input     *)
(* encodes when it is a well-formed encoding, NoValue otherwise.           *)
(***************************************************************************)
EXTENDS X509Encode

CONSTANT Inputs   \* a set of [bytes |-> buffer, expect |-> value or NoValue]

VARIABLES
  buf,       \* the input slice
  expect,    \* history: the certificate buf encodes, or NoValue
  pc,        \* the statement about to run
  i,         \* the cursor: the remaining input is buf[i..]
  certEnd,   \* end of the Certificate SEQUENCE's content window
  tbsStart,  \* start_i of TbsCertificate::from_der
  tbsEnd,    \* end of the TBSCertificate content window
  fields,    \* the fields decoded so far, by name
  cert,      \* the returned certificate, NoValue until Ok
  st         \* "running", or the result: "ok", "err" or "inc"

vars == <<buf, expect, pc, i, certEnd, tbsStart, tbsEnd, fields, cert, st>>

TbsFieldNames == {"version", "serial", "signature", "issuer", "validity",
                  "subject", "subject_pki", "issuer_uid", "subject_uid",
                  "extensions", "raw"}

Init ==
  /\ \E in \in Inputs : buf = in.bytes /\ expect = in.expect
  /\ pc = "certificate"
  /\ i = 1
  /\ certEnd = 1 /\ tbsStart = 1 /\ tbsEnd = 1
  /\ fields = <<>>
  /\ cert = NoValue
  /\ st = "running"

\* The `?` of a failed step: the error is returned to the caller.
Abort(r) ==
  /\ st' = r.st
  /\ pc' = "done"
  /\ UNCHANGED <<buf, expect, i, certEnd, tbsStart, tbsEnd, fields, cert>>

\* let (i, name) = r?; then continue at next.
Step(name, r, next) ==
  \/ /\ r.st = "ok"
     /\ i' = r.p
     /\ fields' = (name :> r.v) @@ fields
     /\ pc' = next
     /\ UNCHANGED <<buf, expect, certEnd, tbsStart, tbsEnd, cert, st>>
  \/ /\ r.st # "ok"
     /\ Abort(r)

\* X509Certificate::from_der: parse_ber_sequence_defined_g over the input.
OpenCertificate ==
  /\ pc = "certificate"
  /\ LET x == Container(buf, i, Len(buf) + 1, "SEQ") IN
     \/ /\ x.st = "ok"
        /\ i' = x.v.cs
        /\ certEnd' = x.v.ce
        /\ pc' = "tbs"
        /\ UNCHANGED <<buf, expect, tbsStart, tbsEnd, fields, cert, st>>
     \/ /\ x.st # "ok"
        /\ Abort(x)

\* A faulty variant: start_i taken inside the closure, at the content.
OpenTbsInnerStart ==
  /\ pc = "tbs"
  /\ LET x == Container(buf, i, certEnd, "SEQ") IN
     \/ /\ x.st = "ok"
        /\ tbsStart' = x.v.cs
        /\ i' = x.v.cs
        /\ tbsEnd' = x.v.ce
        /\ pc' = "version"
        /\ UNCHANGED <<buf, expect, certEnd, fields, cert, st>>
     \/ /\ x.st # "ok"
        /\ Abort(x)

\* TbsCertificate::from_der: start_i = i, then its SEQUENCE.
OpenTbs ==
  /\ pc = "tbs"
  /\ LET x == Container(buf, i, certEnd, "SEQ") IN
     \/ /\ x.st = "ok"
        /\ tbsStart' = i
        /\ i' = x.v.cs
        /\ tbsEnd' = x.v.ce
        /\ pc' = "version"
        /\ UNCHANGED <<buf, expect, certEnd, fields, cert, st>>
     \/ /\ x.st # "ok"
        /\ Abort(x)

DecodeVersion ==
  /\ pc = "version"
  /\ Step("version", X509VersionFromDer(buf, i, tbsEnd), "serial")

DecodeSerial ==
  /\ pc = "serial"
  /\ Step("serial", ParseSerial(buf, i, tbsEnd), "signature")

DecodeSignature ==
  /\ pc = "signature"
  /\ Step("signature", AlgorithmIdentifier(buf, i, tbsEnd), "issuer")

DecodeIssuer ==
  /\ pc = "issuer"
  /\ Step("issuer", X509NameFromDer(buf, i, tbsEnd), "validity")

DecodeValidity ==
  /\ pc = "validity"
  /\ Step("validity", Validity(buf, i, tbsEnd), "subject")

DecodeSubject ==
  /\ pc = "subject"
  /\ Step("subject", X509NameFromDer(buf, i, tbsEnd), "subject_pki")

DecodeSubjectPki ==
  /\ pc = "subject_pki"
  /\ Step("subject_pki", SubjectPublicKeyInfo(buf, i, tbsEnd), "issuer_uid")

DecodeIssuerUid ==
  /\ pc = "issuer_uid"
  /\ Step("issuer_uid", UniqueIdentifier(buf, i, tbsEnd, 1), "subject_uid")

DecodeSubjectUid ==
  /\ pc = "subject_uid"
  /\ Step("subject_uid", UniqueIdentifier(buf, i, tbsEnd, 2), "extensions")

DecodeExtensions ==
  /\ pc = "extensions"
  /\ Step("extensions", ParseExtensions(buf, i, tbsEnd, "C3"), "close_tbs")

\* raw: &start_i[..start_i.offset(i)]; the SEQUENCE's container then
\* resumes after the whole element, dropping any content not decoded.
CloseTbs ==
  /\ pc = "close_tbs"
  /\ fields' = ("raw" :> SubSeq(buf, tbsStart, i - 1)) @@ fields
  /\ i' = tbsEnd
  /\ pc' = "signature_algorithm"
  /\ UNCHANGED <<buf, expect, certEnd, tbsStart, tbsEnd, cert, st>>

DecodeSignatureAlgorithm ==
  /\ pc = "signature_algorithm"
  /\ Step("signature_algorithm", AlgorithmIdentifier(buf, i, certEnd),
          "signature_value")

DecodeSignatureValue ==
  /\ pc = "signature_value"
  /\ Step("signature_value", ParseSignatureValue(buf, i, certEnd), "close")

\* A faulty variant: the remainder taken one cell past the Certificate
\* element.
CloseCertificatePastEnd ==
  /\ pc = "close"
  /\ cert' = [tbs_certificate |-> [f \in TbsFieldNames |-> fields[f]],
              signature_algorithm |-> fields["signature_algorithm"],
              signature_value |-> fields["signature_value"]]
  /\ i' = certEnd + 1
  /\ st' = "ok"
  /\ pc' = "done"
  /\ UNCHANGED <<buf, expect, certEnd, tbsStart, tbsEnd, fields>>

\* Ok((i, cert)): the remainder is what follows the Certificate element.
CloseCertificate ==
  /\ pc = "close"
  /\ cert' = [tbs_certificate |-> [f \in TbsFieldNames |-> fields[f]],
              signature_algorithm |-> fields["signature_algorithm"],
              signature_value |-> fields["signature_value"]]
  /\ i' = certEnd
  /\ st' = "ok"
  /\ pc' = "done"
  /\ UNCHANGED <<buf, expect, certEnd, tbsStart, tbsEnd, fields>>

\* from_der has returned: the caller holds the result.
Returned == pc = "done" /\ UNCHANGED vars

Next ==
  \/ OpenCertificate \/ OpenTbs
  \/ DecodeVersion \/ DecodeSerial \/ DecodeSignature \/ DecodeIssuer
  \/ DecodeValidity \/ DecodeSubject \/ DecodeSubjectPki
  \/ DecodeIssuerUid \/ DecodeSubjectUid \/ DecodeExtensions
  \/ CloseTbs \/ DecodeSignatureAlgorithm \/ DecodeSignatureValue
  \/ CloseCertificate
  \/ Returned

Spec == Init /\ [][Next]_vars

\* The decoder seen by its caller: no result until pc = "done", then the
\* result and the number of cells after the Certificate element.
Abstract == INSTANCE Decoder WITH
  result <- IF pc = "done"
            THEN [st |-> st, v |-> cert,
                  rest |-> IF st = "ok" THEN Len(buf) + 1 - i ELSE 0]
            ELSE NoValue

-----------------------------------------------------------------------------
(* Properties.                                                             *)

Pcs == {"certificate", "tbs", "version", "serial", "signature", "issuer",
        "validity", "subject", "subject_pki", "issuer_uid", "subject_uid",
        "extensions", "close_tbs", "signature_algorithm", "signature_value",
        "close", "done"}

TbsPcs == {"version", "serial", "signature", "issuer", "validity", "subject",
           "subject_pki", "issuer_uid", "subject_uid", "extensions", "close_tbs"}

\* Every variable in its range; the cursor stays inside the content window
\* of the SEQUENCE whose closure is running.
TypeOK ==
  /\ pc \in Pcs
  /\ i \in 1..Len(buf) + 1
  /\ st \in {"running", "ok", "err", "inc"}
  /\ DOMAIN fields \subseteq TbsFieldNames \cup {"signature_algorithm", "signature_value"}
  /\ pc \in TbsPcs => i \in tbsStart..tbsEnd
  /\ pc \in {"signature_algorithm", "signature_value", "close"} => i <= certEnd
  /\ (pc = "done") = (st # "running")
  /\ (cert # NoValue) = (st = "ok")

\* The TBSCertificate element: the first element inside the Certificate.
TbsElement == SubSeq(buf, 2, 2 + buf[2].n)

\* X509Certificate::from_der implements the safety part of Decoder: on the
\* DER encoding of a certificate it returns that certificate (version
\* default, name order, the extension map with the last occurrence, raw)
\* with nothing left over; on any other input it returns an error and no
\* partial object (spec 7), Truncated when the input ends inside the
\* Certificate element (spec 8).
DecodeRefined == Abstract!Safety

\* Whatever the input, the bytes a successful decode hands to signature
\* verification (TbsCertificate.raw, used by verify_signature) start at the
\* TBSCertificate header and never reach past that element.
SignedSpan ==
  pc = "done" /\ st = "ok" =>
    /\ cert.tbs_certificate.raw # <<>>
    /\ IsPrefix(cert.tbs_certificate.raw, TbsElement)

\* The raw bytes X509Name keeps for byte-wise name comparison are exactly
\* the encoding of the RDNs it decoded: a name is never returned with part
\* of its element silently left undecoded (spec 3 and 7).
NameRawExact ==
  pc = "done" /\ st = "ok" =>
    \A n \in {cert.tbs_certificate.issuer, cert.tbs_certificate.subject} :
      n.raw = EncName(n.rdn_seq)

\* A certificate that decodes never carries a critical extension the
\* decoder did not understand (spec 7 and 8: UnsupportedCriticalExtension
\* must reject the certificate).
CriticalExtensionsUnderstood ==
  pc = "done" /\ st = "ok" =>
    \A o \in DOMAIN cert.tbs_certificate.extensions :
      LET x == cert.tbs_certificate.extensions[o] IN
      x.critical => x.parsed_extension # UnsupportedExtension

=============================================================================
