---------------------------- MODULE X509CsrClient ----------------------------
(***************************************************************************)
(* A certification authority reading a CSR (src/src/x509.rs): it decodes  *)
(* the request with X509CertificationRequest::from_der and then asks for   *)
(* the extensions the subject requests, through requested_extensions.     *)
(* That method iterates two HashMaps, whose order is fixed by a per-       *)
(* process random hash seed: each order is a possible answer.  It also    *)
(* checks the proof of possession with verify_signature.                   *)
(***************************************************************************)
EXTENDS X509Csr, X509Verify

CONSTANT SignerKeys   \* the SubjectPublicKeyInfos a caller may pass as public_key

VARIABLE answer   \* NoValue before the query, then an Option: [some, items]

allVars == <<vars, answer>>

None == [some |-> FALSE, items |-> <<>>]
Some(s) == [some |-> TRUE, items |-> s]

-----------------------------------------------------------------------------
(* x509.rs                                                                 *)

\* requested.extensions.values().map(|ext| &ext.parsed_extension), in each
\* order the extension map may iterate in.
ParsedExtensionsInOrder(exts) ==
  {[k \in DOMAIN ord |-> exts[ord[k]].parsed_extension] : ord \in SetToSeqs(DOMAIN exts)}

\* The attributes find_map stops at: those parsed as an ExtensionRequest
\* (whichever the map iterates first).
ExtensionRequests(c) ==
  LET attrs == c.certification_request_info.attributes
  IN {attrs[o].parsed_attribute.data :
        o \in {o \in DOMAIN attrs :
                 attrs[o].parsed_attribute.variant = OID_PKCS9_EXTENSION_REQUEST}}

\* A faulty variant: with no extension request, an empty iterator
\* instead of None.
RequestedExtensionsNoneAsEmpty(c) ==
  IF ExtensionRequests(c) = {} THEN {Some(<<>>)}
  ELSE {Some(s) : s \in UNION {ParsedExtensionsInOrder(x) : x \in ExtensionRequests(c)}}

\* X509CertificationRequest::requested_extensions: find_map over the
\* attributes for the first ExtensionRequest, then the parsed_extension of
\* each requested extension; every result it can return.
RequestedExtensions(c) ==
  IF ExtensionRequests(c) = {} THEN {None}
  ELSE {Some(s) : s \in UNION {ParsedExtensionsInOrder(x) : x \in ExtensionRequests(c)}}

-----------------------------------------------------------------------------
(* The client.                                                             *)

ClientInit == Init /\ answer = NoValue

\* A step of the decoder; the client waits for its result.
Decode == Next /\ UNCHANGED answer

QueryRequestedExtensions ==
  /\ pc = "done" /\ st = "ok"
  /\ \E v \in RequestedExtensions(csr) : answer' = v
  /\ UNCHANGED vars

\* A faulty variant: the public_key argument ignored, the request's own
\* subject key always used.
QueryVerifySignatureOwnKey(pk) ==
  /\ pc = "done" /\ st = "ok"
  /\ answer' = [verify |-> pk,
                v |-> VerifySignature(NoValue, csr.certification_request_info.subject_pki,
                                      csr.signature_algorithm, csr.signature_value,
                                      csr.certification_request_info.raw)]
  /\ UNCHANGED vars

\* X509CertificationRequest::verify_signature(public_key).
QueryVerifySignature(pk) ==
  /\ pc = "done" /\ st = "ok"
  /\ answer' = [verify |-> pk,
                v |-> VerifySignature(pk, csr.certification_request_info.subject_pki,
                                      csr.signature_algorithm, csr.signature_value,
                                      csr.certification_request_info.raw)]
  /\ UNCHANGED vars

ClientNext ==
  \/ Decode
  \/ QueryRequestedExtensions
  \/ \E pk \in {NoValue} \cup SignerKeys : QueryVerifySignature(pk)

ClientSpec == ClientInit /\ [][ClientNext]_allVars

-----------------------------------------------------------------------------
(* Properties.                                                             *)

\* The parsed values of an extension map, with their multiplicities.
ValuesBag(exts) ==
  LET vals == {exts[o].parsed_extension : o \in DOMAIN exts}
  IN [x \in vals |-> Cardinality({o \in DOMAIN exts : exts[o].parsed_extension = x})]

\* Whatever order the maps iterate in, requested_extensions answers None
\* exactly when the request encodes no extensionRequest attribute, and
\* otherwise yields each extension of the last extensionRequest encoded
\* exactly once, as its parsed value (spec 4.4; the attribute map keeps
\* the last occurrence of an OID).  A CA issues what it reads here.
RequestedExtensionsSound ==
  answer # NoValue /\ expect # NoValue /\ "some" \in DOMAIN answer =>
    LET attrs == expect.certification_request_info.attributes
        req == OID_PKCS9_EXTENSION_REQUEST
        encoded == attrs[req].parsed_attribute.data
    IN IF req \notin DOMAIN attrs THEN answer = None
       ELSE /\ answer.some
            /\ ToBag(answer.items) = ValuesBag(encoded)

\* verify_signature accepts a request exactly when its encoded signature
\* value was made, by the key passed (the requested subject key for None:
\* the proof of possession), under the scheme its signature algorithm
\* names, over the bytes of the CertificationRequestInfo element of the
\* input (spec 89 and 101).
VerifySignatureSound ==
  answer # NoValue /\ expect # NoValue /\ "verify" \in DOMAIN answer =>
    answer.v = ExpectedVerification(answer.verify,
                                    expect.certification_request_info.subject_pki,
                                    expect.signature_algorithm,
                                    expect.signature_value, CriElement)

=============================================================================
