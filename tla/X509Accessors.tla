---------------------------- MODULE X509Accessors ----------------------------
(***************************************************************************)
(* The read-only views over a decoded certificate (src/src/x509.rs): the   *)
(* Name iterators and Display, Validity::is_valid_at / is_valid /          *)
(* time_to_expiration, the typed extension getters, is_ca and              *)
(* verify_signature, composed with the certificate decoder.  A client      *)
(* holds the certificate the decoder returns and a wall clock              *)
(* (ASN1Time::now), which advances while the decoder runs and between      *)
(* queries; each query records its answer with the clock reading it used.  *)
(***************************************************************************)
EXTENDS X509Certificate, X509Verify

CONSTANT SignerKeys   \* the SubjectPublicKeyInfos a caller may pass as public_key

CONSTANT MaxTime   \* the last clock reading explored

VARIABLES
  now,      \* the wall clock, as an ASN1Time
  answer    \* the last query: [q, at, arg, v], NoValue before the first

clientVars == <<now, answer>>

allVars == <<vars, clientVars>>

-----------------------------------------------------------------------------
(* Repository code not under src/, modelled from spec.md.                  *)

\* ASN1Time - ASN1Time: the duration, None when it would be negative (the
\* time primitive of spec 6).
ASN1TimeSub(a, b) == IF a >= b THEN a - b ELSE NoValue

-----------------------------------------------------------------------------
(* x509.rs                                                                 *)

\* The OID each iter_* helper of X509Name passes to iter_by_oid (the
\* oid_registry constants, as arcs after 2.5.4; email is PKCS#9).
NameAccessorOid ==
  [common_name |-> <<3>>,           \* OID_X509_COMMON_NAME
   country |-> <<6>>,               \* OID_X509_COUNTRY_NAME
   organization |-> <<10>>,         \* OID_X509_ORGANIZATION_NAME
   organizational_unit |-> <<11>>,  \* OID_X509_ORGANIZATIONAL_UNIT
   state_or_province |-> <<9>>,     \* OID_X509_STREET_ADDRESS
   locality |-> <<7>>,              \* OID_X509_LOCALITY_NAME
   email |-> <<1, 9, 1>>]           \* OID_PKCS9_EMAIL_ADDRESS

\* X509Name::iter_attributes: the attributes of every RDN, in order.
IterAttributes(name) == FlattenSeq(name.rdn_seq)

\* X509Name::iter_by_oid: the attributes whose type is oid, in order.
IterByOid(name, oid) == SelectSeq(IterAttributes(name), LAMBDA a : a.attr_type = oid)

\* oid2abbrev (oid_registry, outside the repository): the short names it
\* knows, by arcs after 2.5.4.  An attribute type it does not know renders
\* as the OID's Debug form, here the arcs themselves.
OidAbbrev == (<<3>> :> "CN") @@ (<<6>> :> "C") @@ (<<7>> :> "L")
               @@ (<<8>> :> "ST") @@ (<<10>> :> "O") @@ (<<11>> :> "OU")

Abbrev(oid) ==
  IF oid \in DOMAIN OidAbbrev THEN [name |-> OidAbbrev[oid], arcs |-> <<>>]
  ELSE [name |-> "OID", arcs |-> oid]

\* The content types attribute_value_to_string renders as text
\* (NumericString, PrintableString, UTF8String, IA5String).
StringTags == {"STR"}

\* A faulty variant of attribute_value_to_string: every value as text.
AttributeValueAllText(v) == [enc |-> "text", octets |-> Tail(v)]

\* attribute_value_to_string: the text of a string type; for any other
\* type the upper-case hex of as_slice, or InvalidX509Name (NoValue) when
\* as_slice fails.
AttributeValueToString(v) ==
  IF v[1].t \in StringTags THEN [enc |-> "text", octets |-> Tail(v)]
  ELSE IF AsSlice(v) = NoValue THEN NoValue
  ELSE [enc |-> "hex", octets |-> AsSlice(v)]

\* x509name_to_string: "abbrev=value" for each attribute, joined with " + "
\* inside an RDN and ", " between RDNs (the nesting of the sequences); the
\* first value that fails fails the whole fold (and_then).
X509NameToString(rdns) ==
  LET val(a) == AttributeValueToString(a.attr_value)
  IN IF \E r \in DOMAIN rdns : \E j \in DOMAIN rdns[r] : val(rdns[r][j]) = NoValue
     THEN NoValue
     ELSE [r \in DOMAIN rdns |-> [j \in DOMAIN rdns[r] |->
             [abbrev |-> Abbrev(rdns[r][j].attr_type), value |-> val(rdns[r][j])]]]

\* The text Display writes when x509name_to_string fails.
InvalidNamePlaceholder == [placeholder |-> TRUE, rdns |-> <<>>]

\* impl Display for X509Name: the rendering, or the placeholder on error.
NameDisplay(name) ==
  LET s == X509NameToString(name.rdn_seq)
  IN IF s = NoValue THEN InvalidNamePlaceholder ELSE [placeholder |-> FALSE, rdns |-> s]

\* A faulty variant of is_valid_at: not_after included.
IsValidAtInclusive(v, time) == time >= v.not_before /\ time <= v.not_after

\* Validity::is_valid_at: not_before <= time < not_after.
IsValidAt(v, time) == time >= v.not_before /\ time < v.not_after

\* Validity::time_to_expiration at the clock reading t: None unless valid
\* at t, else not_after - t.
TimeToExpiration(v, t) ==
  IF ~IsValidAt(v, t) THEN NoValue ELSE ASN1TimeSub(v.not_after, t)

\* A faulty variant of is_ca: any BasicConstraints present counts.
IsCaPresent(tbs) == ExtensionGetter(tbs.extensions, OID_X509_EXT_BASIC_CONSTRAINTS) # NoValue

\* TbsCertificate::is_ca: basicConstraints with cA true, else false.
IsCa(tbs) ==
  LET bc == ExtensionGetter(tbs.extensions, OID_X509_EXT_BASIC_CONSTRAINTS)
  IN bc # NoValue /\ bc.value = 1

-----------------------------------------------------------------------------
(* The client.                                                             *)

ClientInit ==
  /\ Init
  /\ now \in 0..MaxTime
  /\ answer = NoValue

\* A step of the decoder; the client waits for its result.
Decode == Next /\ UNCHANGED clientVars

\* The wall clock advances, at any time.
Tick ==
  /\ now < MaxTime
  /\ now' = now + 1
  /\ UNCHANGED <<vars, answer>>

Decoded == pc = "done" /\ st = "ok"

Answer(q, arg, v) ==
  /\ answer' = [q |-> q, at |-> now, arg |-> arg, v |-> v]
  /\ UNCHANGED <<vars, now>>

\* Validity::is_valid: is_valid_at(ASN1Time::now()).
QueryIsValid ==
  /\ Decoded
  /\ Answer("is_valid", NoValue, IsValidAt(cert.tbs_certificate.validity, now))

\* Validity::time_to_expiration: now is read once.
QueryTimeToExpiration ==
  /\ Decoded
  /\ Answer("time_to_expiration", NoValue,
            TimeToExpiration(cert.tbs_certificate.validity, now))

\* iter_common_name, iter_country, ... on the issuer or the subject.
QueryName(acc, who) ==
  /\ Decoded
  /\ Answer(acc, who, IterByOid(cert.tbs_certificate[who], NameAccessorOid[acc]))

\* format!("{}", name) on the issuer or the subject.
QueryDisplay(who) ==
  /\ Decoded
  /\ Answer("display", who, NameDisplay(cert.tbs_certificate[who]))

QueryExtension(oid) ==
  /\ Decoded
  /\ Answer("extension", oid, ExtensionGetter(cert.tbs_certificate.extensions, oid))

QueryIsCa ==
  /\ Decoded
  /\ Answer("is_ca", NoValue, IsCa(cert.tbs_certificate))

\* X509Certificate::verify_signature(public_key), None or a signer's key.
QueryVerifySignature(pk) ==
  /\ Decoded
  /\ Answer("verify", pk,
            VerifySignature(pk, cert.tbs_certificate.subject_pki,
                            cert.signature_algorithm, cert.signature_value,
                            cert.tbs_certificate.raw))

ClientNext ==
  \/ Decode
  \/ Tick
  \/ QueryIsValid
  \/ QueryTimeToExpiration
  \/ \E acc \in DOMAIN NameAccessorOid, who \in {"issuer", "subject"} : QueryName(acc, who)
  \/ \E who \in {"issuer", "subject"} : QueryDisplay(who)
  \/ \E oid \in ExtensionRegistry : QueryExtension(oid)
  \/ QueryIsCa
  \/ \E pk \in {NoValue} \cup SignerKeys : QueryVerifySignature(pk)

ClientSpec == ClientInit /\ [][ClientNext]_allVars

-----------------------------------------------------------------------------
(* Properties.  expect holds the certificate the input encodes, so each   *)
(* answer is judged against the input, not against the decoded value.     *)

\* Validity queries answer for the clock reading they took (spec 4.5 and
\* 8): is_valid holds from not_before included to not_after excluded, and
\* time_to_expiration is a positive duration reaching exactly not_after
\* while valid, and None otherwise (also before not_before).
ValidityQueriesSound ==
  answer # NoValue /\ expect # NoValue =>
    LET w == expect.tbs_certificate.validity
        live == w.not_before <= answer.at /\ answer.at < w.not_after
    IN /\ answer.q = "is_valid" => answer.v = live
       /\ answer.q = "time_to_expiration" =>
            IF live THEN answer.v \in Nat \ {0} /\ answer.at + answer.v = w.not_after
            ELSE answer.v = NoValue

\* is_ca is true exactly when the BasicConstraints extension the encoding
\* carries last decodes with cA true.
IsCaSound ==
  answer # NoValue /\ expect # NoValue /\ answer.q = "is_ca" =>
    LET x == expect.tbs_certificate.extensions
        bc == OID_X509_EXT_BASIC_CONSTRAINTS
    IN answer.v = (bc \in DOMAIN x /\ x[bc].parsed_extension = [variant |-> bc, data |-> 1])

\* The attribute type each iter_* helper is documented to return
\* (X.520 arcs after 2.5.4; stateOrProvinceName is 2.5.4.8).
DocumentedAttributeType ==
  [common_name |-> <<3>>, country |-> <<6>>, organization |-> <<10>>,
   organizational_unit |-> <<11>>, state_or_province |-> <<8>>,
   locality |-> <<7>>, email |-> <<1, 9, 1>>]

\* Display renders a decoded name as spec 4.2 says: every attribute, in
\* order, as its abbreviation (or OID) and its value, a string type as its
\* text and any other type as the hex of its bytes; the placeholder is
\* only for a name that cannot be rendered, and every name that decoded
\* can be.  A CA logs, and a user approves, the subject it displays.
NameDisplaySound ==
  answer # NoValue /\ expect # NoValue /\ answer.q = "display" =>
    LET rdns == expect.tbs_certificate[answer.arg].rdn_seq
        enc(v) == IF v[1].t \in StringTags THEN "text" ELSE "hex"
    IN answer.v = [placeholder |-> FALSE,
                   rdns |-> [r \in DOMAIN rdns |-> [j \in DOMAIN rdns[r] |->
                              [abbrev |-> Abbrev(rdns[r][j].attr_type),
                               value |-> [enc |-> enc(rdns[r][j].attr_value),
                                          octets |-> Tail(rdns[r][j].attr_value)]]]]]

\* verify_signature accepts a certificate exactly when its encoded
\* signature value was made, by the key passed (its own subject key for
\* None), under the scheme its signature algorithm names, over the bytes
\* of the TBSCertificate element of the input (spec 89 and 101): the bytes
\* the decoder hands to ring are the bytes that were signed.
VerifySignatureSound ==
  answer # NoValue /\ expect # NoValue /\ answer.q = "verify" =>
    answer.v = ExpectedVerification(answer.arg, expect.tbs_certificate.subject_pki,
                                    expect.signature_algorithm,
                                    expect.signature_value, TbsElement)

\* Each Name iterator returns, in order, exactly the attributes of the
\* encoded name whose type is the one its documentation names.
NameAccessorsSound ==
  answer # NoValue /\ expect # NoValue /\ answer.q \in DOMAIN DocumentedAttributeType =>
    answer.v = SelectSeq(FlattenSeq(expect.tbs_certificate[answer.arg].rdn_seq),
                         LAMBDA a : a.attr_type = DocumentedAttributeType[answer.q])

\* Every view of a name a client reads agrees with the encoded name: the
\* iter_* helpers and Display.
NameViewsSound == NameAccessorsSound /\ NameDisplaySound

=============================================================================
