---------------------------- MODULE X509CrlClient ----------------------------
(***************************************************************************)
(* A relying party checking revocation against a CRL (src/src/x509.rs):   *)
(* it decodes the CRL with CertificateRevocationList::from_der and then    *)
(* reads it through the views a revocation check uses: the serials of     *)
(* iter_revoked_certificates, and each entry's reason_code and            *)
(* invalidity_date.  Each query records its answer, judged against the    *)
(* history variable revoked: the entries the input actually carries.     *)
(***************************************************************************)
EXTENDS X509Crl

VARIABLE answer   \* the last query: [q, arg, v], NoValue before the first

allVars == <<vars, answer>>

-----------------------------------------------------------------------------
(* x509.rs                                                                 *)

\* CertificateRevocationList::iter_revoked_certificates, each entry read
\* through RevokedCertificate::serial.
RevokedSerials(c) ==
  [k \in DOMAIN c.tbs_cert_list.revoked_certificates |->
     c.tbs_cert_list.revoked_certificates[k].user_certificate]

\* A faulty variant of reason_code: the InvalidityDate OID looked up.
ReasonCodeWrongOid(rc) == ExtensionGetter(rc.extensions, OID_X509_EXT_INVALIDITY_DATE)

\* RevokedCertificate::reason_code: the ReasonCode entry extension, when its
\* parsed variant is ReasonCode, with its critical flag.
ReasonCode(rc) == ExtensionGetter(rc.extensions, OID_X509_EXT_REASON_CODE)

\* RevokedCertificate::invalidity_date, likewise for InvalidityDate.
InvalidityDate(rc) == ExtensionGetter(rc.extensions, OID_X509_EXT_INVALIDITY_DATE)

EntryGetters == {"reason_code", "invalidity_date"}

EntryGetter(g, rc) == IF g = "reason_code" THEN ReasonCode(rc) ELSE InvalidityDate(rc)

-----------------------------------------------------------------------------
(* The client.                                                             *)

ClientInit == Init /\ answer = NoValue

\* A step of the decoder; the client waits for its result.
Decode == Next /\ UNCHANGED answer

Decoded == pc = "done" /\ st = "ok"

Answer(q, arg, v) ==
  /\ answer' = [q |-> q, arg |-> arg, v |-> v]
  /\ UNCHANGED vars

\* The serials of every revoked entry, in the order iterated.
QueryRevokedSerials ==
  /\ Decoded
  /\ Answer("serials", NoValue, RevokedSerials(crl))

\* reason_code or invalidity_date of the k-th entry iterated.
QueryEntryExtension(k, g) ==
  /\ Decoded
  /\ k \in DOMAIN crl.tbs_cert_list.revoked_certificates
  /\ Answer(g, k, EntryGetter(g, crl.tbs_cert_list.revoked_certificates[k]))

ClientNext ==
  \/ Decode
  \/ QueryRevokedSerials
  \/ \E k \in 1..Len(buf), g \in EntryGetters : QueryEntryExtension(k, g)

ClientSpec == ClientInit /\ [][ClientNext]_allVars

-----------------------------------------------------------------------------
(* Properties.                                                             *)

\* What a revocation check reads from a CRL that decoded is what the input
\* carries: iter_revoked_certificates yields the serial of every entry
\* encoded, in order, and reason_code and invalidity_date of the k-th
\* entry give the extension encoded for it, None when there is none
\* (spec 4.7, and 7: no partial objects).  Dropping an entry, or an entry's
\* extensions, turns a revoked certificate into an unrevoked one.
RevocationQueriesSound ==
  answer # NoValue =>
    /\ answer.q = "serials" =>
         answer.v = [k \in DOMAIN revoked |-> revoked[k].serial]
    /\ answer.q \in EntryGetters =>
         /\ answer.arg \in DOMAIN revoked
         /\ answer.v = revoked[answer.arg][answer.q]

=============================================================================
