----------------------------- MODULE X509Verify -----------------------------
(***************************************************************************)
(* verify_signature of X509Certificate and X509CertificationRequest       *)
(* (src/src/x509.rs, feature "verify"), over an ideal signature scheme.   *)
(*                                                                         *)
(* ring is an external collaborator.  Its contract is stated here as an   *)
(* unforgeable scheme: the world's signatures are the constant Signatures, *)
(* a function from a signature token to the key data, ring algorithm and  *)
(* message it was made with; the bytes of a signature are <<token>>, and  *)
(* UnparsedPublicKey::verify succeeds exactly for a signature made with    *)
(* that key, under that algorithm, over exactly that message.             *)
(***************************************************************************)
EXTENDS X509Fields

CONSTANT Signatures   \* token -> [key, alg, msg]: every signature made

-----------------------------------------------------------------------------
(* Repository code not under src/, and the ring contract.                 *)

\* BitStringObject::data: the bits after the unused-bits octet.
BitStringData(v) == Tail(v)

\* UnparsedPublicKey::new(alg, key).verify(msg, sig).
RingVerify(alg, key, msg, sig) ==
  \E k \in DOMAIN Signatures :
    /\ sig = <<k>>
    /\ Signatures[k] = [key |-> key, alg |-> alg, msg |-> msg]

-----------------------------------------------------------------------------
(* x509.rs                                                                 *)

\* A faulty variant of the table: the SHA-384 and SHA-512 RSA entries
\* swapped.
VerificationAlgorithmSwapped ==
  (<<1, 5>> :> "RSA_PKCS1_1024_8192_SHA1_FOR_LEGACY_USE_ONLY")
  @@ (<<1, 11>> :> "RSA_PKCS1_2048_8192_SHA256")
  @@ (<<1, 12>> :> "RSA_PKCS1_2048_8192_SHA512")
  @@ (<<1, 13>> :> "RSA_PKCS1_2048_8192_SHA384")
  @@ (<<4, 3, 2>> :> "ECDSA_P256_SHA256_ASN1")
  @@ (<<4, 3, 3>> :> "ECDSA_P384_SHA384_ASN1")

\* The if-else chain identifying the verification algorithm: the
\* signature algorithm OIDs it knows (PKCS#1 arcs after 1.2.840.113549.1,
\* ECDSA arcs after 1.2.840.10045) and the ring algorithm of each.
VerificationAlgorithm ==
  (<<1, 5>> :> "RSA_PKCS1_1024_8192_SHA1_FOR_LEGACY_USE_ONLY")  \* OID_PKCS1_SHA1WITHRSA
  @@ (<<1, 11>> :> "RSA_PKCS1_2048_8192_SHA256")   \* OID_PKCS1_SHA256WITHRSA
  @@ (<<1, 12>> :> "RSA_PKCS1_2048_8192_SHA384")   \* OID_PKCS1_SHA384WITHRSA
  @@ (<<1, 13>> :> "RSA_PKCS1_2048_8192_SHA512")   \* OID_PKCS1_SHA512WITHRSA
  @@ (<<4, 3, 2>> :> "ECDSA_P256_SHA256_ASN1")     \* OID_SIG_ECDSA_WITH_SHA256
  @@ (<<4, 3, 3>> :> "ECDSA_P384_SHA384_ASN1")     \* OID_SIG_ECDSA_WITH_SHA384

\* verify_signature: the signer's key is public_key, or the object's own
\* subject_pki when None; an unknown signature algorithm is
\* SignatureUnsupportedAlgorithm; otherwise ring verifies the signature
\* value over raw, and any failure is SignatureVerificationError.
VerifySignature(publicKey, ownSpki, sigAlg, sigValue, raw) ==
  LET spki == IF publicKey = NoValue THEN ownSpki ELSE publicKey
  IN IF sigAlg.algorithm \notin DOMAIN VerificationAlgorithm
     THEN "SignatureUnsupportedAlgorithm"
     ELSE IF RingVerify(VerificationAlgorithm[sigAlg.algorithm],
                        BitStringData(spki.subject_public_key), raw,
                        BitStringData(sigValue))
     THEN "ok"
     ELSE "SignatureVerificationError"

-----------------------------------------------------------------------------
(* The reference the properties judge against.                            *)

\* The signature algorithms of RFC 5280 / RFC 4055 / RFC 5758 and the
\* scheme each names.
SignatureScheme ==
  (<<1, 5>> :> "RSA_PKCS1_1024_8192_SHA1_FOR_LEGACY_USE_ONLY")
  @@ (<<1, 11>> :> "RSA_PKCS1_2048_8192_SHA256")
  @@ (<<1, 12>> :> "RSA_PKCS1_2048_8192_SHA384")
  @@ (<<1, 13>> :> "RSA_PKCS1_2048_8192_SHA512")
  @@ (<<4, 3, 2>> :> "ECDSA_P256_SHA256_ASN1")
  @@ (<<4, 3, 3>> :> "ECDSA_P384_SHA384_ASN1")

\* What verification of an encoded object must answer (spec 89 and 101):
\* ok exactly when its signature value is a signature, by the key given
\* (or the object's own subject key), under the scheme its signature
\* algorithm names, over the bytes of its encoded TBS element.
ExpectedVerification(publicKey, ownSpki, sigAlg, sigValue, tbsElement) ==
  LET key == IF publicKey = NoValue THEN ownSpki ELSE publicKey
  IN IF sigAlg.algorithm \notin DOMAIN SignatureScheme
     THEN "SignatureUnsupportedAlgorithm"
     ELSE IF \E k \in DOMAIN Signatures :
               /\ Tail(sigValue) = <<k>>
               /\ Signatures[k] = [key |-> Tail(key.subject_public_key),
                                   alg |-> SignatureScheme[sigAlg.algorithm],
                                   msg |-> tbsElement]
     THEN "ok"
     ELSE "SignatureVerificationError"

=============================================================================
