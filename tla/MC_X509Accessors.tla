--------------------------- MODULE MC_X509Accessors ---------------------------
(***************************************************************************)
(* Inputs for X509Accessors: v3 certificates whose subject holds a         *)
(* stateOrProvinceName, a streetAddress and an x500UniqueIdentifier (a     *)
(* BIT STRING, rendered as hex), with the BasicConstraints shapes is_ca    *)
(* distinguishes.  NameViewsInputs adds a subject with a postalAddress,    *)
(* whose value is a SEQUENCE.  The validity is [1, 3) and the clock runs   *)
(* from before not_before to after not_after.                              *)
(***************************************************************************)
EXTENDS X509Accessors, MC_X509Certificate

ST == <<8>>          \* 2.5.4.8 stateOrProvinceName
Street == <<9>>      \* 2.5.4.9 streetAddress

UniqueId == <<45>>   \* 2.5.4.45 x500UniqueIdentifier, a BIT STRING
PostalAddress == <<16>>  \* 2.5.4.16 postalAddress, a SEQUENCE of strings

NameST == << <<Atv(C, 2)>>, <<Atv(ST, 4)>>, <<Atv(Street, 5), Atv(CN, 1)>>,
             <<[attr_type |-> UniqueId, attr_value |-> Prim("BIT", <<0, 7>>)]>> >>

\* A subject with a postalAddress: two PrintableString lines in a SEQUENCE.
NamePostal ==
  << <<Atv(C, 2)>>,
     <<[attr_type |-> PostalAddress,
        attr_value |-> TLV("SEQ", Prim("STR", <<1>>) \o Prim("STR", <<2>>))]>> >>

\* No BasicConstraints; cA true; cA false; a duplicate whose last has cA
\* false; one its decoder rejects.
AccExtLists ==
  { <<>>, <<Ext(BC, TRUE, <<1>>)>>, <<Ext(BC, FALSE, <<0>>)>>,
    <<Ext(BC, TRUE, <<1>>), Ext(BC, FALSE, <<0>>)>>, <<Ext(BC, TRUE, <<7>>)>> }

AccInputs ==
  {[bytes |-> EncCertificate(d), expect |-> ExpectedCertificate(d)]
     : d \in {Desc(2, NameA, NameST, NoValue, x) : x \in AccExtLists}}

-----------------------------------------------------------------------------
(* Signatures.  The subject key is <<0, 4>> (Desc); a CA holds <<0, 5>>.   *)

CaKey == [algorithm |-> KeyAlg, subject_public_key |-> <<0, 5>>]

\* The keys a caller passes as public_key.
MCSignerKeys == {CaKey}

\* sha384WithRSAEncryption, and an algorithm verify_signature does not know
\* (md5WithRSAEncryption).
SigAlg384 == [algorithm |-> <<1, 12>>, parameters |-> Prim("NULL", <<>>)]
SigAlgMd5 == [algorithm |-> <<1, 4>>, parameters |-> Prim("NULL", <<>>)]

VBase == Desc(2, NameA, NameST, NoValue, <<>>)

\* d signed under alg (named in the TBS and the envelope), with the
\* signature whose token is tok.
WithSig(d, alg, tok) ==
  [d EXCEPT !.signature = alg, !.signature_algorithm = alg, !.signature_value = <<0, tok>>]

TbsOf(d) == TLV("SEQ", Concat(TbsPieces(d)))

SelfSigned == WithSig(VBase, SigAlg, 1)
CaSigned == WithSig([VBase EXCEPT !.issuer = NameB], SigAlg, 2)
Sha384Signed == WithSig(VBase, SigAlg384, 3)

\* The signatures made: by the subject key over SelfSigned and
\* Sha384Signed, by the CA key over CaSigned.
MCSignatures ==
  << [key |-> <<4>>, alg |-> "RSA_PKCS1_2048_8192_SHA256", msg |-> TbsOf(SelfSigned)],
     [key |-> <<5>>, alg |-> "RSA_PKCS1_2048_8192_SHA256", msg |-> TbsOf(CaSigned)],
     [key |-> <<4>>, alg |-> "RSA_PKCS1_2048_8192_SHA384", msg |-> TbsOf(Sha384Signed)] >>

\* The three signed certificates; one naming md5WithRSA; one carrying the
\* signature of SelfSigned over a TBS with another serial.
VerifyDescs ==
  { SelfSigned, CaSigned, Sha384Signed,
    WithSig(VBase, SigAlgMd5, 1),
    WithSig([VBase EXCEPT !.serial = <<6>>], SigAlg, 1) }

VerifyInputs ==
  AccInputs \cup {[bytes |-> EncCertificate(d), expect |-> ExpectedCertificate(d)] : d \in VerifyDescs}

\* AccInputs and a certificate whose subject holds a postalAddress.
NameViewsInputs ==
  AccInputs \cup {[bytes |-> EncCertificate(d), expect |-> ExpectedCertificate(d)]
                    : d \in {Desc(2, NameA, NamePostal, NoValue, <<>>)}}

=============================================================================
