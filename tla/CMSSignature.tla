----------------------------- MODULE CMSSignature -----------------------------
(***************************************************************************)
(* The CMS signature that GenerateCMS (codesign/cms/signature.go) makes of *)
(* a CodeDirectory's digest, and how a verifier reads one.                 *)
(***************************************************************************)
EXTENDS Certificates, SequencesExt

(* signer.go: Apple's certificates and the first one of the identity's. *)
BuildFullCertChain(existing) == <<AppleWWDRG3, AppleRoot, existing[1]>>

(* encodeCertificates: in this order, but each only once. *)
encodeCertificates(chain) ==
    LET encoded[n \in 0..Len(chain)] ==
          IF n = 0 THEN <<>>
          ELSE IF Contains(encoded[n - 1], chain[n]) THEN encoded[n - 1]
          ELSE Append(encoded[n - 1], chain[n])
    IN  encoded[Len(chain)]

-----------------------------------------------------------------------------
(***************************************************************************)
(* The signed attributes with the lengths of their encodings: they are     *)
(* concatenated as they come, though the elements of a SET must be in the  *)
(* order of their encodings.                                               *)
(***************************************************************************)
buildSignedAttrs(digest) ==
    <<[type |-> "contentType", length |-> 24, value |-> "data"],
      [type |-> "signingTime", length |-> 28, value |-> "now"],
      [type |-> "messageDigest", length |-> 47, value |-> digest]>>

encodeSignedAttrsForSigning(attrs) == [tag |-> "SET", content |-> attrs]

SignatureAlgorithm(cert) ==
    IF cert.algorithm = "RSA" THEN "rsaEncryption" ELSE "ecdsaWithSHA256"

buildSignerInfo(cert, signature, attrs) ==
    [issuer |-> cert.issuer, serial |-> cert.serial,
     signedAttrs |-> [tag |-> "[0]", content |-> attrs],
     signatureAlgorithm |-> SignatureAlgorithm(cert), signature |-> signature]

GenerateCMS(identity, chain, digest) ==
    LET attrs == buildSignedAttrs(digest)
        signature == [by |-> identity.privateKey,
                      of |-> encodeSignedAttrsForSigning(attrs)]
    IN  [certificates |-> encodeCertificates(chain),
         signerInfo |-> buildSignerInfo(identity.certificate, signature, attrs)]

-----------------------------------------------------------------------------
(* The certificates that a verifier finds: the signer's by its issuer and  *)
(* number, and the path from there as far as issuers are in the message.   *)
Signers(cms) ==
    {c \in Range(cms.certificates) :
        c.issuer = cms.signerInfo.issuer /\ c.serial = cms.signerInfo.serial}

PathFrom(cms, leaf) ==
    LET issuersOf(c) == {i \in Range(cms.certificates) : i.name = c.issuer /\ i # c}
        path[n \in 0..Len(cms.certificates)] ==
          IF n = 0 THEN <<leaf>>
          ELSE LET found == issuersOf(path[n - 1][Len(path[n - 1])])
               IN  IF found = {} THEN path[n - 1]
                   ELSE Append(path[n - 1], CHOOSE i \in found : TRUE)
    IN  path[Len(cms.certificates)]

(* The message was signed for this digest, with the key of a certificate   *)
(* that it has, and says how.                                              *)
Verifies(cms, digest) ==
    LET info == cms.signerInfo
        attrs == info.signedAttrs.content
    IN  /\ \A i, j \in DOMAIN attrs : i < j => attrs[i].length < attrs[j].length
        /\ \E a \in Range(attrs) : a.type = "messageDigest" /\ a.value = digest
        /\ info.signature.of = [info.signedAttrs EXCEPT !.tag = "SET"]
        /\ Cardinality(Signers(cms)) = 1
        /\ \A c \in Signers(cms) :
              /\ c.key = info.signature.by
              /\ info.signatureAlgorithm \in
                   IF c.algorithm = "RSA" THEN {"rsaEncryption"} ELSE {"ecdsaWithSHA256"}
        /\ IsInjective(cms.certificates)
===============================================================================
