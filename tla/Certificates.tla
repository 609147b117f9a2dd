----------------------------- MODULE Certificates -----------------------------
(***************************************************************************)
(* Signing identities (certificate/) and the certificates that are built   *)
(* in (certificate/chain/).  A certificate is a record of the names, the   *)
(* number and the key that the code or a verifier looks at; two are the    *)
(* same if all of them are (their DER bytes).                              *)
(***************************************************************************)
EXTENDS Blobs

(* The extension of an intermediate certificate for developers. *)
WWDROID == Text("1.2.840.113635.100.6.2.1", 10)

SameNumber(c, d) == c.issuer = d.issuer /\ c.serial = d.serial

AppleRoot ==
    [name |-> "Apple Root CA", issuer |-> "Apple Root CA", serial |-> 2, key |-> "root",
     algorithm |-> "RSA", cn |-> Text("Apple Root CA", 13), fields |-> {}]
AppleWWDRG3 ==
    [name |-> "WWDR G3", issuer |-> "Apple Root CA", serial |-> 3, key |-> "G3",
     algorithm |-> "RSA", cn |-> Text("WWDR", 4), fields |-> {WWDROID}]

(* A PKCS#12 file has one private key; DecodeChain takes the first of its  *)
(* certificates for the leaf's.                                            *)
LoadP12(p12) ==
    [certificate |-> Head(p12.certs), privateKey |-> p12.key, certChain |-> p12.certs]
===============================================================================
