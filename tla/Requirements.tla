----------------------------- MODULE Requirements -----------------------------
(***************************************************************************)
(* The designated requirement of a signature: how BuildRequirements        *)
(* (codesign/blobs/requirements.go) writes it, and how a verifier          *)
(* evaluates it.  Its cells are words of four bytes.                       *)
(***************************************************************************)
EXTENDS Certificates

ReqOpIdent == 2
ReqOpAnd == 6
ReqOpCertField == 11
ReqOpCertGeneric == 14
ReqOpAppleGenericAnchor == 15
ReqMatchExists == 0
ReqMatchEqual == 1
ReqExprDesignated == 3

SubjectCN == Text("subject.CN", 10)

encodeOp(op) == <<[n |-> op]>>

(* A length in bytes, and the bytes themselves in whole words. *)
Words(b, count) ==
    [w \in 1..count |->
        [chars |-> [i \in 1..4 |-> IF 4 * (w - 1) + i <= Len(b)
                                   THEN b[4 * (w - 1) + i] ELSE Zero]]]
encodeLenBytesAndNUL(b) ==    \* mutant: a NUL is padded too
    encodeOp(Len(b)) \o Words(b, (Len(b) + 4) \div 4)
encodeLenBytes(b) == encodeOp(Len(b)) \o Words(b, (Len(b) + 3) \div 4)

encodeOpIdent(s) == encodeOp(ReqOpIdent) \o encodeLenBytes(s)
encodeAnd(left, right) == encodeOp(ReqOpAnd) \o left \o right

encodeCertFieldString(slot, field, match, value) ==
    encodeOp(ReqOpCertField) \o encodeOp(slot) \o encodeLenBytes(field)
        \o encodeOp(match) \o encodeLenBytes(value)

encodeCertGenericExists(slot, oid) ==
    encodeOp(ReqOpCertGeneric) \o encodeOp(slot) \o encodeLenBytes(oid)
        \o encodeOp(ReqMatchExists)

buildDesignatedRequirement(bundleID, leafCN) ==
    encodeAnd(encodeOpIdent(bundleID),
              encodeAnd(encodeOp(ReqOpAppleGenericAnchor),
                        encodeAnd(encodeCertFieldString(0, SubjectCN, ReqMatchEqual, leafCN),
                                  encodeCertGenericExists(1, WWDROID))))

(* A requirement says that it is an expression; a set of requirements has  *)
(* an index of one entry, which says where the requirement is.             *)
buildRequirementBlob(expr) == WrapBlob("requirement", encodeOp(1) \o expr)

buildRequirementsSet(reqBlob) ==
    LET index == encodeOp(1) \o encodeOp(ReqExprDesignated)
        headerSize == 1 + Len(index) + 1
    IN  WrapBlob("requirements", index \o encodeOp(headerSize) \o reqBlob)

BuildRequirements(bundleID, leafCN) ==
    buildRequirementsSet(buildRequirementBlob(buildDesignatedRequirement(bundleID, leafCN)))

-----------------------------------------------------------------------------
(***************************************************************************)
(* Evaluating the expression e for code that is identified by ident and    *)
(* signed with the certificates path, of which the first is the leaf's and *)
(* each is followed by its issuer's.  The result at a word is the set of   *)
(* what can be read from there: where it ends, and whether it holds; the   *)
(* set is empty if that is not an expression.                              *)
(***************************************************************************)
IsNumber(e, p) == p \in DOMAIN e /\ "n" \in DOMAIN e[p]
Characters(words) ==
    [i \in 1..(4 * Len(words)) |-> words[((i - 1) \div 4) + 1].chars[((i - 1) % 4) + 1]]
StringsAt(e, p) ==
    {[end |-> p + 1 + size, text |-> SubSeq(Characters(Cells(e, p, size)), 1, e[p].n)] :
        size \in {s \in IF IsNumber(e, p) THEN {(e[p].n + 3) \div 4} ELSE {} :
                    \A i \in (p + 1)..(p + s) : i \in DOMAIN e /\ "chars" \in DOMAIN e[i]}}

Has(path, slot, oid) == slot + 1 \in DOMAIN path /\ oid \in path[slot + 1].fields

ReadingsAt(read, e, p, ident, path) ==
    IF ~IsNumber(e, p) THEN {}
    ELSE IF e[p].n = ReqOpAnd
    THEN UNION {{[end |-> r.end, holds |-> l.holds /\ r.holds] : r \in read[l.end]} :
                  l \in read[p + 1]}
    ELSE IF e[p].n = ReqOpIdent
    THEN {[end |-> s.end, holds |-> s.text = ident] : s \in StringsAt(e, p + 1)}
    ELSE IF e[p].n = ReqOpAppleGenericAnchor
    THEN {[end |-> p + 1, holds |-> path # <<>> /\ path[Len(path)].name = "Apple Root CA"]}
    ELSE IF e[p].n \in {ReqOpCertField, ReqOpCertGeneric} /\ IsNumber(e, p + 1)
    THEN LET slot == e[p + 1].n
             names == {s \in StringsAt(e, p + 2) : IsNumber(e, s.end)}
         IN  {[end |-> s.end + 1, holds |-> Has(path, slot, s.text)] :
                 s \in {x \in names : e[x.end].n = ReqMatchExists}}
             \cup UNION
             {{[end |-> v.end,
                holds |-> s.text = SubjectCN /\ slot + 1 \in DOMAIN path
                            /\ path[slot + 1].cn = v.text] :
                  v \in StringsAt(e, s.end + 1)} :
                 s \in {x \in names : e[x.end].n = ReqMatchEqual}}
    ELSE {}

Readings(e, ident, path) ==
    LET read[p \in 1..(Len(e) + 1)] == ReadingsAt(read, e, p, ident, path)
    IN  read[1]

(* The whole of the designated requirement in a set holds. *)
Satisfies(set, ident, path) ==
    LET offset == set[4].n
        size == set[offset + 1].length
        requirement == Cells(set, offset, size)
        expr == Cells(requirement, 2, size - 2)
    IN  /\ set[3].n = ReqExprDesignated
        /\ offset + size = Len(set)
        /\ Readings(expr, ident, path) = {[end |-> Len(expr) + 1, holds |-> TRUE]}
===============================================================================
