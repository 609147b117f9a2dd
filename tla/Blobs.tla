--------------------------------- MODULE Blobs ---------------------------------
(***************************************************************************)
(* The cells that blobs are written in.  A header (magic and length), a    *)
(* 32-bit number, four characters, one byte, one character or a part of a  *)
(* hash takes one cell, whichever of them the blob is made of; zero is     *)
(* what make([]byte, n) starts with.  WrapBlob is from                     *)
(* codesign/blobs/superblob.go.                                            *)
(***************************************************************************)
EXTENDS Integers, Sequences

Zero == [zero |-> 0]
Zeros(n) == [i \in 1..n |-> Zero]

(* copy(b[off:], data) *)
CopyTo(b, off, data) ==
    [p \in 1..Len(b) |->
        IF p > off /\ p <= off + Len(data) THEN data[p - off] ELSE b[p]]

WrapBlob(magic, data) ==
    LET size == 1 + Len(data)
    IN  CopyTo(CopyTo(Zeros(size), 0, <<[magic |-> magic, length |-> size]>>), 1, data)

(* A string of n characters. *)
Text(name, n) == [i \in 1..n |-> [char |-> <<name, i>>]]

(* n cells of b from the offset off. *)
Cells(b, off, n) == SubSeq(b, off + 1, off + n)
================================================================================
