--------------------------- MODULE MCMachOSigning ---------------------------
(***************************************************************************)
(* Binaries as linkers lay them out: thin and FAT, signed and not, with    *)
(* little or much room behind the load commands.                           *)
(***************************************************************************)
EXTENDS MachOSigning

System == <<"usr", "System">>
Ads == <<"rpath", "Ads">>
Tweak == <<"rpath", "Tweak">>

Data(id) == [data |-> id]

(* A slice that is called id, with room cells of padding, code cells of    *)
(* code and two of link data, and a signature of sig cells if sig > 0.     *)
Linked(id, room, code, sig) ==
    LET loads == <<Dylib(System), Dylib(Ads)>>
        ncmds == Len(loads) + 1 + (IF sig > 0 THEN 1 ELSE 0)
        start == 1 + ncmds + room + code
    IN  <<Header(ncmds), Linkedit(start, 2 + sig)>> \o loads
        \o (IF sig > 0 THEN <<CodeSig(start + 2, sig)>> ELSE <<>>)
        \o [i \in 1..room |-> Zero]
        \o [i \in 1..(code + 2) |-> Data(<<id, i>>)]
        \o [i \in 1..sig |-> CMSCell]

(* Two slices side by side, as lipo does it. *)
Universal(a, b) ==
    LET first == Align(3)
        second == Align(first + Len(a))
    IN  WriteAt(WriteAt(<<Fat(2), Arch(first, Len(a)), Arch(second, Len(b))>>,
                        first, a),
                second, b)

Thins == {Linked("x", room, code, sig) : room \in {3, 4}, code \in {1, 2}, sig \in {0, 2, 5}}
Fats == {Universal(Linked("x", 3, 2, s), Linked("y", 3, 3, t)) : s, t \in {0, 4}}
Roomy == Thins \cup Fats
Tight == {Linked("x", 0, 2, 2), Linked("x", 1, 1, 2)}

MCEdits == {
    [paths |-> {}, bases |-> {}, inject |-> <<Tweak>>],
    [paths |-> {System}, bases |-> {"Ads"}, inject |-> <<>>],
    [paths |-> {}, bases |-> {"Ads", "Tweak"}, inject |-> <<Ads, Tweak>>]}

RSASizes == {2}
ECDSASizes == {1, 2}
=============================================================================
