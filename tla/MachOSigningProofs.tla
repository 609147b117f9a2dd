-------------------------- MODULE MachOSigningProofs --------------------------
(***************************************************************************)
(* What re-signing does to a binary, for every file, set of edits, size of *)
(* page, alignment and number of rounds: the lemmas say what the reader,   *)
(* the editor and the writer return, cell by cell, and Inv carries the     *)
(* file through the passes of a round to the next round.                   *)
(***************************************************************************)
EXTENDS MachOSigning, SequenceTheorems, WellFoundedInduction, TLAPS

-----------------------------------------------------------------------------
(* Sequences of cells, and induction. *)

(* A sequence, whatever its elements are. *)
IsCells(s) == Len(s) \in Nat /\ s = [k \in 1..Len(s) |-> s[k]]

(* A set of numbers has a least one.                                       *)
LEMMA Smallest ==
    ASSUME NEW S, S \subseteq Nat, S # {}
    PROVE  \E m \in S : \A n \in S : m <= n
<1>1. PICK m \in S : \A n \in S : ~(<<n, m>> \in OpToRel(<, Nat))
  BY NatLessThanWellFounded, WFMin
<1>2. \A n \in S : ~(n < m)
  BY <1>1 DEF OpToRel
<1> QED BY <1>2

(* Induction over the set of the numbers that have a property. *)
LEMMA Induction ==
    ASSUME NEW S, 0 \in S, \A n \in Nat : n \in S => n + 1 \in S
    PROVE  Nat \subseteq S
<1> DEFINE T == Nat \ S
<1> SUFFICES ASSUME T # {} PROVE FALSE
  OBVIOUS
<1>1. PICK m \in T : \A n \in T : m <= n
  BY Smallest
<1>2. m # 0 /\ m - 1 \in Nat /\ m - 1 \notin T
  BY <1>1
<1> QED BY <1>2

(* Len of a function on 1..n, which is how files are built. *)
LEMMA LengthOf ==
    ASSUME NEW n \in Nat, NEW f, f = [k \in 1..n |-> f[k]]
    PROVE  Len(f) = n /\ IsCells(f)
<1>1. f \in Seq({f[k] : k \in 1..n})
  OBVIOUS
<1>2. Len(f) \in Nat /\ 1..Len(f) = 1..n
  BY <1>1, LenProperties
<1>3. Len(f) = n
  BY <1>2
<1> QED BY <1>3 DEF IsCells

(* A sequence of one cell.                                                 *)
LEMMA OneCell == \A x : IsCells(<<x>>) /\ Len(<<x>>) = 1 /\ <<x>>[1] = x
  BY DEF IsCells

(* The empty sequence.                                                     *)
LEMMA NoCells == IsCells(<<>>) /\ Len(<<>>) = 0
  BY DEF IsCells

(* A sequence of cells is a sequence over the set of its cells.            *)
LEMMA CellsAreSeq ==
    \A s : IsCells(s) => s \in Seq({s[k] : k \in 1..Len(s)}) /\ DOMAIN s = 1..Len(s)
  BY DEF IsCells

(* One sequence behind another. *)
LEMMA Concatenated ==
    \A s, t : IsCells(s) /\ IsCells(t) =>
        /\ IsCells(s \o t) /\ Len(s \o t) = Len(s) + Len(t)
        /\ \A k \in 1..Len(s) : (s \o t)[k] = s[k]
        /\ \A k \in 1..Len(t) : (s \o t)[Len(s) + k] = t[k]
<1> SUFFICES ASSUME NEW s, NEW t, IsCells(s), IsCells(t)
             PROVE  /\ IsCells(s \o t) /\ Len(s \o t) = Len(s) + Len(t)
                    /\ \A k \in 1..Len(s) : (s \o t)[k] = s[k]
                    /\ \A k \in 1..Len(t) : (s \o t)[Len(s) + k] = t[k]
  OBVIOUS
<1> DEFINE S == {s[k] : k \in 1..Len(s)} \cup {t[k] : k \in 1..Len(t)}
<1>1. s \in Seq(S) /\ t \in Seq(S) /\ Len(s) \in Nat /\ Len(t) \in Nat
  BY CellsAreSeq, SeqMonotonic DEF IsCells
<1> HIDE DEF S
<1>2. PICK r : r = s \o t
  OBVIOUS
<1>3. /\ r \in Seq(S) /\ Len(r) = Len(s) + Len(t)
      /\ \A k \in 1..(Len(s) + Len(t)) : r[k] = IF k <= Len(s) THEN s[k] ELSE t[k - Len(s)]
  BY <1>1, <1>2, ConcatProperties
<1>4. IsCells(r)
  BY <1>1, <1>3 DEF IsCells
<1>5. \A k \in 1..Len(s) : r[k] = s[k]
  BY <1>1, <1>3
<1>6. ASSUME NEW k \in 1..Len(t) PROVE r[Len(s) + k] = t[k]
  <2>1. PICK p \in 1..(Len(s) + Len(t)) : p = Len(s) + k
    BY <1>1
  <2>2. ~(p <= Len(s)) /\ p - Len(s) = k
    BY <2>1, <1>1
  <2> QED BY <2>1, <2>2, <1>3
<1> QED BY <1>2, <1>3, <1>4, <1>5, <1>6

Joined(c, a, b) ==
    /\ IsCells(c) /\ Len(c) = Len(a) + Len(b)
    /\ \A k \in 1..Len(a) : c[k] = a[k]
    /\ \A k \in 1..Len(b) : c[Len(a) + k] = b[k]

(* Concatenated, with its conclusion as one predicate.                     *)
LEMMA Join == \A a, b : IsCells(a) /\ IsCells(b) => Joined(a \o b, a, b)
  BY Concatenated DEF Joined

(* The cells from..to-1 of a file that has them. *)
LEMMA ReadCells ==
    \A f, from, to :
        IsCells(f) /\ from \in Nat /\ to \in Nat /\ from <= to /\ to <= Len(f) =>
            /\ IsCells(Read(f, from, to)) /\ Len(Read(f, from, to)) = to - from
            /\ \A k \in 1..(to - from) : Read(f, from, to)[k] = f[from + k]
<1> SUFFICES ASSUME NEW f, NEW from \in Nat, NEW to \in Nat, IsCells(f), from <= to,
                    to <= Len(f)
             PROVE  /\ IsCells(Read(f, from, to)) /\ Len(Read(f, from, to)) = to - from
                    /\ \A k \in 1..(to - from) : Read(f, from, to)[k] = f[from + k]
  OBVIOUS
<1>1. PICK n \in Nat : n = to - from
  OBVIOUS
<1>2. (IF to < Len(f) THEN to ELSE Len(f)) = to
  BY DEF IsCells
<1>3. PICK r : r = Read(f, from, to)
  OBVIOUS
<1>4. to - (from + 1) + 1 = n
  BY <1>1
<1>5. r = [k \in 1..n |-> f[(from + 1) + k - 1]]
  BY <1>2, <1>3, <1>4 DEF Read
<1>6. \A k \in 1..n : r[k] = f[from + k]
  BY <1>5
<1>7. r = [k \in 1..n |-> r[k]]
  BY <1>5
<1> QED BY <1>1, <1>3, <1>6, <1>7, LengthOf

IsRead(r, f, from, to) ==
    /\ IsCells(r) /\ Len(r) = to - from
    /\ \A k \in 1..(to - from) : r[k] = f[from + k]

(* ReadCells, with its conclusion as one predicate.                        *)
LEMMA ReadIs ==
    \A f, from, to :
        IsCells(f) /\ from \in Nat /\ to \in Nat /\ from <= to /\ to <= Len(f) =>
            IsRead(Read(f, from, to), f, from, to)
  BY ReadCells DEF IsRead

(* Max of two numbers.                                                     *)
LEMMA Larger ==
    ASSUME NEW a \in Int, NEW b \in Int
    PROVE  Max({a, b}) = IF a <= b THEN b ELSE a
<1> DEFINE S == {a, b}
           Highest(x) == x \in S /\ \A y \in S : x >= y
<1>1. Max(S) = CHOOSE x : Highest(x)
  BY DEF Max
<1>2. \E x : Highest(x)
  OBVIOUS
<1>3. Highest(Max(S))
  <2> HIDE DEF Highest
  <2> QED BY <1>1, <1>2
<1> QED BY <1>3

(* What is written is where it was written, and nothing else changes. *)
LEMMA WrittenAt ==
    \A f, off, cells :
        IsCells(f) /\ IsCells(cells) /\ off \in Nat /\ off >= Len(f) =>
            /\ IsCells(WriteAt(f, off, cells))
            /\ Len(WriteAt(f, off, cells)) = off + Len(cells)
            /\ \A k \in 1..Len(f) : WriteAt(f, off, cells)[k] = f[k]
            /\ \A k \in 1..Len(cells) : WriteAt(f, off, cells)[off + k] = cells[k]
<1> SUFFICES ASSUME NEW f, NEW cells, NEW off \in Nat,
                    IsCells(f), IsCells(cells), off >= Len(f)
             PROVE  /\ IsCells(WriteAt(f, off, cells))
                    /\ Len(WriteAt(f, off, cells)) = off + Len(cells)
                    /\ \A k \in 1..Len(f) : WriteAt(f, off, cells)[k] = f[k]
                    /\ \A k \in 1..Len(cells) : WriteAt(f, off, cells)[off + k] = cells[k]
  OBVIOUS
<1>1. PICK n \in Nat : n = off + Len(cells)
  BY DEF IsCells
<1>2. Len(f) \in Nat /\ Len(cells) \in Nat
  BY DEF IsCells
<1>3. Max({Len(f), off + Len(cells)}) = n
  BY <1>1, <1>2, Larger
<1>4. PICK r : r = WriteAt(f, off, cells)
  OBVIOUS
<1>5. r = [p \in 1..n |-> IF p > off /\ p <= off + Len(cells) THEN cells[p - off]
                          ELSE IF p <= Len(f) THEN f[p] ELSE Zero]
  BY <1>3, <1>4 DEF WriteAt
<1>6. r = [p \in 1..n |-> r[p]]
  BY <1>5
<1>7. \A k \in 1..Len(f) : r[k] = f[k]
  BY <1>1, <1>2, <1>5
<1>8. ASSUME NEW k \in 1..Len(cells) PROVE r[off + k] = cells[k]
  <2>1. PICK p \in 1..n : p = off + k
    BY <1>1, <1>2
  <2>2. p > off /\ p <= off + Len(cells) /\ p - off = k
    BY <2>1, <1>2
  <2> QED BY <2>1, <2>2, <1>5
<1> QED BY <1>1, <1>4, <1>6, <1>7, <1>8, LengthOf

-----------------------------------------------------------------------------
(* Load commands: one for __LINKEDIT, at most one for a signature. *)
GoodCmds(cmds) ==
    /\ IsCells(cmds)
    /\ \A j \in 1..Len(cmds) : IsCommand(cmds[j])
    /\ \A kind \in {"linkedit", "codesig"} : \A j, k \in 1..Len(cmds) :
          Is(kind, cmds[j]) /\ Is(kind, cmds[k]) => j = k
    /\ \E j \in 1..Len(cmds) : Is("linkedit", cmds[j])

GoodSlice(s) ==
    /\ s = [offset |-> s.offset, size |-> s.size, ncmds |-> s.ncmds, cmds |-> s.cmds]
    /\ s.offset \in Nat /\ s.size \in Nat
    /\ s.ncmds = Len(s.cmds) /\ GoodCmds(s.cmds)
    /\ CalculateCodeLimit(s) \in Nat /\ CalculateCodeLimit(s) <= s.size

GoodMacho(m) ==
    /\ m = [fat |-> m.fat, slices |-> m.slices] /\ m.fat \in BOOLEAN
    /\ IsCells(m.slices) /\ Len(m.slices) > 0
    /\ ~m.fat => Len(m.slices) = 1
    /\ \A i \in 1..Len(m.slices) : GoodSlice(m.slices[i])

-----------------------------------------------------------------------------
(* The editor: what each edit does to the commands of each kind. *)

CmdsOf(kind, cmds) == {cmds[j] : j \in {k \in 1..Len(cmds) : Is(kind, cmds[k])}}

(* The one command of a kind is the one that is found. *)
LEMMA Found ==
    ASSUME NEW s, GoodCmds(s.cmds), NEW kind \in {"linkedit", "codesig"},
           NEW j \in 1..Len(s.cmds), Is(kind, s.cmds[j])
    PROVE  /\ HasCmd(s, kind) /\ Min(Places(s, kind)) = j
           /\ Cmd(s, kind) = s.cmds[j] /\ CmdsOf(kind, s.cmds) = {s.cmds[j]}
<1>1. DOMAIN s.cmds = 1..Len(s.cmds)
  BY CellsAreSeq DEF GoodCmds
<1>2. Places(s, kind) = {j}
  BY <1>1 DEF Places, GoodCmds
<1>3. Min({j}) = j
  <2> DEFINE Least(x) == x \in {j} /\ \A y \in {j} : x <= y
  <2>1. Min({j}) = CHOOSE x : Least(x)
    BY DEF Min
  <2>2. Least(j)
    BY DEF GoodCmds, IsCells
  <2>3. Least(Min({j}))
    <3> HIDE DEF Least
    <3> QED BY <2>1, <2>2
  <2> QED BY <2>3
<1>4. CmdsOf(kind, s.cmds) = {s.cmds[j]}
  BY DEF CmdsOf, GoodCmds
<1> QED BY <1>2, <1>3, <1>4 DEF HasCmd, Cmd

(* A command is found if and only if there is one of its kind.             *)
LEMMA FoundInSet ==
    ASSUME NEW s, GoodCmds(s.cmds), NEW kind \in {"linkedit", "codesig"}
    PROVE  /\ HasCmd(s, kind) <=> CmdsOf(kind, s.cmds) # {}
           /\ \A c \in CmdsOf(kind, s.cmds) : Cmd(s, kind) = c
           /\ HasCmd(s, kind) => CmdsOf(kind, s.cmds) = {Cmd(s, kind)}
<1>1. DOMAIN s.cmds = 1..Len(s.cmds)
  BY CellsAreSeq DEF GoodCmds
<1>2. CASE \E j \in 1..Len(s.cmds) : Is(kind, s.cmds[j])
  <2> PICK j \in 1..Len(s.cmds) : Is(kind, s.cmds[j])
    BY <1>2
  <2>1. HasCmd(s, kind) /\ Cmd(s, kind) = s.cmds[j] /\ CmdsOf(kind, s.cmds) = {s.cmds[j]}
    BY Found
  <2> QED BY <2>1
<1>3. CASE ~\E j \in 1..Len(s.cmds) : Is(kind, s.cmds[j])
  BY <1>1, <1>3 DEF CmdsOf, HasCmd, Places
<1> QED BY <1>2, <1>3

(* There is a __LINKEDIT segment, and it is the one that is found.         *)
LEMMA LinkeditFound ==
    ASSUME NEW s, GoodCmds(s.cmds)
    PROVE  /\ HasCmd(s, "linkedit") /\ IsCommand(Cmd(s, "linkedit"))
           /\ Is("linkedit", Cmd(s, "linkedit"))
           /\ CmdsOf("linkedit", s.cmds) = {Cmd(s, "linkedit")}
<1> PICK j \in 1..Len(s.cmds) : Is("linkedit", s.cmds[j])
  BY DEF GoodCmds
<1>1. HasCmd(s, "linkedit") /\ Cmd(s, "linkedit") = s.cmds[j]
  BY Found
<1>2. CmdsOf("linkedit", s.cmds) = {s.cmds[j]}
  BY Found
<1> QED BY <1>1, <1>2 DEF GoodCmds

(* If there is a signature command, it is the one that is found.           *)
LEMMA CodeSigFound ==
    ASSUME NEW s, GoodCmds(s.cmds), HasCmd(s, "codesig")
    PROVE  /\ IsCommand(Cmd(s, "codesig")) /\ Is("codesig", Cmd(s, "codesig"))
           /\ CmdsOf("codesig", s.cmds) = {Cmd(s, "codesig")}
<1>1. DOMAIN s.cmds = 1..Len(s.cmds)
  BY CellsAreSeq DEF GoodCmds
<1> PICK j \in 1..Len(s.cmds) : Is("codesig", s.cmds[j])
  BY <1>1 DEF HasCmd, Places
<1>2. Cmd(s, "codesig") = s.cmds[j] /\ CmdsOf("codesig", s.cmds) = {s.cmds[j]}
  BY Found
<1> QED BY <1>2 DEF GoodCmds

(* What a slice loads is what its dylib commands name.                     *)
LEMMA LoadsOf ==
    ASSUME NEW s, IsCells(s.cmds)
    PROVE  Loads(s) = {c.dylib : c \in CmdsOf("dylib", s.cmds)}
<1>1. DOMAIN s.cmds = 1..Len(s.cmds)
  BY CellsAreSeq
<1> QED BY <1>1 DEF Loads, Places, CmdsOf

(* The same commands of the two kinds, the same place for the signature. *)
LEMMA SameLimit ==
    ASSUME NEW s, NEW t, GoodCmds(s.cmds), GoodCmds(t.cmds),
           CmdsOf("linkedit", s.cmds) = CmdsOf("linkedit", t.cmds),
           CmdsOf("codesig", s.cmds) = CmdsOf("codesig", t.cmds)
    PROVE  /\ CalculateCodeLimit(t) = CalculateCodeLimit(s)
           /\ HasCmd(t, "codesig") = HasCmd(s, "codesig")
           /\ HasCmd(s, "codesig") => Cmd(t, "codesig") = Cmd(s, "codesig")
           /\ Cmd(t, "linkedit") = Cmd(s, "linkedit")
<1>1. HasCmd(s, "linkedit") /\ HasCmd(t, "linkedit")
      /\ Cmd(t, "linkedit") = Cmd(s, "linkedit")
  <2>1. HasCmd(s, "linkedit") /\ HasCmd(t, "linkedit")
    BY LinkeditFound
  <2>2. CmdsOf("linkedit", s.cmds) = {Cmd(s, "linkedit")}
    BY LinkeditFound
  <2>3. CmdsOf("linkedit", t.cmds) = {Cmd(t, "linkedit")}
    BY LinkeditFound
  <2> QED BY <2>1, <2>2, <2>3
<1>2. HasCmd(t, "codesig") = HasCmd(s, "codesig")
  <2>1. HasCmd(s, "codesig") <=> CmdsOf("codesig", s.cmds) # {}
    BY FoundInSet
  <2>2. HasCmd(t, "codesig") <=> CmdsOf("codesig", t.cmds) # {}
    BY FoundInSet
  <2>3. HasCmd(s, "codesig") \in BOOLEAN /\ HasCmd(t, "codesig") \in BOOLEAN
    BY DEF HasCmd
  <2> QED BY <2>1, <2>2, <2>3
<1>3. HasCmd(s, "codesig") => Cmd(t, "codesig") = Cmd(s, "codesig")
  <2>1. HasCmd(s, "codesig") => CmdsOf("codesig", s.cmds) = {Cmd(s, "codesig")}
    BY FoundInSet
  <2>2. HasCmd(t, "codesig") => CmdsOf("codesig", t.cmds) = {Cmd(t, "codesig")}
    BY FoundInSet
  <2> QED BY <1>2, <2>1, <2>2
<1> QED BY <1>1, <1>2, <1>3 DEF CalculateCodeLimit

(* More commands: those of each kind are those of both. *)
LEMMA CmdsOfBoth ==
    ASSUME NEW kind, NEW a, NEW b, IsCells(a), IsCells(b)
    PROVE  CmdsOf(kind, a \o b) = CmdsOf(kind, a) \cup CmdsOf(kind, b)
<1>1. PICK c : c = a \o b
  OBVIOUS
<1>2. /\ Len(c) = Len(a) + Len(b) /\ Len(a) \in Nat /\ Len(b) \in Nat
      /\ \A k \in 1..Len(a) : c[k] = a[k]
      /\ \A k \in 1..Len(b) : c[Len(a) + k] = b[k]
  BY <1>1, Concatenated DEF IsCells
<1>3. ASSUME NEW k \in 1..Len(c), Is(kind, c[k])
      PROVE  c[k] \in CmdsOf(kind, a) \cup CmdsOf(kind, b)
  <2>1. CASE k <= Len(a)
    BY <1>2, <1>3, <2>1 DEF CmdsOf
  <2>2. CASE k > Len(a)
    <3>1. PICK q \in 1..Len(b) : k = Len(a) + q
      <4>1. k - Len(a) \in 1..Len(b) /\ k = Len(a) + (k - Len(a))
        BY <2>2, <1>2
      <4> QED BY <4>1
    <3>2. c[k] = b[q]
      BY <3>1, <1>2
    <3> QED BY <3>1, <3>2, <1>3 DEF CmdsOf
  <2> QED BY <2>1, <2>2, <1>2
<1>4. ASSUME NEW k \in 1..Len(a), Is(kind, a[k]) PROVE a[k] \in CmdsOf(kind, c)
  <2>1. k \in 1..Len(c) /\ c[k] = a[k]
    BY <1>2
  <2> QED BY <2>1, <1>4 DEF CmdsOf
<1>5. ASSUME NEW k \in 1..Len(b), Is(kind, b[k]) PROVE b[k] \in CmdsOf(kind, c)
  <2>1. PICK q \in 1..Len(c) : q = Len(a) + k
    BY <1>2
  <2>2. c[q] = b[k]
    BY <2>1, <1>2
  <2> QED BY <2>1, <2>2, <1>5 DEF CmdsOf
<1>6. CmdsOf(kind, c) \subseteq CmdsOf(kind, a) \cup CmdsOf(kind, b)
  BY <1>3 DEF CmdsOf
<1>7. CmdsOf(kind, a) \subseteq CmdsOf(kind, c) /\ CmdsOf(kind, b) \subseteq CmdsOf(kind, c)
  BY <1>4, <1>5 DEF CmdsOf
<1> QED BY <1>1, <1>6, <1>7

(* Commands behind others are well-formed with them, if no kind of which   *)
(* there is one comes twice.                                               *)
LEMMA GoodBoth ==
    ASSUME NEW a, NEW b, GoodCmds(a), IsCells(b),
           \A k \in 1..Len(b) : IsCommand(b[k]),
           \A kind \in {"linkedit", "codesig"} :
              /\ \A j, k \in 1..Len(b) : Is(kind, b[j]) /\ Is(kind, b[k]) => j = k
              /\ CmdsOf(kind, a) = {} \/ CmdsOf(kind, b) = {}
    PROVE  GoodCmds(a \o b)
<1>1. IsCells(a) /\ Len(a) \in Nat /\ Len(b) \in Nat
  BY DEF GoodCmds, IsCells
<1>2. PICK c : c = a \o b
  OBVIOUS
<1>3. /\ IsCells(c) /\ Len(c) = Len(a) + Len(b)
      /\ \A k \in 1..Len(a) : c[k] = a[k]
      /\ \A k \in 1..Len(b) : c[Len(a) + k] = b[k]
  BY <1>1, <1>2, Concatenated
<1>4. ASSUME NEW k \in 1..Len(c)
      PROVE  \/ k \in 1..Len(a) /\ c[k] = a[k]
             \/ \E q \in 1..Len(b) : k = Len(a) + q /\ c[k] = b[q]
  <2>1. CASE k <= Len(a)
    BY <1>1, <1>3, <2>1
  <2>2. CASE k > Len(a)
    <3>1. PICK q \in 1..Len(b) : k = Len(a) + q
      <4>1. k - Len(a) \in 1..Len(b) /\ k = Len(a) + (k - Len(a))
        BY <2>2, <1>1, <1>3
      <4> QED BY <4>1
    <3> QED BY <3>1, <1>3
  <2> QED BY <2>1, <2>2, <1>1
<1>5. \A k \in 1..Len(c) : IsCommand(c[k])
  BY <1>4 DEF GoodCmds
<1>6. ASSUME NEW kind \in {"linkedit", "codesig"}, NEW j \in 1..Len(c), NEW k \in 1..Len(c),
             Is(kind, c[j]), Is(kind, c[k])
      PROVE  j = k
  <2>1. CASE j \in 1..Len(a) /\ c[j] = a[j] /\ k \in 1..Len(a) /\ c[k] = a[k]
    BY <2>1, <1>6 DEF GoodCmds
  <2>2. ASSUME NEW p \in 1..Len(b), j = Len(a) + p, c[j] = b[p],
               NEW q \in 1..Len(b), k = Len(a) + q, c[k] = b[q]
        PROVE  j = k
    BY <2>2, <1>6
  <2>3. ASSUME NEW p \in 1..Len(a), NEW q \in 1..Len(b), Is(kind, a[p]), Is(kind, b[q])
        PROVE  FALSE
    <3>1. a[p] \in CmdsOf(kind, a) /\ b[q] \in CmdsOf(kind, b)
      BY <2>3 DEF CmdsOf
    <3> QED BY <3>1
  <2>4. \/ j \in 1..Len(a) /\ c[j] = a[j]
        \/ \E q \in 1..Len(b) : j = Len(a) + q /\ c[j] = b[q]
    BY <1>4
  <2>5. \/ k \in 1..Len(a) /\ c[k] = a[k]
        \/ \E q \in 1..Len(b) : k = Len(a) + q /\ c[k] = b[q]
    BY <1>4
  <2> QED BY <2>1, <2>2, <2>3, <2>4, <2>5, <1>6
<1>7. \E j \in 1..Len(c) : Is("linkedit", c[j])
  <2>1. PICK j \in 1..Len(a) : Is("linkedit", a[j])
    BY DEF GoodCmds
  <2>2. j \in 1..Len(c) /\ c[j] = a[j]
    BY <1>1, <1>3
  <2> QED BY <2>1, <2>2
<1>8. GoodCmds(c)
  BY <1>3, <1>5, <1>6, <1>7 DEF GoodCmds
<1> QED BY <1>2, <1>8

(* Another command of the same kind in the place of one. *)
LEMMA Replaced ==
    ASSUME NEW cmds, GoodCmds(cmds), NEW kind \in {"linkedit", "codesig"},
           NEW j \in 1..Len(cmds), Is(kind, cmds[j]),
           NEW c, IsCommand(c), Is(kind, c),
           NEW new, new = [cmds EXCEPT ![j] = c]
    PROVE  /\ GoodCmds(new) /\ Len(new) = Len(cmds) /\ CmdsOf(kind, new) = {c}
           /\ \A other \in {"linkedit", "codesig", "dylib"} \ {kind} :
                 CmdsOf(other, new) = CmdsOf(other, cmds)
<1>1. Len(cmds) \in Nat /\ cmds = [k \in 1..Len(cmds) |-> cmds[k]]
  BY DEF GoodCmds, IsCells
<1>2. new = [k \in 1..Len(cmds) |-> IF k = j THEN c ELSE cmds[k]]
  BY <1>1
<1>3. new = [k \in 1..Len(cmds) |-> new[k]]
  BY <1>2
<1>4. IsCells(new) /\ Len(new) = Len(cmds)
  BY <1>1, <1>3, LengthOf
<1>5. new[j] = c /\ \A k \in 1..Len(cmds) : k # j => new[k] = cmds[k]
  BY <1>2
<1>6. \A other \in {"linkedit", "codesig", "dylib"} \ {kind} :
         ~Is(other, c) /\ ~Is(other, cmds[j])
  BY DEF Is, IsCommand, GoodCmds
<1>7. \A k \in 1..Len(cmds) : IsCommand(new[k])
  BY <1>5 DEF GoodCmds
<1>8. \A other \in {"linkedit", "codesig", "dylib"}, k \in 1..Len(cmds) :
         Is(other, new[k]) = Is(other, cmds[k])
  <2> SUFFICES ASSUME NEW other \in {"linkedit", "codesig", "dylib"}, NEW k \in 1..Len(cmds)
               PROVE  Is(other, new[k]) = Is(other, cmds[k])
    OBVIOUS
  <2>1. CASE k # j
    BY <2>1, <1>5
  <2>2. CASE k = j /\ other = kind
    BY <2>2, <1>5 DEF Is
  <2>3. CASE k = j /\ other # kind
    BY <2>3, <1>5, <1>6 DEF Is
  <2> QED BY <2>1, <2>2, <2>3
<1>9. GoodCmds(new)
  <2>1. \A k1 \in {"linkedit", "codesig"} : \A i, k \in 1..Len(cmds) :
           Is(k1, new[i]) /\ Is(k1, new[k]) => i = k
    BY <1>8 DEF GoodCmds
  <2>2. \E k \in 1..Len(cmds) : Is("linkedit", new[k])
    BY <1>8 DEF GoodCmds
  <2> QED BY <1>4, <1>7, <2>1, <2>2 DEF GoodCmds
<1>10. CmdsOf(kind, new) = {c}
  <2>1. \A k \in 1..Len(cmds) : Is(kind, new[k]) => k = j
    BY <1>8 DEF GoodCmds
  <2>2. Is(kind, new[j])
    BY <1>5
  <2> QED BY <2>1, <2>2, <1>4, <1>5 DEF CmdsOf
<1>11. ASSUME NEW other \in {"linkedit", "codesig", "dylib"} \ {kind}
       PROVE  CmdsOf(other, new) = CmdsOf(other, cmds)
  <2>1. \A k \in 1..Len(cmds) : Is(other, new[k]) = Is(other, cmds[k])
    BY <1>8
  <2>2. \A k \in 1..Len(cmds) : Is(other, cmds[k]) => k # j
    BY <1>6
  <2> QED BY <2>1, <2>2, <1>4, <1>5 DEF CmdsOf
<1> QED BY <1>4, <1>9, <1>10, <1>11

-----------------------------------------------------------------------------
(* The editor: what each edit does to a slice. *)

(* A command that loads a dylib is of no other kind.                       *)
LEMMA DylibIsCommand ==
    \A name : /\ IsCommand(Dylib(name)) /\ Is("dylib", Dylib(name))
              /\ ~Is("linkedit", Dylib(name)) /\ ~Is("codesig", Dylib(name))
              /\ Dylib(name).dylib = name
  BY DEF IsCommand, Dylib, Is

(* The slice t is s with other commands, of which none says other than     *)
(* before where the signature is.                                          *)
Edited(t, s, cmds) ==
    /\ GoodSlice(t) /\ t.offset = s.offset /\ t.size = s.size /\ t.cmds = cmds
    /\ CalculateCodeLimit(t) = CalculateCodeLimit(s)
    /\ HasCmd(t, "codesig") = HasCmd(s, "codesig")

(* New commands that leave __LINKEDIT and the signature alone make a well- *)
(* formed slice.                                                           *)
LEMMA EditedSlice ==
    ASSUME NEW s, GoodSlice(s), NEW cmds, GoodCmds(cmds),
           CmdsOf("linkedit", s.cmds) = CmdsOf("linkedit", cmds),
           CmdsOf("codesig", s.cmds) = CmdsOf("codesig", cmds),
           NEW t, t = [s EXCEPT !.cmds = cmds, !.ncmds = Len(cmds)]
    PROVE  Edited(t, s, cmds)
<1>1. /\ t = [offset |-> s.offset, size |-> s.size, ncmds |-> Len(cmds), cmds |-> cmds]
      /\ GoodCmds(s.cmds)
  BY DEF GoodSlice
<1>2. t.offset = s.offset /\ t.size = s.size /\ t.ncmds = Len(cmds) /\ t.cmds = cmds
  BY <1>1
<1>3. /\ CalculateCodeLimit(t) = CalculateCodeLimit(s)
      /\ HasCmd(t, "codesig") = HasCmd(s, "codesig")
  BY <1>1, <1>2, SameLimit
<1>4. t = [offset |-> t.offset, size |-> t.size, ncmds |-> t.ncmds, cmds |-> t.cmds]
  BY <1>1
<1> QED BY <1>2, <1>3, <1>4 DEF Edited, GoodSlice

(* Injecting adds what is asked for. *)
LEMMA Injected ==
    ASSUME NEW s, GoodSlice(s), NEW names, Len(names) \in Nat,
           NEW t, t = InjectAll(s, names)
    PROVE  /\ Edited(t, s, t.cmds) /\ t.ncmds = s.ncmds + Len(names)
           /\ Loads(t) = Loads(s) \cup {names[j] : j \in 1..Len(names)}
<1> DEFINE n == Len(names)
<1>1. PICK more : more = [i \in 1..n |-> Dylib(names[i])]
  OBVIOUS
<1>2. more = [i \in 1..n |-> more[i]] /\ \A i \in 1..n : more[i] = Dylib(names[i])
  BY <1>1
<1>3. IsCells(more) /\ Len(more) = n
  BY <1>2, LengthOf
<1>4. \A i \in 1..n : /\ IsCommand(more[i]) /\ Is("dylib", more[i])
                      /\ ~Is("linkedit", more[i]) /\ ~Is("codesig", more[i])
                      /\ more[i].dylib = names[i]
  BY <1>2, DylibIsCommand
<1>5. GoodCmds(s.cmds) /\ IsCells(s.cmds) /\ s.ncmds = Len(s.cmds)
  BY DEF GoodSlice, GoodCmds
<1>6. CmdsOf("linkedit", more) = {} /\ CmdsOf("codesig", more) = {}
  BY <1>3, <1>4 DEF CmdsOf
<1>7. PICK cmds : cmds = s.cmds \o more
  OBVIOUS
<1>8. GoodCmds(cmds)
  <2>1. \A kind \in {"linkedit", "codesig"} :
           /\ \A j, k \in 1..Len(more) : Is(kind, more[j]) /\ Is(kind, more[k]) => j = k
           /\ CmdsOf(kind, s.cmds) = {} \/ CmdsOf(kind, more) = {}
    BY <1>3, <1>4, <1>6
  <2>2. \A k \in 1..Len(more) : IsCommand(more[k])
    BY <1>3, <1>4
  <2> QED BY <2>1, <2>2, <1>3, <1>5, <1>7, GoodBoth
<1>9. /\ CmdsOf("linkedit", s.cmds) = CmdsOf("linkedit", cmds)
      /\ CmdsOf("codesig", s.cmds) = CmdsOf("codesig", cmds)
      /\ CmdsOf("dylib", cmds) = CmdsOf("dylib", s.cmds) \cup CmdsOf("dylib", more)
  <2>1. \A kind : CmdsOf(kind, cmds) = CmdsOf(kind, s.cmds) \cup CmdsOf(kind, more)
    BY <1>3, <1>5, <1>7, CmdsOfBoth
  <2> QED BY <2>1, <1>6
<1>10. Len(cmds) = s.ncmds + n
  <2>1. Len(s.cmds \o more) = Len(s.cmds) + Len(more)
    BY <1>3, <1>5, Concatenated
  <2> QED BY <2>1, <1>3, <1>5, <1>7
<1>11. t = [s EXCEPT !.cmds = cmds, !.ncmds = Len(cmds)]
  <2>1. s = [offset |-> s.offset, size |-> s.size, ncmds |-> s.ncmds, cmds |-> s.cmds]
    BY DEF GoodSlice
  <2>2. t = [s EXCEPT !.cmds = cmds, !.ncmds = s.ncmds + Len(more)]
    BY <2>1, <1>1, <1>7 DEF InjectAll, AppendCmds
  <2> QED BY <2>2, <1>3, <1>10
<1>12. Edited(t, s, cmds)
  BY <1>8, <1>9, <1>11, EditedSlice
<1>13. t.cmds = cmds /\ t.ncmds = s.ncmds + n
  BY <1>12, <1>10 DEF Edited, GoodSlice
<1>14. Loads(t) = Loads(s) \cup {names[j] : j \in 1..n}
  <2>1. {c.dylib : c \in CmdsOf("dylib", more)} = {names[j] : j \in 1..n}
    BY <1>3, <1>4 DEF CmdsOf
  <2>2. Loads(s) = {c.dylib : c \in CmdsOf("dylib", s.cmds)}
    BY <1>5, LoadsOf
  <2>3. Loads(t) = {c.dylib : c \in CmdsOf("dylib", cmds)}
    BY <1>8, <1>13, LoadsOf DEF GoodCmds
  <2> QED BY <2>1, <2>2, <2>3, <1>9
<1> QED BY <1>12, <1>13, <1>14

(* What is filtered out of the first n commands. *)
FilteredTo(out, cmds, n, e) ==
    /\ IsCells(out) /\ Len(out) <= n
    /\ {out[k] : k \in 1..Len(out)} = {cmds[j] : j \in {k \in 1..n : ~ShouldRemove(cmds[k], e)}}
    /\ \A kind \in {"linkedit", "codesig"} : \A j, k \in 1..Len(out) :
          Is(kind, out[j]) /\ Is(kind, out[k]) => j = k

(* One more command is taken over or left out.                             *)
LEMMA FilteredNext ==
    ASSUME NEW cmds, GoodCmds(cmds), NEW e, NEW n \in Nat, n + 1 <= Len(cmds),
           NEW out, FilteredTo(out, cmds, n, e)
    PROVE  FilteredTo(IF ShouldRemove(cmds[n + 1], e) THEN out ELSE Append(out, cmds[n + 1]),
                      cmds, n + 1, e)
<1>1. Len(cmds) \in Nat /\ Len(out) \in Nat /\ IsCells(out)
  BY DEF GoodCmds, IsCells, FilteredTo
<1>2. 1..(n + 1) = 1..n \cup {n + 1}
  BY <1>1
<1>3. CASE ShouldRemove(cmds[n + 1], e)
  <2>1. {k \in 1..(n + 1) : ~ShouldRemove(cmds[k], e)} = {k \in 1..n : ~ShouldRemove(cmds[k], e)}
    BY <1>2, <1>3
  <2>2. Len(out) <= n + 1
    BY <1>1 DEF FilteredTo
  <2> QED BY <2>1, <2>2, <1>3 DEF FilteredTo
<1>4. CASE ~ShouldRemove(cmds[n + 1], e)
  <2>1. PICK c : c = cmds[n + 1]
    OBVIOUS
  <2>2. PICK one : one = <<c>>
    OBVIOUS
  <2>3. IsCells(one) /\ Len(one) = 1 /\ one[1] = c
    BY <2>2, OneCell
  <2>4. PICK r : r = out \o one
    OBVIOUS
  <2>5. /\ IsCells(r) /\ Len(r) = Len(out) + 1
        /\ \A k \in 1..Len(out) : r[k] = out[k]
    BY <2>3, <2>4, <1>1, Concatenated
  <2>6. r[Len(out) + 1] = c
    <3>1. IsCells(one)
      BY <2>3
    <3>2. \A k \in 1..Len(one) : (out \o one)[Len(out) + k] = one[k]
      BY <3>1, <1>1, Concatenated
    <3>3. 1 \in 1..Len(one)
      BY <2>3
    <3>4. (out \o one)[Len(out) + 1] = one[1]
      BY <3>2, <3>3
    <3> QED BY <3>4, <2>3, <2>4
  <2>7. Append(out, c) = r
    <3> DEFINE S == {out[k] : k \in 1..Len(out)}
    <3>2. out \in Seq(S)
      BY <1>1, CellsAreSeq
    <3>1. out \in Seq(S \cup {c})
      <4> HIDE DEF S
      <4> QED BY <3>2, SeqMonotonic
    <3> QED BY <3>1, <2>2, <2>4, AppendIsConcat
  <2>8. {r[k] : k \in 1..Len(r)} = {out[k] : k \in 1..Len(out)} \cup {c}
    BY <2>5, <2>6, <1>1
  <2>9. {cmds[j] : j \in {k \in 1..(n + 1) : ~ShouldRemove(cmds[k], e)}}
          = {cmds[j] : j \in {k \in 1..n : ~ShouldRemove(cmds[k], e)}} \cup {c}
    BY <1>2, <1>4, <2>1
  <2>10. ASSUME NEW kind \in {"linkedit", "codesig"}, NEW j \in 1..Len(out),
                Is(kind, out[j]), Is(kind, c)
         PROVE  FALSE
    <3>1. PICK k \in 1..n : out[j] = cmds[k]
      BY DEF FilteredTo
    <3>2. k \in 1..Len(cmds) /\ n + 1 \in 1..Len(cmds) /\ k # n + 1
      BY <1>1
    <3> QED BY <3>1, <3>2, <2>1, <2>10 DEF GoodCmds
  <2>11. \A kind \in {"linkedit", "codesig"} : \A j, k \in 1..Len(r) :
            Is(kind, r[j]) /\ Is(kind, r[k]) => j = k
    <3> SUFFICES ASSUME NEW kind \in {"linkedit", "codesig"}, NEW j \in 1..Len(r),
                        NEW k \in 1..Len(r), Is(kind, r[j]), Is(kind, r[k])
                 PROVE  j = k
      OBVIOUS
    <3>1. j \in 1..Len(out) \/ j = Len(out) + 1
      BY <1>1, <2>5
    <3>2. k \in 1..Len(out) \/ k = Len(out) + 1
      BY <1>1, <2>5
    <3>3. CASE j \in 1..Len(out) /\ k \in 1..Len(out)
      BY <3>3, <2>5 DEF FilteredTo
    <3>4. CASE j \in 1..Len(out) /\ k = Len(out) + 1
      BY <3>4, <2>5, <2>6, <2>10
    <3>5. CASE k \in 1..Len(out) /\ j = Len(out) + 1
      BY <3>5, <2>5, <2>6, <2>10
    <3> QED BY <3>1, <3>2, <3>3, <3>4, <3>5
  <2>12. Len(r) <= n + 1
    BY <1>1, <2>5 DEF FilteredTo
  <2>13. FilteredTo(r, cmds, n + 1, e)
    BY <2>5, <2>8, <2>9, <2>11, <2>12 DEF FilteredTo
  <2> QED BY <2>1, <2>7, <2>13, <1>4
<1> QED BY <1>3, <1>4

(* There is a function like the one that Filtered defines.                 *)
IsFilter(f, cmds, e) ==
    f = [i \in 0..Len(cmds) |->
            IF i = 0 THEN <<>>
            ELSE IF ShouldRemove(cmds[i], e) THEN f[i - 1]
            ELSE Append(f[i - 1], cmds[i])]

(* The loop of Remove ends with some list.                                 *)
LEMMA FilteredExists ==
    ASSUME NEW cmds, GoodCmds(cmds), NEW e
    PROVE  \E f : IsFilter(f, cmds, e)
<1> DEFINE Step(f, i) == IF i = 0 THEN <<>>
                         ELSE IF ShouldRemove(cmds[i], e) THEN f[i - 1]
                         ELSE Append(f[i - 1], cmds[i])
           FilterTo(f, n) == f = [i \in 0..n |-> Step(f, i)]
           S == {n \in Nat : \E f : FilterTo(f, n)}
<1>1. 0 \in S
  <2>1. FilterTo([i \in 0..0 |-> <<>>], 0)
    OBVIOUS
  <2> QED BY <2>1
<1>2. ASSUME NEW n \in Nat, n \in S PROVE n + 1 \in S
  <2>1. PICK f : FilterTo(f, n)
    BY <1>2
  <2>2. PICK g : g = [i \in 0..(n + 1) |-> IF i <= n THEN f[i] ELSE Step(f, n + 1)]
    OBVIOUS
  <2>3. \A i \in 0..(n + 1) : g[i] = Step(g, i)
    <3> SUFFICES ASSUME NEW i \in 0..(n + 1) PROVE g[i] = Step(g, i)
      OBVIOUS
    <3>1. CASE i <= n
      <4>3. g[i] = f[i] /\ i \in 0..n
        BY <2>2, <3>1
      <4>4. f[i] = Step(f, i)
        <5>1. f = [k \in 0..n |-> Step(f, k)]
          BY <2>1
        <5> HIDE DEF Step
        <5> QED BY <5>1, <4>3
      <4>1. g[i] = f[i] /\ f[i] = Step(f, i)
        BY <4>3, <4>4
      <4>2. i # 0 => g[i - 1] = f[i - 1]
        BY <2>2, <3>1
      <4> QED BY <4>1, <4>2
    <3>2. CASE i = n + 1
      <4>1. g[i] = Step(f, n + 1) /\ i # 0 /\ g[i - 1] = f[n] /\ i - 1 = n
        BY <2>2, <3>2
      <4> QED BY <4>1, <3>2
    <3> QED BY <3>1, <3>2
  <2>4. FilterTo(g, n + 1)
    BY <2>2, <2>3
  <2> QED BY <2>4
<1>3. Len(cmds) \in S
  <2>1. Nat \subseteq S
    <3> HIDE DEF S
    <3> QED BY <1>1, <1>2, Induction
  <2> QED BY <2>1 DEF GoodCmds, IsCells
<1> QED BY <1>3 DEF IsFilter

(* Filtered leaves out what is to be removed, and only that.               *)
LEMMA FilteredIs ==
    ASSUME NEW cmds, GoodCmds(cmds), NEW e
    PROVE  FilteredTo(Filtered(cmds, e), cmds, Len(cmds), e)
<1> DEFINE f == CHOOSE g : IsFilter(g, cmds, e)
           S == {n \in Nat : n <= Len(cmds) => FilteredTo(f[n], cmds, n, e)}
<1>7. IsFilter(f, cmds, e)
  BY FilteredExists
<1>1. f = [i \in 0..Len(cmds) |->
              IF i = 0 THEN <<>>
              ELSE IF ShouldRemove(cmds[i], e) THEN f[i - 1]
              ELSE Append(f[i - 1], cmds[i])]
  <2> HIDE DEF f
  <2> QED BY <1>7 DEF IsFilter
<1>2. Filtered(cmds, e) = f[Len(cmds)]
  BY DEF Filtered, IsFilter
<1>3. Len(cmds) \in Nat
  BY DEF GoodCmds, IsCells
<1> HIDE DEF f
<1>4. 0 \in S
  <2>1. f[0] = <<>>
    BY <1>1, <1>3
  <2>2. IsCells(f[0]) /\ Len(f[0]) = 0
    BY <2>1, NoCells
  <2> QED BY <2>2 DEF FilteredTo
<1>5. ASSUME NEW n \in Nat, n \in S PROVE n + 1 \in S
  <2> SUFFICES ASSUME n + 1 <= Len(cmds) PROVE FilteredTo(f[n + 1], cmds, n + 1, e)
    OBVIOUS
  <2>1. FilteredTo(f[n], cmds, n, e)
    BY <1>3, <1>5
  <2>2. f[n + 1] = IF ShouldRemove(cmds[n + 1], e) THEN f[n] ELSE Append(f[n], cmds[n + 1])
    <3>1. n + 1 \in 0..Len(cmds) /\ n + 1 # 0 /\ (n + 1) - 1 = n
      BY <1>3
    <3> QED BY <1>1, <3>1
  <2> QED BY <2>1, <2>2, FilteredNext
<1>6. Nat \subseteq S
  <2> HIDE DEF S
  <2> QED BY <1>4, <1>5, Induction
<1> QED BY <1>2, <1>3, <1>6

(* Removing takes the loads that are to be removed, and nothing else. *)
LEMMA Removed ==
    ASSUME NEW s, GoodSlice(s), NEW e, NEW t, t = Remove(s, e)
    PROVE  /\ Edited(t, s, t.cmds) /\ t.ncmds <= s.ncmds
           /\ Loads(t) = {d \in Loads(s) : ~ShouldRemove(Dylib(d), e)}
<1>1. GoodCmds(s.cmds) /\ IsCells(s.cmds) /\ s.ncmds = Len(s.cmds)
  BY DEF GoodSlice, GoodCmds
<1>2. PICK cmds : cmds = Filtered(s.cmds, e)
  OBVIOUS
<1>3. FilteredTo(cmds, s.cmds, Len(s.cmds), e)
  BY <1>1, <1>2, FilteredIs
<1>4. Len(s.cmds) \in Nat /\ Len(cmds) \in Nat /\ IsCells(cmds)
  BY <1>1, <1>3 DEF FilteredTo, IsCells
<1>5. \A k \in 1..Len(cmds) : \E j \in 1..Len(s.cmds) :
         cmds[k] = s.cmds[j] /\ ~ShouldRemove(s.cmds[j], e)
  BY <1>3 DEF FilteredTo
<1>6. \A j \in 1..Len(s.cmds) : ~ShouldRemove(s.cmds[j], e) =>
         \E k \in 1..Len(cmds) : cmds[k] = s.cmds[j]
  BY <1>3 DEF FilteredTo
<1>7. \A kind : CmdsOf(kind, cmds) = {c \in CmdsOf(kind, s.cmds) : ~ShouldRemove(c, e)}
  <2> TAKE kind
  <2>1. \A c \in CmdsOf(kind, cmds) : c \in CmdsOf(kind, s.cmds) /\ ~ShouldRemove(c, e)
    BY <1>5 DEF CmdsOf
  <2>2. \A c \in CmdsOf(kind, s.cmds) : ~ShouldRemove(c, e) => c \in CmdsOf(kind, cmds)
    BY <1>6 DEF CmdsOf
  <2> QED BY <2>1, <2>2
<1>8. \A kind \in {"linkedit", "codesig"} : \A c \in CmdsOf(kind, s.cmds) : ~ShouldRemove(c, e)
  BY <1>1 DEF CmdsOf, GoodCmds, IsCommand, ShouldRemove, Is
<1>9. /\ CmdsOf("linkedit", s.cmds) = CmdsOf("linkedit", cmds)
      /\ CmdsOf("codesig", s.cmds) = CmdsOf("codesig", cmds)
  BY <1>7, <1>8
<1>10. GoodCmds(cmds)
  <2>1. \A k \in 1..Len(cmds) : IsCommand(cmds[k])
    BY <1>1, <1>5 DEF GoodCmds
  <2>2. \E j \in 1..Len(cmds) : Is("linkedit", cmds[j])
    <3>1. CmdsOf("linkedit", cmds) # {}
      <4>1. CmdsOf("linkedit", s.cmds) # {}
        BY <1>1 DEF GoodCmds, CmdsOf
      <4> QED BY <4>1, <1>9
    <3> QED BY <3>1 DEF CmdsOf
  <2> QED BY <1>3, <2>1, <2>2 DEF FilteredTo, GoodCmds
<1>11. t = [s EXCEPT !.cmds = cmds, !.ncmds = Len(cmds)]
  <2>1. s = [offset |-> s.offset, size |-> s.size, ncmds |-> s.ncmds, cmds |-> s.cmds]
    BY DEF GoodSlice
  <2>2. s.ncmds - (Len(s.cmds) - Len(cmds)) = Len(cmds)
    BY <1>1, <1>4
  <2>3. t = [s EXCEPT !.cmds = cmds, !.ncmds = s.ncmds - (Len(s.cmds) - Len(cmds))]
    BY <2>1, <1>2 DEF Remove
  <2> QED BY <2>2, <2>3
<1>12. Edited(t, s, cmds)
  BY <1>9, <1>10, <1>11, EditedSlice
<1>13. t.cmds = cmds /\ t.ncmds = Len(cmds)
  BY <1>12 DEF Edited, GoodSlice
<1>14. Loads(t) = {d \in Loads(s) : ~ShouldRemove(Dylib(d), e)}
  <2>1. Loads(s) = {c.dylib : c \in CmdsOf("dylib", s.cmds)}
    BY <1>1, LoadsOf
  <2>2. Loads(t) = {c.dylib : c \in CmdsOf("dylib", cmds)}
    BY <1>4, <1>13, LoadsOf
  <2>3. \A c \in CmdsOf("dylib", s.cmds) : ShouldRemove(c, e) = ShouldRemove(Dylib(c.dylib), e)
    BY DEF CmdsOf, ShouldRemove, Dylib, Is
  <2> QED BY <2>1, <2>2, <2>3, <1>7
<1> QED BY <1>3, <1>1, <1>12, <1>13, <1>14 DEF FilteredTo

(* A signature command for this place and size. *)
LEMMA SignatureSet ==
    ASSUME NEW s, GoodSlice(s), NEW off \in Nat, NEW size \in Nat, off <= s.size,
           NEW t, t = SetCodeSignatureCmd(s, off, size)
    PROVE  /\ GoodSlice(t) /\ t.offset = s.offset /\ t.size = s.size
           /\ HasCmd(t, "codesig") /\ Cmd(t, "codesig") = CodeSig(off, size)
           /\ CalculateCodeLimit(t) = off /\ Loads(t) = Loads(s)
           /\ Cmd(t, "linkedit") = Cmd(s, "linkedit")
           /\ t.ncmds = s.ncmds + (IF HasCmd(s, "codesig") THEN 0 ELSE 1)
<1> DEFINE c == CodeSig(off, size)
<1>1. GoodCmds(s.cmds) /\ IsCells(s.cmds) /\ s.ncmds = Len(s.cmds) /\ Len(s.cmds) \in Nat
      /\ s = [offset |-> s.offset, size |-> s.size, ncmds |-> s.ncmds, cmds |-> s.cmds]
  BY DEF GoodSlice, GoodCmds, IsCells
<1>2. /\ IsCommand(c) /\ Is("codesig", c) /\ c.codesig = off
      /\ ~Is("linkedit", c) /\ ~Is("dylib", c)
  BY DEF IsCommand, CodeSig, Is
<1> HIDE DEF c
<1>3. \E cmds : /\ GoodCmds(cmds) /\ CmdsOf("codesig", cmds) = {c}
                /\ CmdsOf("linkedit", cmds) = CmdsOf("linkedit", s.cmds)
                /\ CmdsOf("dylib", cmds) = CmdsOf("dylib", s.cmds)
                /\ Len(cmds) = s.ncmds + (IF HasCmd(s, "codesig") THEN 0 ELSE 1)
                /\ t = [s EXCEPT !.cmds = cmds, !.ncmds = Len(cmds)]
  <2>1. CASE HasCmd(s, "codesig")
    <3>1. PICK j \in 1..Len(s.cmds) : Is("codesig", s.cmds[j])
      <4>1. DOMAIN s.cmds = 1..Len(s.cmds)
        BY <1>1, CellsAreSeq
      <4> QED BY <4>1, <2>1 DEF HasCmd, Places
    <3>2. Min(Places(s, "codesig")) = j
      BY <1>1, <3>1, Found
    <3>3. PICK new : new = [s.cmds EXCEPT ![j] = c]
      OBVIOUS
    <3>4. /\ GoodCmds(new) /\ Len(new) = Len(s.cmds) /\ CmdsOf("codesig", new) = {c}
          /\ \A other \in {"linkedit", "codesig", "dylib"} \ {"codesig"} :
                CmdsOf(other, new) = CmdsOf(other, s.cmds)
      BY <1>1, <1>2, <3>1, <3>3, Replaced
    <3>5. t = [s EXCEPT !.cmds = new]
      BY <2>1, <3>2, <3>3, <1>1 DEF SetCodeSignatureCmd, c
    <3>6. t = [s EXCEPT !.cmds = new, !.ncmds = Len(new)]
      BY <3>4, <3>5, <1>1
    <3>7. CmdsOf("linkedit", new) = CmdsOf("linkedit", s.cmds)
      BY <3>4
    <3>8. CmdsOf("dylib", new) = CmdsOf("dylib", s.cmds)
      BY <3>4
    <3>9. Len(new) = s.ncmds + (IF HasCmd(s, "codesig") THEN 0 ELSE 1)
      BY <3>4, <2>1, <1>1
    <3> QED BY <3>4, <3>6, <3>7, <3>8, <3>9
  <2>2. CASE ~HasCmd(s, "codesig")
    <3>1. PICK one : one = <<c>>
      OBVIOUS
    <3>2. IsCells(one) /\ Len(one) = 1 /\ one[1] = c
      BY <3>1, OneCell
    <3>3. PICK new : new = s.cmds \o one
      OBVIOUS
    <3>4. Len(new) = s.ncmds + 1
      <4>1. Len(s.cmds \o one) = Len(s.cmds) + Len(one)
        BY <1>1, <3>2, Concatenated
      <4> QED BY <4>1, <3>2, <3>3, <1>1
    <3>5. CmdsOf("codesig", one) = {c} /\ CmdsOf("linkedit", one) = {} /\ CmdsOf("dylib", one) = {}
      <4>1. 1..Len(one) = {1}
        BY <3>2
      <4> QED BY <4>1, <3>2, <1>2 DEF CmdsOf
    <3>6. CmdsOf("codesig", s.cmds) = {}
      BY <1>1, <2>2, FoundInSet
    <3>7. GoodCmds(new)
      <4>1. \A kind \in {"linkedit", "codesig"} :
               /\ \A j, k \in 1..Len(one) : Is(kind, one[j]) /\ Is(kind, one[k]) => j = k
               /\ CmdsOf(kind, s.cmds) = {} \/ CmdsOf(kind, one) = {}
        BY <3>2, <3>5, <3>6
      <4>2. \A k \in 1..Len(one) : IsCommand(one[k])
        BY <3>2, <1>2
      <4> QED BY <4>1, <4>2, <3>2, <3>3, <1>1, GoodBoth
    <3>8. \A kind : CmdsOf(kind, new) = CmdsOf(kind, s.cmds) \cup CmdsOf(kind, one)
      BY <3>2, <3>3, <1>1, CmdsOfBoth
    <3>9. t = [s EXCEPT !.cmds = new, !.ncmds = s.ncmds + Len(one)]
      BY <2>2, <3>1, <3>3, <1>1 DEF SetCodeSignatureCmd, AppendCmds, c
    <3>10. t = [s EXCEPT !.cmds = new, !.ncmds = Len(new)]
      BY <3>9, <3>4, <3>2
    <3>11. /\ CmdsOf("codesig", new) = {c} /\ CmdsOf("linkedit", new) = CmdsOf("linkedit", s.cmds)
           /\ CmdsOf("dylib", new) = CmdsOf("dylib", s.cmds)
      BY <3>5, <3>6, <3>8
    <3> QED BY <3>4, <3>7, <3>10, <3>11, <2>2
  <2> QED BY <2>1, <2>2
<1>4. PICK cmds : /\ GoodCmds(cmds) /\ CmdsOf("codesig", cmds) = {c}
                  /\ CmdsOf("linkedit", cmds) = CmdsOf("linkedit", s.cmds)
                  /\ CmdsOf("dylib", cmds) = CmdsOf("dylib", s.cmds)
                  /\ Len(cmds) = s.ncmds + (IF HasCmd(s, "codesig") THEN 0 ELSE 1)
                  /\ t = [s EXCEPT !.cmds = cmds, !.ncmds = Len(cmds)]
  BY <1>3
<1>5. t = [offset |-> s.offset, size |-> s.size, ncmds |-> Len(cmds), cmds |-> cmds]
  BY <1>1, <1>4
<1>6. t.offset = s.offset /\ t.size = s.size /\ t.ncmds = Len(cmds) /\ t.cmds = cmds
      /\ t = [offset |-> t.offset, size |-> t.size, ncmds |-> t.ncmds, cmds |-> t.cmds]
  BY <1>5
<1>7. HasCmd(t, "codesig") /\ Cmd(t, "codesig") = c
  <2>1. GoodCmds(t.cmds) /\ c \in CmdsOf("codesig", t.cmds)
    BY <1>4, <1>6
  <2>2. HasCmd(t, "codesig") <=> CmdsOf("codesig", t.cmds) # {}
    BY <2>1, FoundInSet
  <2>3. \A x \in CmdsOf("codesig", t.cmds) : Cmd(t, "codesig") = x
    BY <2>1, FoundInSet
  <2> QED BY <2>1, <2>2, <2>3
<1>8. Cmd(t, "linkedit") = Cmd(s, "linkedit")
  <2>1. CmdsOf("linkedit", t.cmds) = {Cmd(t, "linkedit")}
    BY <1>4, <1>6, LinkeditFound
  <2>2. CmdsOf("linkedit", s.cmds) = {Cmd(s, "linkedit")}
    BY <1>1, LinkeditFound
  <2> QED BY <2>1, <2>2, <1>4, <1>6
<1>9. CalculateCodeLimit(t) = off
  BY <1>7, <1>2 DEF CalculateCodeLimit
<1>10. Loads(t) = Loads(s)
  <2>1. Loads(t) = {x.dylib : x \in CmdsOf("dylib", cmds)}
    BY <1>4, <1>6, LoadsOf DEF GoodCmds
  <2>2. Loads(s) = {x.dylib : x \in CmdsOf("dylib", s.cmds)}
    BY <1>1, LoadsOf
  <2> QED BY <2>1, <2>2, <1>4
<1>11. GoodSlice(t)
  BY <1>4, <1>6, <1>9 DEF GoodSlice
<1> QED BY <1>4, <1>6, <1>7, <1>8, <1>9, <1>10, <1>11 DEF c

(* The commands say where a signature of this size ends. *)
Final(s, size) ==
    /\ HasCmd(s, "codesig") /\ Cmd(s, "codesig").size = size
    /\ Cmd(s, "linkedit").linkedit + Cmd(s, "linkedit").size
         = CalculateCodeLimit(s) + size

(* With its final sizes a slice is the same but for what the commands say. *)
LEMMA FinalSliceOf ==
    ASSUME NEW s, GoodSlice(s), HasCmd(s, "codesig"), NEW size \in Nat,
           NEW t, t = FinalSlice(s, size)
    PROVE  /\ GoodSlice(t) /\ t.offset = s.offset /\ t.size = s.size
           /\ t.ncmds = s.ncmds /\ Loads(t) = Loads(s)
           /\ CalculateCodeLimit(t) = CalculateCodeLimit(s) /\ Final(t, size)
<1> DEFINE limit == CalculateCodeLimit(s)
<1>1. limit \in Nat /\ limit <= s.size
  BY DEF GoodSlice
<1>2. PICK u : u = SetCodeSignatureCmd(s, limit, size)
  OBVIOUS
<1>3. /\ GoodSlice(u) /\ u.offset = s.offset /\ u.size = s.size
      /\ HasCmd(u, "codesig") /\ Cmd(u, "codesig") = CodeSig(limit, size)
      /\ Loads(u) = Loads(s) /\ u.ncmds = s.ncmds + (IF HasCmd(s, "codesig") THEN 0 ELSE 1)
  BY <1>1, <1>2, SignatureSet
<1>4. s.ncmds \in Nat
  BY DEF GoodSlice, GoodCmds, IsCells
<1>5. GoodCmds(u.cmds) /\ IsCells(u.cmds) /\ u.ncmds = Len(u.cmds) /\ u.ncmds = s.ncmds
      /\ u = [offset |-> u.offset, size |-> u.size, ncmds |-> u.ncmds, cmds |-> u.cmds]
  BY <1>3, <1>4 DEF GoodSlice, GoodCmds
<1>6. PICK j \in 1..Len(u.cmds) : Is("linkedit", u.cmds[j])
  BY <1>5 DEF GoodCmds
<1>7. HasCmd(u, "linkedit") /\ Min(Places(u, "linkedit")) = j /\ Cmd(u, "linkedit") = u.cmds[j]
  BY <1>5, <1>6, Found
<1>8. PICK off \in Nat : off = u.cmds[j].linkedit
  BY <1>5, <1>6 DEF GoodCmds, IsCommand
<1>9. PICK c : c = Linkedit(off, limit + size - off)
  OBVIOUS
<1>10. /\ IsCommand(c) /\ Is("linkedit", c) /\ c.linkedit + c.size = limit + size
  <2>1. limit + size - off \in Int
    BY <1>1
  <2>2. DOMAIN c = {"linkedit", "size"} /\ c.linkedit = off /\ c.size = limit + size - off
    BY <1>9 DEF Linkedit
  <2> QED BY <2>1, <2>2, <1>1 DEF IsCommand, Is
<1>11. PICK new : new = [u.cmds EXCEPT ![j] = c]
  OBVIOUS
<1>12. /\ GoodCmds(new) /\ Len(new) = Len(u.cmds) /\ CmdsOf("linkedit", new) = {c}
       /\ \A other \in {"linkedit", "codesig", "dylib"} \ {"linkedit"} :
             CmdsOf(other, new) = CmdsOf(other, u.cmds)
  <2>1. GoodCmds(u.cmds) /\ IsCommand(c) /\ Is("linkedit", c)
    BY <1>5, <1>10
  <2> QED BY <2>1, <1>6, <1>11, Replaced
<1>13. CmdsOf("codesig", new) = CmdsOf("codesig", u.cmds)
  BY <1>12
<1>14. CmdsOf("dylib", new) = CmdsOf("dylib", u.cmds)
  BY <1>12
<1>15. t = [u EXCEPT !.cmds = new]
  BY <1>2, <1>7, <1>8, <1>9, <1>11 DEF FinalSlice, UpdateLinkedit
<1>16. t = [offset |-> u.offset, size |-> u.size, ncmds |-> u.ncmds, cmds |-> new]
  BY <1>5, <1>15
<1>17. t.offset = s.offset /\ t.size = s.size /\ t.ncmds = s.ncmds /\ t.cmds = new
       /\ t = [offset |-> t.offset, size |-> t.size, ncmds |-> t.ncmds, cmds |-> t.cmds]
  BY <1>16, <1>3, <1>5
<1>18. Cmd(t, "linkedit") = c
  <2>1. CmdsOf("linkedit", t.cmds) = {Cmd(t, "linkedit")}
    BY <1>12, <1>17, LinkeditFound
  <2> QED BY <2>1, <1>12, <1>17
<1>19. HasCmd(t, "codesig") /\ Cmd(t, "codesig") = CodeSig(limit, size)
  <2>1. CmdsOf("codesig", u.cmds) = {CodeSig(limit, size)}
    BY <1>3, <1>5, CodeSigFound
  <2>2. HasCmd(t, "codesig") <=> CmdsOf("codesig", t.cmds) # {}
    BY <1>12, <1>17, FoundInSet
  <2>3. \A x \in CmdsOf("codesig", t.cmds) : Cmd(t, "codesig") = x
    BY <1>12, <1>17, FoundInSet
  <2> QED BY <2>1, <2>2, <2>3, <1>13, <1>17
<1>20. CodeSig(limit, size).codesig = limit /\ CodeSig(limit, size).size = size
  BY DEF CodeSig
<1>21. CalculateCodeLimit(t) = limit
  BY <1>19, <1>20 DEF CalculateCodeLimit
<1>22. Final(t, size)
  BY <1>10, <1>18, <1>19, <1>20, <1>21 DEF Final
<1>23. Loads(t) = Loads(s)
  <2>1. Loads(t) = {x.dylib : x \in CmdsOf("dylib", new)}
    BY <1>12, <1>17, LoadsOf DEF GoodCmds
  <2>2. Loads(u) = {x.dylib : x \in CmdsOf("dylib", u.cmds)}
    BY <1>5, LoadsOf
  <2> QED BY <2>1, <2>2, <1>3, <1>14
<1>24. GoodSlice(t)
  <2>1. t.ncmds = Len(t.cmds)
    BY <1>12, <1>17, <1>5
  <2>2. t.offset \in Nat /\ t.size \in Nat
    BY <1>17 DEF GoodSlice
  <2> QED BY <2>1, <2>2, <1>1, <1>12, <1>17, <1>21 DEF GoodSlice
<1> QED BY <1>17, <1>21, <1>22, <1>23, <1>24

(* What modifyDylibs makes of a slice. *)
LEMMA ModifiedSlice ==
    ASSUME NEW s, GoodSlice(s), NEW e, Len(e.inject) \in Nat, DOMAIN e.inject = 1..Len(e.inject),
           NEW t, t = InjectAll(Remove(s, e), e.inject)
    PROVE  /\ Edited(t, s, t.cmds) /\ t.ncmds <= s.ncmds + Len(e.inject)
           /\ Loads(t) = {d \in Loads(s) : ~ShouldRemove(Dylib(d), e)}
                           \cup {e.inject[j] : j \in DOMAIN e.inject}
<1>1. PICK u : u = Remove(s, e)
  OBVIOUS
<1>2. /\ Edited(u, s, u.cmds) /\ u.ncmds <= s.ncmds
      /\ Loads(u) = {d \in Loads(s) : ~ShouldRemove(Dylib(d), e)}
  BY <1>1, Removed
<1>3. /\ GoodSlice(u) /\ u.offset = s.offset /\ u.size = s.size
      /\ CalculateCodeLimit(u) = CalculateCodeLimit(s)
      /\ HasCmd(u, "codesig") = HasCmd(s, "codesig")
  BY <1>2 DEF Edited
<1>4. /\ Edited(t, u, t.cmds) /\ t.ncmds = u.ncmds + Len(e.inject)
      /\ Loads(t) = Loads(u) \cup {e.inject[j] : j \in 1..Len(e.inject)}
  <2>1. PICK names : names = e.inject
    OBVIOUS
  <2>2. Len(names) \in Nat /\ t = InjectAll(u, names)
    BY <1>1, <2>1
  <2>3. /\ Edited(t, u, t.cmds) /\ t.ncmds = u.ncmds + Len(names)
        /\ Loads(t) = Loads(u) \cup {names[j] : j \in 1..Len(names)}
    BY <1>3, <2>2, Injected
  <2> QED BY <2>1, <2>3
<1>5. u.ncmds \in Nat /\ s.ncmds \in Nat
  BY <1>3 DEF GoodSlice, GoodCmds, IsCells
<1> QED BY <1>2, <1>3, <1>4, <1>5 DEF Edited

-----------------------------------------------------------------------------
(* The writer. *)

(* Where the signature of a written slice starts. *)
End(s) == IF HasCmd(s, "codesig") THEN Cmd(s, "codesig").codesig ELSE s.size

(* Where a signature starts is not before the code limit, nor behind the   *)
(* slice.                                                                  *)
LEMMA EndOf ==
    ASSUME NEW s, GoodSlice(s)
    PROVE  /\ End(s) \in Nat /\ CalculateCodeLimit(s) <= End(s) /\ End(s) <= s.size
           /\ HasCmd(s, "codesig") => End(s) = CalculateCodeLimit(s)
  BY DEF End, GoodSlice, CalculateCodeLimit

(* The cells of a slice that is written with a signature. *)
Shaped(w, source, s, sig) ==
    /\ IsCells(w) /\ Len(w) = End(s) + Len(sig)
    /\ w[1] = Header(s.ncmds)
    /\ \A k \in 1..s.ncmds : w[1 + k] = s.cmds[k]
    /\ \A p \in CmdsEnd(s)..(End(s) - 1) : w[p + 1] = source[s.offset + p + 1]
    /\ \A k \in 1..Len(sig) : w[End(s) + k] = sig[k]

(* What there must be to copy. *)
Writable(source, s) ==
    /\ GoodSlice(s) /\ CmdsEnd(s) <= End(s) /\ s.offset + End(s) <= Len(source)

(* WriteMachO writes header, commands, the copied cells and the signature  *)
(* where they belong.                                                      *)
LEMMA SliceWritten ==
    ASSUME NEW source, NEW s, NEW sig, IsCells(source), IsCells(sig), Writable(source, s)
    PROVE  Shaped(WriteMachO(source, s, sig), source, s, sig)
<1>1. /\ s.ncmds = Len(s.cmds) /\ s.ncmds \in Nat /\ IsCells(s.cmds) /\ s.offset \in Nat
      /\ End(s) \in Nat /\ CmdsEnd(s) = 1 + s.ncmds /\ CmdsEnd(s) <= End(s)
      /\ s.offset + End(s) <= Len(source) /\ Len(sig) \in Nat /\ Len(source) \in Nat
  BY EndOf DEF Writable, GoodSlice, GoodCmds, IsCells, CmdsEnd
<1>t. /\ s.ncmds \in Nat /\ s.offset \in Nat /\ End(s) \in Nat /\ CmdsEnd(s) = 1 + s.ncmds
      /\ CmdsEnd(s) <= End(s)
  BY <1>1
<1>2. PICK one : one = <<Header(s.ncmds)>>
  OBVIOUS
<1>3. IsCells(one) /\ Len(one) = 1 /\ one[1] = Header(s.ncmds)
  BY <1>2, OneCell
<1>4. PICK a : a = one \o s.cmds
  OBVIOUS
<1>5. /\ IsCells(a) /\ Len(a) = 1 + s.ncmds
      /\ \A k \in 1..Len(one) : a[k] = one[k]
      /\ \A k \in 1..Len(s.cmds) : a[Len(one) + k] = s.cmds[k]
  <2>1. Joined(a, one, s.cmds)
    BY <1>1, <1>3, <1>4, Join
  <2> QED BY <2>1, <1>1, <1>3 DEF Joined
<1>6. PICK from \in Nat : from = s.offset + CmdsEnd(s)
  BY <1>1
<1>7. PICK to \in Nat : to = s.offset + End(s)
  BY <1>1
<1>8. PICK r : r = Read(source, from, to)
  OBVIOUS
<1>9. /\ IsCells(r) /\ Len(r) = to - from
      /\ \A k \in 1..(to - from) : r[k] = source[from + k]
  <2>1. from <= to /\ to <= Len(source)
    BY <1>1, <1>6, <1>7
  <2>2. IsRead(r, source, from, to)
    BY <2>1, <1>8, ReadIs
  <2> QED BY <2>2 DEF IsRead
<1>10. PICK b : b = a \o r
  OBVIOUS
<1>11. /\ IsCells(b) /\ Len(b) = End(s)
       /\ \A k \in 1..Len(a) : b[k] = a[k]
       /\ \A k \in 1..Len(r) : b[Len(a) + k] = r[k]
  <2>1. Joined(b, a, r)
    BY <1>5, <1>9, <1>10, Join
  <2>2. Len(a) = 1 + s.ncmds /\ Len(r) = to - from
    BY <1>5, <1>9
  <2>3. Len(a) + Len(r) = End(s)
    BY <1>t, <1>6, <1>7, <2>2
  <2> QED BY <2>1, <2>3 DEF Joined
<1>12. PICK w : w = b \o sig
  OBVIOUS
<1>13. /\ IsCells(w) /\ Len(w) = End(s) + Len(sig)
       /\ \A k \in 1..Len(b) : w[k] = b[k]
       /\ \A k \in 1..Len(sig) : w[End(s) + k] = sig[k]
  <2>1. Joined(w, b, sig)
    BY <1>11, <1>12, Join
  <2> QED BY <2>1, <1>11 DEF Joined
<1>14. w[1] = Header(s.ncmds)
  <2>1. 1 \in 1..Len(one) /\ 1 \in 1..Len(a) /\ 1 \in 1..Len(b)
    BY <1>1, <1>3, <1>5, <1>11
  <2> QED BY <2>1, <1>3, <1>5, <1>11, <1>13
<1>15. ASSUME NEW k \in 1..s.ncmds PROVE w[1 + k] = s.cmds[k]
  <2>1. k \in 1..Len(s.cmds) /\ Len(one) + k = 1 + k /\ 1 + k \in 1..Len(a) /\ 1 + k \in 1..Len(b)
    BY <1>1, <1>3, <1>5, <1>11
  <2>2. a[1 + k] = s.cmds[k]
    BY <2>1, <1>5
  <2> QED BY <2>1, <2>2, <1>11, <1>13
<1>16. ASSUME NEW p \in CmdsEnd(s)..(End(s) - 1) PROVE w[p + 1] = source[s.offset + p + 1]
  <2>1. PICK k : k = p + 1 - CmdsEnd(s)
    OBVIOUS
  <2>5. Len(a) = 1 + s.ncmds /\ Len(b) = End(s)
    BY <1>5, <1>11
  <2>6. k \in Int /\ CmdsEnd(s) <= p /\ p < End(s) /\ p \in Int
    BY <2>1, <1>1
  <2>7. k = p - s.ncmds /\ to - from = End(s) - 1 - s.ncmds
    BY <2>1, <2>6, <1>t, <1>6, <1>7
  <2>8. k \in 1..(to - from)
    BY <2>6, <2>7, <1>t
  <2>9. Len(a) + k = p + 1 /\ p + 1 \in 1..Len(b)
    BY <2>5, <2>6, <2>7, <1>t
  <2>10. from + k = s.offset + p + 1
    BY <2>6, <2>7, <1>t, <1>6
  <2>2. /\ k \in 1..(to - from) /\ Len(a) + k = p + 1 /\ p + 1 \in 1..Len(b)
        /\ from + k = s.offset + p + 1
    BY <2>8, <2>9, <2>10
  <2>3. b[p + 1] = r[k]
    BY <2>2, <1>9, <1>11
  <2>4. r[k] = source[s.offset + p + 1]
    BY <2>2, <1>9
  <2> QED BY <2>2, <2>3, <2>4, <1>13
<1>17. Shaped(w, source, s, sig)
  BY <1>13, <1>14, <1>15, <1>16 DEF Shaped
<1>18. w = WriteMachO(source, s, sig)
  BY <1>2, <1>4, <1>6, <1>7, <1>8, <1>10, <1>12 DEF WriteMachO, End
<1> QED BY <1>17, <1>18

(* The file f has w at an offset. *)
Placed(f, off, w) == off + Len(w) <= Len(f) /\ \A k \in 1..Len(w) : f[off + k] = w[k]

(* What is read of a slice that was written. *)
LEMMA ParsedBack ==
    ASSUME NEW f, IsCells(f), NEW off \in Nat, NEW size, NEW w, NEW source, NEW s, NEW sig,
           IsCells(sig), Writable(source, s), Shaped(w, source, s, sig), Placed(f, off, w)
    PROVE  ParseSlice(f, off, size) =
              [offset |-> off, size |-> size, ncmds |-> s.ncmds, cmds |-> s.cmds]
<1>1. /\ s.ncmds = Len(s.cmds) /\ s.ncmds \in Nat /\ IsCells(s.cmds)
      /\ End(s) \in Nat /\ 1 + s.ncmds <= End(s) /\ Len(sig) \in Nat /\ Len(f) \in Nat
  BY EndOf DEF Writable, GoodSlice, GoodCmds, IsCells, CmdsEnd
<1>2. Len(w) = End(s) + Len(sig) /\ off + Len(w) <= Len(f)
  BY DEF Shaped, Placed
<1>3. f[off + 1] = Header(s.ncmds)
  <2>1. 1 \in 1..Len(w)
    BY <1>1, <1>2
  <2> QED BY <2>1 DEF Shaped, Placed
<1>4. f[off + 1].ncmds = s.ncmds
  BY <1>3 DEF Header
<1>5. PICK from \in Nat : from = off + 1
  OBVIOUS
<1>6. PICK to \in Nat : to = off + 1 + s.ncmds
  <2>1. s.ncmds \in Nat
    BY <1>1
  <2> QED BY <2>1
<1>7. PICK r : r = Read(f, from, to)
  OBVIOUS
<1>8. IsCells(r) /\ Len(r) = to - from /\ \A k \in 1..(to - from) : r[k] = f[from + k]
  <2>1. from <= to /\ to <= Len(f)
    <3>1. /\ s.ncmds \in Nat /\ End(s) \in Nat /\ 1 + s.ncmds <= End(s) /\ Len(sig) \in Nat
          /\ Len(f) \in Nat
      BY <1>1
    <3> QED BY <3>1, <1>2, <1>5, <1>6
  <2>2. IsRead(r, f, from, to)
    BY <2>1, <1>7, ReadIs
  <2> QED BY <2>2 DEF IsRead
<1>9. to - from = s.ncmds
  BY <1>1, <1>5, <1>6
<1>10. \A k \in 1..s.ncmds : r[k] = s.cmds[k]
  <2> SUFFICES ASSUME NEW k \in 1..s.ncmds PROVE r[k] = s.cmds[k]
    OBVIOUS
  <2>1. PICK q \in 1..Len(w) : q = 1 + k
    BY <1>1, <1>2
  <2>2. f[off + q] = w[q] /\ w[q] = s.cmds[k]
    BY <2>1 DEF Placed, Shaped
  <2>3. from + k = off + q
    BY <2>1, <1>5
  <2> QED BY <2>2, <2>3, <1>8, <1>9
<1>11. r = s.cmds
  <2>1. r = [k \in 1..s.ncmds |-> r[k]] /\ s.cmds = [k \in 1..s.ncmds |-> s.cmds[k]]
    BY <1>1, <1>8, <1>9 DEF IsCells
  <2> QED BY <2>1, <1>10
<1> QED BY <1>4, <1>5, <1>6, <1>7, <1>11 DEF ParseSlice

-----------------------------------------------------------------------------
(* The FAT file. *)

(* Align rounds up to a multiple of the alignment.                         *)
LEMMA Aligned ==
    \A x \in Nat : Align(x) \in Nat /\ Align(x) >= x /\ Align(x) % FATAlign = 0
<1> TAKE x \in Nat
<1>1. FATAlign \in Nat /\ FATAlign > 0
  BY LayoutAssumption
<1>2. PICK y \in Nat : y = x + FATAlign - 1
  <2>1. x + FATAlign - 1 \in Nat
    BY <1>1
  <2> QED BY <2>1
<1>3. PICK q \in Nat : q = y \div FATAlign
  BY <1>1, <1>2
<1>4. PICK r \in 0..(FATAlign - 1) : y = q * FATAlign + r
  <2>1. y % FATAlign \in 0..(FATAlign - 1) /\ y = q * FATAlign + (y % FATAlign)
    BY <1>1, <1>3
  <2> QED BY <2>1
<1>5. Align(x) = q * FATAlign
  BY <1>2, <1>3 DEF Align
<1>6. PICK z \in Nat : z = q * FATAlign
  BY <1>1
<1>7. z >= x
  BY <1>1, <1>2, <1>4, <1>6
<1>8. z % FATAlign = 0
  BY <1>1, <1>6
<1> QED BY <1>5, <1>6, <1>7, <1>8

IsOffsets(o, archSizes) ==
    o = [i \in 1..Len(archSizes) |->
            Align(IF i = 1 THEN 1 + Len(archSizes) ELSE o[i - 1] + archSizes[i - 1])]

(* The loop that places the slices of a FAT file ends.                     *)
LEMMA OffsetsExist ==
    ASSUME NEW archSizes, IsCells(archSizes)
    PROVE  \E o : IsOffsets(o, archSizes)
<1> DEFINE Step(o, i) ==
              Align(IF i = 1 THEN 1 + Len(archSizes) ELSE o[i - 1] + archSizes[i - 1])
           To(o, n) == o = [i \in 1..n |-> Step(o, i)]
           S == {n \in Nat : \E o : To(o, n)}
<1>1. 0 \in S
  <2>1. To([i \in 1..0 |-> 0], 0)
    OBVIOUS
  <2> QED BY <2>1
<1>2. ASSUME NEW n \in Nat, n \in S PROVE n + 1 \in S
  <2>1. PICK o : To(o, n)
    BY <1>2
  <2>2. PICK g : g = [i \in 1..(n + 1) |-> IF i <= n THEN o[i] ELSE Step(o, n + 1)]
    OBVIOUS
  <2>3. \A i \in 1..(n + 1) : g[i] = Step(g, i)
    <3> SUFFICES ASSUME NEW i \in 1..(n + 1) PROVE g[i] = Step(g, i)
      OBVIOUS
    <3>1. i # 1 => i - 1 \in 1..n /\ g[i - 1] = o[i - 1]
      BY <2>2
    <3>2. CASE i <= n
      <4>1. g[i] = o[i] /\ i \in 1..n
        BY <2>2, <3>2
      <4>2. o[i] = Step(o, i)
        <5>1. o = [k \in 1..n |-> Step(o, k)]
          BY <2>1
        <5> HIDE DEF Step
        <5> QED BY <5>1, <4>1
      <4> QED BY <3>1, <4>1, <4>2
    <3>3. CASE i = n + 1
      <4>1. g[i] = Step(o, i)
        BY <2>2, <3>3
      <4> QED BY <4>1, <3>1
    <3> QED BY <3>2, <3>3
  <2>4. To(g, n + 1)
    BY <2>2, <2>3
  <2> QED BY <2>4
<1>3. Len(archSizes) \in S
  <2>1. Nat \subseteq S
    <3> HIDE DEF S
    <3> QED BY <1>1, <1>2, Induction
  <2> QED BY <2>1 DEF IsCells
<1> QED BY <1>3 DEF IsOffsets

(* Aligned places behind the FAT header and behind one another. *)
LEMMA OffsetsApart ==
    ASSUME NEW archSizes, IsCells(archSizes), \A i \in 1..Len(archSizes) : archSizes[i] \in Nat,
           NEW o, o = ArchOffsets(archSizes)
    PROVE  /\ IsCells(o) /\ Len(o) = Len(archSizes)
           /\ \A i \in 1..Len(archSizes) :
                 /\ o[i] \in Nat /\ o[i] % FATAlign = 0 /\ o[i] > Len(archSizes)
                 /\ \A j \in 1..(i - 1) : o[j] + archSizes[j] <= o[i]
<1> DEFINE n == Len(archSizes)
<1>1. n \in Nat
  BY DEF IsCells
<1>2. IsOffsets(o, archSizes)
  <2>1. o = CHOOSE h : IsOffsets(h, archSizes)
    BY DEF ArchOffsets, IsOffsets
  <2> QED BY <2>1, OffsetsExist
<1>3. o = [i \in 1..n |-> Align(IF i = 1 THEN 1 + n ELSE o[i - 1] + archSizes[i - 1])]
  BY <1>2 DEF IsOffsets
<1>4. IsCells(o) /\ Len(o) = n
  <2>1. o = [i \in 1..n |-> o[i]]
    BY <1>3
  <2> QED BY <1>1, <2>1, LengthOf
<1> DEFINE Good(i) == /\ o[i] \in Nat /\ o[i] % FATAlign = 0 /\ o[i] > n
                      /\ \A j \in 1..(i - 1) : o[j] + archSizes[j] <= o[i]
           S == {m \in Nat : \A i \in 1..n : i <= m => Good(i)}
<1>5. 0 \in S
  OBVIOUS
<1>6. ASSUME NEW m \in Nat, m \in S PROVE m + 1 \in S
  <2> SUFFICES ASSUME m + 1 \in 1..n PROVE Good(m + 1)
    <3>1. \A i \in 1..n : i <= m + 1 => i <= m \/ i = m + 1
      BY <1>1
    <3> HIDE DEF Good
    <3> QED BY <3>1, <1>6
  <2>1. CASE m = 0
    <3>1. o[1] = Align(1 + n)
      BY <1>1, <1>3, <2>1
    <3>2. 1 + n \in Nat
      BY <1>1
    <3>3. o[1] \in Nat /\ o[1] >= 1 + n /\ o[1] % FATAlign = 0
      BY <3>1, <3>2, Aligned
    <3> QED BY <3>3, <2>1, <1>1
  <2>2. CASE m # 0
    <3>1. m \in 1..n /\ Good(m)
      BY <1>6, <2>2, <1>1
    <3>2. o[m + 1] = Align(o[m] + archSizes[m])
      <4>1. m + 1 # 1 /\ (m + 1) - 1 = m
        BY <2>2
      <4> QED BY <4>1, <1>3
    <3>3. PICK x \in Nat : x = o[m] + archSizes[m]
      BY <3>1
    <3>4. o[m + 1] \in Nat /\ o[m + 1] >= x /\ o[m + 1] % FATAlign = 0
      BY <3>2, <3>3, Aligned
    <3>5. archSizes[m] \in Nat /\ o[m] \in Nat /\ o[m] > n
      BY <3>1
    <3>6. o[m + 1] > n
      BY <3>3, <3>4, <3>5, <1>1
    <3>7. ASSUME NEW j \in 1..((m + 1) - 1) PROVE o[j] + archSizes[j] <= o[m + 1]
      <4>1. CASE j = m
        BY <4>1, <3>3, <3>4
      <4>2. CASE j # m
        <5>1. j \in 1..(m - 1) /\ j \in 1..n
          BY <4>2, <3>1, <1>1
        <5>2. o[j] + archSizes[j] <= o[m] /\ archSizes[j] \in Nat
          BY <3>1, <5>1
        <5>3. j <= m /\ Good(j)
          BY <1>6, <5>1
        <5> QED BY <5>2, <5>3, <3>3, <3>4, <3>5
      <4> QED BY <4>1, <4>2
    <3> QED BY <3>4, <3>6, <3>7
  <2> QED BY <2>1, <2>2
<1>7. Nat \subseteq S
  <2> HIDE DEF S
  <2> QED BY <1>5, <1>6, Induction
<1>8. \A i \in 1..n : Good(i)
  <2> TAKE i \in 1..n
  <2>1. i \in S /\ i <= i
    BY <1>7
  <2> QED BY <2>1
<1> QED BY <1>4, <1>8

IsWritten(w, f, o, contents) ==
    w = [i \in 0..Len(contents) |->
            IF i = 0 THEN f ELSE WriteAt(w[i - 1], o[i], contents[i])]

(* The loop that writes the slices of a FAT file ends.                     *)
LEMMA WrittenExists ==
    ASSUME NEW f, NEW o, NEW contents, IsCells(contents)
    PROVE  \E w : IsWritten(w, f, o, contents)
<1> DEFINE Step(w, i) == IF i = 0 THEN f ELSE WriteAt(w[i - 1], o[i], contents[i])
           To(w, n) == w = [i \in 0..n |-> Step(w, i)]
           S == {n \in Nat : \E w : To(w, n)}
<1>1. 0 \in S
  <2>1. To([i \in 0..0 |-> f], 0)
    OBVIOUS
  <2> QED BY <2>1
<1>2. ASSUME NEW n \in Nat, n \in S PROVE n + 1 \in S
  <2>1. PICK w : To(w, n)
    BY <1>2
  <2>2. PICK g : g = [i \in 0..(n + 1) |-> IF i <= n THEN w[i] ELSE Step(w, n + 1)]
    OBVIOUS
  <2>3. \A i \in 0..(n + 1) : g[i] = Step(g, i)
    <3> SUFFICES ASSUME NEW i \in 0..(n + 1) PROVE g[i] = Step(g, i)
      OBVIOUS
    <3>1. i # 0 => i - 1 \in 0..n /\ g[i - 1] = w[i - 1]
      BY <2>2
    <3>2. CASE i <= n
      <4>1. g[i] = w[i] /\ i \in 0..n
        BY <2>2, <3>2
      <4>2. w[i] = Step(w, i)
        <5>1. w = [k \in 0..n |-> Step(w, k)]
          BY <2>1
        <5> HIDE DEF Step
        <5> QED BY <5>1, <4>1
      <4> QED BY <3>1, <4>1, <4>2
    <3>3. CASE i = n + 1
      <4>1. g[i] = Step(w, i)
        BY <2>2, <3>3
      <4> QED BY <4>1, <3>1
    <3> QED BY <3>2, <3>3
  <2>4. To(g, n + 1)
    BY <2>2, <2>3
  <2> QED BY <2>4
<1>3. Len(contents) \in S
  <2>1. Nat \subseteq S
    <3> HIDE DEF S
    <3> QED BY <1>1, <1>2, Induction
  <2> QED BY <2>1 DEF IsCells
<1> QED BY <1>3 DEF IsWritten

(* WrittenAt, in terms of Placed.                                          *)
LEMMA AtIs ==
    \A f, off, cells :
        IsCells(f) /\ IsCells(cells) /\ off \in Nat /\ off >= Len(f) =>
            /\ IsCells(WriteAt(f, off, cells)) /\ Len(WriteAt(f, off, cells)) = off + Len(cells)
            /\ \A k \in 1..Len(f) : WriteAt(f, off, cells)[k] = f[k]
            /\ Placed(WriteAt(f, off, cells), off, cells)
  BY WrittenAt DEF Placed, IsCells

(* The file when the first i contents are written. *)
WrittenUpTo(w, i, f, o, contents) ==
    /\ IsCells(w) /\ Len(w) >= Len(f)
    /\ Len(w) = IF i = 0 THEN Len(f) ELSE o[i] + Len(contents[i])
    /\ \A k \in 1..Len(f) : w[k] = f[k]
    /\ \A j \in 1..i : Placed(w, o[j], contents[j])

(* Contents that are written behind one another are all there. *)
LEMMA EachWritten ==
    ASSUME NEW f, NEW o, NEW contents, IsCells(f), IsCells(contents),
           \A i \in 1..Len(contents) :
              /\ IsCells(contents[i]) /\ o[i] \in Nat /\ o[i] >= Len(f)
              /\ i # 1 => o[i - 1] + Len(contents[i - 1]) <= o[i]
    PROVE  WrittenUpTo(WriteEach(f, o, contents), Len(contents), f, o, contents)
<1> DEFINE n == Len(contents)
           w == CHOOSE h : IsWritten(h, f, o, contents)
           S == {m \in Nat : m <= n => WrittenUpTo(w[m], m, f, o, contents)}
<1>1. n \in Nat /\ Len(f) \in Nat
  BY DEF IsCells
<1>2. IsWritten(w, f, o, contents)
  BY WrittenExists
<1>3. WriteEach(f, o, contents) = w[n]
  BY DEF WriteEach, IsWritten
<1> HIDE DEF w
<1>4. w = [i \in 0..n |-> IF i = 0 THEN f ELSE WriteAt(w[i - 1], o[i], contents[i])]
  BY <1>2 DEF IsWritten
<1>5. 0 \in S
  <2>1. w[0] = f
    BY <1>1, <1>4
  <2> QED BY <2>1, <1>1 DEF WrittenUpTo
<1>6. ASSUME NEW m \in Nat, m \in S PROVE m + 1 \in S
  <2> SUFFICES ASSUME m + 1 <= n PROVE WrittenUpTo(w[m + 1], m + 1, f, o, contents)
    OBVIOUS
  <2>1. PICK a : a = w[m]
    OBVIOUS
  <2>2. WrittenUpTo(a, m, f, o, contents)
    BY <1>1, <1>6, <2>1
  <2>3. PICK off : off = o[m + 1]
    OBVIOUS
  <2>4. PICK c : c = contents[m + 1]
    OBVIOUS
  <2>5. m + 1 \in 1..n
    BY <1>1
  <2>6. IsCells(c) /\ off \in Nat /\ off >= Len(f)
    BY <2>3, <2>4, <2>5
  <2>7. off >= Len(a)
    <3>1. CASE m = 0
      BY <3>1, <2>2, <2>6 DEF WrittenUpTo
    <3>2. CASE m # 0
      <4>1. m + 1 # 1 /\ (m + 1) - 1 = m
        BY <3>2
      <4>2. o[m] + Len(contents[m]) <= o[m + 1]
        BY <4>1, <2>5
      <4>3. Len(a) = o[m] + Len(contents[m])
        BY <3>2, <2>2 DEF WrittenUpTo
      <4>4. m \in 1..n
        BY <1>1, <3>2
      <4>5. o[m] \in Nat /\ Len(contents[m]) \in Nat
        BY <4>4 DEF IsCells
      <4> QED BY <4>2, <4>3, <4>5, <2>3, <2>6
    <3> QED BY <3>1, <3>2
  <2>8. PICK b : b = WriteAt(a, off, c)
    OBVIOUS
  <2>9. IsCells(a) /\ Len(a) \in Nat /\ Len(c) \in Nat /\ Len(f) <= Len(a)
    BY <2>2, <2>6, <1>1 DEF WrittenUpTo, IsCells
  <2>10. /\ IsCells(b) /\ Len(b) = off + Len(c) /\ \A k \in 1..Len(a) : b[k] = a[k]
         /\ Placed(b, off, c)
    BY <2>6, <2>7, <2>8, <2>9, AtIs
  <2>11. w[m + 1] = b
    <3>1. m + 1 \in 0..n /\ m + 1 # 0 /\ (m + 1) - 1 = m
      BY <1>1
    <3> QED BY <3>1, <1>4, <2>1, <2>3, <2>4, <2>8
  <2>12. ASSUME NEW k \in 1..Len(f) PROVE b[k] = f[k]
    <3>1. k \in 1..Len(a)
      BY <1>1, <2>9
    <3> QED BY <3>1, <2>2, <2>10 DEF WrittenUpTo
  <2>13. ASSUME NEW j \in 1..(m + 1) PROVE Placed(b, o[j], contents[j])
    <3>1. CASE j = m + 1
      BY <3>1, <2>3, <2>4, <2>10
    <3>2. CASE j # m + 1
      <4>1. j \in 1..m /\ j \in 1..n
        BY <3>2, <1>1
      <4>2. Placed(a, o[j], contents[j])
        BY <4>1, <2>2 DEF WrittenUpTo
      <4>3. PICK x \in Nat : x = o[j]
        BY <4>1
      <4>4. PICK d : d = contents[j]
        OBVIOUS
      <4>5. Len(d) \in Nat
        BY <4>1, <4>4 DEF IsCells
      <4>6. x + Len(d) <= Len(a) /\ \A k \in 1..Len(d) : a[x + k] = d[k]
        BY <4>2, <4>3, <4>4 DEF Placed
      <4>7. ASSUME NEW k \in 1..Len(d) PROVE b[x + k] = d[k]
        <5>1. x + k \in 1..Len(a)
          BY <4>5, <4>6, <2>9
        <5> QED BY <5>1, <4>6, <2>10
      <4>8. x + Len(d) <= Len(b)
        BY <4>5, <4>6, <2>7, <2>6, <2>9, <2>10
      <4> QED BY <4>3, <4>4, <4>7, <4>8 DEF Placed
    <3> QED BY <3>1, <3>2
  <2>14. Len(b) >= Len(f)
    BY <1>1, <2>6, <2>7, <2>9, <2>10
  <2>15. Len(b) = IF m + 1 = 0 THEN Len(f) ELSE o[m + 1] + Len(contents[m + 1])
    BY <2>3, <2>4, <2>10
  <2> QED BY <2>10, <2>11, <2>12, <2>13, <2>14, <2>15 DEF WrittenUpTo
<1>7. Nat \subseteq S
  <2> HIDE DEF S
  <2> QED BY <1>5, <1>6, Induction
<1> QED BY <1>1, <1>3, <1>7

-----------------------------------------------------------------------------
(* The written file, read back. *)

(* The slice t of f is the slice s, copied from source, with a signature. *)
Copied(f, t, source, s, sig) ==
    /\ t = [offset |-> t.offset, size |-> t.size, ncmds |-> s.ncmds, cmds |-> s.cmds]
    /\ t.offset \in Nat /\ t.size \in Nat /\ End(s) + Len(sig) <= t.size
    /\ t.offset + End(s) + Len(sig) <= Len(f)
    /\ f[t.offset + 1] = Header(s.ncmds)
    /\ \A k \in 1..s.ncmds : f[t.offset + 1 + k] = s.cmds[k]
    /\ \A p \in CmdsEnd(s)..(End(s) - 1) : f[t.offset + p + 1] = source[s.offset + p + 1]
    /\ \A k \in 1..Len(sig) : f[t.offset + End(s) + k] = sig[k]

(* A slice that was placed in a file is read back from it.                 *)
LEMMA CopiedFrom ==
    ASSUME NEW f, IsCells(f), NEW off \in Nat, NEW size \in Nat, NEW w, NEW source, NEW s, NEW sig,
           IsCells(sig), Writable(source, s), Shaped(w, source, s, sig), Placed(f, off, w),
           End(s) + Len(sig) <= size, NEW t, t = ParseSlice(f, off, size)
    PROVE  /\ Copied(f, t, source, s, sig) /\ t.offset = off /\ t.size = size
           /\ t.offset + End(s) + Len(sig) = off + Len(w)
<1>1. t = [offset |-> off, size |-> size, ncmds |-> s.ncmds, cmds |-> s.cmds]
  BY ParsedBack
<1>2. t.offset = off /\ t.size = size
      /\ t = [offset |-> t.offset, size |-> t.size, ncmds |-> s.ncmds, cmds |-> s.cmds]
  BY <1>1
<1>3. /\ s.ncmds \in Nat /\ End(s) \in Nat /\ 1 + s.ncmds <= End(s) /\ Len(sig) \in Nat
      /\ CmdsEnd(s) = 1 + s.ncmds
  BY EndOf DEF Writable, GoodSlice, GoodCmds, IsCells, CmdsEnd
<1>4. Len(w) = End(s) + Len(sig) /\ off + Len(w) <= Len(f)
  BY DEF Shaped, Placed
<1>5. \A k \in 1..Len(w) : f[off + k] = w[k]
  BY DEF Placed
<1>6. f[off + 1] = Header(s.ncmds)
  <2>1. 1 \in 1..Len(w)
    BY <1>3, <1>4
  <2> QED BY <2>1, <1>5 DEF Shaped
<1>7. ASSUME NEW k \in 1..s.ncmds PROVE f[off + 1 + k] = s.cmds[k]
  <2>1. PICK q : q = 1 + k
    OBVIOUS
  <2>2. q \in 1..Len(w) /\ off + 1 + k = off + q
    BY <1>3, <1>4, <2>1
  <2>3. w[q] = s.cmds[k]
    BY <2>1 DEF Shaped
  <2> QED BY <2>2, <2>3, <1>5
<1>8. ASSUME NEW p \in CmdsEnd(s)..(End(s) - 1) PROVE f[off + p + 1] = source[s.offset + p + 1]
  <2>1. PICK q : q = p + 1
    OBVIOUS
  <2>2. q \in 1..Len(w) /\ off + p + 1 = off + q
    BY <1>3, <1>4, <2>1
  <2>3. w[q] = source[s.offset + p + 1]
    BY <2>1 DEF Shaped
  <2> QED BY <2>2, <2>3, <1>5
<1>9. ASSUME NEW k \in 1..Len(sig) PROVE f[off + End(s) + k] = sig[k]
  <2>1. PICK q : q = End(s) + k
    OBVIOUS
  <2>2. q \in 1..Len(w) /\ off + End(s) + k = off + q
    BY <1>3, <1>4, <2>1
  <2>3. w[q] = sig[k]
    BY <2>1 DEF Shaped
  <2> QED BY <2>2, <2>3, <1>5
<1>10. off + End(s) + Len(sig) <= Len(f) /\ off + End(s) + Len(sig) = off + Len(w)
  BY <1>3, <1>4
<1> QED BY <1>2, <1>6, <1>7, <1>8, <1>9, <1>10 DEF Copied

(* What may be written. *)
ToWrite(source, m, sigs) ==
    /\ IsCells(source) /\ GoodMacho(m)
    /\ \A i \in 1..Len(m.slices) :
          /\ IsCells(sigs[i]) /\ Writable(source, m.slices[i])
          /\ sigs[i] # <<>> => HasCmd(m.slices[i], "codesig")

(* What is then read. *)
SizeWritten(m, i, sig) ==
    IF m.fat /\ sig = <<>> THEN m.slices[i].size ELSE End(m.slices[i]) + Len(sig)

SlicesWritten(f, slices, source, m, sigs) ==
    /\ IsCells(slices) /\ Len(slices) = Len(m.slices)
    /\ \A i \in 1..Len(m.slices) :
          /\ Copied(f, slices[i], source, m.slices[i], sigs[i])
          /\ slices[i].size = SizeWritten(m, i, sigs[i])
    /\ LET n == Len(m.slices)
       IN  slices[n].offset + End(m.slices[n]) + Len(sigs[n]) = Len(f)
    /\ m.fat => \A i \in 1..Len(m.slices) :
          /\ slices[i].offset % FATAlign = 0 /\ slices[i].offset > Len(slices)
          /\ \A j \in 1..(i - 1) : slices[j].offset + slices[j].size <= slices[i].offset

ReadsAs(f, source, m, sigs) ==
    /\ IsCells(f)
    /\ Open(f) = [fat |-> m.fat, slices |-> Slices(f)]
    /\ SlicesWritten(f, Slices(f), source, m, sigs)

(* A thin file that is written is read back as it was meant.               *)
LEMMA ThinWritten ==
    ASSUME NEW source, NEW m, NEW sigs, ToWrite(source, m, sigs), ~m.fat,
           NEW f, f = WriteToFile(source, m, sigs)
    PROVE  ReadsAs(f, source, m, sigs)
<1>1. PICK s : s = m.slices[1]
  OBVIOUS
<1>2. PICK sig : sig = sigs[1]
  OBVIOUS
<1>3. Len(m.slices) = 1
  BY DEF ToWrite, GoodMacho
<1>4. IsCells(source) /\ IsCells(sig) /\ Writable(source, s)
  BY <1>1, <1>2, <1>3 DEF ToWrite
<1>5. f = WriteMachO(source, s, sig)
  BY <1>1, <1>2 DEF WriteToFile
<1>6. Shaped(f, source, s, sig)
  BY <1>4, <1>5, SliceWritten
<1>7. IsCells(f) /\ Len(f) \in Nat /\ Len(f) = End(s) + Len(sig)
  BY <1>6 DEF Shaped, IsCells
<1>8. Placed(f, 0, f)
  BY <1>7 DEF Placed
<1>9. f[1] = Header(s.ncmds)
  BY <1>6 DEF Shaped
<1>10. ~Is("narch", f[1])
  BY <1>9 DEF Is, Header
<1>11. PICK t : t = ParseSlice(f, 0, Len(f))
  OBVIOUS
<1>12. PICK slices : slices = <<t>>
  OBVIOUS
<1>13. IsCells(slices) /\ Len(slices) = 1 /\ slices[1] = t
  BY <1>12, OneCell
<1>14. Open(f) = [fat |-> FALSE, slices |-> slices]
  BY <1>10, <1>11, <1>12 DEF Open
<1>15. Slices(f) = slices
  BY <1>14 DEF Slices
<1>16. /\ Copied(f, t, source, s, sig) /\ t.offset = 0 /\ t.size = Len(f)
       /\ t.offset + End(s) + Len(sig) = 0 + Len(f)
  <2>1. End(s) + Len(sig) <= Len(f)
    BY <1>7
  <2> QED BY <2>1, <1>4, <1>6, <1>7, <1>8, <1>11, CopiedFrom
<1>17. m.fat = FALSE
  BY DEF ToWrite, GoodMacho
<1>18. t.size = SizeWritten(m, 1, sig)
  BY <1>1, <1>7, <1>16, <1>17 DEF SizeWritten
<1>19. SlicesWritten(f, slices, source, m, sigs)
  <2>1. t.offset + End(s) + Len(sig) = Len(f)
    BY <1>7, <1>16
  <2>2. ASSUME NEW i \in 1..Len(m.slices)
        PROVE  /\ Copied(f, slices[i], source, m.slices[i], sigs[i])
               /\ slices[i].size = SizeWritten(m, i, sigs[i])
    <3>1. i = 1
      BY <1>3
    <3> QED BY <3>1, <1>1, <1>2, <1>13, <1>16, <1>18
  <2> QED BY <2>1, <2>2, <1>1, <1>2, <1>3, <1>13, <1>17 DEF SlicesWritten
<1> QED BY <1>7, <1>14, <1>15, <1>17, <1>19 DEF ReadsAs

(* So is a FAT file, whose slices are aligned and apart.                   *)
LEMMA FATWritten ==
    ASSUME NEW source, NEW m, NEW sigs, ToWrite(source, m, sigs), m.fat,
           NEW f, f = WriteToFile(source, m, sigs)
    PROVE  ReadsAs(f, source, m, sigs)
<1>1. PICK n \in Nat : n = Len(m.slices)
  BY DEF ToWrite, GoodMacho, IsCells
<1>2. n > 0
  BY <1>1 DEF ToWrite, GoodMacho
<1>3. \A i \in 1..n : /\ IsCells(sigs[i]) /\ Len(sigs[i]) \in Nat
                      /\ Writable(source, m.slices[i])
                      /\ sigs[i] # <<>> => HasCmd(m.slices[i], "codesig")
  BY <1>1 DEF ToWrite, IsCells
<1>4. \A i \in 1..n : /\ End(m.slices[i]) \in Nat /\ m.slices[i].size \in Nat
                      /\ End(m.slices[i]) <= m.slices[i].size
  BY <1>3, EndOf DEF Writable, GoodSlice
<1>5. PICK a : a = ArchSizes(m.slices, sigs)
  OBVIOUS
<1>6. a = [i \in 1..n |-> ArchSize(m.slices[i], sigs[i])]
  BY <1>1, <1>5 DEF ArchSizes
<1>7. IsCells(a) /\ Len(a) = n
  <2>1. a = [i \in 1..n |-> a[i]]
    BY <1>6
  <2> QED BY <2>1, LengthOf
<1>8. \A i \in 1..n : /\ a[i] = SizeWritten(m, i, sigs[i])
                      /\ a[i] \in Nat /\ End(m.slices[i]) + Len(sigs[i]) <= a[i]
  <2> TAKE i \in 1..n
  <2>1. a[i] = ArchSize(m.slices[i], sigs[i])
    BY <1>6
  <2>2. CASE sigs[i] = <<>>
    <3>1. a[i] = m.slices[i].size /\ Len(sigs[i]) = 0
      BY <2>1, <2>2, NoCells DEF ArchSize
    <3> QED BY <3>1, <2>2, <1>4 DEF SizeWritten
  <2>3. CASE sigs[i] # <<>>
    <3>1. a[i] = End(m.slices[i]) + Len(sigs[i])
      BY <2>1, <2>3, <1>3 DEF ArchSize, End
    <3> QED BY <3>1, <2>3, <1>3, <1>4 DEF SizeWritten
  <2> QED BY <2>2, <2>3
<1>9. PICK o : o = ArchOffsets(a)
  OBVIOUS
<1>10. \A i \in 1..n : /\ o[i] \in Nat /\ o[i] % FATAlign = 0 /\ o[i] > n
                       /\ \A j \in 1..(i - 1) : o[j] + a[j] <= o[i]
  <2>1. \A i \in 1..Len(a) : a[i] \in Nat
    BY <1>7, <1>8
  <2>2. \A i \in 1..Len(a) : /\ o[i] \in Nat /\ o[i] % FATAlign = 0 /\ o[i] > Len(a)
                             /\ \A j \in 1..(i - 1) : o[j] + a[j] <= o[i]
    BY <2>1, <1>7, <1>9, OffsetsApart
  <2> QED BY <2>2, <1>7
<1>11. PICK archs : archs = [i \in 1..n |-> Arch(o[i], a[i])]
  OBVIOUS
<1>12. IsCells(archs) /\ Len(archs) = n /\ \A i \in 1..n : archs[i] = Arch(o[i], a[i])
  <2>1. archs = [i \in 1..n |-> archs[i]]
    BY <1>11
  <2> QED BY <2>1, <1>11, LengthOf
<1>13. PICK one : one = <<Fat(n)>>
  OBVIOUS
<1>14. IsCells(one) /\ Len(one) = 1 /\ one[1] = Fat(n)
  BY <1>13, OneCell
<1>15. PICK head : head = one \o archs
  OBVIOUS
<1>16. /\ IsCells(head) /\ Len(head) = 1 + n /\ head[1] = Fat(n)
       /\ \A i \in 1..n : head[1 + i] = Arch(o[i], a[i])
  <2>1. Joined(head, one, archs)
    BY <1>12, <1>14, <1>15, Join
  <2>2. 1 \in 1..Len(one)
    BY <1>14
  <2> QED BY <2>1, <2>2, <1>12, <1>14 DEF Joined
<1>17. PICK contents : contents = [i \in 1..n |-> WriteMachO(source, m.slices[i], sigs[i])]
  OBVIOUS
<1>18. IsCells(contents) /\ Len(contents) = n
  <2>1. contents = [i \in 1..n |-> contents[i]]
    BY <1>17
  <2> QED BY <2>1, LengthOf
<1>19. \A i \in 1..n : Shaped(contents[i], source, m.slices[i], sigs[i])
  <2> TAKE i \in 1..n
  <2>1. contents[i] = WriteMachO(source, m.slices[i], sigs[i])
    BY <1>17
  <2>2. IsCells(source) /\ IsCells(sigs[i]) /\ Writable(source, m.slices[i])
    BY <1>3 DEF ToWrite
  <2> QED BY <2>1, <2>2, SliceWritten
<1>20. \A i \in 1..n : /\ IsCells(contents[i]) /\ Len(contents[i]) \in Nat
                       /\ Len(contents[i]) = End(m.slices[i]) + Len(sigs[i])
  BY <1>19 DEF Shaped, IsCells
<1>21. f = WriteEach(head, o, contents)
  <2>1. f = WriteFAT(source, m.slices, sigs)
    BY DEF WriteToFile
  <2> QED BY <2>1, <1>1, <1>5, <1>9, <1>11, <1>13, <1>15, <1>17 DEF WriteFAT
<1>22. WrittenUpTo(f, n, head, o, contents)
  <2>1. ASSUME NEW i \in 1..n
        PROVE  /\ IsCells(contents[i]) /\ o[i] \in Nat /\ o[i] >= Len(head)
               /\ i # 1 => o[i - 1] + Len(contents[i - 1]) <= o[i]
    <3>1. o[i] \in Nat /\ o[i] >= Len(head)
      BY <1>10, <1>16
    <3>2. ASSUME i # 1 PROVE o[i - 1] + Len(contents[i - 1]) <= o[i]
      <4>1. PICK j \in 1..n : j = i - 1
        BY <3>2
      <4>2. j \in 1..(i - 1)
        BY <4>1
      <4>3. o[j] + a[j] <= o[i]
        BY <4>2, <1>10
      <4>4. Len(contents[j]) <= a[j]
        BY <1>8, <1>20
      <4>5. o[j] \in Nat /\ a[j] \in Nat /\ Len(contents[j]) \in Nat /\ o[i] \in Nat
        BY <1>8, <1>10, <1>20
      <4> QED BY <4>1, <4>3, <4>4, <4>5
    <3> QED BY <3>1, <3>2, <1>20
  <2> QED BY <2>1, <1>16, <1>18, <1>21, EachWritten
<1>23. /\ IsCells(f) /\ Len(f) = o[n] + Len(contents[n])
       /\ \A k \in 1..Len(head) : f[k] = head[k]
       /\ \A j \in 1..n : Placed(f, o[j], contents[j])
  BY <1>2, <1>22 DEF WrittenUpTo
<1>24. f[1] = Fat(n) /\ \A i \in 1..n : f[i + 1] = Arch(o[i], a[i])
  <2>1. 1 \in 1..Len(head)
    BY <1>16
  <2>2. ASSUME NEW i \in 1..n PROVE f[i + 1] = Arch(o[i], a[i])
    <3>1. i + 1 \in 1..Len(head) /\ i + 1 = 1 + i
      BY <1>16
    <3> QED BY <3>1, <1>16, <1>23
  <2> QED BY <2>1, <2>2, <1>16, <1>23
<1>25. PICK slices : slices = [i \in 1..n |-> ParseSlice(f, o[i], a[i])]
  OBVIOUS
<1>26. Open(f) = [fat |-> TRUE, slices |-> slices]
  <2>1. Is("narch", f[1]) /\ f[1].narch = n
    BY <1>24 DEF Is, Fat
  <2>2. \A i \in 1..n : f[i + 1].arch = o[i] /\ f[i + 1].size = a[i]
    <3> TAKE i \in 1..n
    <3>1. f[i + 1] = Arch(o[i], a[i])
      BY <1>24
    <3> QED BY <3>1 DEF Arch
  <2>3. [i \in 1..n |-> ParseSlice(f, f[i + 1].arch, f[i + 1].size)] = slices
    BY <2>2, <1>25
  <2> QED BY <2>1, <2>3 DEF Open
<1>27. Slices(f) = slices
  BY <1>26 DEF Slices
<1>28. IsCells(slices) /\ Len(slices) = n
  <2>1. slices = [i \in 1..n |-> slices[i]]
    BY <1>25
  <2> QED BY <2>1, LengthOf
<1>29. \A i \in 1..n :
          /\ Copied(f, slices[i], source, m.slices[i], sigs[i])
          /\ slices[i].offset = o[i] /\ slices[i].size = a[i]
          /\ slices[i].offset + End(m.slices[i]) + Len(sigs[i]) = o[i] + Len(contents[i])
  <2> TAKE i \in 1..n
  <2>1. slices[i] = ParseSlice(f, o[i], a[i])
    BY <1>25
  <2>2. o[i] \in Nat /\ a[i] \in Nat /\ IsCells(f) /\ IsCells(sigs[i])
    BY <1>3, <1>8, <1>10, <1>23
  <2>3. Writable(source, m.slices[i]) /\ Shaped(contents[i], source, m.slices[i], sigs[i])
        /\ Placed(f, o[i], contents[i]) /\ End(m.slices[i]) + Len(sigs[i]) <= a[i]
    BY <1>3, <1>8, <1>19, <1>23
  <2> QED BY <2>1, <2>2, <2>3, CopiedFrom
<1>30. SlicesWritten(f, slices, source, m, sigs)
  <2>1. slices[n].offset + End(m.slices[n]) + Len(sigs[n]) = Len(f)
    BY <1>2, <1>23, <1>29
  <2>2. \A i \in 1..n : /\ Copied(f, slices[i], source, m.slices[i], sigs[i])
                        /\ slices[i].size = SizeWritten(m, i, sigs[i])
    BY <1>8, <1>29
  <2>3. ASSUME NEW i \in 1..n
        PROVE  /\ slices[i].offset % FATAlign = 0 /\ slices[i].offset > Len(slices)
               /\ \A j \in 1..(i - 1) : slices[j].offset + slices[j].size <= slices[i].offset
    <3>1. slices[i].offset % FATAlign = 0 /\ slices[i].offset > Len(slices)
      BY <1>10, <1>28, <1>29
    <3>2. ASSUME NEW j \in 1..(i - 1)
          PROVE  slices[j].offset + slices[j].size <= slices[i].offset
      <4>1. j \in 1..n
        OBVIOUS
      <4>2. slices[j].offset = o[j] /\ slices[j].size = a[j] /\ slices[i].offset = o[i]
        BY <4>1, <1>29
      <4> QED BY <4>2, <1>10
    <3> QED BY <3>1, <3>2
  <2> QED BY <2>1, <2>2, <2>3, <1>1, <1>28 DEF SlicesWritten
<1>31. m.fat = TRUE
  BY DEF ToWrite, GoodMacho
<1> QED BY <1>23, <1>26, <1>27, <1>30, <1>31 DEF ReadsAs

(* Whatever is written is read back as it was meant. *)
LEMMA FileWritten ==
    ASSUME NEW source, NEW m, NEW sigs, ToWrite(source, m, sigs),
           NEW f, f = WriteToFile(source, m, sigs)
    PROVE  ReadsAs(f, source, m, sigs)
<1>1. CASE m.fat
  BY <1>1, FATWritten
<1>2. CASE ~m.fat
  BY <1>2, ThinWritten
<1> QED BY <1>1, <1>2

-----------------------------------------------------------------------------
(* The inductive invariant. *)

(* The file has what is before the signatures, and k commands more fit. *)
HasRoom(f, s, k) ==
    /\ s.offset + CalculateCodeLimit(s) <= Len(f)
    /\ CmdsEnd(s) + (IF HasCmd(s, "codesig") THEN 0 ELSE 1) + k
         <= CalculateCodeLimit(s)

Ready(f, m, k) ==
    /\ IsCells(f) /\ GoodMacho(m)
    /\ \A i \in 1..Len(m.slices) : HasRoom(f, m.slices[i], k)

(* What the edits e are to make of what a slice loads. *)
Loaded(old, e) ==
    {d \in Loads(old) : ~ShouldRemove(Dylib(d), e)}
      \cup {e.inject[j] : j \in DOMAIN e.inject}

(* The slice s of f has the contents of a slice of the file before. *)
Derived(f, s, before, old, e) ==
    /\ CalculateCodeLimit(s) = CalculateCodeLimit(old)
    /\ Loads(s) = Loaded(old, e)
    /\ \A p \in CmdsEnd(s)..(CalculateCodeLimit(s) - 1) :
          f[s.offset + p + 1] = before[old.offset + p + 1]

AllDerived(f, m, before, e) ==
    /\ Len(m.slices) = Len(Slices(before))
    /\ \A i \in 1..Len(m.slices) : Derived(f, m.slices[i], before, Slices(before)[i], e)

InPlace(f, s) ==
    /\ f[s.offset + 1] = Header(s.ncmds)
    /\ \A k \in 1..s.ncmds : f[s.offset + 1 + k] = s.cmds[k]

(* What the signed file must be: HashesMatchFile, EndsAgree, SlicesApart. *)
Hashed(f, s) ==
    LET limit == CalculateCodeLimit(s)
    IN  /\ HasCmd(s, "codesig")
        /\ s.offset + limit < Len(f)
        /\ Is("pages", f[s.offset + limit + 1])
        /\ LET pages == f[s.offset + limit + 1].pages
           IN  /\ (Len(pages) - 1) * PageSize < limit
               /\ limit <= Len(pages) * PageSize
               /\ \A k \in 0..(limit - 1) :
                     pages[(k \div PageSize) + 1][(k % PageSize) + 1] = f[s.offset + k + 1]

EndsTogether(f, s, last) ==
    /\ Cmd(s, "codesig").codesig + Cmd(s, "codesig").size = s.size
    /\ Cmd(s, "linkedit").linkedit + Cmd(s, "linkedit").size = s.size
    /\ s.offset + s.size <= Len(f)
    /\ last => s.offset + s.size = Len(f)

Apart(slices) ==
    \A i \in 1..Len(slices) :
        /\ slices[i].offset % FATAlign = 0 /\ slices[i].offset > Len(slices)
        /\ \A j \in 1..(i - 1) :
              slices[j].offset + Cmd(slices[j], "codesig").codesig
                + Cmd(slices[j], "codesig").size <= slices[i].offset

SignedWell(f, slices) ==
    \A i \in 1..Len(slices) :
        Hashed(f, slices[i]) /\ EndsTogether(f, slices[i], i = Len(slices))

RoundsLeft(r) == (MaxRounds - r) * MaxInject

NoEdit == [paths |-> {}, bases |-> {}, inject |-> <<>>]

Kinds ==
    /\ pc \in {"modify", "passA", "passB", "passC", "done"}
    /\ round \in 1..MaxRounds
    /\ result \in {"none", "ok", "grew"}
    /\ edit \in Edits \cup {NoEdit}
    /\ IsCells(sizes) /\ \A i \in 1..Len(sizes) : sizes[i] \in Nat \ {0}
    /\ GoodMacho(Open(file)) /\ GoodMacho(Open(original))

AtModify ==
    /\ edit \in Edits /\ original = file /\ macho = Open(file)
    /\ Ready(file, macho, RoundsLeft(round) + MaxInject)
    /\ \A i \in 1..Len(macho.slices) :
          macho.slices[i].offset + macho.slices[i].size <= Len(file)

AtPassA ==
    /\ macho = Open(file)
    /\ Ready(file, macho, RoundsLeft(round)) /\ AllDerived(file, macho, original, edit)

AtPassB ==
    /\ Ready(file, macho, RoundsLeft(round)) /\ AllDerived(file, macho, original, edit)
    /\ Len(sizes) = Len(macho.slices)
    /\ \A i \in 1..Len(macho.slices) : HasCmd(macho.slices[i], "codesig")

AtPassC ==
    /\ Ready(tmpB, Open(tmpB), RoundsLeft(round))
    /\ AllDerived(tmpB, Open(tmpB), original, edit)
    /\ Len(sizes) = Len(Slices(tmpB))
    /\ \A i \in 1..Len(Slices(tmpB)) :
          InPlace(tmpB, Slices(tmpB)[i]) /\ Final(Slices(tmpB)[i], sizes[i])

SignedState(f, before, e, k) ==
    /\ Ready(f, Open(f), k) /\ AllDerived(f, Open(f), before, e)
    /\ SignedWell(f, Slices(f))
    /\ Open(f).fat => Apart(Slices(f))

AtSigned == SignedState(file, original, edit, RoundsLeft(round))

(* The steps of a round hand the file on, with room left for the next.     *)
Inv ==
    /\ Kinds
    /\ pc = "modify" => AtModify
    /\ pc = "passA" => AtPassA
    /\ pc = "passB" => AtPassB
    /\ pc = "passC" => AtPassC
    /\ Signed => AtSigned

-----------------------------------------------------------------------------
(* The signer. *)

(* The pages of a CodeDirectory are the cells before the signature. *)
PagesOf(pages, f, base, limit) ==
    /\ (Len(pages) - 1) * PageSize < limit
    /\ limit <= Len(pages) * PageSize
    /\ \A k \in 0..(limit - 1) :
          pages[(k \div PageSize) + 1][(k % PageSize) + 1] = f[base + k + 1]

(* ComputePageHashes hashes every cell before the limit, once, in order.   *)
LEMMA PagesCover ==
    ASSUME NEW f, IsCells(f), NEW base \in Nat, NEW limit \in Nat, base + limit <= Len(f),
           NEW pages, pages = ComputePageHashes(f, base, limit)
    PROVE  PagesOf(pages, f, base, limit)
<1>1. PageSize \in Nat /\ PageSize > 0
  BY LayoutAssumption
<1>2. PICK y \in Nat : y = limit + PageSize - 1
  <2>1. limit + PageSize - 1 \in Nat
    BY <1>1
  <2> QED BY <2>1
<1>3. PICK n \in Nat : n = y \div PageSize
  BY <1>1
<1>4. PICK r \in 0..(PageSize - 1) : y = n * PageSize + r
  <2>1. y % PageSize \in 0..(PageSize - 1) /\ y = n * PageSize + (y % PageSize)
    BY <1>1, <1>3
  <2> QED BY <2>1
<1>5. PICK z \in Nat : z = n * PageSize
  BY <1>1
<1>6. limit <= z /\ z - PageSize < limit
  BY <1>1, <1>2, <1>4, <1>5
<1>7. (n - 1) * PageSize = z - PageSize
  BY <1>1, <1>5
<1>8. pages = [p \in 1..n |->
        Read(f, base + (p - 1) * PageSize,
                base + (IF p * PageSize < limit THEN p * PageSize ELSE limit))]
  BY <1>2, <1>3 DEF ComputePageHashes
<1>9. Len(pages) = n
  <2>1. pages = [p \in 1..n |-> pages[p]]
    BY <1>8
  <2> QED BY <2>1, LengthOf
<1>10. ASSUME NEW k \in 0..(limit - 1)
       PROVE  pages[(k \div PageSize) + 1][(k % PageSize) + 1] = f[base + k + 1]
  <2>1. PICK q \in Nat : q = k \div PageSize
    BY <1>1
  <2>2. PICK m \in 0..(PageSize - 1) : m = k % PageSize
    BY <1>1
  <2>3. k = q * PageSize + m
    BY <1>1, <2>1, <2>2
  <2>4. PICK x \in Nat : x = q * PageSize
    BY <1>1
  <2>5. q < n
    <3>1. x < z
      BY <1>6, <2>3, <2>4
    <3>2. CASE q >= n
      <4>1. PICK d \in Nat : q = n + d
        <5>1. q - n \in Nat /\ q = n + (q - n)
          BY <3>2
        <5> QED BY <5>1
      <4>2. x = z + d * PageSize /\ d * PageSize \in Nat
        BY <4>1, <1>1, <1>5, <2>4
      <4> QED BY <4>2, <3>1
    <3> QED BY <3>2
  <2>6. (q + 1) * PageSize = x + PageSize
    BY <1>1, <2>4
  <2>7. PICK from \in Nat : from = base + x
    BY <2>4
  <2>8. PICK to \in Nat : to = base + (IF x + PageSize < limit THEN x + PageSize ELSE limit)
    <3>1. x + PageSize \in Nat
      BY <1>1
    <3> QED BY <3>1
  <2>9. pages[q + 1] = Read(f, from, to)
    <3>1. q + 1 \in 1..n /\ (q + 1) - 1 = q
      BY <2>5
    <3>2. pages[q + 1] =
            Read(f, base + q * PageSize,
                    base + (IF (q + 1) * PageSize < limit THEN (q + 1) * PageSize ELSE limit))
      BY <3>1, <1>8
    <3> QED BY <3>2, <2>4, <2>6, <2>7, <2>8
  <2>10. x + m < limit
    BY <2>3, <2>4
  <2>11. Len(f) \in Nat
    BY DEF IsCells
  <2>12. from <= to /\ to <= Len(f) /\ m + 1 \in 1..(to - from) /\ from + (m + 1) = base + k + 1
    BY <1>1, <2>3, <2>4, <2>7, <2>8, <2>10, <2>11
  <2>13. IsRead(Read(f, from, to), f, from, to)
    BY <2>12, ReadIs
  <2>14. Read(f, from, to)[m + 1] = f[from + (m + 1)]
    BY <2>12, <2>13 DEF IsRead
  <2> QED BY <2>1, <2>2, <2>9, <2>12, <2>14
<1> QED BY <1>5, <1>6, <1>7, <1>9, <1>10 DEF PagesOf

(* A signature of the length that its CMS blob makes it, and the padded one. *)
LEMMA SignatureOf ==
    ASSUME NEW f, NEW s, NEW cms \in Nat, NEW sig, sig = SignSlice(f, s, cms)
    PROVE  /\ IsCells(sig) /\ Len(sig) = 1 + cms
           /\ sig[1] = CodeDirectory(ComputePageHashes(f, s.offset, CalculateCodeLimit(s)))
<1>1. PICK c : c = CodeDirectory(ComputePageHashes(f, s.offset, CalculateCodeLimit(s)))
  OBVIOUS
<1>2. PICK one : one = <<c>>
  OBVIOUS
<1>3. IsCells(one) /\ Len(one) = 1 /\ one[1] = c
  BY <1>2, OneCell
<1>4. PICK blob : blob = [i \in 1..cms |-> CMSCell]
  OBVIOUS
<1>5. IsCells(blob) /\ Len(blob) = cms
  <2>1. blob = [i \in 1..cms |-> blob[i]]
    BY <1>4
  <2> QED BY <2>1, LengthOf
<1>6. sig = one \o blob
  BY <1>1, <1>2, <1>4 DEF SignSlice
<1>7. Joined(sig, one, blob)
  BY <1>3, <1>5, <1>6, Join
<1>8. 1 \in 1..Len(one)
  BY <1>3
<1> QED BY <1>1, <1>3, <1>5, <1>7, <1>8 DEF Joined

(* Padding makes a signature as long as was announced, and keeps its       *)
(* start.                                                                  *)
LEMMA Padded ==
    ASSUME NEW sig, IsCells(sig), Len(sig) > 0, NEW size \in Nat, Len(sig) <= size,
           NEW p, p = Pad(sig, size)
    PROVE  IsCells(p) /\ Len(p) = size /\ p[1] = sig[1]
<1>1. Len(sig) \in Nat
  BY DEF IsCells
<1>2. PICK n \in Nat : n = size - Len(sig)
  BY <1>1
<1>3. PICK zeros : zeros = [i \in 1..n |-> Zero]
  OBVIOUS
<1>4. IsCells(zeros) /\ Len(zeros) = n
  <2>1. zeros = [i \in 1..n |-> zeros[i]]
    BY <1>3
  <2> QED BY <2>1, LengthOf
<1>5. p = sig \o zeros
  BY <1>2, <1>3 DEF Pad
<1>6. Joined(p, sig, zeros)
  BY <1>4, <1>5, Join
<1>7. 1 \in 1..Len(sig)
  BY <1>1
<1> QED BY <1>1, <1>2, <1>4, <1>6, <1>7 DEF Joined

-----------------------------------------------------------------------------
(* What a written file keeps. *)

(* A copied slice has the commands, the limit and the loads of its source. *)
LEMMA CopiedSlice ==
    ASSUME NEW f, NEW t, NEW source, NEW s, NEW sig, IsCells(sig),
           Writable(source, s), Copied(f, t, source, s, sig)
    PROVE  /\ GoodSlice(t) /\ t.ncmds = s.ncmds /\ t.cmds = s.cmds
           /\ CalculateCodeLimit(t) = CalculateCodeLimit(s)
           /\ HasCmd(t, "codesig") = HasCmd(s, "codesig")
           /\ HasCmd(s, "codesig") => Cmd(t, "codesig") = Cmd(s, "codesig")
           /\ Cmd(t, "linkedit") = Cmd(s, "linkedit")
           /\ Loads(t) = Loads(s) /\ InPlace(f, t)
           /\ t.offset + CalculateCodeLimit(t) <= t.offset + End(s)
<1>1. GoodSlice(s) /\ GoodCmds(s.cmds) /\ s.ncmds = Len(s.cmds)
  BY DEF Writable, GoodSlice
<1>2. t.ncmds = s.ncmds /\ t.cmds = s.cmds
      /\ t = [offset |-> t.offset, size |-> t.size, ncmds |-> t.ncmds, cmds |-> t.cmds]
  BY DEF Copied
<1>3. /\ CalculateCodeLimit(t) = CalculateCodeLimit(s)
      /\ HasCmd(t, "codesig") = HasCmd(s, "codesig")
      /\ HasCmd(s, "codesig") => Cmd(t, "codesig") = Cmd(s, "codesig")
      /\ Cmd(t, "linkedit") = Cmd(s, "linkedit")
  BY <1>1, <1>2, SameLimit
<1>4. /\ CalculateCodeLimit(s) \in Nat /\ End(s) \in Nat /\ CalculateCodeLimit(s) <= End(s)
  BY <1>1, EndOf DEF GoodSlice
<1>5. t.offset \in Nat /\ t.size \in Nat /\ End(s) + Len(sig) <= t.size /\ Len(sig) \in Nat
  BY DEF Copied, IsCells
<1>6. GoodSlice(t)
  <2>1. CalculateCodeLimit(t) \in Nat /\ CalculateCodeLimit(t) <= t.size
    BY <1>3, <1>4, <1>5
  <2> QED BY <2>1, <1>1, <1>2, <1>5 DEF GoodSlice
<1>7. Loads(t) = Loads(s)
  BY <1>2 DEF Loads, Places
<1>8. InPlace(f, t)
  BY <1>2 DEF InPlace, Copied
<1> QED BY <1>2, <1>3, <1>4, <1>5, <1>6, <1>7, <1>8

Kept(f, source, m) ==
    /\ GoodMacho(Open(f)) /\ IsCells(Slices(f)) /\ Len(Slices(f)) = Len(m.slices)
    /\ \A k \in Nat : Ready(source, m, k) => Ready(f, Open(f), k)
    /\ \A before, e : AllDerived(source, m, before, e) => AllDerived(f, Open(f), before, e)
    /\ \A i \in 1..Len(m.slices) :
          /\ InPlace(f, Slices(f)[i])
          /\ \A size : Final(m.slices[i], size) => Final(Slices(f)[i], size)

(* What was known of the slices to be written holds of those read back. *)
LEMMA ReadBack ==
    ASSUME NEW source, NEW m, NEW sigs, ToWrite(source, m, sigs),
           NEW f, ReadsAs(f, source, m, sigs)
    PROVE  Kept(f, source, m)
<1> DEFINE n == Len(m.slices)
           S(i) == m.slices[i]
           T(i) == Slices(f)[i]
<1>1. /\ IsCells(f) /\ IsCells(Slices(f)) /\ Len(Slices(f)) = n
      /\ Open(f) = [fat |-> m.fat, slices |-> Slices(f)]
      /\ GoodMacho(m) /\ IsCells(source)
      /\ \A i \in 1..n : /\ IsCells(sigs[i]) /\ Writable(source, S(i))
                         /\ Copied(f, T(i), source, S(i), sigs[i])
  BY DEF ReadsAs, SlicesWritten, ToWrite
<1>2. Open(f).fat = m.fat /\ Open(f).slices = Slices(f)
      /\ Open(f) = [fat |-> Open(f).fat, slices |-> Open(f).slices]
  BY <1>1
<1>3. \A i \in 1..n :
        /\ GoodSlice(T(i)) /\ T(i).ncmds = S(i).ncmds /\ T(i).cmds = S(i).cmds
        /\ CalculateCodeLimit(T(i)) = CalculateCodeLimit(S(i))
        /\ HasCmd(T(i), "codesig") = HasCmd(S(i), "codesig")
        /\ HasCmd(S(i), "codesig") => Cmd(T(i), "codesig") = Cmd(S(i), "codesig")
        /\ Cmd(T(i), "linkedit") = Cmd(S(i), "linkedit")
        /\ Loads(T(i)) = Loads(S(i)) /\ InPlace(f, T(i))
        /\ T(i).offset + CalculateCodeLimit(T(i)) <= T(i).offset + End(S(i))
  <2> TAKE i \in 1..n
  <2>1. IsCells(sigs[i]) /\ Writable(source, S(i)) /\ Copied(f, T(i), source, S(i), sigs[i])
    BY <1>1
  <2> HIDE DEF S, T
  <2> QED BY <2>1, CopiedSlice
<1>4. GoodMacho(Open(f))
  BY <1>1, <1>2, <1>3 DEF GoodMacho
<1>5. ASSUME NEW k \in Nat, Ready(source, m, k) PROVE Ready(f, Open(f), k)
  <2>1. ASSUME NEW i \in 1..n PROVE HasRoom(f, T(i), k)
    <3>1. HasRoom(source, S(i), k)
      BY <1>5 DEF Ready
    <3>2. T(i).offset + CalculateCodeLimit(T(i)) <= Len(f)
      <4>1. T(i).offset + End(S(i)) + Len(sigs[i]) <= Len(f)
        BY <1>1 DEF Copied
      <4>2. T(i).offset \in Nat /\ CalculateCodeLimit(T(i)) \in Nat
        BY <1>3 DEF GoodSlice
      <4>3. GoodSlice(S(i)) /\ Len(sigs[i]) \in Nat /\ Len(f) \in Nat
        BY <1>1 DEF Writable, IsCells
      <4>4. End(S(i)) \in Nat
        BY <4>3, EndOf
      <4>5. T(i).offset + CalculateCodeLimit(T(i)) <= T(i).offset + End(S(i))
        BY <1>3
      <4> HIDE DEF S, T
      <4> QED BY <4>1, <4>2, <4>3, <4>4, <4>5
    <3>3. CmdsEnd(T(i)) = CmdsEnd(S(i))
      BY <1>3 DEF CmdsEnd
    <3>4. HasCmd(T(i), "codesig") = HasCmd(S(i), "codesig")
          /\ CalculateCodeLimit(T(i)) = CalculateCodeLimit(S(i))
      BY <1>3
    <3> HIDE DEF S, T
    <3> QED BY <3>1, <3>2, <3>3, <3>4 DEF HasRoom
  <2> QED BY <2>1, <1>1, <1>2, <1>4 DEF Ready
<1>6. ASSUME NEW before, NEW e, AllDerived(source, m, before, e)
      PROVE  AllDerived(f, Open(f), before, e)
  <2>1. ASSUME NEW i \in 1..n PROVE Derived(f, T(i), before, Slices(before)[i], e)
    <3>1. PICK old : old = Slices(before)[i]
      OBVIOUS
    <3>2. Derived(source, S(i), before, old, e)
      BY <1>6, <3>1 DEF AllDerived
    <3>3. CmdsEnd(T(i)) = CmdsEnd(S(i)) /\ Loads(T(i)) = Loads(S(i))
          /\ CalculateCodeLimit(T(i)) = CalculateCodeLimit(S(i))
      BY <1>3 DEF CmdsEnd
    <3>4. ASSUME NEW p \in CmdsEnd(T(i))..(CalculateCodeLimit(T(i)) - 1)
          PROVE  f[T(i).offset + p + 1] = before[old.offset + p + 1]
      <4>1. p \in CmdsEnd(S(i))..(CalculateCodeLimit(S(i)) - 1)
        BY <3>3
      <4>2. source[S(i).offset + p + 1] = before[old.offset + p + 1]
        BY <4>1, <3>2 DEF Derived
      <4>3. p \in CmdsEnd(S(i))..(End(S(i)) - 1)
        <5>1. GoodSlice(S(i))
          BY <1>1 DEF Writable
        <5>2. End(S(i)) \in Nat /\ CalculateCodeLimit(S(i)) <= End(S(i))
              /\ CalculateCodeLimit(S(i)) \in Nat /\ CmdsEnd(S(i)) \in Nat
          <6> HIDE DEF S, T
          <6>1. End(S(i)) \in Nat /\ CalculateCodeLimit(S(i)) <= End(S(i))
            BY <5>1, EndOf
          <6>2. CalculateCodeLimit(S(i)) \in Nat /\ CmdsEnd(S(i)) \in Nat
            BY <5>1 DEF GoodSlice, CmdsEnd, GoodCmds, IsCells
          <6> QED BY <6>1, <6>2
        <5> HIDE DEF S, T
        <5> QED BY <5>2, <4>1
      <4>4. f[T(i).offset + p + 1] = source[S(i).offset + p + 1]
        BY <4>3, <1>1 DEF Copied
      <4> QED BY <4>2, <4>4
    <3> HIDE DEF S, T
    <3> QED BY <3>1, <3>2, <3>3, <3>4 DEF Derived
  <2>2. n = Len(Slices(before))
    BY <1>6 DEF AllDerived
  <2> QED BY <2>1, <2>2, <1>1, <1>2 DEF AllDerived
<1>7. ASSUME NEW i \in 1..n, NEW size, Final(S(i), size) PROVE Final(T(i), size)
  BY <1>3, <1>7 DEF Final
<1> QED BY <1>1, <1>3, <1>4, <1>5, <1>6, <1>7 DEF Kept

-----------------------------------------------------------------------------
(* The binaries, and what each step does. *)

(* A slice that a linker has made can be edited in every round. *)
LEMMA LinkedSlice ==
    ASSUME NEW f, IsCells(f), NEW off, NEW size, NEW s, s = ParseSlice(f, off, size), IsSlice(f, s)
    PROVE  /\ GoodSlice(s) /\ HasRoom(f, s, MaxRounds * MaxInject)
           /\ s.offset + s.size <= Len(f)
<1>1. PICK n : n = f[off + 1].ncmds
  OBVIOUS
<1>2. PICK cmds : cmds = Read(f, off + 1, off + 1 + n)
  OBVIOUS
<1>3. s = [offset |-> off, size |-> size, ncmds |-> n, cmds |-> cmds]
  BY <1>1, <1>2 DEF ParseSlice
<1>4. s.offset = off /\ s.size = size /\ s.ncmds = n /\ s.cmds = cmds
      /\ s = [offset |-> s.offset, size |-> s.size, ncmds |-> s.ncmds, cmds |-> s.cmds]
  BY <1>3
<1>5. PICK room \in Nat : room = MaxRounds * MaxInject
  BY LayoutAssumption
<1>6. PICK limit \in Nat : limit = CalculateCodeLimit(s)
  BY DEF IsSlice
<1>7. /\ off \in Nat /\ size \in Nat /\ n \in Nat /\ off + size <= Len(f)
      /\ limit <= size /\ 1 + n + 1 + room <= limit
  BY <1>4, <1>5, <1>6 DEF IsSlice, CmdsEnd
<1>8. PICK from \in Nat : from = off + 1
  BY <1>7
<1>9. PICK to \in Nat : to = off + 1 + n
  BY <1>7
<1>10. Len(f) \in Nat
  BY DEF IsCells
<1>11. from <= to /\ to <= Len(f) /\ to - from = n
  BY <1>7, <1>8, <1>9, <1>10
<1>12. cmds = Read(f, from, to)
  BY <1>2, <1>8, <1>9
<1>13. IsRead(cmds, f, from, to)
  BY <1>11, <1>12, ReadIs
<1>14. IsCells(cmds) /\ Len(cmds) = n
  BY <1>11, <1>13 DEF IsRead
<1>15. DOMAIN cmds = 1..n
  BY <1>14, CellsAreSeq
<1>16. GoodCmds(cmds)
  <2>1. /\ \A j \in 1..n : IsCommand(cmds[j])
        /\ \A kind \in {"linkedit", "codesig"} : \A j, k \in 1..n :
              Is(kind, cmds[j]) /\ Is(kind, cmds[k]) => j = k
    BY <1>4 DEF IsSlice
  <2>2. \E j \in 1..n : Is("linkedit", cmds[j])
    BY <1>4, <1>15 DEF IsSlice, HasCmd, Places
  <2> QED BY <2>1, <2>2, <1>14 DEF GoodCmds
<1>17. GoodSlice(s)
  BY <1>4, <1>6, <1>7, <1>14, <1>16 DEF GoodSlice
<1>18. HasRoom(f, s, MaxRounds * MaxInject)
  <2>1. s.offset + limit <= Len(f)
    BY <1>4, <1>7, <1>10
  <2>2. CmdsEnd(s) = 1 + n
    BY <1>4 DEF CmdsEnd
  <2>3. PICK x \in {0, 1} : x = IF HasCmd(s, "codesig") THEN 0 ELSE 1
    OBVIOUS
  <2>4. 1 + n + x + room <= limit
    BY <1>7, <2>3
  <2> QED BY <2>1, <2>2, <2>3, <2>4, <1>5, <1>6 DEF HasRoom
<1> QED BY <1>4, <1>7, <1>17, <1>18

(* The binaries that are signed can be opened, with room for every round.  *)
LEMMA LinkedBinary ==
    ASSUME NEW f \in Binaries
    PROVE  /\ IsCells(f) /\ GoodMacho(Open(f)) /\ Ready(f, Open(f), MaxRounds * MaxInject)
           /\ \A i \in 1..Len(Slices(f)) : Slices(f)[i].offset + Slices(f)[i].size <= Len(f)
<1>1. IsCells(f) /\ Len(f) > 0
  <2>1. f \in Seq({f[p] : p \in DOMAIN f}) /\ Len(f) > 0
    BY BinariesAssumption
  <2> QED BY <2>1, LenProperties DEF IsCells
<1>2. \A i \in DOMAIN Slices(f) : IsSlice(f, Slices(f)[i])
  BY BinariesAssumption
<1>3. /\ IsCells(Slices(f)) /\ Len(Slices(f)) > 0 /\ Open(f).fat \in BOOLEAN
      /\ Open(f) = [fat |-> Open(f).fat, slices |-> Slices(f)]
      /\ ~Open(f).fat => Len(Slices(f)) = 1
      /\ \A i \in 1..Len(Slices(f)) : \E off, size : Slices(f)[i] = ParseSlice(f, off, size)
  <2>1. CASE Is("narch", f[1])
    <3>1. PICK n \in Nat \ {0} : n = f[1].narch
      BY <2>1, BinariesAssumption
    <3>2. PICK slices : slices = [i \in 1..n |-> ParseSlice(f, f[i + 1].arch, f[i + 1].size)]
      OBVIOUS
    <3>3. Open(f) = [fat |-> TRUE, slices |-> slices]
      BY <2>1, <3>1, <3>2 DEF Open
    <3>4. Slices(f) = slices /\ Open(f).fat = TRUE
      BY <3>3 DEF Slices
    <3>5. IsCells(slices) /\ Len(slices) = n
      <4>1. slices = [i \in 1..n |-> slices[i]]
        BY <3>2
      <4> QED BY <4>1, LengthOf
    <3>6. \A i \in 1..n : slices[i] = ParseSlice(f, f[i + 1].arch, f[i + 1].size)
      BY <3>2
    <3> QED BY <3>3, <3>4, <3>5, <3>6
  <2>2. CASE ~Is("narch", f[1])
    <3>1. PICK s : s = ParseSlice(f, 0, Len(f))
      OBVIOUS
    <3>2. PICK slices : slices = <<s>>
      OBVIOUS
    <3>3. Open(f) = [fat |-> FALSE, slices |-> slices]
      BY <2>2, <3>1, <3>2 DEF Open
    <3>4. Slices(f) = slices /\ Open(f).fat = FALSE
      BY <3>3 DEF Slices
    <3>5. IsCells(slices) /\ Len(slices) = 1 /\ slices[1] = s
      BY <3>2, OneCell
    <3>6. ASSUME NEW i \in 1..1 PROVE slices[i] = ParseSlice(f, 0, Len(f))
      <4>1. i = 1
        OBVIOUS
      <4> QED BY <4>1, <3>1, <3>5
    <3> QED BY <3>3, <3>4, <3>5, <3>6
  <2> QED BY <2>1, <2>2
<1>4. DOMAIN Slices(f) = 1..Len(Slices(f))
  BY <1>3, CellsAreSeq
<1>5. \A i \in 1..Len(Slices(f)) :
         /\ GoodSlice(Slices(f)[i]) /\ HasRoom(f, Slices(f)[i], MaxRounds * MaxInject)
         /\ Slices(f)[i].offset + Slices(f)[i].size <= Len(f)
  <2> TAKE i \in 1..Len(Slices(f))
  <2>1. PICK s : s = Slices(f)[i]
    OBVIOUS
  <2>2. PICK off, size : s = ParseSlice(f, off, size)
    BY <1>3, <2>1
  <2>3. IsSlice(f, s)
    BY <1>2, <1>4, <2>1
  <2> QED BY <1>1, <2>1, <2>2, <2>3, LinkedSlice
<1>6. Open(f).slices = Slices(f)
  BY DEF Slices
<1>7. GoodMacho(Open(f))
  BY <1>3, <1>5, <1>6 DEF GoodMacho
<1>8. Ready(f, Open(f), MaxRounds * MaxInject)
  BY <1>1, <1>5, <1>6, <1>7 DEF Ready
<1> QED BY <1>1, <1>5, <1>7, <1>8

(* A round uses up the room of one round.                                  *)
LEMMA Rounds ==
    /\ MaxInject \in Nat /\ 1 \in 1..MaxRounds
    /\ RoundsLeft(1) + MaxInject = MaxRounds * MaxInject
    /\ \A r \in 1..MaxRounds :
          /\ RoundsLeft(r) \in Nat
          /\ r < MaxRounds => RoundsLeft(r + 1) + MaxInject = RoundsLeft(r)
<1>1. MaxInject \in Nat /\ MaxRounds \in Nat /\ MaxRounds > 0
  BY LayoutAssumption
<1>2. \A d \in Nat : d * MaxInject \in Nat /\ (d + 1) * MaxInject = d * MaxInject + MaxInject
  BY <1>1
<1>3. RoundsLeft(1) + MaxInject = MaxRounds * MaxInject
  <2>1. MaxRounds - 1 \in Nat /\ (MaxRounds - 1) + 1 = MaxRounds
    BY <1>1
  <2> QED BY <1>2, <2>1 DEF RoundsLeft
<1>4. ASSUME NEW r \in 1..MaxRounds PROVE RoundsLeft(r) \in Nat
  <2>1. MaxRounds - r \in Nat
    BY <1>1
  <2> QED BY <1>2, <2>1 DEF RoundsLeft
<1>5. ASSUME NEW r \in 1..MaxRounds, r < MaxRounds
      PROVE  RoundsLeft(r + 1) + MaxInject = RoundsLeft(r)
  <2>1. MaxRounds - (r + 1) \in Nat /\ (MaxRounds - (r + 1)) + 1 = MaxRounds - r
    BY <1>1, <1>5
  <2> QED BY <1>2, <2>1 DEF RoundsLeft
<1> QED BY <1>1, <1>3, <1>4, <1>5

(* The first round starts with room for all of them.                       *)
LEMMA InitInv == Init => Inv
<1> SUFFICES ASSUME Init PROVE Inv
  OBVIOUS
<1>1. /\ pc = "modify" /\ round = 1 /\ file \in Binaries /\ macho = Open(file)
      /\ sizes = <<>> /\ edit \in Edits /\ original = file /\ result = "none"
  BY DEF Init
<1>2. /\ IsCells(file) /\ GoodMacho(Open(file)) /\ Ready(file, Open(file), MaxRounds * MaxInject)
      /\ \A i \in 1..Len(Slices(file)) :
            Slices(file)[i].offset + Slices(file)[i].size <= Len(file)
  BY <1>1, LinkedBinary
<1>3. Kinds
  <2>1. IsCells(sizes) /\ Len(sizes) = 0
    BY <1>1, NoCells
  <2> QED BY <2>1, <1>1, <1>2, Rounds DEF Kinds
<1>4. AtModify
  <2>1. Ready(file, macho, RoundsLeft(round) + MaxInject)
    BY <1>1, <1>2, Rounds
  <2>2. macho.slices = Slices(file)
    BY <1>1 DEF Slices
  <2> QED BY <2>1, <2>2, <1>1, <1>2 DEF AtModify
<1> QED BY <1>1, <1>3, <1>4 DEF Inv, Signed

(* A file with other slices.                                               *)
LEMMA OtherSlices ==
    ASSUME NEW m, GoodMacho(m), NEW slices, IsCells(slices), Len(slices) = Len(m.slices),
           \A i \in 1..Len(slices) : GoodSlice(slices[i]),
           NEW new, new = [m EXCEPT !.slices = slices]
    PROVE  GoodMacho(new) /\ new.slices = slices /\ new.fat = m.fat
<1>1. m = [fat |-> m.fat, slices |-> m.slices]
  BY DEF GoodMacho
<1>2. new = [fat |-> m.fat, slices |-> slices]
  BY <1>1
<1>3. new.slices = slices /\ new.fat = m.fat
      /\ new = [fat |-> new.fat, slices |-> new.slices]
  BY <1>2
<1> QED BY <1>3 DEF GoodMacho

(* NoSignatures is an empty signature for each slice.                      *)
LEMMA NoneSigned ==
    ASSUME NEW m, GoodMacho(m)
    PROVE  \A i \in 1..Len(m.slices) : NoSignatures(m)[i] = <<>> /\ IsCells(NoSignatures(m)[i])
<1>1. DOMAIN m.slices = 1..Len(m.slices)
  BY CellsAreSeq DEF GoodMacho
<1>2. \A i \in 1..Len(m.slices) : NoSignatures(m)[i] = <<>>
  BY <1>1 DEF NoSignatures
<1> QED BY <1>2, NoCells

(* modifyDylibs uses up the room for one round's edits. *)
LEMMA Modified ==
    ASSUME NEW f, NEW m, m = Open(f), NEW e \in Edits, NEW k \in Nat,
           Ready(f, m, k + MaxInject),
           \A i \in 1..Len(m.slices) : m.slices[i].offset + m.slices[i].size <= Len(f),
           NEW slices,
           slices = [i \in DOMAIN m.slices |-> InjectAll(Remove(m.slices[i], e), e.inject)],
           NEW g, g = WriteToFile(f, [m EXCEPT !.slices = slices], NoSignatures(m))
    PROVE  /\ GoodMacho(Open(g)) /\ Ready(g, Open(g), k)
           /\ AllDerived(g, Open(g), f, e)
<1>1. PICK n \in Nat : n = Len(m.slices)
  BY DEF Ready, GoodMacho, IsCells
<1>2. GoodMacho(m) /\ IsCells(f) /\ DOMAIN m.slices = 1..n /\ Slices(f) = m.slices
  BY <1>1, CellsAreSeq DEF Ready, GoodMacho, Slices
<1>3. IsCells(slices) /\ Len(slices) = n
  <2>1. slices = [i \in 1..n |-> slices[i]]
    BY <1>2
  <2> QED BY <2>1, LengthOf
<1>4. /\ Len(e.inject) \in Nat /\ Len(e.inject) <= MaxInject
      /\ DOMAIN e.inject = 1..Len(e.inject) /\ MaxInject \in Nat
  BY LayoutAssumption
<1>5. ASSUME NEW i \in 1..n
      PROVE  /\ GoodSlice(slices[i]) /\ HasRoom(f, slices[i], k) /\ Writable(f, slices[i])
             /\ Derived(f, slices[i], f, m.slices[i], e)
  <2>1. PICK s : s = m.slices[i]
    OBVIOUS
  <2>2. PICK t : t = slices[i]
    OBVIOUS
  <2>3. GoodSlice(s) /\ HasRoom(f, s, k + MaxInject) /\ s.offset + s.size <= Len(f)
    BY <1>1, <2>1 DEF Ready, GoodMacho
  <2>4. t = InjectAll(Remove(s, e), e.inject)
    BY <1>2, <2>1, <2>2
  <2>5. /\ Edited(t, s, t.cmds) /\ t.ncmds <= s.ncmds + Len(e.inject)
        /\ Loads(t) = Loaded(s, e)
    BY <1>4, <2>3, <2>4, ModifiedSlice DEF Loaded
  <2>6. /\ GoodSlice(t) /\ t.offset = s.offset /\ t.size = s.size
        /\ CalculateCodeLimit(t) = CalculateCodeLimit(s)
        /\ HasCmd(t, "codesig") = HasCmd(s, "codesig")
    BY <2>5 DEF Edited
  <2>7. PICK limit \in Nat : limit = CalculateCodeLimit(s)
    BY <2>3 DEF GoodSlice
  <2>8. PICK x \in {0, 1} : x = IF HasCmd(s, "codesig") THEN 0 ELSE 1
    OBVIOUS
  <2>9. /\ s.offset \in Nat /\ s.size \in Nat /\ s.ncmds \in Nat /\ t.ncmds \in Nat
        /\ limit <= s.size
    BY <2>3, <2>6, <2>7 DEF GoodSlice, GoodCmds, IsCells
  <2>10. s.offset + limit <= Len(f) /\ (1 + s.ncmds) + x + (k + MaxInject) <= limit
    BY <2>3, <2>7, <2>8 DEF HasRoom, CmdsEnd
  <2>11. (1 + t.ncmds) + x + k <= limit
    <3>1. PICK j \in Nat : j = Len(e.inject)
      BY <1>4
    <3>2. t.ncmds <= s.ncmds + j /\ j <= MaxInject /\ MaxInject \in Nat
      BY <1>4, <2>5, <3>1
    <3>3. PICK a \in Nat : a = s.ncmds
      BY <2>9
    <3>4. PICK b \in Nat : b = t.ncmds
      BY <2>9
    <3>5. x \in Nat
      OBVIOUS
    <3>6. (1 + a) + x + (k + MaxInject) <= limit
      BY <2>10, <3>3
    <3>7. b <= a + MaxInject
      BY <3>2, <3>3, <3>4
    <3>8. (1 + b) + x + k <= limit
      BY <3>2, <3>5, <3>6, <3>7
    <3> QED BY <3>4, <3>8
  <2>12. HasRoom(f, t, k)
    BY <2>6, <2>7, <2>8, <2>10, <2>11 DEF HasRoom, CmdsEnd
  <2>13. End(t) \in Nat /\ limit <= End(t) /\ End(t) <= s.size
    BY <2>6, <2>7, EndOf
  <2>14. Writable(f, t)
    <3>1. 1 + t.ncmds <= End(t)
      BY <2>9, <2>11, <2>13
    <3>2. t.offset + End(t) <= Len(f)
      <4>1. Len(f) \in Nat
        BY <1>2 DEF IsCells
      <4> QED BY <4>1, <2>3, <2>6, <2>9, <2>13
    <3> QED BY <3>1, <3>2, <2>6 DEF Writable, CmdsEnd
  <2>15. Derived(f, t, f, s, e)
    BY <2>5, <2>6 DEF Derived
  <2> QED BY <2>1, <2>2, <2>6, <2>12, <2>14, <2>15
<1>6. PICK new : new = [m EXCEPT !.slices = slices]
  OBVIOUS
<1>7. GoodMacho(new) /\ new.slices = slices
  <2>1. IsCells(slices) /\ Len(slices) = Len(m.slices) /\ GoodMacho(m)
    BY <1>1, <1>2, <1>3
  <2>2. \A i \in 1..Len(slices) : GoodSlice(slices[i])
    BY <1>3, <1>5
  <2> QED BY <2>1, <2>2, <1>6, OtherSlices
<1>8. ToWrite(f, new, NoSignatures(m))
  <2>1. \A i \in 1..n : NoSignatures(m)[i] = <<>> /\ IsCells(NoSignatures(m)[i])
    BY <1>1, <1>2, NoneSigned
  <2> QED BY <2>1, <1>2, <1>3, <1>5, <1>7 DEF ToWrite
<1>9. ReadsAs(g, f, new, NoSignatures(m))
  BY <1>6, <1>8, FileWritten
<1>10. Ready(f, new, k)
  BY <1>2, <1>3, <1>5, <1>7 DEF Ready
<1>11. AllDerived(f, new, f, e)
  BY <1>1, <1>2, <1>3, <1>5, <1>7 DEF AllDerived
<1>12. Kept(g, f, new)
  BY <1>8, <1>9, ReadBack
<1> QED BY <1>10, <1>11, <1>12 DEF Kept

HasCommands(f, new, g, before, e, k) ==
    /\ Ready(f, new, k) /\ AllDerived(f, new, before, e)
    /\ \A i \in 1..Len(new.slices) : HasCmd(new.slices[i], "codesig")
    /\ DOMAIN Open(g).slices = 1..Len(new.slices)

(* Pass A: a command for each signature, and how long it will be. *)
LEMMA Discovered ==
    ASSUME NEW f, NEW m, NEW before, NEW e, NEW k \in Nat, Ready(f, m, k),
           AllDerived(f, m, before, e), NEW slices,
           slices = [i \in DOMAIN m.slices |->
                        SetCodeSignatureCmd(m.slices[i], CalculateCodeLimit(m.slices[i]), 0)],
           NEW g, g = WriteToFile(f, [m EXCEPT !.slices = slices], NoSignatures(m))
    PROVE  HasCommands(f, [m EXCEPT !.slices = slices], g, before, e, k)
<1> PICK new : new = [m EXCEPT !.slices = slices]
  OBVIOUS
<1>1. PICK n \in Nat : n = Len(m.slices)
  BY DEF Ready, GoodMacho, IsCells
<1>2. GoodMacho(m) /\ IsCells(f) /\ DOMAIN m.slices = 1..n
  BY <1>1, CellsAreSeq DEF Ready, GoodMacho
<1>3. IsCells(slices) /\ Len(slices) = n
  <2>1. slices = [i \in 1..n |-> slices[i]]
    BY <1>2
  <2> QED BY <2>1, LengthOf
<1>4. ASSUME NEW i \in 1..n
      PROVE  /\ GoodSlice(slices[i]) /\ HasRoom(f, slices[i], k) /\ Writable(f, slices[i])
             /\ HasCmd(slices[i], "codesig")
             /\ Derived(f, slices[i], before, Slices(before)[i], e)
  <2>1. PICK s : s = m.slices[i]
    OBVIOUS
  <2>2. PICK t : t = slices[i]
    OBVIOUS
  <2>3. PICK old : old = Slices(before)[i]
    OBVIOUS
  <2>4. GoodSlice(s) /\ HasRoom(f, s, k) /\ Derived(f, s, before, old, e)
    BY <1>1, <2>1, <2>3 DEF Ready, GoodMacho, AllDerived
  <2>5. PICK limit \in Nat : limit = CalculateCodeLimit(s)
    BY <2>4 DEF GoodSlice
  <2>6. t = SetCodeSignatureCmd(s, limit, 0)
    BY <1>2, <2>1, <2>2, <2>5
  <2>7. /\ GoodSlice(t) /\ t.offset = s.offset /\ t.size = s.size
        /\ HasCmd(t, "codesig") /\ CalculateCodeLimit(t) = limit /\ Loads(t) = Loads(s)
        /\ t.ncmds = s.ncmds + (IF HasCmd(s, "codesig") THEN 0 ELSE 1)
    <3>1. limit <= s.size /\ 0 \in Nat
      BY <2>4, <2>5 DEF GoodSlice
    <3> QED BY <3>1, <2>4, <2>6, SignatureSet
  <2>8. PICK x \in {0, 1} : x = IF HasCmd(s, "codesig") THEN 0 ELSE 1
    OBVIOUS
  <2>9. s.offset \in Nat /\ s.ncmds \in Nat /\ t.ncmds \in Nat
    BY <2>4, <2>7 DEF GoodSlice, GoodCmds, IsCells
  <2>10. s.offset + limit <= Len(f) /\ (1 + s.ncmds) + x + k <= limit
    BY <2>4, <2>5, <2>8 DEF HasRoom, CmdsEnd
  <2>11. t.ncmds = s.ncmds + x
    BY <2>7, <2>8
  <2>12. (1 + t.ncmds) + 0 + k <= limit
    BY <2>9, <2>10, <2>11
  <2>13. HasRoom(f, t, k)
    BY <2>7, <2>10, <2>12 DEF HasRoom, CmdsEnd
  <2>14. End(t) = limit
    BY <2>7, EndOf
  <2>15. Writable(f, t)
    <3>1. 1 + t.ncmds <= limit
      BY <2>9, <2>12
    <3> QED BY <3>1, <2>7, <2>10, <2>14 DEF Writable, CmdsEnd
  <2>16. Derived(f, t, before, old, e)
    <3>1. CmdsEnd(s) \in Nat /\ CmdsEnd(t) \in Nat /\ CmdsEnd(s) <= CmdsEnd(t)
      BY <2>9, <2>11 DEF CmdsEnd
    <3>2. ASSUME NEW p \in CmdsEnd(t)..(limit - 1)
          PROVE  f[t.offset + p + 1] = before[old.offset + p + 1]
      <4>1. p \in CmdsEnd(s)..(limit - 1)
        BY <3>1
      <4> QED BY <4>1, <2>4, <2>5, <2>7 DEF Derived
    <3> QED BY <3>2, <2>4, <2>5, <2>7 DEF Derived
  <2> QED BY <2>2, <2>3, <2>7, <2>13, <2>15, <2>16
<1>5. GoodMacho(new) /\ new.slices = slices
  <2>1. IsCells(slices) /\ Len(slices) = Len(m.slices) /\ GoodMacho(m)
    BY <1>1, <1>2, <1>3
  <2>2. \A i \in 1..Len(slices) : GoodSlice(slices[i])
    BY <1>3, <1>4
  <2> QED BY <2>1, <2>2, OtherSlices
<1>6. ToWrite(f, new, NoSignatures(m))
  <2>1. \A i \in 1..n : NoSignatures(m)[i] = <<>> /\ IsCells(NoSignatures(m)[i])
    BY <1>1, <1>2, NoneSigned
  <2> QED BY <2>1, <1>2, <1>3, <1>4, <1>5 DEF ToWrite
<1>7. ReadsAs(g, f, new, NoSignatures(m))
  BY <1>6, FileWritten
<1>8. Ready(f, new, k)
  BY <1>2, <1>3, <1>4, <1>5 DEF Ready
<1>9. AllDerived(f, new, before, e)
  <2>1. n = Len(Slices(before))
    BY <1>1 DEF AllDerived
  <2> QED BY <2>1, <1>3, <1>4, <1>5 DEF AllDerived
<1>10. DOMAIN Open(g).slices = 1..Len(new.slices)
  <2>1. IsCells(Slices(g)) /\ Len(Slices(g)) = Len(new.slices)
    BY <1>7 DEF ReadsAs, SlicesWritten
  <2> QED BY <2>1, CellsAreSeq DEF Slices
<1>11. HasCommands(f, new, g, before, e, k)
  BY <1>3, <1>4, <1>5, <1>8, <1>9, <1>10 DEF HasCommands
<1> QED BY <1>11

(* Pass B: the file says where the signatures will end. *)
LEMMA Finalized ==
    ASSUME NEW f, NEW m, NEW before, NEW e, NEW k \in Nat, Ready(f, m, k),
           AllDerived(f, m, before, e),
           \A i \in 1..Len(m.slices) : HasCmd(m.slices[i], "codesig"),
           NEW lens, \A i \in 1..Len(m.slices) : lens[i] \in Nat, NEW slices,
           slices = [i \in DOMAIN m.slices |-> FinalSlice(m.slices[i], lens[i])],
           NEW g, g = WriteToFile(f, [m EXCEPT !.slices = slices], NoSignatures(m))
    PROVE  /\ Ready(g, Open(g), k) /\ AllDerived(g, Open(g), before, e)
           /\ Len(Slices(g)) = Len(m.slices)
           /\ \A i \in 1..Len(Slices(g)) :
                 InPlace(g, Slices(g)[i]) /\ Final(Slices(g)[i], lens[i])
<1>1. PICK n \in Nat : n = Len(m.slices)
  BY DEF Ready, GoodMacho, IsCells
<1>2. GoodMacho(m) /\ IsCells(f) /\ DOMAIN m.slices = 1..n
  BY <1>1, CellsAreSeq DEF Ready, GoodMacho
<1>3. IsCells(slices) /\ Len(slices) = n
  <2>1. slices = [i \in 1..n |-> slices[i]]
    BY <1>2
  <2> QED BY <2>1, LengthOf
<1>4. ASSUME NEW i \in 1..n
      PROVE  /\ GoodSlice(slices[i]) /\ HasRoom(f, slices[i], k) /\ Writable(f, slices[i])
             /\ Final(slices[i], lens[i])
             /\ Derived(f, slices[i], before, Slices(before)[i], e)
  <2>1. PICK s : s = m.slices[i]
    OBVIOUS
  <2>2. PICK t : t = slices[i]
    OBVIOUS
  <2>3. PICK old : old = Slices(before)[i]
    OBVIOUS
  <2>4. GoodSlice(s) /\ HasRoom(f, s, k) /\ Derived(f, s, before, old, e)
        /\ HasCmd(s, "codesig")
    BY <1>1, <2>1, <2>3 DEF Ready, GoodMacho, AllDerived
  <2>5. t = FinalSlice(s, lens[i]) /\ lens[i] \in Nat
    BY <1>1, <1>2, <2>1, <2>2
  <2>6. /\ GoodSlice(t) /\ t.offset = s.offset /\ t.size = s.size
        /\ t.ncmds = s.ncmds /\ Loads(t) = Loads(s)
        /\ CalculateCodeLimit(t) = CalculateCodeLimit(s) /\ Final(t, lens[i])
    BY <2>4, <2>5, FinalSliceOf
  <2>7. HasCmd(t, "codesig")
    BY <2>6 DEF Final
  <2>8. HasRoom(f, t, k)
    BY <2>4, <2>6, <2>7 DEF HasRoom, CmdsEnd
  <2>9. End(t) = CalculateCodeLimit(t)
    BY <2>6, <2>7, EndOf
  <2>10. Writable(f, t)
    <3>1. t.ncmds \in Nat /\ CalculateCodeLimit(t) \in Nat
      BY <2>6 DEF GoodSlice, GoodCmds, IsCells
    <3>2. CmdsEnd(t) <= CalculateCodeLimit(t) /\ t.offset + CalculateCodeLimit(t) <= Len(f)
      BY <3>1, <2>7, <2>8 DEF HasRoom, CmdsEnd
    <3> QED BY <3>2, <2>6, <2>9 DEF Writable
  <2>11. Derived(f, t, before, old, e)
    BY <2>4, <2>6 DEF Derived, CmdsEnd
  <2> QED BY <2>2, <2>3, <2>6, <2>8, <2>10, <2>11
<1>5. PICK new : new = [m EXCEPT !.slices = slices]
  OBVIOUS
<1>6. GoodMacho(new) /\ new.slices = slices
  <2>1. IsCells(slices) /\ Len(slices) = Len(m.slices) /\ GoodMacho(m)
    BY <1>1, <1>2, <1>3
  <2>2. \A i \in 1..Len(slices) : GoodSlice(slices[i])
    BY <1>3, <1>4
  <2> QED BY <2>1, <2>2, <1>5, OtherSlices
<1>7. ToWrite(f, new, NoSignatures(m))
  <2>1. \A i \in 1..n : NoSignatures(m)[i] = <<>> /\ IsCells(NoSignatures(m)[i])
    BY <1>1, <1>2, NoneSigned
  <2> QED BY <2>1, <1>2, <1>3, <1>4, <1>6 DEF ToWrite
<1>8. ReadsAs(g, f, new, NoSignatures(m))
  BY <1>5, <1>7, FileWritten
<1>9. Ready(f, new, k)
  BY <1>2, <1>3, <1>4, <1>6 DEF Ready
<1>10. AllDerived(f, new, before, e)
  <2>1. n = Len(Slices(before))
    BY <1>1 DEF AllDerived
  <2> QED BY <2>1, <1>3, <1>4, <1>6 DEF AllDerived
<1>11. /\ Len(Slices(g)) = n
       /\ \A i \in 1..n : /\ InPlace(g, Slices(g)[i])
                          /\ \A size : Final(slices[i], size) => Final(Slices(g)[i], size)
  <2>1. Kept(g, f, new)
    BY <1>7, <1>8, ReadBack
  <2> QED BY <2>1, <1>3, <1>6 DEF Kept
<1>12. Ready(g, Open(g), k) /\ AllDerived(g, Open(g), before, e)
  <2>1. Kept(g, f, new)
    BY <1>7, <1>8, ReadBack
  <2> QED BY <2>1, <1>9, <1>10 DEF Kept
<1> QED BY <1>1, <1>4, <1>11, <1>12

(* Pass C: what is before the signatures is what they were made of. *)
LEMMA SignedFile ==
    ASSUME NEW f, NEW m, NEW before, NEW e, NEW k \in Nat, Ready(f, m, k),
           AllDerived(f, m, before, e), NEW lens, NEW sigs,
           \A i \in 1..Len(m.slices) :
              /\ InPlace(f, m.slices[i]) /\ Final(m.slices[i], lens[i])
              /\ IsCells(sigs[i]) /\ Len(sigs[i]) = lens[i] /\ lens[i] > 0
              /\ sigs[i][1] = CodeDirectory(
                    ComputePageHashes(f, m.slices[i].offset, CalculateCodeLimit(m.slices[i]))),
           NEW g, g = WriteToFile(f, m, sigs)
    PROVE  /\ Ready(g, Open(g), k) /\ AllDerived(g, Open(g), before, e)
           /\ SignedWell(g, Slices(g))
           /\ Open(g).fat => Apart(Slices(g))
<1>1. PICK n \in Nat : n = Len(m.slices)
  BY DEF Ready, GoodMacho, IsCells
<1>2. GoodMacho(m) /\ IsCells(f)
  BY DEF Ready
<1>3. \A i \in 1..n : /\ HasCmd(m.slices[i], "codesig") /\ GoodSlice(m.slices[i])
                      /\ HasRoom(f, m.slices[i], k)
  BY <1>1 DEF Final, Ready, GoodMacho
<1>4. ASSUME NEW i \in 1..n PROVE Writable(f, m.slices[i])
  <2>1. PICK s : s = m.slices[i]
    OBVIOUS
  <2>2. GoodSlice(s) /\ HasCmd(s, "codesig") /\ HasRoom(f, s, k)
    BY <1>3, <2>1
  <2>3. End(s) = CalculateCodeLimit(s)
    BY <2>2, EndOf
  <2>4. s.ncmds \in Nat /\ CalculateCodeLimit(s) \in Nat
    BY <2>2 DEF GoodSlice, GoodCmds, IsCells
  <2>5. CmdsEnd(s) <= CalculateCodeLimit(s) /\ s.offset + CalculateCodeLimit(s) <= Len(f)
    BY <2>2, <2>4 DEF HasRoom, CmdsEnd
  <2> QED BY <2>1, <2>2, <2>3, <2>5 DEF Writable
<1>5. ToWrite(f, m, sigs)
  BY <1>1, <1>2, <1>3, <1>4 DEF ToWrite
<1>6. ReadsAs(g, f, m, sigs)
  BY <1>5, FileWritten
<1>7. Ready(g, Open(g), k) /\ AllDerived(g, Open(g), before, e)
  <2>1. Kept(g, f, m)
    BY <1>5, <1>6, ReadBack
  <2> QED BY <2>1 DEF Kept
<1>8. IsCells(g) /\ SlicesWritten(g, Slices(g), f, m, sigs) /\ Open(g).fat = m.fat
  <2>1. IsCells(g) /\ SlicesWritten(g, Slices(g), f, m, sigs)
        /\ Open(g) = [fat |-> m.fat, slices |-> Slices(g)]
    BY <1>6 DEF ReadsAs
  <2>2. Open(g).fat = m.fat
    BY <2>1
  <2> QED BY <2>1, <2>2
<1>9. PICK slices : slices = Slices(g)
  OBVIOUS
<1>10. SlicesWritten(g, slices, f, m, sigs) /\ Len(slices) = n
  BY <1>1, <1>8, <1>9 DEF SlicesWritten
<1>11. ASSUME NEW i \in 1..n
       PROVE  /\ Hashed(g, slices[i]) /\ EndsTogether(g, slices[i], i = n)
              /\ Cmd(slices[i], "codesig").codesig \in Nat
              /\ Cmd(slices[i], "codesig").codesig + Cmd(slices[i], "codesig").size
                   = slices[i].size
              /\ Cmd(slices[i], "codesig").size \in Nat /\ slices[i].offset \in Nat
  <2>1. PICK s : s = m.slices[i]
    OBVIOUS
  <2>2. PICK t : t = slices[i]
    OBVIOUS
  <2>3. PICK sig : sig = sigs[i]
    OBVIOUS
  <2>4. PICK limit \in Nat : limit = CalculateCodeLimit(s)
    BY <1>3, <2>1 DEF GoodSlice
  <2>5. /\ GoodSlice(s) /\ HasCmd(s, "codesig") /\ HasRoom(f, s, k) /\ Writable(f, s)
        /\ InPlace(f, s) /\ Final(s, lens[i])
        /\ IsCells(sig) /\ Len(sig) = lens[i] /\ Len(sig) > 0
        /\ sig[1] = CodeDirectory(ComputePageHashes(f, s.offset, limit))
    BY <1>1, <1>3, <1>4, <2>1, <2>3, <2>4
  <2>6. Copied(g, t, f, s, sig) /\ t.size = SizeWritten(m, i, sig)
    BY <1>1, <1>10, <2>1, <2>2, <2>3 DEF SlicesWritten
  <2>7. End(s) = limit
    BY <2>4, <2>5, EndOf
  <2>8. /\ GoodSlice(t) /\ t.ncmds = s.ncmds /\ t.cmds = s.cmds
        /\ CalculateCodeLimit(t) = limit /\ HasCmd(t, "codesig")
        /\ Cmd(t, "codesig") = Cmd(s, "codesig") /\ Cmd(t, "linkedit") = Cmd(s, "linkedit")
    BY <2>4, <2>5, <2>6, CopiedSlice
  <2>9. Len(sig) \in Nat /\ Len(g) \in Nat /\ t.offset \in Nat /\ s.offset \in Nat
        /\ s.ncmds \in Nat
    BY <1>8, <2>5, <2>8 DEF IsCells, GoodSlice, GoodCmds
  <2>10. t.offset + limit + Len(sig) <= Len(g)
    BY <2>6, <2>7 DEF Copied
  <2>11. t.size = limit + Len(sig)
    <3>1. sig # <<>>
      BY <2>5, NoCells
    <3> QED BY <3>1, <2>1, <2>6, <2>7 DEF SizeWritten
  <2>12. g[t.offset + limit + 1] = sig[1]
    <3>1. 1 \in 1..Len(sig)
      BY <2>5, <2>9
    <3> QED BY <3>1, <2>6, <2>7 DEF Copied
  <2>13. PICK pages : pages = ComputePageHashes(f, s.offset, limit)
    OBVIOUS
  <2>14. PagesOf(pages, f, s.offset, limit)
    <3>1. s.offset + limit <= Len(f)
      BY <2>4, <2>5 DEF HasRoom
    <3> QED BY <1>2, <3>1, <2>9, <2>13, PagesCover
  <2>15. ASSUME NEW p \in 0..(limit - 1) PROVE g[t.offset + p + 1] = f[s.offset + p + 1]
    <3>1. CASE p = 0
      <4>1. g[t.offset + 1] = f[s.offset + 1]
        BY <2>5, <2>6 DEF Copied, InPlace
      <4>2. t.offset + p + 1 = t.offset + 1 /\ s.offset + p + 1 = s.offset + 1
        BY <3>1, <2>9
      <4> QED BY <4>1, <4>2
    <3>2. CASE p \in 1..s.ncmds
      <4>1. g[t.offset + 1 + p] = f[s.offset + 1 + p]
        BY <3>2, <2>5, <2>6 DEF Copied, InPlace
      <4>2. t.offset + p + 1 = t.offset + 1 + p /\ s.offset + p + 1 = s.offset + 1 + p
        BY <2>9
      <4> QED BY <4>1, <4>2
    <3>3. CASE p > s.ncmds
      <4>1. p \in CmdsEnd(s)..(End(s) - 1)
        BY <3>3, <2>7, <2>9 DEF CmdsEnd
      <4> QED BY <4>1, <2>6 DEF Copied
    <3> QED BY <3>1, <3>2, <3>3, <2>9
  <2>16. Hashed(g, t)
    <3>1. t.offset + limit < Len(g)
      BY <2>5, <2>9, <2>10
    <3>2. Is("pages", sig[1]) /\ sig[1].pages = pages
      BY <2>5, <2>13 DEF Is, CodeDirectory
    <3>3. /\ (Len(pages) - 1) * PageSize < limit /\ limit <= Len(pages) * PageSize
          /\ \A p \in 0..(limit - 1) :
                pages[(p \div PageSize) + 1][(p % PageSize) + 1] = g[t.offset + p + 1]
      BY <2>14, <2>15 DEF PagesOf
    <3> QED BY <3>1, <3>2, <3>3, <2>8, <2>12 DEF Hashed
  <2>17. Cmd(t, "codesig").codesig = limit /\ Cmd(t, "codesig").size = Len(sig)
    BY <2>4, <2>5, <2>8 DEF Final, CalculateCodeLimit
  <2>18. Cmd(t, "linkedit").linkedit + Cmd(t, "linkedit").size = limit + Len(sig)
    BY <2>4, <2>5, <2>8 DEF Final
  <2>19. t.offset + t.size <= Len(g)
    BY <2>9, <2>10, <2>11
  <2>20. i = n => t.offset + t.size = Len(g)
    <3> SUFFICES ASSUME i = n PROVE t.offset + t.size = Len(g)
      OBVIOUS
    <3>1. t.offset + limit + Len(sig) = Len(g)
      BY <1>1, <1>10, <2>1, <2>2, <2>3, <2>7 DEF SlicesWritten
    <3> QED BY <3>1, <2>9, <2>11
  <2>21. EndsTogether(g, t, i = n)
    BY <2>11, <2>17, <2>18, <2>19, <2>20 DEF EndsTogether
  <2> QED BY <2>2, <2>9, <2>11, <2>16, <2>17, <2>21
<1>12. SignedWell(g, slices)
  BY <1>10, <1>11 DEF SignedWell
<1>13. ASSUME m.fat PROVE Apart(slices)
  <2>1. \A i \in 1..n :
           /\ slices[i].offset % FATAlign = 0 /\ slices[i].offset > Len(slices)
           /\ \A j \in 1..(i - 1) : slices[j].offset + slices[j].size <= slices[i].offset
    BY <1>1, <1>10, <1>13 DEF SlicesWritten
  <2>2. ASSUME NEW i \in 1..n, NEW j \in 1..(i - 1)
        PROVE  slices[j].offset + Cmd(slices[j], "codesig").codesig
                 + Cmd(slices[j], "codesig").size <= slices[i].offset
    <3>1. j \in 1..n
      OBVIOUS
    <3>2. PICK t : t = slices[j]
      OBVIOUS
    <3>3. PICK c : c = Cmd(t, "codesig")
      OBVIOUS
    <3>4. /\ c.codesig \in Nat /\ c.size \in Nat /\ t.offset \in Nat
          /\ c.codesig + c.size = t.size
      BY <3>1, <3>2, <3>3, <1>11
    <3>5. t.offset + t.size <= slices[i].offset
      BY <3>2, <2>1
    <3>6. t.offset + c.codesig + c.size = t.offset + t.size
      BY <3>4
    <3> QED BY <3>2, <3>3, <3>5, <3>6
  <2> QED BY <2>1, <2>2, <1>10 DEF Apart
<1> QED BY <1>7, <1>8, <1>9, <1>12, <1>13

-----------------------------------------------------------------------------
(* The steps. *)

(* Editing the load commands of the main executable.                       *)
LEMMA ModifyStep == Inv /\ ModifyDylibs => Inv'
<1> SUFFICES ASSUME Inv, ModifyDylibs PROVE Inv'
  OBVIOUS
<1>1. /\ pc = "modify" /\ pc' = "passA" /\ macho' = Open(file')
      /\ round' = round /\ sizes' = sizes /\ edit' = edit /\ original' = original
      /\ result' = result
  BY DEF ModifyDylibs
<1>2. Kinds /\ AtModify
  BY <1>1 DEF Inv
<1>3. PICK m : m = Open(file)
  OBVIOUS
<1>4. PICK slices :
        slices = [i \in DOMAIN m.slices |-> InjectAll(Remove(m.slices[i], edit), edit.inject)]
  OBVIOUS
<1>5. file' = WriteToFile(file, [m EXCEPT !.slices = slices], NoSignatures(m))
  BY <1>3, <1>4 DEF ModifyDylibs
<1>6. RoundsLeft(round) \in Nat
  BY <1>2, Rounds DEF Kinds
<1>7. /\ edit \in Edits /\ Ready(file, m, RoundsLeft(round) + MaxInject)
      /\ \A i \in 1..Len(m.slices) : m.slices[i].offset + m.slices[i].size <= Len(file)
      /\ original = file
  BY <1>2, <1>3 DEF AtModify
<1>8. /\ GoodMacho(Open(file')) /\ Ready(file', Open(file'), RoundsLeft(round))
      /\ AllDerived(file', Open(file'), file, edit)
  BY <1>3, <1>4, <1>5, <1>6, <1>7, Modified
<1>9. Kinds'
  BY <1>1, <1>2, <1>8 DEF Kinds
<1>10. AtPassA'
  BY <1>1, <1>7, <1>8 DEF AtPassA
<1> QED BY <1>1, <1>9, <1>10 DEF Inv, Signed

(* Leaving the load commands of another binary alone.                      *)
LEMMA KeepStep == Inv /\ KeepDylibs => Inv'
<1> SUFFICES ASSUME Inv, KeepDylibs PROVE Inv'
  OBVIOUS
<1>1. /\ pc = "modify" /\ pc' = "passA" /\ macho' = macho /\ file' = file
      /\ round' = round /\ sizes' = sizes /\ edit' = NoEdit /\ original' = original
      /\ result' = result
  BY DEF KeepDylibs, NoEdit
<1>2. Kinds /\ AtModify
  BY <1>1 DEF Inv
<1>3. /\ Ready(file, macho, RoundsLeft(round) + MaxInject) /\ macho = Open(file)
      /\ original = file
  BY <1>2 DEF AtModify
<1>4. RoundsLeft(round) \in Nat /\ MaxInject \in Nat
  BY <1>2, Rounds DEF Kinds
<1>5. Ready(file, macho, RoundsLeft(round))
  <2>1. ASSUME NEW i \in 1..Len(macho.slices)
        PROVE  HasRoom(file, macho.slices[i], RoundsLeft(round))
    <3>1. PICK s : s = macho.slices[i]
      OBVIOUS
    <3>2. GoodSlice(s) /\ HasRoom(file, s, RoundsLeft(round) + MaxInject)
      BY <1>3, <3>1 DEF Ready, GoodMacho
    <3>3. PICK limit \in Nat : limit = CalculateCodeLimit(s)
      BY <3>2 DEF GoodSlice
    <3>4. PICK k \in Nat : k = RoundsLeft(round)
      BY <1>4
    <3>5. PICK x \in {0, 1} : x = IF HasCmd(s, "codesig") THEN 0 ELSE 1
      OBVIOUS
    <3>6. CmdsEnd(s) \in Nat
      BY <3>2 DEF GoodSlice, GoodCmds, IsCells, CmdsEnd
    <3>7. CmdsEnd(s) + x + (k + MaxInject) <= limit /\ s.offset + limit <= Len(file)
      BY <3>2, <3>3, <3>4, <3>5 DEF HasRoom
    <3>8. CmdsEnd(s) + x + k <= limit
      BY <1>4, <3>6, <3>7
    <3> QED BY <3>1, <3>3, <3>4, <3>5, <3>7, <3>8 DEF HasRoom
  <2> QED BY <2>1, <1>3 DEF Ready
<1>6. AllDerived(file, macho, file, NoEdit)
  <2>1. ASSUME NEW s PROVE Loaded(s, NoEdit) = Loads(s)
    <3>1. \A d : ~ShouldRemove(Dylib(d), NoEdit)
      BY DEF ShouldRemove, NoEdit, Dylib
    <3>2. DOMAIN NoEdit.inject = {}
      BY DEF NoEdit
    <3> QED BY <3>1, <3>2 DEF Loaded
  <2>2. macho.slices = Slices(file)
    BY <1>3 DEF Slices
  <2> QED BY <2>1, <2>2 DEF AllDerived, Derived
<1>7. Kinds'
  BY <1>1, <1>2 DEF Kinds
<1>8. AtPassA'
  BY <1>1, <1>3, <1>5, <1>6 DEF AtPassA
<1> QED BY <1>1, <1>7, <1>8 DEF Inv, Signed

(* Pass A finds out sizes, one for each slice.                             *)
LEMMA PassAStep == Inv /\ PassA => Inv'
<1> SUFFICES ASSUME Inv, PassA PROVE Inv'
  OBVIOUS
<1>1. /\ pc = "passA" /\ pc' = "passB" /\ file' = file
      /\ round' = round /\ edit' = edit /\ original' = original /\ result' = result
  BY DEF PassA
<1>2. Kinds /\ AtPassA
  BY <1>1 DEF Inv
<1>3. /\ Ready(file, macho, RoundsLeft(round)) /\ AllDerived(file, macho, original, edit)
      /\ RoundsLeft(round) \in Nat
  BY <1>2, Rounds DEF AtPassA, Kinds
<1>4. PICK slices :
        slices = [i \in DOMAIN macho.slices |->
           SetCodeSignatureCmd(macho.slices[i], CalculateCodeLimit(macho.slices[i]), 0)]
  OBVIOUS
<1>5. macho' = [macho EXCEPT !.slices = slices]
  BY <1>4 DEF PassA
<1>6. PICK tmpA : tmpA = WriteToFile(file, macho', NoSignatures(macho))
  OBVIOUS
<1>7. PICK cms \in [DOMAIN Open(tmpA).slices -> CMSSizes] :
        sizes' = [i \in DOMAIN Open(tmpA).slices |->
                     Len(SignSlice(tmpA, Open(tmpA).slices[i], cms[i]))]
  BY <1>6 DEF PassA
<1>8. /\ Ready(file, macho', RoundsLeft(round)) /\ AllDerived(file, macho', original, edit)
      /\ \A i \in 1..Len(macho'.slices) : HasCmd(macho'.slices[i], "codesig")
      /\ DOMAIN Open(tmpA).slices = 1..Len(macho'.slices)
  <2>1. PICK new : new = macho'
    OBVIOUS
  <2>2. PICK k \in Nat : k = RoundsLeft(round)
    BY <1>3
  <2>3. new = [macho EXCEPT !.slices = slices] /\ tmpA = WriteToFile(file, new, NoSignatures(macho))
    BY <2>1, <1>5, <1>6
  <2>4. Ready(file, macho, k) /\ AllDerived(file, macho, original, edit)
    BY <1>3, <2>2
  <2>5. HasCommands(file, [macho EXCEPT !.slices = slices], tmpA, original, edit, k)
    BY <2>3, <2>4, <1>4, Discovered
  <2>6. HasCommands(file, new, tmpA, original, edit, k)
    BY <2>3, <2>5
  <2> QED BY <2>1, <2>2, <2>6 DEF HasCommands
<1>9. PICK n \in Nat : n = Len(macho'.slices)
  BY <1>8 DEF Ready, GoodMacho, IsCells
<1>10. \A i \in 1..n : sizes'[i] \in Nat \ {0}
  <2> SUFFICES ASSUME NEW i \in 1..n PROVE sizes'[i] \in Nat \ {0}
    OBVIOUS
  <2>1. PICK c \in Nat : c = cms[i]
    BY <1>7, <1>8, <1>9, LayoutAssumption
  <2>2. sizes'[i] = Len(SignSlice(tmpA, Open(tmpA).slices[i], c))
    BY <1>7, <1>8, <1>9, <2>1
  <2>3. Len(SignSlice(tmpA, Open(tmpA).slices[i], c)) = 1 + c
    BY <2>1, SignatureOf
  <2> QED BY <2>2, <2>3
<1>11. IsCells(sizes') /\ Len(sizes') = n
  <2>1. sizes' = [i \in 1..n |-> sizes'[i]]
    BY <1>7, <1>8, <1>9
  <2> QED BY <2>1, LengthOf
<1>12. Kinds'
  BY <1>1, <1>2, <1>10, <1>11 DEF Kinds
<1>13. AtPassB'
  BY <1>1, <1>8, <1>9, <1>11 DEF AtPassB
<1> QED BY <1>1, <1>12, <1>13 DEF Inv, Signed

(* Pass B writes the commands with these sizes.                            *)
LEMMA PassBStep == Inv /\ PassB => Inv'
<1> SUFFICES ASSUME Inv, PassB PROVE Inv'
  OBVIOUS
<1>1. /\ pc = "passB" /\ pc' = "passC" /\ file' = file /\ sizes' = sizes
      /\ round' = round /\ edit' = edit /\ original' = original /\ result' = result
  BY DEF PassB
<1>2. Kinds /\ AtPassB
  BY <1>1 DEF Inv
<1>3. /\ Ready(file, macho, RoundsLeft(round)) /\ AllDerived(file, macho, original, edit)
      /\ RoundsLeft(round) \in Nat /\ Len(sizes) = Len(macho.slices)
      /\ \A i \in 1..Len(macho.slices) : HasCmd(macho.slices[i], "codesig")
  BY <1>2, Rounds DEF AtPassB, Kinds
<1>4. \A i \in 1..Len(macho.slices) : sizes[i] \in Nat
  BY <1>2, <1>3 DEF Kinds
<1>5. PICK slices :
        slices = [i \in DOMAIN macho.slices |-> FinalSlice(macho.slices[i], sizes[i])]
  OBVIOUS
<1>6. tmpB' = WriteToFile(file, [macho EXCEPT !.slices = slices], NoSignatures(macho))
  BY <1>5 DEF PassB
<1>7. /\ Ready(tmpB', Open(tmpB'), RoundsLeft(round))
      /\ AllDerived(tmpB', Open(tmpB'), original, edit)
      /\ Len(Slices(tmpB')) = Len(macho.slices)
      /\ \A i \in 1..Len(Slices(tmpB')) :
            InPlace(tmpB', Slices(tmpB')[i]) /\ Final(Slices(tmpB')[i], sizes[i])
  <2>1. PICK g : g = tmpB'
    OBVIOUS
  <2>2. PICK k \in Nat : k = RoundsLeft(round)
    BY <1>3
  <2>3. PICK lens : lens = sizes
    OBVIOUS
  <2>4. /\ Ready(file, macho, k) /\ AllDerived(file, macho, original, edit)
        /\ \A i \in 1..Len(macho.slices) : lens[i] \in Nat
        /\ \A i \in 1..Len(macho.slices) : HasCmd(macho.slices[i], "codesig")
    BY <1>3, <1>4, <2>2, <2>3
  <2>5. /\ slices = [i \in DOMAIN macho.slices |-> FinalSlice(macho.slices[i], lens[i])]
        /\ g = WriteToFile(file, [macho EXCEPT !.slices = slices], NoSignatures(macho))
    BY <1>5, <1>6, <2>1, <2>3
  <2>6. /\ Ready(g, Open(g), k) /\ AllDerived(g, Open(g), original, edit)
        /\ Len(Slices(g)) = Len(macho.slices)
        /\ \A i \in 1..Len(Slices(g)) :
              InPlace(g, Slices(g)[i]) /\ Final(Slices(g)[i], lens[i])
    BY <2>4, <2>5, Finalized
  <2> QED BY <2>1, <2>2, <2>3, <2>6
<1>8. Kinds'
  BY <1>1, <1>2 DEF Kinds
<1>9. AtPassC'
  BY <1>1, <1>3, <1>7 DEF AtPassC
<1> QED BY <1>1, <1>8, <1>9 DEF Inv, Signed

(* Pass C either fails or leaves a file that is signed well.               *)
LEMMA PassCStep == Inv /\ PassC => Inv'
<1> SUFFICES ASSUME Inv, PassC PROVE Inv'
  OBVIOUS
<1>1. /\ pc = "passC" /\ pc' = "done" /\ sizes' = sizes
      /\ round' = round /\ edit' = edit /\ original' = original
  BY DEF PassC
<1>2. Kinds /\ AtPassC
  BY <1>1 DEF Inv
<1>3. PICK m : m = Open(tmpB)
  OBVIOUS
<1>4. /\ Ready(tmpB, m, RoundsLeft(round)) /\ AllDerived(tmpB, m, original, edit)
      /\ RoundsLeft(round) \in Nat /\ m.slices = Slices(tmpB)
      /\ Len(sizes) = Len(m.slices)
      /\ \A i \in 1..Len(m.slices) : InPlace(tmpB, m.slices[i]) /\ Final(m.slices[i], sizes[i])
  BY <1>2, <1>3, Rounds DEF AtPassC, Kinds, Slices
<1>5. PICK n \in Nat : n = Len(m.slices)
  BY <1>4 DEF Ready, GoodMacho, IsCells
<1>6. DOMAIN m.slices = 1..n
  BY <1>4, <1>5, CellsAreSeq DEF Ready, GoodMacho
<1>7. PICK cms \in [DOMAIN m.slices -> CMSSizes] :
        LET sig == [i \in DOMAIN m.slices |-> SignSlice(tmpB, m.slices[i], cms[i])]
        IN  IF \E i \in DOMAIN sig : Len(sig[i]) > sizes[i]
            THEN result' = "grew" /\ UNCHANGED file
            ELSE /\ result' = "ok"
                 /\ file' = WriteToFile(tmpB, m, [i \in DOMAIN sig |-> Pad(sig[i], sizes[i])])
  BY <1>3 DEF PassC
<1>8. PICK sig : sig = [i \in 1..n |-> SignSlice(tmpB, m.slices[i], cms[i])]
  OBVIOUS
<1>9. IF \E i \in 1..n : Len(sig[i]) > sizes[i]
      THEN result' = "grew" /\ file' = file
      ELSE /\ result' = "ok"
           /\ file' = WriteToFile(tmpB, m, [i \in 1..n |-> Pad(sig[i], sizes[i])])
  BY <1>6, <1>7, <1>8
<1>10. CASE \E i \in 1..n : Len(sig[i]) > sizes[i]
  <2>1. result' = "grew" /\ file' = file
    BY <1>9, <1>10
  <2>2. Kinds'
    BY <2>1, <1>1, <1>2 DEF Kinds
  <2> QED BY <2>1, <2>2, <1>1 DEF Inv, Signed
<1>11. CASE ~\E i \in 1..n : Len(sig[i]) > sizes[i]
  <2>1. PICK padded : padded = [i \in 1..n |-> Pad(sig[i], sizes[i])]
    OBVIOUS
  <2>2. result' = "ok" /\ file' = WriteToFile(tmpB, m, padded)
    BY <1>9, <1>11, <2>1
  <2>3. ASSUME NEW i \in 1..n
        PROVE  /\ IsCells(padded[i]) /\ Len(padded[i]) = sizes[i] /\ sizes[i] > 0
               /\ padded[i][1] = CodeDirectory(
                    ComputePageHashes(tmpB, m.slices[i].offset, CalculateCodeLimit(m.slices[i])))
    <3>1. PICK c \in Nat : c = cms[i]
      BY <1>6, <1>7, LayoutAssumption
    <3>2. PICK s : s = m.slices[i]
      OBVIOUS
    <3>3. PICK z : z = sig[i]
      OBVIOUS
    <3>4. z = SignSlice(tmpB, s, c)
      BY <1>8, <3>1, <3>2, <3>3
    <3>5. /\ IsCells(z) /\ Len(z) = 1 + c
          /\ z[1] = CodeDirectory(ComputePageHashes(tmpB, s.offset, CalculateCodeLimit(s)))
      BY <3>4, SignatureOf
    <3>6. PICK size \in Nat \ {0} : size = sizes[i]
      BY <1>2, <1>4, <1>5 DEF Kinds
    <3>7. ~(Len(z) > size)
      BY <1>11, <3>3, <3>6
    <3>8. Len(z) > 0 /\ Len(z) <= size
      BY <3>5, <3>7
    <3>9. padded[i] = Pad(z, size)
      BY <2>1, <3>3, <3>6
    <3>10. IsCells(padded[i]) /\ Len(padded[i]) = size /\ padded[i][1] = z[1]
      BY <3>5, <3>8, <3>9, Padded
    <3> QED BY <3>2, <3>5, <3>6, <3>10
  <2>4. PICK k \in Nat : k = RoundsLeft(round)
    BY <1>4
  <2>5. /\ Ready(file', Open(file'), k) /\ AllDerived(file', Open(file'), original, edit)
        /\ SignedWell(file', Slices(file'))
        /\ Open(file').fat => Apart(Slices(file'))
    <3>1. \A i \in 1..Len(m.slices) :
             /\ InPlace(tmpB, m.slices[i]) /\ Final(m.slices[i], sizes[i])
             /\ IsCells(padded[i]) /\ Len(padded[i]) = sizes[i] /\ sizes[i] > 0
             /\ padded[i][1] = CodeDirectory(
                   ComputePageHashes(tmpB, m.slices[i].offset, CalculateCodeLimit(m.slices[i])))
      BY <1>4, <1>5, <2>3
    <3>2. Ready(tmpB, m, k) /\ AllDerived(tmpB, m, original, edit)
      BY <1>4, <2>4
    <3> QED BY <2>2, <3>1, <3>2, SignedFile
  <2>6. Kinds'
    BY <2>2, <2>5, <1>1, <1>2 DEF Kinds, Ready
  <2>8. RoundsLeft(round)' = k
    BY <2>4, <1>1 DEF RoundsLeft
  <2>9. SignedState(file', original, edit, k)
    BY <2>5 DEF SignedState
  <2>7. AtSigned'
    BY <2>8, <2>9, <1>1 DEF AtSigned
  <2> QED BY <2>2, <2>6, <2>7, <1>1 DEF Inv
<1> QED BY <1>10, <1>11

(* The signed file has what another round needs. *)
LEMMA AgainStep == Inv /\ Again => Inv'
<1> SUFFICES ASSUME Inv, Again PROVE Inv'
  OBVIOUS
<1>1. /\ pc = "done" /\ result = "ok" /\ round < MaxRounds /\ round' = round + 1
      /\ pc' = "modify" /\ macho' = Open(file) /\ original' = file /\ edit' \in Edits
      /\ sizes' = <<>> /\ result' = "none" /\ file' = file
  BY DEF Again
<1>2. Kinds /\ AtSigned
  BY <1>1 DEF Inv, Signed
<1>3. round \in 1..MaxRounds /\ MaxRounds \in Nat
  BY <1>2, LayoutAssumption DEF Kinds
<1>4. RoundsLeft(round + 1) + MaxInject = RoundsLeft(round)
  BY <1>1, <1>3, Rounds
<1>5. Ready(file, Open(file), RoundsLeft(round + 1) + MaxInject)
  BY <1>2, <1>4 DEF AtSigned, SignedState
<1>6. \A i \in 1..Len(Slices(file)) :
         Slices(file)[i].offset + Slices(file)[i].size <= Len(file)
  BY <1>2 DEF AtSigned, SignedState, SignedWell, EndsTogether
<1>7. Kinds'
  <2>1. round + 1 \in 1..MaxRounds
    BY <1>1, <1>3
  <2>2. IsCells(sizes') /\ Len(sizes') = 0
    BY <1>1, NoCells
  <2> QED BY <2>1, <2>2, <1>1, <1>2 DEF Kinds
<1>8. AtModify'
  BY <1>1, <1>5, <1>6 DEF AtModify, Slices
<1> QED BY <1>1, <1>7, <1>8 DEF Inv, Signed

(* The invariant is inductive, so it holds in every state.                 *)
THEOREM SigningInvariantHolds == Spec => []Inv
<1>1. Init => Inv
  BY InitInv
<1>2. Inv /\ [Next]_vars => Inv'
  <2> SUFFICES ASSUME Inv, [Next]_vars PROVE Inv'
    OBVIOUS
  <2>1. CASE ModifyDylibs
    BY <2>1, ModifyStep
  <2>2. CASE KeepDylibs
    BY <2>2, KeepStep
  <2>3. CASE PassA
    BY <2>3, PassAStep
  <2>4. CASE PassB
    BY <2>4, PassBStep
  <2>5. CASE PassC
    BY <2>5, PassCStep
  <2>6. CASE Again
    BY <2>6, AgainStep
  <2>7. CASE UNCHANGED vars
    <3>1. /\ pc' = pc /\ round' = round /\ file' = file /\ macho' = macho /\ sizes' = sizes
          /\ tmpB' = tmpB /\ edit' = edit /\ original' = original /\ result' = result
      BY <2>7 DEF vars
    <3>2. Kinds' /\ (AtModify => AtModify') /\ (AtPassA => AtPassA') /\ (AtPassB => AtPassB')
          /\ (AtPassC => AtPassC') /\ (AtSigned => AtSigned')
      BY <3>1 DEF Inv, Kinds, AtModify, AtPassA, AtPassB, AtPassC, AtSigned
    <3> QED BY <3>1, <3>2 DEF Inv, Signed
  <2> QED BY <2>1, <2>2, <2>3, <2>4, <2>5, <2>6, <2>7 DEF Next, Done
<1> QED BY <1>1, <1>2, PTL DEF Spec

-----------------------------------------------------------------------------
(* What the runs check. *)

(* What the invariant says of a signed file.                               *)
LEMMA SignedFacts ==
    ASSUME Inv, Signed
    PROVE  /\ GoodMacho(Open(file)) /\ DOMAIN Slices(file) = 1..Len(Slices(file))
           /\ AllDerived(file, Open(file), original, edit) /\ SignedWell(file, Slices(file))
           /\ (Open(file).fat => Apart(Slices(file)))
           /\ Open(file).slices = Slices(file)
           /\ \A i \in 1..Len(Slices(file)) : GoodSlice(Slices(file)[i])
<1>1. Kinds /\ AtSigned
  BY DEF Inv
<1>2. Open(file).slices = Slices(file)
  BY DEF Slices
<1>3. /\ GoodMacho(Open(file)) /\ IsCells(Slices(file))
      /\ \A i \in 1..Len(Slices(file)) : GoodSlice(Slices(file)[i])
  BY <1>1, <1>2 DEF Kinds, GoodMacho
<1>4. DOMAIN Slices(file) = 1..Len(Slices(file))
  BY <1>3, CellsAreSeq
<1> QED BY <1>1, <1>2, <1>3, <1>4 DEF AtSigned, SignedState

(* At every step of resign.go's passes the file can be parsed, and what    *)
(* its headers count are load commands.                                    *)
THEOREM SigningTypes == Spec => []TypeOK
<1>1. Inv => TypeOK
  <2> SUFFICES ASSUME Inv PROVE TypeOK
    OBVIOUS
  <2>1. Kinds
    BY DEF Inv
  <2>2. sizes \in Seq(Nat)
    <3> DEFINE S == {sizes[k] : k \in 1..Len(sizes)}
    <3>1. sizes \in Seq(S) /\ S \subseteq Nat
      BY <2>1, CellsAreSeq DEF Kinds
    <3> HIDE DEF S
    <3> QED BY <3>1, SeqMonotonic
  <2>3. ASSUME NEW i \in DOMAIN Open(file).slices,
               NEW j \in 1..Open(file).slices[i].ncmds
        PROVE  \E kind \in {"linkedit", "dylib", "codesig"} :
                  Is(kind, Open(file).slices[i].cmds[j])
    <3>1. i \in 1..Len(Open(file).slices)
      BY <2>1, CellsAreSeq DEF Kinds, GoodMacho
    <3>2. GoodSlice(Open(file).slices[i])
      BY <2>1, <3>1 DEF Kinds, GoodMacho
    <3>3. IsCommand(Open(file).slices[i].cmds[j])
      BY <3>2, <2>3 DEF GoodSlice, GoodCmds
    <3> QED BY <3>3 DEF IsCommand, Is
  <2> QED BY <2>1, <2>2, <2>3 DEF TypeOK, Kinds, NoEdit
<1> QED BY <1>1, SigningInvariantHolds, PTL

(* The CodeDirectory hashes the file as pass C wrote it.                   *)
THEOREM SignedHashesMatch == Spec => []HashesMatchFile
<1>1. Inv => HashesMatchFile
  <2> SUFFICES ASSUME Inv, Signed, NEW i \in DOMAIN Slices(file)
               PROVE  Hashed(file, Slices(file)[i])
    BY DEF HashesMatchFile, Hashed
  <2> QED BY SignedFacts DEF SignedWell
<1> QED BY <1>1, SigningInvariantHolds, PTL

(* Slice, signature and __LINKEDIT end together.                           *)
THEOREM SignedEndsAgree == Spec => []EndsAgree
<1>1. Inv => EndsAgree
  <2> SUFFICES ASSUME Inv, Signed, NEW i \in DOMAIN Slices(file)
               PROVE  EndsTogether(file, Slices(file)[i], i = Len(Slices(file)))
    BY DEF EndsAgree, EndsTogether
  <2> QED BY SignedFacts DEF SignedWell
<1> QED BY <1>1, SigningInvariantHolds, PTL

(* The writer places the slices of a FAT file where none reaches the next. *)
THEOREM SignedSlicesApart == Spec => []SlicesApart
<1>1. Inv => SlicesApart
  <2> SUFFICES ASSUME Inv, Signed, Open(file).fat PROVE SlicesApart
    BY DEF SlicesApart
  <2>1. Apart(Slices(file)) /\ DOMAIN Slices(file) = 1..Len(Slices(file))
    BY SignedFacts
  <2> QED BY <2>1 DEF SlicesApart, Apart
<1> QED BY <1>1, SigningInvariantHolds, PTL

(* Re-signing moves no code, if the new commands fit.                      *)
THEOREM SignedCodeIsKept == Spec => []CodeIsKept
<1>1. Inv => CodeIsKept
  <2> SUFFICES ASSUME Inv, Signed, NEW i \in DOMAIN Slices(file), Fits(i),
                      NEW p \in Contents(original, Slices(original)[i])
               PROVE  /\ p < CalculateCodeLimit(Slices(file)[i])
                      /\ file[Slices(file)[i].offset + p + 1]
                           = original[Slices(original)[i].offset + p + 1]
    BY DEF CodeIsKept, DataKept
  <2>1. PICK old : old = Slices(original)[i]
    OBVIOUS
  <2>2. PICK new : new = Slices(file)[i]
    OBVIOUS
  <2>3. i \in 1..Len(Slices(file)) /\ GoodSlice(new) /\ Derived(file, new, original, old, edit)
    BY <2>1, <2>2, SignedFacts DEF AllDerived
  <2>4. GoodSlice(old)
    <3>1. GoodMacho(Open(original)) /\ Len(Slices(file)) = Len(Slices(original))
      BY SignedFacts DEF Inv, Kinds, AllDerived
    <3> QED BY <3>1, <2>1, <2>3 DEF GoodMacho, Slices
  <2>5. /\ CmdsEnd(old) \in Nat /\ CmdsEnd(new) \in Nat /\ CalculateCodeLimit(old) \in Nat
        /\ CalculateCodeLimit(new) = CalculateCodeLimit(old)
    BY <2>3, <2>4 DEF GoodSlice, GoodCmds, IsCells, CmdsEnd, Derived
  <2>6. p \in CmdsEnd(old)..(CalculateCodeLimit(old) - 1)
    BY <2>1 DEF Contents
  <2>7. p \notin 0..(CmdsEnd(new) - 1)
    BY <2>2 DEF Fits
  <2>8. p \in CmdsEnd(new)..(CalculateCodeLimit(new) - 1)
    BY <2>5, <2>6, <2>7
  <2>9. p < CalculateCodeLimit(new)
    BY <2>5, <2>8
  <2> QED BY <2>1, <2>2, <2>3, <2>8, <2>9 DEF Derived
<1> QED BY <1>1, SigningInvariantHolds, PTL

(* The signed file loads what it is meant to.                              *)
THEOREM SignedLoads == Spec => []LoadsAsAsked
<1>1. Inv => LoadsAsAsked
  <2> SUFFICES ASSUME Inv, Signed, NEW i \in DOMAIN Slices(file)
               PROVE  Loads(Slices(file)[i]) = Loaded(Slices(original)[i], edit)
    BY DEF LoadsAsAsked, Loaded
  <2>1. i \in 1..Len(Slices(file)) /\ AllDerived(file, Open(file), original, edit)
        /\ Open(file).slices = Slices(file)
    BY SignedFacts
  <2> QED BY <2>1 DEF AllDerived, Derived
<1> QED BY <1>1, SigningInvariantHolds, PTL
===============================================================================
