--------------------------- MODULE IPAContentsProofs ---------------------------
(***************************************************************************)
(* What re-signing does to the contents of an archive, for all archives    *)
(* that can be unpacked, all requests and any number of rounds.            *)
(***************************************************************************)
EXTENDS IPAContents, FiniteSetTheorems, SequenceTheorems, WellFoundedInduction, TLAPS

-----------------------------------------------------------------------------
(* Sequences and numbers. *)

(* A set of numbers has a least one.                                       *)
LEMMA Smallest ==
    ASSUME NEW S, S \subseteq Nat, S # {}
    PROVE  \E m \in S : \A n \in S : m <= n
<1>1. PICK m \in S : \A n \in S : ~(<<n, m>> \in OpToRel(<, Nat))
  BY NatLessThanWellFounded, WFMin
<1>2. \A n \in S : ~(n < m)
  BY <1>1 DEF OpToRel
<1> QED BY <1>2

(* The least number of a set is in it.                                     *)
LEMMA MinIs ==
    ASSUME NEW S, S \subseteq Nat, S # {}
    PROVE  Min(S) \in S /\ \A n \in S : Min(S) <= n
<1>1. \E m \in S : \A n \in S : m <= n
  BY Smallest
<1> QED BY <1>1 DEF Min

(* What it means to be a prefix, name by name.                             *)
LEMMA PrefixIs ==
    ASSUME NEW S, NEW p \in Seq(S), NEW q \in Seq(S)
    PROVE  IsPrefix(p, q) <=> /\ Len(p) <= Len(q)
                              /\ \A j \in 1..Len(p) : p[j] = q[j]
<1>1. Len(p) \in Nat /\ Len(q) \in Nat
  BY LenProperties
<1>2. SubSeq(p, 1, Len(p)) = p
  BY SubSeqFull
<1>3. ASSUME Len(p) <= Len(q)
      PROVE  /\ SubSeq(q, 1, Len(p)) \in Seq(S) /\ Len(SubSeq(q, 1, Len(p))) = Len(p)
             /\ \A j \in 1..Len(p) : SubSeq(q, 1, Len(p))[j] = q[j]
  <2>1. \A j \in 1..Len(p) : j \in 1..Len(q)
    BY <1>1, <1>3
  <2>2. Len(p) - 1 + 1 = Len(p)
    BY <1>1
  <2>3. SubSeq(q, 1, Len(p)) = [j \in 1..Len(p) |-> q[j]]
    BY <1>1, <2>2
  <2> QED BY <1>1, <2>1, <2>3, ElementOfSeq
<1>4. ASSUME Len(p) <= Len(q)
      PROVE  p = SubSeq(q, 1, Len(p)) <=> \A j \in 1..Len(p) : p[j] = q[j]
  BY <1>3, <1>4, SeqEqual
<1> QED BY <1>2, <1>4 DEF IsPrefix

(* A shorter or longer one differs. *)
LEMMA StrictPrefixIs ==
    ASSUME NEW S, NEW p \in Seq(S), NEW q \in Seq(S)
    PROVE  IsStrictPrefix(p, q) <=> /\ Len(p) < Len(q)
                                    /\ \A j \in 1..Len(p) : p[j] = q[j]
<1>1. Len(p) \in Nat /\ Len(q) \in Nat
  BY LenProperties
<1>2. Len(p) = Len(q) /\ (\A j \in 1..Len(p) : p[j] = q[j]) => p = q
  BY SeqEqual
<1> QED BY <1>1, <1>2, PrefixIs DEF IsStrictPrefix

-----------------------------------------------------------------------------
(* The order of filepath.Walk. *)

(* Different names have different ranks.                                   *)
LEMMA RankIs ==
    /\ \A n \in Names : Rank[n] \in Nat
    /\ \A m, n \in Names : Rank[m] = Rank[n] => m = n
<1>1. NameOrder \in Seq(Names) /\ DOMAIN NameOrder = 1..Len(NameOrder)
      /\ Len(NameOrder) \in Nat
  BY NamesAssumption, LenProperties
<1>2. ASSUME NEW n \in Names
      PROVE  Rank[n] \in DOMAIN NameOrder /\ NameOrder[Rank[n]] = n
  <2>1. \E i \in DOMAIN NameOrder : NameOrder[i] = n
    BY <1>2 DEF Names, ToSet
  <2>2. Rank[n] = CHOOSE i \in DOMAIN NameOrder : NameOrder[i] = n
    BY <1>2 DEF Rank, Names
  <2> QED BY <2>1, <2>2
<1> QED BY <1>1, <1>2

(* The order is defined for paths of names. *)
LEMMA BeforeIs ==
    ASSUME NEW p \in Seq(Names), NEW q \in Seq(Names)
    PROVE  Before(p, q) <=>
              \/ Len(p) < Len(q) /\ \A j \in 1..Len(p) : p[j] = q[j]
              \/ \E i \in 1..Len(p) : /\ i <= Len(q)
                                      /\ \A j \in 1..(i - 1) : p[j] = q[j]
                                      /\ Rank[p[i]] < Rank[q[i]]
<1>1. DOMAIN p = 1..Len(p) /\ DOMAIN q = 1..Len(q) /\ Len(p) \in Nat /\ Len(q) \in Nat
  BY LenProperties
<1>2. \A i : i \in DOMAIN p \cap DOMAIN q <=> i \in 1..Len(p) /\ i <= Len(q)
  BY <1>1
<1> QED BY <1>2, StrictPrefixIs DEF Before

(* Nothing is before itself. *)
LEMMA BeforeIrreflexive ==
    ASSUME NEW p \in Seq(Names)
    PROVE  ~Before(p, p)
<1>1. \A i \in 1..Len(p) : Rank[p[i]] \in Nat
  BY RankIs, ElementOfSeq
<1>2. Len(p) \in Nat
  BY LenProperties
<1> QED BY <1>1, <1>2, BeforeIs

(* Of two paths one is before the other.                                   *)
LEMMA BeforeTotal ==
    ASSUME NEW p \in Seq(Names), NEW q \in Seq(Names), p # q
    PROVE  Before(p, q) \/ Before(q, p)
<1> DEFINE D == {i \in 1..Len(p) : i <= Len(q) /\ p[i] # q[i]}
<1>1. Len(p) \in Nat /\ Len(q) \in Nat
  BY LenProperties
<1>2. CASE D = {}
  <2>1. \A i \in 1..Len(p) : i <= Len(q) => p[i] = q[i]
    BY <1>2
  <2>2. Len(p) # Len(q)
    BY <2>1, <1>1, SeqEqual
  <2>3. CASE Len(p) < Len(q)
    BY <2>1, <2>3, <1>1, BeforeIs
  <2>4. CASE Len(q) < Len(p)
    <3>1. \A j \in 1..Len(q) : q[j] = p[j]
      BY <2>1, <2>4, <1>1
    <3> QED BY <3>1, <2>4, BeforeIs
  <2> QED BY <1>1, <2>2, <2>3, <2>4
<1>3. CASE D # {}
  <2>0. D \subseteq Nat
    BY <1>1
  <2>1. PICK i \in D : \A j \in D : i <= j
    BY <1>3, <2>0, Smallest
  <2>2. i \in 1..Len(p) /\ i \in 1..Len(q) /\ p[i] # q[i]
    BY <2>1, <1>1
  <2>3. \A j \in 1..(i - 1) : p[j] = q[j]
    <3> SUFFICES ASSUME NEW j \in 1..(i - 1), p[j] # q[j] PROVE FALSE
      OBVIOUS
    <3>1. j \in D /\ ~(i <= j)
      BY <2>2, <1>1
    <3> QED BY <3>1, <2>1
  <2>4. p[i] \in Names /\ q[i] \in Names
    BY <2>2, ElementOfSeq
  <2>5. Rank[p[i]] < Rank[q[i]] \/ Rank[q[i]] < Rank[p[i]]
    BY <2>4, <2>2, RankIs
  <2> HIDE DEF D
  <2>6. i <= Len(p) /\ i <= Len(q)
    BY <2>2, <1>1
  <2> QED BY <2>2, <2>3, <2>5, <2>6, BeforeIs
<1> QED BY <1>2, <1>3

(* What is before what is before a path is before it. *)
LEMMA BeforeTransitive ==
    ASSUME NEW p \in Seq(Names), NEW q \in Seq(Names), NEW r \in Seq(Names),
           Before(p, q), Before(q, r)
    PROVE  Before(p, r)
<1>1. Len(p) \in Nat /\ Len(q) \in Nat /\ Len(r) \in Nat
  BY LenProperties
<1> DEFINE Shorter(a, b) == Len(a) < Len(b) /\ \A j \in 1..Len(a) : a[j] = b[j]
           Less(a, b, i) == /\ i \in Nat /\ 1 <= i /\ i <= Len(a) /\ i <= Len(b)
                            /\ \A j \in 1..(i - 1) : a[j] = b[j]
                            /\ Rank[a[i]] < Rank[b[i]]
<1>2. \A a, b \in {p, q, r} : Before(a, b) <=> Shorter(a, b) \/ \E i \in Nat : Less(a, b, i)
  <2> SUFFICES ASSUME NEW a \in {p, q, r}, NEW b \in {p, q, r}
               PROVE  Before(a, b) <=> Shorter(a, b) \/ \E i \in Nat : Less(a, b, i)
    OBVIOUS
  <2>1. a \in Seq(Names) /\ b \in Seq(Names) /\ Len(a) \in Nat /\ Len(b) \in Nat
    BY <1>1
  <2> QED BY <2>1, BeforeIs
<1>3. CASE Shorter(p, q) /\ Shorter(q, r)
  <2>1. \A j \in 1..Len(p) : p[j] = r[j]
    BY <1>1, <1>3
  <2> QED BY <1>1, <1>2, <1>3, <2>1
<1>4. ASSUME NEW i \in Nat, Less(q, r, i), Shorter(p, q) PROVE Before(p, r)
  <2>1. CASE i <= Len(p)
    <3>1. Less(p, r, i)
      BY <1>1, <1>4, <2>1
    <3> QED BY <3>1, <1>2
  <2>2. CASE Len(p) < i
    <3>1. Shorter(p, r)
      BY <1>1, <1>4, <2>2
    <3> QED BY <3>1, <1>2
  <2> QED BY <1>1, <2>1, <2>2
<1>5. ASSUME NEW i \in Nat, Less(p, q, i), Shorter(q, r) PROVE Before(p, r)
  <2>1. Less(p, r, i)
    BY <1>1, <1>5
  <2> QED BY <2>1, <1>2
<1>6. ASSUME NEW i \in Nat, Less(p, q, i), NEW k \in Nat, Less(q, r, k) PROVE Before(p, r)
  <2>1. CASE i < k
    <3>1. Less(p, r, i)
      BY <1>1, <1>6, <2>1
    <3> QED BY <3>1, <1>2
  <2>2. CASE k < i
    <3>1. Less(p, r, k)
      BY <1>1, <1>6, <2>2
    <3> QED BY <3>1, <1>2
  <2>3. CASE i = k
    <3>1. p[i] \in Names /\ q[i] \in Names /\ r[i] \in Names
      BY <1>1, <1>6, <2>3, ElementOfSeq
    <3>2. Rank[p[i]] < Rank[r[i]]
      BY <1>6, <2>3, <3>1, RankIs
    <3>3. Less(p, r, i)
      BY <1>1, <1>6, <2>3, <3>2
    <3> QED BY <3>3, <1>2
  <2> QED BY <2>1, <2>2, <2>3
<1>7. Shorter(p, q) \/ \E i \in Nat : Less(p, q, i)
  BY <1>2
<1>8. Shorter(q, r) \/ \E i \in Nat : Less(q, r, i)
  BY <1>2
<1> HIDE DEF Shorter, Less
<1> QED BY <1>3, <1>4, <1>5, <1>6, <1>7, <1>8

IsWalk(w, paths) ==
    LET n == Cardinality(paths)
    IN  /\ n \in Nat
        /\ w = [i \in 1..n |-> w[i]]
        /\ \A i \in 1..n : w[i] \in paths
        /\ \A p \in paths : \E i \in 1..n : w[i] = p
        /\ IsInjective(w)

(***************************************************************************)
(* The walk visits each path once: each has a number of paths before it,   *)
(* and no two have the same.                                               *)
(***************************************************************************)
LEMMA WalkIs ==
    ASSUME NEW paths, IsFiniteSet(paths), paths \subseteq Seq(Names)
    PROVE  IsWalk(Walk(paths), paths)
<1> DEFINE n == Cardinality(paths)
           S(p) == {q \in paths : Before(q, p)}
           At(p) == Cardinality(S(p)) + 1
           at == [p \in paths |-> At(p)]
<1>1. n \in Nat
  BY FS_CardinalityType
<1>2. ASSUME NEW p \in paths
      PROVE  IsFiniteSet(S(p)) /\ Cardinality(S(p)) \in Nat /\ At(p) \in 1..n
  <2>1. S(p) \in SUBSET paths /\ p \in paths /\ p \notin S(p)
    BY <1>2, BeforeIrreflexive
  <2>2. IsFiniteSet(S(p)) /\ Cardinality(S(p)) <= n /\ (Cardinality(S(p)) = n => S(p) = paths)
    BY <2>1, FS_Subset
  <2>3. Cardinality(S(p)) \in Nat
    BY <2>2, FS_CardinalityType
  <2>4. Cardinality(S(p)) # n
    BY <2>1, <2>2
  <2> HIDE DEF S, n
  <2> QED BY <1>1, <2>2, <2>3, <2>4
<1>3. ASSUME NEW p \in paths, NEW q \in paths, Before(p, q)
      PROVE  At(p) < At(q)
  <2>1. S(p) \in SUBSET S(q) /\ p \in S(q) /\ p \notin S(p)
    BY <1>3, BeforeTransitive, BeforeIrreflexive
  <2>2. /\ Cardinality(S(p)) <= Cardinality(S(q))
        /\ Cardinality(S(p)) = Cardinality(S(q)) => S(p) = S(q)
    BY <1>2, <2>1, FS_Subset
  <2>3. Cardinality(S(p)) # Cardinality(S(q))
    BY <2>1, <2>2
  <2>4. Cardinality(S(p)) \in Nat /\ Cardinality(S(q)) \in Nat
    BY <1>2
  <2> HIDE DEF S
  <2> QED BY <2>2, <2>3, <2>4
<1>4. \A p, q \in paths : At(p) = At(q) => p = q
  <2> SUFFICES ASSUME NEW p \in paths, NEW q \in paths, At(p) = At(q), p # q PROVE FALSE
    OBVIOUS
  <2>1. Before(p, q) \/ Before(q, p)
    BY BeforeTotal
  <2>2. At(p) < At(q) \/ At(q) < At(p)
    BY <1>3, <2>1
  <2>3. At(p) \in 1..n /\ At(q) \in 1..n
    BY <1>2
  <2> HIDE DEF At, n
  <2> QED BY <1>1, <2>2, <2>3
<1> HIDE DEF At, n
<1>5. at \in [paths -> 1..n] /\ IsInjective(at)
  BY <1>2, <1>4 DEF IsInjective
<1>6. \A i \in 1..n : \E p \in paths : At(p) = i
  <2>1. IsFiniteSet(1..n) /\ Cardinality(1..n) = n
    BY <1>1, FS_Interval
  <2> SUFFICES ASSUME NEW i \in 1..n, \A p \in paths : At(p) # i PROVE FALSE
    OBVIOUS
  <2>2. IsFiniteSet((1..n) \ {i}) /\ Cardinality((1..n) \ {i}) = n - 1
    BY <2>1, FS_RemoveElement
  <2>3. at \in [paths -> (1..n) \ {i}]
    BY <1>5
  <2>4. at \in Injection(paths, (1..n) \ {i})
    BY <2>3, <1>5 DEF Injection
  <2>5. Cardinality(paths) <= Cardinality((1..n) \ {i})
    BY <2>2, <2>4, FS_Injection
  <2> QED BY <1>1, <2>2, <2>5 DEF n
<1>7. PICK w : w = Walk(paths)
  OBVIOUS
<1> DEFINE Nth(i) == CHOOSE p \in paths : Cardinality(S(p)) = i - 1
<1>8. w = [i \in 1..n |-> Nth(i)]
  BY <1>7 DEF Walk, n
<1>9. ASSUME NEW i \in 1..n
      PROVE  w[i] \in paths /\ At(w[i]) = i
  <2>1. PICK p \in paths : At(p) = i
    BY <1>6
  <2>2. \A q \in paths : Cardinality(S(q)) = i - 1 <=> At(q) = i
    <3> SUFFICES ASSUME NEW q \in paths PROVE Cardinality(S(q)) = i - 1 <=> At(q) = i
      OBVIOUS
    <3>1. Cardinality(S(q)) \in Nat
      BY <1>2
    <3>2. At(q) = Cardinality(S(q)) + 1
      BY DEF At
    <3> HIDE DEF S
    <3> QED BY <1>1, <3>1, <3>2
  <2>3. w[i] = CHOOSE q \in paths : Cardinality(S(q)) = i - 1
    BY <1>8
  <2> QED BY <2>1, <2>2, <2>3
<1>10. \A p \in paths : At(p) \in 1..n /\ w[At(p)] = p
  BY <1>2, <1>4, <1>9
<1> HIDE DEF Nth
<1>11. w = [i \in 1..n |-> w[i]]
  BY <1>8
<1>12. IsInjective(w)
  BY <1>8, <1>9 DEF IsInjective
<1> QED BY <1>1, <1>7, <1>9, <1>10, <1>11, <1>12 DEF n, IsWalk

-----------------------------------------------------------------------------
(* Paths, and what is in an app. *)

(* A path of known length, name by name.                                   *)
LEMMA Tuples ==
    ASSUME NEW S, NEW p \in Seq(S)
    PROVE  /\ Len(p) = 2 => p = <<p[1], p[2]>>
           /\ Len(p) = 3 => p = <<p[1], p[2], p[3]>>
           /\ Len(p) = 4 => p = <<p[1], p[2], p[3], p[4]>>
           /\ Len(p) = 5 => p = <<p[1], p[2], p[3], p[4], p[5]>>
           /\ Len(p) = 6 => p = <<p[1], p[2], p[3], p[4], p[5], p[6]>>
OBVIOUS

Extended(r, p, n) ==
    /\ Len(r) = Len(p) + 1
    /\ \A i \in 1..Len(p) : r[i] = p[i]
    /\ r[Len(p) + 1] = n

(* What Append does, with its conclusion as one predicate.                 *)
LEMMA AppendIs ==
    ASSUME NEW S, NEW p \in Seq(S), NEW n \in S
    PROVE  /\ Append(p, n) \in Seq(S) /\ Extended(Append(p, n), p, n)
           /\ Append(p, n) = p \o <<n>>
BY AppendProperties, AppendIsConcat DEF Extended

(* A name behind a path of known length. *)
LEMMA Longer ==
    ASSUME NEW S, NEW p \in Seq(S), NEW n
    PROVE  /\ Len(p) = 2 => Append(p, n) = <<p[1], p[2], n>>
           /\ Len(p) = 3 => Append(p, n) = <<p[1], p[2], p[3], n>>
           /\ Len(p) = 4 => Append(p, n) = <<p[1], p[2], p[3], p[4], n>>
           /\ Len(p) = 5 => Append(p, n) = <<p[1], p[2], p[3], p[4], p[5], n>>
<1> DEFINE T == S \cup {n}
<1>0. p \in Seq(T) /\ n \in T
  BY SeqMonotonic
<1> HIDE DEF T
<1>1. PICK r \in Seq(T) : r = Append(p, n)
  BY <1>0, AppendIs
<1>2. Extended(r, p, n)
  BY <1>0, <1>1, AppendIs
<1>3. ASSUME Len(p) = 2 PROVE Append(p, n) = <<p[1], p[2], n>>
  <2>1. Len(r) = 3 /\ r[3] = n /\ \A i \in 1..2 : r[i] = p[i]
    BY <1>2, <1>3 DEF Extended
  <2>2. r[1] = p[1] /\ r[2] = p[2]
    BY <2>1
  <2> QED BY <1>1, <2>1, <2>2, Tuples
<1>4. ASSUME Len(p) = 3 PROVE Append(p, n) = <<p[1], p[2], p[3], n>>
  <2>1. Len(r) = 4 /\ r[4] = n /\ \A i \in 1..3 : r[i] = p[i]
    BY <1>2, <1>4 DEF Extended
  <2>2. r[1] = p[1] /\ r[2] = p[2] /\ r[3] = p[3]
    BY <2>1
  <2> QED BY <1>1, <2>1, <2>2, Tuples
<1>5. ASSUME Len(p) = 4 PROVE Append(p, n) = <<p[1], p[2], p[3], p[4], n>>
  <2>1. Len(r) = 5 /\ r[5] = n /\ \A i \in 1..4 : r[i] = p[i]
    BY <1>2, <1>5 DEF Extended
  <2>2. r[1] = p[1] /\ r[2] = p[2] /\ r[3] = p[3] /\ r[4] = p[4]
    BY <2>1
  <2> QED BY <1>1, <2>1, <2>2, Tuples
<1>6. ASSUME Len(p) = 5 PROVE Append(p, n) = <<p[1], p[2], p[3], p[4], p[5], n>>
  <2>1. Len(r) = 6 /\ r[6] = n /\ \A i \in 1..5 : r[i] = p[i]
    BY <1>2, <1>6 DEF Extended
  <2>2. r[1] = p[1] /\ r[2] = p[2] /\ r[3] = p[3] /\ r[4] = p[4] /\ r[5] = p[5]
    BY <2>1
  <2> QED BY <1>1, <2>1, <2>2, Tuples
<1> QED BY <1>3, <1>4, <1>5, <1>6

(* Two names behind a path of two. *)
LEMMA Joined ==
    ASSUME NEW S, NEW p \in Seq(S), Len(p) = 2, NEW m, NEW n
    PROVE  /\ p \o <<m>> = <<p[1], p[2], m>>
           /\ p \o <<m, n>> = <<p[1], p[2], m, n>>
<1> DEFINE T == S \cup {m, n}
<1>0. p \in Seq(T) /\ m \in T /\ n \in T
  BY SeqMonotonic
<1> HIDE DEF T
<1>1. p \o <<m>> = Append(p, m)
  BY <1>0, AppendIs
<1>2. PICK t : t = <<m, n>>
  OBVIOUS
<1>3. t \in Seq(T) /\ Len(t) = 2 /\ t[1] = m /\ t[2] = n
  BY <1>0, <1>2
<1>4. PICK r : r = p \o t
  OBVIOUS
<1>5. Len(p) + Len(t) = 4
  BY <1>3
<1>6. /\ r \in Seq(T) /\ Len(r) = 4
      /\ \A i \in 1..4 : r[i] = IF i <= Len(p) THEN p[i] ELSE t[i - Len(p)]
  BY <1>0, <1>3, <1>4, <1>5, ConcatProperties
<1>7. r[1] = p[1] /\ r[2] = p[2] /\ r[3] = t[1] /\ r[4] = t[2]
  BY <1>6
<1>8. r = <<p[1], p[2], m, n>>
  BY <1>3, <1>6, <1>7, Tuples
<1> QED BY <1>1, <1>2, <1>4, <1>8, Longer

IsApp(app) == app \in Seq(Names) /\ Len(app) = 2 /\ app[1] = Payload
AppFile(app, n) == <<app[1], app[2], n>>
FrameworkFile(app, n) == <<app[1], app[2], FrameworksDir, n>>

(* Where things are in the app, name by name. *)
LEMMA Places ==
    ASSUME IsApp(bundle.app), NEW n
    PROVE  /\ In(<<n>>) = AppFile(bundle.app, n)
           /\ Append(bundle.app, n) = AppFile(bundle.app, n)
           /\ InFrameworks(n) = FrameworkFile(bundle.app, n)
           /\ SealDir(bundle.app) = AppFile(bundle.app, CodeSignatureDir)
           /\ SealOf(bundle.app) = <<bundle.app[1], bundle.app[2], CodeSignatureDir, CodeResources>>
<1> USE DEF IsApp, AppFile, FrameworkFile
<1>0. bundle.app \in Seq(Names) /\ Len(bundle.app) = 2
  OBVIOUS
<1>1. /\ In(<<n>>) = AppFile(bundle.app, n) /\ InFrameworks(n) = FrameworkFile(bundle.app, n)
      /\ \A m : Append(bundle.app, m) = AppFile(bundle.app, m)
  <2>1. bundle.app \o <<n>> = AppFile(bundle.app, n)
    BY <1>0, Joined
  <2>2. bundle.app \o <<FrameworksDir, n>> = FrameworkFile(bundle.app, n)
    BY <1>0, Joined
  <2>3. \A m : Append(bundle.app, m) = AppFile(bundle.app, m)
    BY <1>0, Longer
  <2> QED BY <2>1, <2>2, <2>3 DEF In, InFrameworks
<1>2. PICK d : d = SealDir(bundle.app)
  OBVIOUS
<1>3. d = AppFile(bundle.app, CodeSignatureDir)
  BY <1>1, <1>2 DEF SealDir
<1>4. bundle.app[1] \in Names /\ bundle.app[2] \in Names
  BY ElementOfSeq
<1>5. d \in Seq(Names \cup {CodeSignatureDir}) /\ Len(d) = 3
      /\ d[1] = bundle.app[1] /\ d[2] = bundle.app[2] /\ d[3] = CodeSignatureDir
  BY <1>3, <1>4
<1>6. Append(d, CodeResources) = <<d[1], d[2], d[3], CodeResources>>
  BY <1>5, Longer
<1> QED BY <1>1, <1>2, <1>3, <1>5, <1>6 DEF SealOf

(* Where things are in a directory of four names. *)
LEMMA PlacesBelow ==
    ASSUME NEW S, NEW d \in Seq(S), Len(d) = 4, NEW n
    PROVE  /\ Append(d, n) = <<d[1], d[2], d[3], d[4], n>>
           /\ SealDir(d) = <<d[1], d[2], d[3], d[4], CodeSignatureDir>>
           /\ SealOf(d) = <<d[1], d[2], d[3], d[4], CodeSignatureDir, CodeResources>>
<1>1. PICK e : e = SealDir(d)
  OBVIOUS
<1>2. e = <<d[1], d[2], d[3], d[4], CodeSignatureDir>>
  BY <1>1, Longer DEF SealDir
<1>3. d[1] \in S /\ d[2] \in S /\ d[3] \in S /\ d[4] \in S
  BY ElementOfSeq
<1>4. e \in Seq(S \cup {CodeSignatureDir}) /\ Len(e) = 5 /\ e[1] = d[1] /\ e[2] = d[2]
      /\ e[3] = d[3] /\ e[4] = d[4] /\ e[5] = CodeSignatureDir
  BY <1>2, <1>3
<1>5. Append(e, CodeResources) = <<e[1], e[2], e[3], e[4], e[5], CodeResources>>
  BY <1>4, Longer
<1> QED BY <1>1, <1>2, <1>4, <1>5, Longer DEF SealOf

OneDeeper(r, d, n) == Parents(r) = Parents(d) \cup {d} /\ r # <<>> /\ Last(r) = n

(* The directories above a path that was lengthened. *)
LEMMA ParentsOfLonger ==
    ASSUME NEW S, NEW d \in Seq(S), d # <<>>, NEW n
    PROVE  /\ OneDeeper(Append(d, n), d, n)
           /\ n \in S => Append(d, n) \in Seq(S)
<1> DEFINE T == S \cup {n}
<1>0. d \in Seq(T) /\ n \in T
  BY SeqMonotonic
<1> HIDE DEF T
<1>1. PICK r : r = Append(d, n)
  OBVIOUS
<1>2. r \in Seq(T) /\ Extended(r, d, n)
  BY <1>0, <1>1, AppendIs
<1>3. Len(d) \in Nat /\ Len(d) > 0
  BY <1>0, EmptySeq, LenProperties
<1>4. \A k \in 1..Len(d) : SubSeq(r, 1, k) = SubSeq(d, 1, k)
  <2> SUFFICES ASSUME NEW k \in 1..Len(d) PROVE SubSeq(r, 1, k) = SubSeq(d, 1, k)
    OBVIOUS
  <2>1. \A i \in 1..k : i \in 1..Len(d) /\ i \in 1..Len(r)
    BY <1>2, <1>3 DEF Extended
  <2>2. k - 1 + 1 = k
    BY <1>3
  <2>3. SubSeq(r, 1, k) = [i \in 1..k |-> r[i]] /\ SubSeq(d, 1, k) = [i \in 1..k |-> d[i]]
    BY <2>2
  <2> QED BY <1>2, <2>1, <2>3 DEF Extended
<1>5. SubSeq(d, 1, Len(d)) = d
  BY <1>0, SubSeqFull
<1>6. Len(r) - 1 = Len(d) /\ 1..Len(d) = 1..(Len(d) - 1) \cup {Len(d)}
  BY <1>2, <1>3 DEF Extended
<1>7. Parents(r) = {SubSeq(d, 1, k) : k \in 1..Len(d)}
  BY <1>4, <1>6 DEF Parents
<1>8. Parents(r) = Parents(d) \cup {d}
  BY <1>5, <1>6, <1>7 DEF Parents
<1>9. r # <<>> /\ Last(r) = n
  BY <1>2, <1>3 DEF Extended, Last
<1>10. n \in S => T = S
  BY DEF T
<1> QED BY <1>1, <1>2, <1>8, <1>9, <1>10 DEF OneDeeper

(* A set is finite if a function has its elements on a finite set.         *)
LEMMA FiniteImage ==
    ASSUME NEW S, IsFiniteSet(S), NEW f, NEW T, \A t \in T : \E x \in S : t = f[x]
    PROVE  IsFiniteSet(T)
<1> DEFINE U == {f[x] : x \in S}
           g == [x \in S |-> f[x]]
<1>1. g \in [S -> U] /\ \A t \in U : \E x \in S : g[x] = t
  OBVIOUS
<1>2. g \in Surjection(S, U)
  BY <1>1 DEF Surjection
<1>3. T \in SUBSET U
  OBVIOUS
<1>4. IsFiniteSet(U)
  BY <1>2, FS_Surjection
<1> QED BY <1>3, <1>4, FS_Subset

(* The directories above a path are its shorter beginnings.                *)
LEMMA ParentsAre ==
    ASSUME NEW S, NEW p \in Seq(S)
    PROVE  /\ IsFiniteSet(Parents(p))
           /\ \A d \in Parents(p) :
                 /\ d \in Seq(S) /\ d # <<>> /\ Len(d) < Len(p) /\ IsStrictPrefix(d, p)
                 /\ Parents(d) \subseteq Parents(p)
           /\ \A d \in Seq(S) : d # <<>> /\ IsStrictPrefix(d, p) => d \in Parents(p)
<1>1. Len(p) \in Nat
  BY LenProperties
<1> DEFINE K == 1..(Len(p) - 1)
<1>2. IsFiniteSet(Parents(p))
  <2>1. IsFiniteSet(K)
    BY <1>1, FS_Interval
  <2>2. PICK f : f = [n \in K |-> SubSeq(p, 1, n)]
    OBVIOUS
  <2>3. \A d \in Parents(p) : \E n \in K : d = f[n]
    BY <2>2 DEF Parents
  <2> HIDE DEF K
  <2> QED BY <2>1, <2>3, FiniteImage
<1>3. ASSUME NEW n \in K
      PROVE  /\ SubSeq(p, 1, n) \in Seq(S) /\ Len(SubSeq(p, 1, n)) = n
             /\ \A j \in 1..n : SubSeq(p, 1, n)[j] = p[j]
             /\ SubSeq(p, 1, n) = [j \in 1..n |-> p[j]]
  <2>1. \A j \in 1..n : j \in 1..Len(p)
    BY <1>1
  <2>2. n - 1 + 1 = n /\ n \in Nat
    BY <1>1
  <2>3. SubSeq(p, 1, n) = [j \in 1..n |-> p[j]]
    BY <2>2
  <2> QED BY <2>1, <2>2, <2>3, ElementOfSeq
<1>4. ASSUME NEW d \in Parents(p)
      PROVE  /\ d \in Seq(S) /\ d # <<>> /\ Len(d) < Len(p) /\ IsStrictPrefix(d, p)
             /\ Parents(d) \subseteq Parents(p)
  <2>1. PICK n \in K : d = SubSeq(p, 1, n)
    BY <1>4 DEF Parents
  <2>2. /\ d \in Seq(S) /\ Len(d) = n /\ n < Len(p) /\ n > 0
        /\ \A j \in 1..n : d[j] = p[j]
    BY <1>1, <1>3, <2>1
  <2>3. IsStrictPrefix(d, p) /\ d # <<>>
    BY <2>2, StrictPrefixIs, EmptySeq
  <2>4. ASSUME NEW m \in 1..(n - 1) PROVE m \in K /\ SubSeq(d, 1, m) = SubSeq(p, 1, m)
    <3>1. m \in K /\ m \in Nat /\ m - 1 + 1 = m /\ \A j \in 1..m : j \in 1..n
      BY <1>1
    <3>2. SubSeq(d, 1, m) = [j \in 1..m |-> d[j]]
      BY <3>1
    <3>3. SubSeq(p, 1, m) = [j \in 1..m |-> p[j]]
      BY <3>1, <1>3
    <3> QED BY <3>1, <3>2, <3>3, <2>2
  <2>5. Parents(d) \subseteq Parents(p)
    BY <2>2, <2>4 DEF Parents
  <2> QED BY <2>2, <2>3, <2>5
<1>5. ASSUME NEW d \in Seq(S), d # <<>>, IsStrictPrefix(d, p) PROVE d \in Parents(p)
  <2>1. Len(d) \in Nat /\ Len(d) > 0
    BY <1>5, EmptySeq, LenProperties
  <2>2. Len(d) < Len(p) /\ \A j \in 1..Len(d) : d[j] = p[j]
    BY <1>5, StrictPrefixIs
  <2>3. PICK n \in K : n = Len(d)
    BY <1>1, <2>1, <2>2
  <2>4. d = SubSeq(p, 1, n)
    BY <1>3, <2>2, <2>3, SeqEqual
  <2> QED BY <2>4 DEF Parents
<1> QED BY <1>2, <1>4, <1>5

-----------------------------------------------------------------------------
(* Archives, and what they are unpacked to. *)

(* The entries are finitely many, numbered from one. *)
LEMMA Entries ==
    ASSUME NEW es, IsArchive(es)
    PROVE  /\ Len(es) \in Nat /\ DOMAIN es = 1..Len(es) /\ IsFiniteSet(DOMAIN es)
           /\ DOMAIN es \subseteq Nat
<1>1. Len(es) \in Nat /\ DOMAIN es = 1..Len(es)
  BY LenProperties DEF IsArchive
<1> QED BY <1>1, FS_Interval

(* Looking up a file: it is found if it is there, and is one of the files. *)
LEMMA Lookup ==
    ASSUME NEW es, IsArchive(es), NEW p
    PROVE  /\ Has(es, p) <=> p \in FilesIn(es)
           /\ Has(es, p) => \E i \in DOMAIN es : /\ es[i].path = p /\ ~es[i].dir
                                                 /\ ReadFile(es, p) = es[i].data
<1>1. Has(es, p) <=> p \in FilesIn(es)
  BY DEF Has, EntriesOf, FilesIn
<1>2. ASSUME Has(es, p) PROVE Min(EntriesOf(es, p)) \in EntriesOf(es, p)
  <2>1. EntriesOf(es, p) \subseteq Nat
    BY Entries DEF EntriesOf
  <2> QED BY <1>2, <2>1, MinIs DEF Has
<1>3. PICK m : m = Min(EntriesOf(es, p))
  OBVIOUS
<1> QED BY <1>1, <1>2, <1>3 DEF ReadFile, EntriesOf

(***************************************************************************)
(* Files and directories on disk: apart, with the directories that they    *)
(* are in, and under names that tell which of them is which where the      *)
(* program makes new ones.                                                 *)
(***************************************************************************)
IsTree(fs, ds) ==
    /\ IsFiniteSet(DOMAIN fs) /\ IsFiniteSet(ds)
    /\ DOMAIN fs \cup ds \subseteq Seq(Names) \ {<<>>}
    /\ DOMAIN fs \cap ds = {}
    /\ \A p \in DOMAIN fs \cup ds : Parents(p) \subseteq ds
    /\ \A p \in DOMAIN fs : Last(p) \notin NewDirs /\ IsData(fs[p])
    /\ \A p \in ds : Last(p) \notin NewFiles

(* An archive is unpacked to a tree. *)
LEMMA UnpackedIsTree ==
    ASSUME NEW es, IsArchive(es)
    PROVE  IsTree([p \in FilesIn(es) |-> ReadFile(es, p)], DirsIn(es))
<1> DEFINE J == {j \in DOMAIN es : ~es[j].dir}
           D == {j \in DOMAIN es : es[j].dir}
           path == [i \in DOMAIN es |-> es[i].path]
           above == [i \in DOMAIN es |-> Parents(es[i].path)]
<1>1. IsFiniteSet(DOMAIN es) /\ IsFiniteSet(J) /\ IsFiniteSet(D)
  BY Entries, FS_Subset
<1>2. \A i \in DOMAIN es : es[i].path \in Seq(Names) /\ es[i].path # <<>>
  BY DEF IsArchive
<1>3. IsFiniteSet(FilesIn(es))
  <2>1. \A p \in FilesIn(es) : \E i \in J : p = path[i]
    BY DEF FilesIn
  <2> HIDE DEF J, path
  <2> QED BY <1>1, <2>1, FiniteImage
<1>4. IsFiniteSet(DirsIn(es))
  <2> DEFINE A == {es[i].path : i \in D}
             B == {Parents(es[i].path) : i \in DOMAIN es}
  <2>1. \A p \in A : \E i \in D : p = path[i]
    OBVIOUS
  <2>2. \A T \in B : \E i \in DOMAIN es : T = above[i]
    OBVIOUS
  <2>3. \A T \in B : IsFiniteSet(T)
    BY <1>2, ParentsAre
  <2>4. DirsIn(es) = A \cup UNION B
    BY DEF DirsIn
  <2> HIDE DEF A, B, D, path, above
  <2>5. IsFiniteSet(A) /\ IsFiniteSet(B)
    BY <1>1, <2>1, <2>2, FiniteImage
  <2>6. IsFiniteSet(UNION B)
    BY <2>3, <2>5, FS_UNION
  <2> QED BY <2>4, <2>5, <2>6, FS_Union
<1>5. ASSUME NEW p \in FilesIn(es) \cup DirsIn(es)
      PROVE  p \in Seq(Names) /\ p # <<>> /\ Parents(p) \subseteq DirsIn(es)
  <2>1. CASE \E i \in DOMAIN es : p = es[i].path
    BY <1>2, <2>1 DEF DirsIn
  <2>2. CASE \E i \in DOMAIN es : p \in Parents(es[i].path)
    <3>1. PICK i \in DOMAIN es : p \in Parents(es[i].path)
      BY <2>2
    <3>2. p \in Seq(Names) /\ p # <<>> /\ Parents(p) \subseteq Parents(es[i].path)
      BY <1>2, <3>1, ParentsAre
    <3> QED BY <3>1, <3>2 DEF DirsIn
  <2> QED BY <1>5, <2>1, <2>2 DEF FilesIn, DirsIn
<1> QED BY <1>3, <1>4, <1>5 DEF IsTree, IsArchive

(* What is below a directory of the app belongs to a directory of four     *)
(* names.                                                                  *)
IsBelow(p, dir, x) ==
    /\ x \in Names /\ Len(p) >= 4
    /\ p[1] = dir[1] /\ p[2] = dir[2] /\ p[3] = dir[3] /\ p[4] = x
    /\ SubSeq(p, 1, 4) \in Seq(Names) /\ SubSeq(p, 1, 4) = <<dir[1], dir[2], dir[3], x>>

(* An entry below a directory of three names. *)
LEMMA BelowIs ==
    ASSUME NEW es, IsArchive(es), NEW S, NEW dir \in Seq(S), Len(dir) = 3, NEW ext,
           NEW i \in DOMAIN es
    PROVE  /\ i \in Below(es, dir, ext) =>
                 \E x \in Names : x.ext = ext /\ IsBelow(es[i].path, dir, x)
           /\ \A x \in Names : /\ x.ext = ext /\ Len(es[i].path) >= 4
                               /\ es[i].path[1] = dir[1] /\ es[i].path[2] = dir[2]
                               /\ es[i].path[3] = dir[3] /\ es[i].path[4] = x
                   => i \in Below(es, dir, ext)
<1> DEFINE T == S \cup Names
<1>1. PICK p : p = es[i].path
  OBVIOUS
<1>2. p \in Seq(Names) /\ p \in Seq(T) /\ dir \in Seq(T)
  <2>1. p \in Seq(Names)
    BY <1>1 DEF IsArchive
  <2> QED BY <2>1, SeqMonotonic
<1>3. Len(p) \in Nat
  BY <1>2, LenProperties
<1> HIDE DEF T
<1>4. IsPrefix(dir, p) <=> Len(p) >= 3 /\ \A j \in 1..3 : dir[j] = p[j]
  <2>1. IsPrefix(dir, p) <=> Len(dir) <= Len(p) /\ \A j \in 1..Len(dir) : dir[j] = p[j]
    BY <1>2, PrefixIs
  <2>2. Len(dir) <= Len(p) <=> Len(p) >= 3
    BY <1>3
  <2> QED BY <2>1, <2>2
<1>5. (\A j \in 1..3 : dir[j] = p[j]) <=> dir[1] = p[1] /\ dir[2] = p[2] /\ dir[3] = p[3]
  OBVIOUS
<1>6. i \in Below(es, dir, ext) <=>
          Len(p) >= 4 /\ dir[1] = p[1] /\ dir[2] = p[2] /\ dir[3] = p[3] /\ p[4].ext = ext
  <2>1. Len(p) > 3 <=> Len(p) >= 4
    BY <1>3
  <2>2. Len(dir) + 1 = 4
    OBVIOUS
  <2>3. Len(p) >= 4 => Len(p) >= 3
    BY <1>3
  <2> QED BY <1>1, <1>4, <1>5, <2>1, <2>2, <2>3 DEF Below
<1>7. ASSUME Len(p) >= 4 PROVE p[4] \in Names /\ SubSeq(p, 1, 4) \in Seq(Names)
                               /\ SubSeq(p, 1, 4) = <<p[1], p[2], p[3], p[4]>>
  <2>1. \A j \in 1..4 : j \in 1..Len(p)
    BY <1>3, <1>7
  <2>2. \A j \in 1..4 : p[j] \in Names
    BY <1>2, <2>1, ElementOfSeq
  <2>3. PICK d : d = SubSeq(p, 1, 4)
    OBVIOUS
  <2>4. d = [j \in 1..4 |-> p[j]]
    BY <2>3
  <2>5. d \in Seq(Names) /\ Len(d) = 4 /\ d[1] = p[1] /\ d[2] = p[2] /\ d[3] = p[3] /\ d[4] = p[4]
    BY <2>2, <2>4
  <2>6. d = <<d[1], d[2], d[3], d[4]>>
    BY <2>5, Tuples
  <2>7. p[4] \in Names
    BY <2>2
  <2> QED BY <2>3, <2>5, <2>6, <2>7
<1> QED BY <1>1, <1>6, <1>7 DEF IsBelow

(* The components that are found in a directory of three names. *)
LEMMA ComponentsAre ==
    ASSUME NEW es, IsArchive(es), NEW S, NEW dir \in Seq(S), Len(dir) = 3, NEW ext
    PROVE  /\ \A c \in Components(es, dir, ext) :
                 \E i \in DOMAIN es, x \in Names :
                    /\ x.ext = ext /\ IsBelow(es[i].path, dir, x)
                    /\ c.path = <<dir[1], dir[2], dir[3], x>> /\ c.path \in Seq(Names)
                    /\ c = Component(es, c.path)
           /\ \A i \in DOMAIN es, x \in Names :
                 /\ x.ext = ext /\ Len(es[i].path) >= 4
                 /\ es[i].path[1] = dir[1] /\ es[i].path[2] = dir[2]
                 /\ es[i].path[3] = dir[3] /\ es[i].path[4] = x
                 => Component(es, <<dir[1], dir[2], dir[3], x>>) \in Components(es, dir, ext)
<1>1. Len(dir) + 1 = 4
  OBVIOUS
<1>2. Components(es, dir, ext) =
          {Component(es, SubSeq(es[i].path, 1, 4)) : i \in Below(es, dir, ext)}
  BY <1>1 DEF Components
<1>3. ASSUME NEW c \in Components(es, dir, ext)
      PROVE  \E i \in DOMAIN es, x \in Names :
                    /\ x.ext = ext /\ IsBelow(es[i].path, dir, x)
                    /\ c.path = <<dir[1], dir[2], dir[3], x>> /\ c.path \in Seq(Names)
                    /\ c = Component(es, c.path)
  <2>1. PICK i \in Below(es, dir, ext) : c = Component(es, SubSeq(es[i].path, 1, 4))
    BY <1>2, <1>3
  <2>2. i \in DOMAIN es
    BY DEF Below
  <2>3. PICK x \in Names : x.ext = ext /\ IsBelow(es[i].path, dir, x)
    BY <2>2, BelowIs
  <2>4. c.path = SubSeq(es[i].path, 1, 4)
    BY <2>1 DEF Component
  <2> QED BY <2>1, <2>2, <2>3, <2>4 DEF IsBelow
<1>4. ASSUME NEW i \in DOMAIN es, NEW x \in Names, x.ext = ext, Len(es[i].path) >= 4,
             es[i].path[1] = dir[1], es[i].path[2] = dir[2], es[i].path[3] = dir[3],
             es[i].path[4] = x
      PROVE  Component(es, <<dir[1], dir[2], dir[3], x>>) \in Components(es, dir, ext)
  <2>1. i \in Below(es, dir, ext)
    BY <1>4, BelowIs
  <2>2. PICK y \in Names : IsBelow(es[i].path, dir, y)
    BY <2>1, BelowIs
  <2>3. SubSeq(es[i].path, 1, 4) = <<dir[1], dir[2], dir[3], x>>
    BY <1>4, <2>2 DEF IsBelow
  <2> QED BY <1>2, <2>1, <2>3
<1> QED BY <1>3, <1>4

(* A component of an app, as a directory of its own in one of the app's.   *)
IsComponent(c, app, name) ==
    /\ c.path \in Seq(Names) /\ Len(c.path) = 4
    /\ c.path[1] = app[1] /\ c.path[2] = app[2] /\ c.path[3] = name

(* An entry that Discover takes for one of an app.                         *)
LEMMA BelowPayload ==
    ASSUME NEW es, IsArchive(es), NEW i \in DOMAIN es, NEW p, p = es[i].path
    PROVE  /\ i \in Below(es, <<Payload>>, "app")
                <=> Len(p) >= 2 /\ p[1] = Payload /\ p[2].ext = "app"
           /\ Len(p) >= 2 => SubSeq(p, 1, 2) = <<p[1], p[2]>>
<1>1. p \in Seq(Names) /\ Len(p) \in Nat
  BY LenProperties DEF IsArchive
<1>2. PICK top : top = <<Payload>>
  OBVIOUS
<1> DEFINE U == Names \cup {Payload}
<1>3. p \in Seq(U) /\ top \in Seq(U) /\ Len(top) = 1 /\ top[1] = Payload
  BY <1>1, <1>2, SeqMonotonic
<1> HIDE DEF U
<1>4. IsPrefix(top, p) <=> Len(top) <= Len(p) /\ \A j \in 1..Len(top) : top[j] = p[j]
  <2>1. p \in Seq(U) /\ top \in Seq(U)
    BY <1>3
  <2> QED BY <2>1, PrefixIs
<1>5. (\A j \in 1..1 : top[j] = p[j]) <=> p[1] = Payload
  BY <1>3
<1>6. i \in Below(es, top, "app")
          <=> Len(p) > Len(top) /\ IsPrefix(top, p) /\ p[Len(top) + 1].ext = "app"
  BY DEF Below
<1>7. Len(top) + 1 = 2 /\ (Len(p) > Len(top) <=> Len(p) >= 2) /\ (Len(p) >= 2 => Len(top) <= Len(p))
  BY <1>1, <1>3
<1>8. i \in Below(es, top, "app") <=> Len(p) >= 2 /\ p[1] = Payload /\ p[2].ext = "app"
  BY <1>3, <1>4, <1>5, <1>6, <1>7
<1>9. ASSUME Len(p) >= 2 PROVE SubSeq(p, 1, 2) = <<p[1], p[2]>>
  <2>1. p[1] \in Names /\ p[2] \in Names
    BY <1>1, <1>9, ElementOfSeq
  <2>2. PICK d : d = SubSeq(p, 1, 2)
    OBVIOUS
  <2>3. d = [j \in 1..2 |-> p[j]]
    BY <2>2
  <2>4. d \in Seq(Names) /\ Len(d) = 2 /\ d[1] = p[1] /\ d[2] = p[2]
    BY <2>1, <2>3
  <2> QED BY <2>2, <2>4, Tuples
<1> QED BY <1>2, <1>8, <1>9

(* What Discover finds in an archive that it accepts. *)
LEMMA DiscoverIs ==
    ASSUME NEW es, IsArchive(es), Discovers(es),
           NEW b, b = Discover(es)
    PROVE  /\ IsApp(b.app) /\ b.app \in DirsIn(es)
           /\ AppFile(b.app, InfoPlist) \in FilesIn(es)
           /\ IsPlist(ReadFile(es, AppFile(b.app, InfoPlist)))
           /\ b.exec = KeyOr(ReadFile(es, AppFile(b.app, InfoPlist)).keys,
                             "CFBundleExecutable", NoName)
           /\ b.exec # NoName
           /\ \A c \in b.frameworks : IsComponent(c, b.app, FrameworksDir)
           /\ \A c \in b.plugins : IsComponent(c, b.app, PlugInsDir)
           /\ \A c \in b.watch : IsComponent(c, b.app, WatchDir)
<1> DEFINE inApp == Below(es, <<Payload>>, "app")
<1>1. PICK app : app = FindAppPath(es)
  OBVIOUS
<1>2. inApp # {} /\ app # <<>>
  BY <1>1 DEF Discovers, FindAppPath
<1>3. inApp \subseteq DOMAIN es /\ inApp \subseteq Nat
  BY Entries DEF Below
<1>4. PICK i \in DOMAIN es : i \in inApp /\ app = SubSeq(es[i].path, 1, 2)
  BY <1>1, <1>2, <1>3, MinIs DEF FindAppPath
<1>5. PICK p : p = es[i].path
  OBVIOUS
<1>6. p \in Seq(Names) /\ Len(p) \in Nat /\ Len(p) >= 2 /\ p[1] = Payload
  <2>1. Len(p) >= 2 /\ p[1] = Payload
    BY <1>4, <1>5, BelowPayload
  <2> QED BY <1>5, <2>1, LenProperties DEF IsArchive
<1>7. IsApp(app)
  <2>1. app = [j \in 1..2 |-> p[j]]
    BY <1>4, <1>5
  <2>2. p[1] \in Names /\ p[2] \in Names
    BY <1>6, ElementOfSeq
  <2> QED BY <1>6, <2>1, <2>2 DEF IsApp
<1>8. b.app = app /\ b.exec = NamedExecutable(es, app) /\ b.exec # NoName
  BY <1>1 DEF Discover, Discovers
<1>9. Append(app, InfoPlist) = AppFile(app, InfoPlist)
  BY <1>7, Longer DEF IsApp, AppFile
<1>10. /\ Has(es, AppFile(app, InfoPlist)) /\ IsPlist(ReadFile(es, AppFile(app, InfoPlist)))
       /\ b.exec = KeyOr(ReadFile(es, AppFile(app, InfoPlist)).keys, "CFBundleExecutable", NoName)
  BY <1>8, <1>9 DEF NamedExecutable
<1>11. AppFile(app, InfoPlist) \in FilesIn(es)
  BY <1>10, Lookup
<1>12. app \in DirsIn(es)
  <2>1. PICK k \in DOMAIN es : es[k].path = AppFile(app, InfoPlist)
    BY <1>11 DEF FilesIn
  <2>2. app # <<>>
    BY <1>2
  <2>3. app \in Parents(AppFile(app, InfoPlist))
    <3>1. app \in Seq(Names)
      BY <1>7 DEF IsApp
    <3>2. Parents(Append(app, InfoPlist)) = Parents(app) \cup {app}
      BY <2>2, <3>1, ParentsOfLonger DEF OneDeeper
    <3> QED BY <1>9, <3>2
  <2> QED BY <2>1, <2>3 DEF DirsIn
<1>13. ASSUME NEW name, NEW ext, NEW c \in Components(es, Append(app, name), ext)
       PROVE  IsComponent(c, app, name)
  <2> DEFINE dir == Append(app, name)
             T == Names \cup {name}
  <2>1. dir = <<app[1], app[2], name>>
    BY <1>7, Longer DEF IsApp
  <2>2. dir \in Seq(T) /\ Len(dir) = 3
    <3>1. app[1] \in Names /\ app[2] \in Names
      BY <1>7, ElementOfSeq DEF IsApp
    <3> QED BY <2>1, <3>1
  <2>3. dir[1] = app[1] /\ dir[2] = app[2] /\ dir[3] = name
    BY <2>1
  <2>0. c \in Components(es, dir, ext)
    BY <1>13
  <2> HIDE DEF dir, T
  <2>4. PICK x \in Names : c.path = <<dir[1], dir[2], dir[3], x>> /\ c.path \in Seq(Names)
    BY <2>0, <2>2, ComponentsAre
  <2>5. PICK d : d = c.path
    OBVIOUS
  <2>6. d = <<app[1], app[2], name, x>>
    BY <2>3, <2>4, <2>5
  <2>7. Len(d) = 4 /\ d[1] = app[1] /\ d[2] = app[2] /\ d[3] = name
    BY <2>6
  <2> QED BY <2>4, <2>5, <2>7 DEF IsComponent
<1>14. /\ b.frameworks = Components(es, Append(app, FrameworksDir), "framework")
       /\ b.plugins = Components(es, Append(app, PlugInsDir), "appex")
       /\ b.watch = Components(es, Append(app, WatchDir), "app")
  BY <1>1 DEF Discover
<1> QED BY <1>7, <1>8, <1>10, <1>11, <1>12, <1>13, <1>14

-----------------------------------------------------------------------------
(* What the steps do to the tree. *)

Over(v, w, fs) ==
    /\ DOMAIN v = DOMAIN w \cup DOMAIN fs
    /\ \A p \in DOMAIN w : v[p] = w[p]
    /\ \A p \in DOMAIN fs \ DOMAIN w : v[p] = fs[p]

(* What is there after something was written over it. *)
LEMMA WrittenOver == \A w, fs : Over(w ++ fs, w, fs)
BY DEF ++, Over

Remaining(v, fs, gone) ==
    /\ DOMAIN v = DOMAIN fs \ gone
    /\ \A p \in DOMAIN fs \ gone : v[p] = fs[p]

(* What is there after something was removed. *)
LEMMA WithoutGone == \A fs, gone : Remaining(Without(fs, gone), fs, gone)
BY DEF Without, Remaining

(* New files and directories whose names tell what they are leave a tree,  *)
(* if they come with the directories that they are in.                     *)
LEMMA TreeWritten ==
    ASSUME NEW fs, NEW ds, IsTree(fs, ds), NEW w, NEW nd,
           IsFiniteSet(DOMAIN w), IsFiniteSet(nd),
           \A p \in DOMAIN w : /\ p \in Seq(Names) \ {<<>>} /\ Last(p) \in NewFiles
                               /\ Parents(p) \subseteq ds \cup nd /\ IsData(w[p]),
           \A d \in nd : /\ d \in Seq(Names) \ {<<>>} /\ Last(d) \in NewDirs
                         /\ Parents(d) \subseteq ds \cup nd
    PROVE  IsTree(w ++ fs, ds \cup nd)
<1>1. PICK v : v = w ++ fs
  OBVIOUS
<1>0. Over(w ++ fs, w, fs)
  BY WrittenOver, Zenon
<1>2. /\ DOMAIN v = DOMAIN w \cup DOMAIN fs
      /\ \A p \in DOMAIN w : v[p] = w[p]
      /\ \A p \in DOMAIN fs \ DOMAIN w : v[p] = fs[p]
  BY <1>0, <1>1 DEF Over
<1>3. IsFiniteSet(DOMAIN fs) /\ IsFiniteSet(ds)
  BY DEF IsTree
<1>4. IsFiniteSet(DOMAIN v) /\ IsFiniteSet(ds \cup nd)
  BY <1>2, <1>3, FS_Union
<1>5. NewFiles \cap NewDirs = {}
  BY NamesAssumption
<1>6. \A p \in DOMAIN v : Last(p) \notin NewDirs /\ IsData(v[p])
  BY <1>2, <1>5 DEF IsTree
<1>7. DOMAIN v \cap (ds \cup nd) = {}
  BY <1>2, <1>5 DEF IsTree
<1>8. \A p \in ds \cup nd : Last(p) \notin NewFiles
  BY <1>5 DEF IsTree
<1>9. \A p \in DOMAIN v \cup ds \cup nd :
         p \in Seq(Names) \ {<<>>} /\ Parents(p) \subseteq ds \cup nd
  BY <1>2 DEF IsTree
<1>10. IsTree(v, ds \cup nd)
  BY <1>4, <1>6, <1>7, <1>8, <1>9 DEF IsTree
<1> QED BY <1>1, <1>10

(* Removing files leaves a tree.                                           *)
LEMMA TreeWithout ==
    ASSUME NEW fs, NEW ds, IsTree(fs, ds), NEW gone
    PROVE  IsTree(Without(fs, gone), ds)
<1>1. IsFiniteSet(DOMAIN fs \ gone)
  BY FS_Subset DEF IsTree
<1>2. PICK v : v = Without(fs, gone)
  OBVIOUS
<1>3. Remaining(v, fs, gone)
  BY <1>2, WithoutGone
<1>4. IsTree(v, ds)
  BY <1>1, <1>3 DEF IsTree, Remaining
<1> QED BY <1>2, <1>4

(* Changing files leaves a tree.                                           *)
LEMMA TreeChanged ==
    ASSUME NEW fs, NEW ds, IsTree(fs, ds), NEW gs, DOMAIN gs = DOMAIN fs,
           \A p \in DOMAIN fs : IsData(gs[p])
    PROVE  IsTree(gs, ds)
BY DEF IsTree

(* Removing a directory with all that is below it leaves a tree.           *)
LEMMA TreePruned ==
    ASSUME NEW fs, NEW ds, IsTree(fs, ds), NEW tops, NEW S, tops \subseteq Seq(S)
    PROVE  IsTree(Without(fs, UNION {Under(d, DOMAIN fs) : d \in tops}),
                  ds \ UNION {Under(d, ds) : d \in tops})
<1> DEFINE gone == UNION {Under(d, DOMAIN fs) : d \in tops}
           down == UNION {Under(d, ds) : d \in tops}
           T == S \cup Names
<1>1. IsFiniteSet(DOMAIN fs \ gone) /\ IsFiniteSet(ds \ down)
  BY FS_Subset DEF IsTree
<1>2. ASSUME NEW p \in DOMAIN fs \cup ds, NEW d \in Parents(p), d \in down
      PROVE  p \in gone \cup down
  <2>1. PICK t \in tops : IsPrefix(t, d) /\ d \in ds
    BY <1>2 DEF Under
  <2>2. p \in Seq(Names)
    BY DEF IsTree
  <2>3. d \in Seq(Names) /\ IsStrictPrefix(d, p)
    BY <2>2, ParentsAre
  <2>4. t \in Seq(T) /\ d \in Seq(T) /\ p \in Seq(T)
    BY <2>2, <2>3, SeqMonotonic
  <2> HIDE DEF T
  <2>5. Len(t) <= Len(d) /\ \A j \in 1..Len(t) : t[j] = d[j]
    BY <2>1, <2>4, PrefixIs
  <2>6. Len(d) < Len(p) /\ \A j \in 1..Len(d) : d[j] = p[j]
    BY <2>3, <2>4, StrictPrefixIs
  <2>7. Len(t) \in Nat /\ Len(d) \in Nat /\ Len(p) \in Nat
    BY <2>4, LenProperties
  <2>8. Len(t) <= Len(p) /\ \A j \in 1..Len(t) : t[j] = p[j]
    BY <2>5, <2>6, <2>7
  <2>9. IsPrefix(t, p)
    BY <2>4, <2>8, PrefixIs
  <2> QED BY <2>9 DEF Under
<1>3. \A p \in (DOMAIN fs \ gone) \cup (ds \ down) : Parents(p) \subseteq ds \ down
  <2> SUFFICES ASSUME NEW p \in (DOMAIN fs \ gone) \cup (ds \ down), NEW d \in Parents(p)
               PROVE  d \in ds \ down
    OBVIOUS
  <2>1. d \in ds
    BY DEF IsTree
  <2>2. DOMAIN fs \cap ds = {} /\ gone \subseteq DOMAIN fs /\ down \subseteq ds
    BY DEF IsTree, Under
  <2> HIDE DEF gone, down
  <2> QED BY <2>1, <2>2, <1>2
<1> HIDE DEF gone, down
<1>4. PICK v : v = Without(fs, gone)
  OBVIOUS
<1>5. Remaining(v, fs, gone)
  BY <1>4, WithoutGone
<1>6. IsTree(v, ds \ down)
  BY <1>1, <1>3, <1>5 DEF IsTree, Remaining
<1> QED BY <1>4, <1>6 DEF gone, down

-----------------------------------------------------------------------------
(* The new archive. *)

(* An archive with each file and directory of a tree once.                 *)
Packed(es, fs, ds) ==
    /\ es \in Seq({es[i] : i \in DOMAIN es})
    /\ Len(es) = Cardinality(DOMAIN fs \cup ds)
    /\ \A i \in DOMAIN es : /\ es[i].path \in DOMAIN fs \cup ds
                            /\ es[i].dir = (es[i].path \in ds)
                            /\ es[i].path \in DOMAIN fs => es[i].data = fs[es[i].path]
    /\ \A i, j \in DOMAIN es : es[i].path = es[j].path => i = j
    /\ \A p \in DOMAIN fs \cup ds : \E i \in DOMAIN es : es[i].path = p

(* It is an archive, and unpacked it gives the same tree.                  *)
LEMMA PackedIs ==
    ASSUME NEW es, NEW fs, NEW ds, IsTree(fs, ds), Packed(es, fs, ds)
    PROVE  /\ IsArchive(es)
           /\ FilesIn(es) = DOMAIN fs /\ DirsIn(es) = ds
           /\ \A p \in DOMAIN fs : Has(es, p) /\ ReadFile(es, p) = fs[p]
<1>0. /\ \A i \in DOMAIN es : /\ es[i].path \in DOMAIN fs \cup ds
                              /\ es[i].dir = (es[i].path \in ds)
                              /\ es[i].path \in DOMAIN fs => es[i].data = fs[es[i].path]
      /\ \A i, j \in DOMAIN es : es[i].path = es[j].path => i = j
      /\ \A p \in DOMAIN fs \cup ds : \E i \in DOMAIN es : es[i].path = p
      /\ DOMAIN fs \cap ds = {}
  BY DEF Packed, IsTree
<1>1. FilesIn(es) = DOMAIN fs
  <2>1. \A i \in DOMAIN es : ~es[i].dir <=> es[i].path \in DOMAIN fs
    BY <1>0
  <2> QED BY <1>0, <2>1 DEF FilesIn
<1>2. DirsIn(es) = ds
  <2>1. \A i \in DOMAIN es : es[i].dir <=> es[i].path \in ds
    BY <1>0
  <2>2. \A i \in DOMAIN es : Parents(es[i].path) \subseteq ds
    BY <1>0 DEF IsTree
  <2> QED BY <1>0, <2>1, <2>2 DEF DirsIn
<1>3. DOMAIN es \subseteq Nat
  BY LenProperties DEF Packed
<1>4. ASSUME NEW p \in DOMAIN fs PROVE Has(es, p) /\ ReadFile(es, p) = fs[p]
  <2>1. PICK i \in DOMAIN es : es[i].path = p
    BY <1>0, <1>4
  <2>2. ~es[i].dir /\ es[i].data = fs[p]
    BY <1>0, <1>4, <2>1
  <2>3. EntriesOf(es, p) = {i}
    BY <1>0, <2>1, <2>2 DEF EntriesOf
  <2>4. Min(EntriesOf(es, p)) = i
    BY <1>3, <2>3, MinIs
  <2> QED BY <2>2, <2>3, <2>4 DEF Has, ReadFile
<1>5. \A i \in DOMAIN es : es[i].path \in Seq(Names) \ {<<>>} /\ es[i].dir \in BOOLEAN
  <2>1. DOMAIN fs \cup ds \subseteq Seq(Names) \ {<<>>}
    BY DEF IsTree
  <2>2. \A i \in DOMAIN es : (es[i].path \in ds) \in BOOLEAN
    OBVIOUS
  <2>3. \A i \in DOMAIN es : es[i].path \in Seq(Names) \ {<<>>}
    BY <1>0, <2>1
  <2>4. \A i \in DOMAIN es : es[i].dir = (es[i].path \in ds)
    BY <1>0
  <2>5. \A i \in DOMAIN es : es[i].dir \in BOOLEAN
    BY <2>2, <2>4, Zenon
  <2> QED BY <2>3, <2>5
<1>6. \A p \in DOMAIN fs : Last(p) \notin NewDirs /\ IsData(fs[p])
  BY DEF IsTree
<1>7. \A p \in ds : Last(p) \notin NewFiles
  BY DEF IsTree
<1>8. es \in Seq({es[i] : i \in DOMAIN es})
  BY DEF Packed
<1>9. IsArchive(es)
  BY <1>0, <1>1, <1>2, <1>4, <1>5, <1>6, <1>7, <1>8 DEF IsArchive
<1> QED BY <1>1, <1>2, <1>4, <1>9

(* The walk packs the tree that it finds on disk.                          *)
LEMMA WalkPacks ==
    ASSUME IsTree(files, dirs), NEW paths, paths = DOMAIN files \cup dirs,
           NEW walk, walk = Walk(paths)
    PROVE  Packed([i \in DOMAIN walk |-> Entry(walk[i])], files, dirs)
<1> DEFINE n == Cardinality(paths)
           es == [i \in DOMAIN walk |-> Entry(walk[i])]
<1>1. IsFiniteSet(paths) /\ paths \subseteq Seq(Names)
  BY FS_Union DEF IsTree
<1>2. /\ n \in Nat /\ walk = [i \in 1..n |-> walk[i]]
      /\ \A i \in 1..n : walk[i] \in paths
      /\ \A p \in paths : \E i \in 1..n : walk[i] = p
      /\ IsInjective(walk)
  <2>1. IsWalk(walk, paths)
    BY <1>1, WalkIs
  <2> QED BY <2>1 DEF IsWalk
<1> HIDE DEF n
<1>3. DOMAIN walk = 1..n
  BY <1>2
<1>4. PICK r : r = es
  OBVIOUS
<1>5. r = [i \in 1..n |-> Entry(walk[i])]
  BY <1>3, <1>4
<1>6. \A i \in 1..n : /\ r[i].path = walk[i] /\ r[i].dir = (walk[i] \in dirs)
                      /\ walk[i] \in DOMAIN files => r[i].data = files[walk[i]]
  BY <1>5 DEF Entry, IsTree
<1>7. DOMAIN r = 1..n /\ r \in Seq({r[i] : i \in DOMAIN r}) /\ Len(r) = n
  <2> DEFINE E(i) == Entry(walk[i])
  <2>1. r = [i \in 1..n |-> E(i)]
    BY <1>5
  <2> HIDE DEF E
  <2>2. DOMAIN r = 1..n /\ r \in Seq({r[i] : i \in 1..n})
    BY <1>2, <2>1
  <2>3. Len(r) \in Nat /\ 1..Len(r) = 1..n
    BY <2>2, LenProperties
  <2>4. Len(r) = n
    BY <1>2, <2>3
  <2> QED BY <2>2, <2>4
<1>8. \A i, j \in 1..n : walk[i] = walk[j] => i = j
  BY <1>2, <1>3 DEF IsInjective
<1>9. \A i, j \in DOMAIN r : r[i].path = r[j].path => i = j
  <2> SUFFICES ASSUME NEW i \in 1..n, NEW j \in 1..n, r[i].path = r[j].path
               PROVE  i = j
    BY <1>7
  <2>1. walk[i] = walk[j]
    BY <1>6
  <2> QED BY <1>8, <2>1
<1>10. \A i \in DOMAIN r : /\ r[i].path \in DOMAIN files \cup dirs
                           /\ r[i].dir = (r[i].path \in dirs)
                           /\ r[i].path \in DOMAIN files => r[i].data = files[r[i].path]
  <2> SUFFICES ASSUME NEW i \in 1..n
               PROVE  /\ r[i].path \in DOMAIN files \cup dirs
                      /\ r[i].dir = (r[i].path \in dirs)
                      /\ r[i].path \in DOMAIN files => r[i].data = files[r[i].path]
    BY <1>7
  <2>1. r[i].path = walk[i] /\ walk[i] \in DOMAIN files \cup dirs
    BY <1>2, <1>6
  <2> QED BY <1>6, <2>1
<1>11. ASSUME NEW p \in DOMAIN files \cup dirs PROVE \E i \in DOMAIN r : r[i].path = p
  <2>1. PICK i \in 1..n : walk[i] = p
    BY <1>2
  <2>2. r[i].path = p
    BY <1>6, <2>1
  <2> QED BY <1>7, <2>2
<1>12. Len(r) = Cardinality(DOMAIN files \cup dirs)
  BY <1>7 DEF n
<1>13. r \in Seq({r[i] : i \in DOMAIN r})
  BY <1>7
<1>14. Packed(r, files, dirs)
  BY <1>9, <1>10, <1>11, <1>12, <1>13 DEF Packed
<1> QED BY <1>4, <1>14

-----------------------------------------------------------------------------
(* The inductive invariant of the files, directories and archives. *)

Early == {"extract", "plist", "icons", "profile", "copy", "strip"}
Late == {"nested", "main", "repackage", "report"}

(* What Strip leaves of the bundle that was discovered. *)
AfterStrip(b, q) ==
    [b EXCEPT !.plugins = IF q.stripExtensions THEN {} ELSE @,
              !.watch = IF q.stripWatch THEN {} ELSE @]

Layout ==
    /\ pc \in {"open", "returned"} \cup Early \cup Late
    /\ round \in 1..MaxRounds
    /\ request \in Requests
    /\ IsArchive(input)
    /\ IsTree(files, dirs)
    /\ bundle = NoBundle \/ /\ Discovers(input)
                            /\ bundle \in {Discover(input), AfterStrip(Discover(input), request)}
    /\ pc \in Early => Discovers(input) /\ bundle = Discover(input)
    /\ pc \in Late \/ answer.success =>
          Discovers(input) /\ bundle = AfterStrip(Discover(input), request)
    /\ pc \in (Early \ {"extract"}) \cup Late => bundle.app \in dirs
    /\ answer.success => pc = "returned"
    /\ answer.manifest # NoManifest => answer.success
    /\ pc = "report" \/ answer.success => Packed(output, files, dirs)

(* What is known of the bundle once it was discovered. *)
IsBundle(b) ==
    /\ IsApp(b.app) /\ b.exec # NoName
    /\ \A c \in b.frameworks : IsComponent(c, b.app, FrameworksDir)
    /\ \A c \in b.plugins : IsComponent(c, b.app, PlugInsDir)
    /\ \A c \in b.watch : IsComponent(c, b.app, WatchDir)

(* What Discover finds is a bundle, also after Strip.                      *)
LEMMA BundleIs ==
    ASSUME NEW es, IsArchive(es), Discovers(es), NEW q
    PROVE  /\ IsBundle(Discover(es)) /\ IsBundle(AfterStrip(Discover(es), q))
           /\ AfterStrip(Discover(es), q).app = Discover(es).app
           /\ AfterStrip(Discover(es), q).exec = Discover(es).exec
           /\ AfterStrip(Discover(es), q).frameworks = Discover(es).frameworks
           /\ AfterStrip(Discover(es), q).plugins =
                 IF q.stripExtensions THEN {} ELSE Discover(es).plugins
           /\ AfterStrip(Discover(es), q).dylibs = Discover(es).dylibs
<1>1. PICK b : b = Discover(es)
  OBVIOUS
<1>2. IsBundle(b)
  BY <1>1, DiscoverIs DEF IsBundle
<1>3. PICK a : a = AfterStrip(b, q)
  OBVIOUS
<1>4. /\ a.app = b.app /\ a.exec = b.exec /\ a.frameworks = b.frameworks /\ a.dylibs = b.dylibs
      /\ a.plugins = IF q.stripExtensions THEN {} ELSE b.plugins
      /\ a.watch = IF q.stripWatch THEN {} ELSE b.watch
  <2>1. \E x1, x2, x3, x4, x5, x6 : b = [app |-> x1, exec |-> x2, frameworks |-> x3,
                                         plugins |-> x4, watch |-> x5, dylibs |-> x6]
    BY <1>1 DEF Discover
  <2> QED BY <1>3, <2>1 DEF AfterStrip
<1>5. IsBundle(a)
  BY <1>2, <1>4 DEF IsBundle
<1> QED BY <1>1, <1>2, <1>3, <1>4, <1>5

(* Everything in the app is in the app's directory, and so on.             *)
LEMMA AppPaths ==
    ASSUME NEW app, IsApp(app), NEW n
    PROVE  /\ Parents(AppFile(app, n)) = Parents(app) \cup {app}
           /\ Last(AppFile(app, n)) = n
           /\ n \in Names => AppFile(app, n) \in Seq(Names) \ {<<>>}
           /\ Parents(FrameworkFile(app, n)) = Parents(app) \cup {app, AppFile(app, FrameworksDir)}
           /\ Last(FrameworkFile(app, n)) = n
           /\ n \in Names => FrameworkFile(app, n) \in Seq(Names) \ {<<>>}
<1>1. app \in Seq(Names) /\ Len(app) = 2 /\ app # <<>>
  BY EmptySeq DEF IsApp
<1>2. ASSUME NEW m
      PROVE  /\ OneDeeper(AppFile(app, m), app, m)
             /\ m \in Names => AppFile(app, m) \in Seq(Names)
  <2>1. AppFile(app, m) = Append(app, m)
    BY <1>1, Longer DEF AppFile
  <2> QED BY <1>1, <2>1, ParentsOfLonger
<1>3. PICK d : d = AppFile(app, FrameworksDir)
  OBVIOUS
<1>4. FrameworksDir \in Names
  BY NamesAssumption DEF NewDirs
<1>5. d[1] = app[1] /\ d[2] = app[2] /\ d[3] = FrameworksDir /\ Len(d) = 3
  BY <1>3 DEF AppFile
<1>6. d \in Seq(Names) /\ OneDeeper(d, app, FrameworksDir)
  BY <1>2, <1>3, <1>4
<1>7. FrameworkFile(app, n) = Append(d, n)
  <2>1. Append(d, n) = <<d[1], d[2], d[3], n>>
    BY <1>5, <1>6, Longer
  <2> QED BY <1>5, <2>1 DEF FrameworkFile
<1>8. /\ OneDeeper(FrameworkFile(app, n), d, n)
      /\ n \in Names => FrameworkFile(app, n) \in Seq(Names)
  BY <1>6, <1>7, ParentsOfLonger DEF OneDeeper
<1> QED BY <1>2, <1>3, <1>6, <1>8 DEF OneDeeper

(* While the app is on disk its bundle is one, and its directory is there. *)
LEMMA OnDisk ==
    ASSUME Layout, pc \in (Early \ {"extract"}) \cup Late
    PROVE  /\ IsBundle(bundle) /\ IsApp(bundle.app) /\ bundle.app \in dirs
           /\ Parents(bundle.app) \subseteq dirs
           /\ request \in Requests /\ IsTree(files, dirs)
<1>1. Discovers(input) /\ bundle \in {Discover(input), AfterStrip(Discover(input), request)}
  BY DEF Layout
<1>2. IsBundle(bundle)
  BY <1>1, BundleIs DEF Layout
<1> QED BY <1>2 DEF Layout, IsBundle, IsTree

(* Extract makes a tree with the app in it. *)
LEMMA ExtractTree ==
    ASSUME Layout, Extract
    PROVE  IsTree(files', dirs') /\ bundle.app \in dirs'
<1>1. IsArchive(input) /\ Discovers(input) /\ bundle = Discover(input)
  BY DEF Layout, Extract, Early
<1>2. bundle.app \in DirsIn(input)
  BY <1>1, DiscoverIs
<1> QED BY <1>1, <1>2, UnpackedIsTree DEF Extract

(* Editing the Info.plist leaves it one. *)
LEMMA ModifyTree ==
    ASSUME Layout, ModifyInfoPlist
    PROVE  IsTree(files', dirs') /\ bundle.app \in dirs'
<1>1. IsTree(files, dirs) /\ bundle.app \in dirs
  BY OnDisk DEF ModifyInfoPlist, Early
<1>2. PICK info : info = In(<<InfoPlist>>)
  OBVIOUS
<1>3. PICK d : d = [files[info] EXCEPT !.keys = Modify(@, request)]
  OBVIOUS
<1>4. files' = [files EXCEPT ![info] = d]
  BY <1>2, <1>3 DEF ModifyInfoPlist
<1>5. info \in DOMAIN files => IsData(d)
  <2>1. ASSUME info \in DOMAIN files PROVE IsData(files[info])
    BY <1>1, <2>1 DEF IsTree
  <2>2. DOMAIN d = DOMAIN files[info]
    BY <1>3
  <2>3. "kind" \in DOMAIN files[info] => d.kind = files[info].kind
    BY <1>3
  <2> QED BY <2>1, <2>2, <2>3 DEF IsData, IsPlist
<1>6. \A p \in DOMAIN files : IsData(files'[p])
  BY <1>1, <1>4, <1>5 DEF IsTree
<1>7. DOMAIN files' = DOMAIN files
  BY <1>4
<1>8. IsTree(files', dirs)
  BY <1>1, <1>6, <1>7, TreeChanged
<1> QED BY <1>1, <1>8 DEF ModifyInfoPlist

(* A file or more written into the app. *)
LEMMA TreeWithFiles ==
    ASSUME NEW fs, NEW ds, IsTree(fs, ds), NEW w, IsFiniteSet(DOMAIN w),
           \A p \in DOMAIN w : /\ p \in Seq(Names) \ {<<>>} /\ Last(p) \in NewFiles
                               /\ Parents(p) \subseteq ds /\ IsData(w[p])
    PROVE  IsTree(w ++ fs, ds)
<1>1. PICK nd : nd = {}
  OBVIOUS
<1>2. IsFiniteSet(nd) /\ ds \cup nd = ds
  BY <1>1, FS_EmptySet
<1>3. IsTree(w ++ fs, ds \cup nd)
  BY <1>1, <1>2, TreeWritten
<1> QED BY <1>2, <1>3

(* The icons are written into the app, and the old ones removed. *)
LEMMA IconsTree ==
    ASSUME Layout, ReplaceIcon
    PROVE  IsTree(files', dirs') /\ bundle.app \in dirs'
<1>1. /\ IsTree(files, dirs) /\ bundle.app \in dirs /\ IsApp(bundle.app)
      /\ Parents(bundle.app) \subseteq dirs /\ request \in Requests
  BY OnDisk DEF ReplaceIcon, Early
<1> DEFINE paths == {In(<<i.name>>) : i \in Icons(request)}
           Of(p) == (CHOOSE i \in Icons(request) : In(<<i.name>>) = p).data
           gone == IF request.deleteAssets \/ Icons(request) # {} THEN {AssetsCar} ELSE {}
<1>2. PICK w : w = [p \in paths |-> Of(p)]
  OBVIOUS
<1>3. files' = Without(w ++ files, gone) /\ dirs' = dirs
  BY <1>2 DEF ReplaceIcon
<1>4. IsFiniteSet(DOMAIN w)
  <2>1. IsFiniteSet(Icons(request))
    BY <1>1, RequestsAssumption, FS_Subset DEF Icons
  <2>2. PICK f : f = [i \in Icons(request) |-> In(<<i.name>>)]
    OBVIOUS
  <2>3. \A p \in paths : \E i \in Icons(request) : p = f[i]
    BY <2>2
  <2> HIDE DEF paths
  <2>4. IsFiniteSet(paths)
    BY <2>1, <2>3, FiniteImage
  <2> HIDE DEF Of
  <2> QED BY <1>2, <2>4
<1>5. ASSUME NEW p \in DOMAIN w
      PROVE  /\ p \in Seq(Names) \ {<<>>} /\ Last(p) \in NewFiles
             /\ Parents(p) \subseteq dirs /\ IsData(w[p])
  <2>1. p \in paths
    BY <1>2
  <2>2. PICK j \in Icons(request) : In(<<j.name>>) = p
    BY <2>1
  <2>3. PICK i \in Icons(request) : i = CHOOSE k \in Icons(request) : In(<<k.name>>) = p
    BY <2>2
  <2>4. w[p] = i.data
    BY <1>2, <2>1, <2>3
  <2>5. i \in request.icons /\ j \in request.icons
    BY DEF Icons
  <2>6. IsData(i.data)
    BY <1>1, <2>5, RequestsAssumption
  <2>7. j.name \in NewFiles /\ j.name \in Names
    BY <1>1, <2>5, NamesAssumption DEF NewFiles
  <2>8. p = AppFile(bundle.app, j.name)
    BY <1>1, <2>2, Places
  <2>9. /\ Parents(p) = Parents(bundle.app) \cup {bundle.app} /\ Last(p) = j.name
        /\ p \in Seq(Names) \ {<<>>}
    BY <1>1, <2>7, <2>8, AppPaths
  <2> QED BY <1>1, <2>4, <2>6, <2>7, <2>9
<1> HIDE DEF paths, Of, gone
<1>6. IsTree(w ++ files, dirs)
  BY <1>1, <1>4, <1>5, TreeWithFiles
<1> QED BY <1>1, <1>3, <1>6, TreeWithout

(* The profile is written into the app or removed from it. *)
LEMMA ProfileTree ==
    ASSUME Layout, HandleProfile
    PROVE  IsTree(files', dirs') /\ bundle.app \in dirs'
<1>1. /\ IsTree(files, dirs) /\ bundle.app \in dirs /\ IsApp(bundle.app)
      /\ Parents(bundle.app) \subseteq dirs
  BY OnDisk DEF HandleProfile, Early
<1>2. dirs' = dirs
  BY DEF HandleProfile
<1>3. CASE request.profile
  <2>1. PICK data : data = [kind |-> "profile", of |-> "request"]
    OBVIOUS
  <2>2. PICK w : w = [p \in {Profile} |-> data]
    OBVIOUS
  <2>3. files' = w ++ files
    BY <1>3, <2>1, <2>2 DEF HandleProfile
  <2>4. IsFiniteSet(DOMAIN w)
    BY <2>2, FS_Singleton
  <2>5. Profile = AppFile(bundle.app, ProfileName)
    BY <1>1, Places DEF Profile
  <2>6. ProfileName \in NewFiles /\ ProfileName \in Names
    BY NamesAssumption DEF NewFiles
  <2>7. IsData(data)
    BY <2>1 DEF IsData, IsPlist
  <2>10. /\ Parents(Profile) = Parents(bundle.app) \cup {bundle.app}
         /\ Last(Profile) = ProfileName /\ Profile \in Seq(Names) \ {<<>>}
    BY <1>1, <2>5, <2>6, AppPaths
  <2>8. \A p \in DOMAIN w : /\ p \in Seq(Names) \ {<<>>} /\ Last(p) \in NewFiles
                            /\ Parents(p) \subseteq dirs /\ IsData(w[p])
    BY <1>1, <2>2, <2>6, <2>7, <2>10
  <2>9. IsTree(w ++ files, dirs)
    BY <1>1, <2>4, <2>8, TreeWithFiles
  <2> QED BY <1>1, <1>2, <2>3, <2>9
<1>4. CASE ~request.profile
  <2>1. files' = files \/ files' = Without(files, {Profile})
    BY <1>4 DEF HandleProfile
  <2> QED BY <1>1, <1>2, <2>1, TreeWithout
<1> QED BY <1>3, <1>4

(* What is copied goes to Frameworks, with the directories that it needs.  *)
LEMMA CopyTree ==
    ASSUME Layout, CopyIntoFrameworks
    PROVE  IsTree(files', dirs') /\ bundle.app \in dirs'
<1>1. /\ IsTree(files, dirs) /\ bundle.app \in dirs /\ IsApp(bundle.app)
      /\ Parents(bundle.app) \subseteq dirs /\ request \in Requests
  BY OnDisk DEF CopyIntoFrameworks, Early
<1> DEFINE app == bundle.app
           res(b) == Append(InFrameworks(b), InBundle)
           bps == {res(b) : b \in request.bundles}
           dps == {InFrameworks(d) : d \in CopyDylibs(request)}
           bdirs == {InFrameworks(b) : b \in request.bundles}
           fdir == IF request.bundles \cup request.dylibs = {} THEN {}
                   ELSE {In(<<FrameworksDir>>)}
           nd == bdirs \cup fdir
<1>2. PICK bdata, ddata : /\ bdata = request.bundled
                          /\ ddata = [kind |-> "code", of |-> "request", signed |-> 0]
  OBVIOUS
<1>3. PICK bw, dw : bw = [p \in bps |-> bdata] /\ dw = [p \in dps |-> ddata]
  OBVIOUS
<1>4. PICK w : w = dw ++ bw
  OBVIOUS
<1>5. files' = w ++ files /\ dirs' = dirs \cup nd
  <2>1. files' = dw ++ bw ++ files
    BY <1>2, <1>3 DEF CopyIntoFrameworks
  <2>2. dirs' = dirs \cup bdirs \cup fdir
    BY DEF CopyIntoFrameworks
  <2> HIDE DEF bdirs, fdir
  <2> QED BY <1>4, <2>1, <2>2
<1>6. Over(w, dw, bw)
  BY <1>4, WrittenOver, Zenon
<1>7. DOMAIN w = dps \cup bps /\ \A p \in DOMAIN w : IsData(w[p])
  <2>1. IsData(bdata) /\ IsData(ddata)
    BY <1>1, <1>2, RequestsAssumption DEF IsData, IsPlist
  <2> HIDE DEF bps, dps
  <2> QED BY <1>3, <1>6, <2>1 DEF Over
<1>8. /\ \A n \in request.bundles : n \in NewDirs /\ n \in Names
      /\ \A n \in request.dylibs : n \in NewFiles /\ n \in Names
      /\ FrameworksDir \in NewDirs /\ FrameworksDir \in Names
      /\ InBundle \in NewFiles /\ InBundle \in Names
      /\ CopyDylibs(request) \subseteq request.dylibs
  BY <1>1, NamesAssumption DEF NewFiles, NewDirs, CopyDylibs
<1>9. IsFiniteSet(DOMAIN w) /\ IsFiniteSet(nd)
  <2>1. /\ IsFiniteSet(request.bundles) /\ IsFiniteSet(CopyDylibs(request))
    BY <1>1, <1>8, RequestsAssumption, FS_Subset
  <2>2. PICK fb, fr, fd : /\ fb = [b \in request.bundles |-> InFrameworks(b)]
                          /\ fr = [b \in request.bundles |-> res(b)]
                          /\ fd = [d \in CopyDylibs(request) |-> InFrameworks(d)]
    OBVIOUS
  <2>3. /\ \A p \in bdirs : \E b \in request.bundles : p = fb[b]
        /\ \A p \in bps : \E b \in request.bundles : p = fr[b]
        /\ \A p \in dps : \E d \in CopyDylibs(request) : p = fd[d]
    BY <2>2
  <2>4. IsFiniteSet(fdir)
    BY FS_Singleton, FS_EmptySet
  <2> HIDE DEF bdirs, bps, dps, fdir
  <2>5. IsFiniteSet(bdirs) /\ IsFiniteSet(bps) /\ IsFiniteSet(dps)
    BY <2>1, <2>3, FiniteImage
  <2> QED BY <1>7, <2>4, <2>5, FS_Union
<1>10. ASSUME NEW n
       PROVE  /\ In(<<n>>) = AppFile(app, n) /\ InFrameworks(n) = FrameworkFile(app, n)
              /\ Parents(AppFile(app, n)) \subseteq dirs
              /\ Last(AppFile(app, n)) = n
              /\ n \in Names => AppFile(app, n) \in Seq(Names) \ {<<>>}
              /\ Parents(FrameworkFile(app, n)) \subseteq dirs \cup {In(<<FrameworksDir>>)}
              /\ Last(FrameworkFile(app, n)) = n
              /\ n \in Names => FrameworkFile(app, n) \in Seq(Names) \ {<<>>}
  <2>1. In(<<n>>) = AppFile(app, n) /\ InFrameworks(n) = FrameworkFile(app, n)
    BY <1>1, Places
  <2>2. In(<<FrameworksDir>>) = AppFile(app, FrameworksDir)
    BY <1>1, Places
  <2>3. Parents(app) \cup {app} \subseteq dirs
    BY <1>1
  <2>4. /\ Parents(AppFile(app, n)) = Parents(app) \cup {app}
        /\ Last(AppFile(app, n)) = n
        /\ n \in Names => AppFile(app, n) \in Seq(Names) \ {<<>>}
    BY <1>1, AppPaths
  <2>5. /\ Parents(FrameworkFile(app, n)) = Parents(app) \cup {app, AppFile(app, FrameworksDir)}
        /\ Last(FrameworkFile(app, n)) = n
        /\ n \in Names => FrameworkFile(app, n) \in Seq(Names) \ {<<>>}
    BY <1>1, AppPaths
  <2> HIDE DEF app
  <2> QED BY <2>1, <2>2, <2>3, <2>4, <2>5
<1>11. ASSUME NEW d \in nd
       PROVE  /\ d \in Seq(Names) \ {<<>>} /\ Last(d) \in NewDirs
              /\ Parents(d) \subseteq dirs \cup nd
  <2>1. CASE d \in fdir
    <3>1. d = In(<<FrameworksDir>>)
      BY <2>1
    <3> QED BY <1>8, <1>10, <3>1
  <2>2. CASE d \in bdirs
    <3>1. PICK b \in request.bundles : d = InFrameworks(b)
      BY <2>2
    <3>2. In(<<FrameworksDir>>) \in nd
      BY <3>1
    <3>3. d = FrameworkFile(app, b) /\ b \in Names /\ b \in NewDirs
      BY <1>8, <1>10, <3>1
    <3> HIDE DEF nd, app
    <3> QED BY <1>10, <3>2, <3>3
  <2> QED BY <2>1, <2>2
<1>12. ASSUME NEW p \in DOMAIN w
       PROVE  /\ p \in Seq(Names) \ {<<>>} /\ Last(p) \in NewFiles
              /\ Parents(p) \subseteq dirs \cup nd
  <2>1. CASE p \in dps
    <3>1. PICK d \in CopyDylibs(request) : p = InFrameworks(d)
      BY <2>1
    <3>2. In(<<FrameworksDir>>) \in nd
      BY <1>8, <3>1
    <3>3. p = FrameworkFile(app, d) /\ d \in Names /\ d \in NewFiles
      BY <1>8, <1>10, <3>1
    <3> HIDE DEF nd, app
    <3> QED BY <1>10, <3>2, <3>3
  <2>2. CASE p \in bps
    <3>1. PICK b \in request.bundles : p = res(b)
      BY <2>2
    <3>2. PICK d \in nd : d = InFrameworks(b)
      OBVIOUS
    <3>3. /\ d \in Seq(Names) \ {<<>>} /\ Parents(d) \subseteq dirs \cup nd
      BY <1>11
    <3>4. p = Append(d, InBundle)
      BY <3>1, <3>2
    <3>5. OneDeeper(p, d, InBundle) /\ p \in Seq(Names)
      BY <1>8, <3>3, <3>4, ParentsOfLonger
    <3> HIDE DEF nd
    <3> QED BY <1>8, <3>3, <3>5 DEF OneDeeper
  <2> QED BY <1>7, <2>1, <2>2
<1> HIDE DEF nd
<1>13. IsTree(w ++ files, dirs \cup nd)
  BY <1>1, <1>7, <1>9, <1>11, <1>12, TreeWritten
<1> QED BY <1>1, <1>5, <1>13

(* Strip removes whole directories, and none that the app is in. *)
LEMMA StripTree ==
    ASSUME Layout, Strip
    PROVE  IsTree(files', dirs') /\ bundle.app \in dirs'
<1>1. /\ IsTree(files, dirs) /\ bundle.app \in dirs /\ IsApp(bundle.app)
  BY OnDisk DEF Strip, Early
<1> DEFINE tops == Stripped(request)
           S == Names \cup {PlugInsDir, WatchDir}
<1>2. /\ files' = Without(files, UNION {Under(d, DOMAIN files) : d \in tops})
      /\ dirs' = dirs \ UNION {Under(d, dirs) : d \in tops}
  BY DEF Strip
<1>3. /\ In(<<PlugInsDir>>) = AppFile(bundle.app, PlugInsDir)
      /\ In(<<WatchDir>>) = AppFile(bundle.app, WatchDir)
  BY <1>1, Places
<1>4. bundle.app[1] \in S /\ bundle.app[2] \in S /\ PlugInsDir \in S /\ WatchDir \in S
  BY <1>1, ElementOfSeq DEF IsApp
<1>5. ASSUME NEW d \in tops PROVE d \in Seq(S) /\ Len(d) = 3
  <2>1. d = AppFile(bundle.app, PlugInsDir) \/ d = AppFile(bundle.app, WatchDir)
    BY <1>3 DEF Stripped
  <2>2. PICK a, b, n \in S : d = <<a, b, n>>
    BY <1>4, <2>1 DEF AppFile
  <2> HIDE DEF S
  <2> QED BY <2>2
<1> HIDE DEF tops, S
<1>6. bundle.app \notin UNION {Under(d, dirs) : d \in tops}
  <2> SUFFICES ASSUME NEW d \in tops, IsPrefix(d, bundle.app) PROVE FALSE
    BY DEF Under
  <2>1. Len(d) <= Len(bundle.app)
    BY DEF IsPrefix
  <2>2. Len(d) = 3 /\ Len(bundle.app) = 2
    BY <1>1, <1>5 DEF IsApp
  <2> QED BY <2>1, <2>2
<1>7. IsTree(Without(files, UNION {Under(d, DOMAIN files) : d \in tops}),
             dirs \ UNION {Under(d, dirs) : d \in tops})
  BY <1>1, <1>5, TreePruned
<1> QED BY <1>1, <1>2, <1>6, <1>7

(* Sealing directories that are there leaves a tree.                       *)
LEMMA TreeSealed ==
    ASSUME NEW fs, NEW ds, IsTree(fs, ds), NEW bs \in SUBSET ds
    PROVE  IsTree(Seals(bs) ++ fs, ds \cup {SealDir(b) : b \in bs})
<1> DEFINE ps == {SealOf(b) : b \in bs}
           nd == {SealDir(b) : b \in bs}
<1>1. PICK data : data = [kind |-> "seal", of |-> round]
  OBVIOUS
<1>2. PICK w : w = Seals(bs)
  OBVIOUS
<1>3. w = [p \in ps |-> data]
  BY <1>1, <1>2 DEF Seals
<1>4. IsFiniteSet(ps) /\ IsFiniteSet(nd)
  <2>1. IsFiniteSet(bs)
    BY FS_Subset DEF IsTree
  <2>2. PICK fp, fd : fp = [b \in bs |-> SealOf(b)] /\ fd = [b \in bs |-> SealDir(b)]
    OBVIOUS
  <2>3. (\A p \in ps : \E b \in bs : p = fp[b]) /\ (\A p \in nd : \E b \in bs : p = fd[b])
    BY <2>2
  <2> HIDE DEF ps, nd
  <2> QED BY <2>1, <2>3, FiniteImage
<1>5. /\ CodeSignatureDir \in Names /\ CodeSignatureDir \in NewDirs
      /\ CodeResources \in Names /\ CodeResources \in NewFiles
  BY NamesAssumption DEF NewFiles, NewDirs
<1>6. ASSUME NEW b \in bs
      PROVE  /\ SealDir(b) \in Seq(Names) \ {<<>>} /\ Last(SealDir(b)) \in NewDirs
             /\ Parents(SealDir(b)) \subseteq ds
             /\ SealOf(b) \in Seq(Names) \ {<<>>} /\ Last(SealOf(b)) \in NewFiles
             /\ Parents(SealOf(b)) \subseteq ds \cup {SealDir(b)}
  <2>1. b \in Seq(Names) /\ b # <<>> /\ Parents(b) \subseteq ds
    BY DEF IsTree
  <2>2. PICK d : d = SealDir(b)
    OBVIOUS
  <2>3. d \in Seq(Names) /\ OneDeeper(d, b, CodeSignatureDir)
    BY <1>5, <2>1, <2>2, ParentsOfLonger DEF SealDir
  <2>4. PICK p : p = SealOf(b)
    OBVIOUS
  <2>5. p \in Seq(Names) /\ OneDeeper(p, d, CodeResources)
    BY <1>5, <2>2, <2>3, <2>4, ParentsOfLonger DEF SealOf, OneDeeper
  <2> QED BY <1>5, <2>1, <2>2, <2>3, <2>4, <2>5 DEF OneDeeper
<1>7. IsData(data)
  BY <1>1 DEF IsData, IsPlist
<1>8. \A p \in DOMAIN w : /\ p \in Seq(Names) \ {<<>>} /\ Last(p) \in NewFiles
                          /\ Parents(p) \subseteq ds \cup nd /\ IsData(w[p])
  BY <1>3, <1>6, <1>7
<1>9. \A d \in nd : /\ d \in Seq(Names) \ {<<>>} /\ Last(d) \in NewDirs
                    /\ Parents(d) \subseteq ds \cup nd
  BY <1>6
<1> HIDE DEF ps, nd
<1>10. IsFiniteSet(DOMAIN w)
  BY <1>3, <1>4
<1>11. IsTree(w ++ fs, ds \cup nd)
  BY <1>4, <1>8, <1>9, <1>10, TreeWritten
<1> QED BY <1>2, <1>11 DEF nd

(* Signing changes files, and removes none. *)
LEMMA TreeSigned ==
    ASSUME IsTree(files, dirs), NEW code
    PROVE  IsTree(SignedFiles(code), dirs)
<1>1. PICK fs : fs = SignedFiles(code)
  OBVIOUS
<1>2. DOMAIN fs = DOMAIN files
  BY <1>1 DEF SignedFiles
<1>3. ASSUME NEW p \in DOMAIN files PROVE IsData(fs[p])
  <2>1. IsData(files[p])
    BY DEF IsTree
  <2>2. PICK d : d = [files[p] EXCEPT !.signed = round]
    OBVIOUS
  <2>3. fs[p] = d \/ fs[p] = files[p]
    BY <1>1, <2>2 DEF SignedFiles
  <2>4. DOMAIN d = DOMAIN files[p]
    BY <2>2
  <2>5. "kind" \in DOMAIN files[p] => d.kind = files[p].kind
    BY <2>2
  <2> QED BY <2>1, <2>3, <2>4, <2>5 DEF IsData, IsPlist
<1>4. IsTree(fs, dirs)
  BY <1>2, <1>3, TreeChanged
<1> QED BY <1>1, <1>4

(* The components that are signed are on disk, and get their seals.        *)
LEMMA NestedTree ==
    ASSUME Layout, SignNested, pc' = "main"
    PROVE  IsTree(files', dirs') /\ bundle.app \in dirs'
<1>1. /\ IsTree(files, dirs) /\ bundle.app \in dirs /\ IsBundle(bundle)
  BY OnDisk DEF SignNested, Late
<1> DEFINE cs == {c \in bundle.frameworks \cup bundle.plugins : Present(c)}
           code == {MainOf(c) : c \in cs} \cup ToSet(bundle.dylibs)
           bs == {c.path : c \in cs}
<1>2. /\ files' = Seals(bs) ++ SignedFiles(code)
      /\ dirs' = dirs \cup {SealDir(c.path) : c \in cs}
  BY DEF SignNested, Fails
<1>3. ASSUME NEW c \in cs PROVE c.path \in dirs
  <2>1. c.path \in Seq(Names) /\ Len(c.path) = 4
    BY <1>1 DEF IsBundle, IsComponent
  <2>2. c.path # <<>>
    <3>1. PICK d \in Seq(Names) : d = c.path
      BY <2>1
    <3>2. d = <<>> <=> Len(d) = 0
      BY EmptySeq
    <3> QED BY <2>1, <3>1, <3>2
  <2>3. OneDeeper(MainOf(c), c.path, c.exec)
    BY <2>1, <2>2, ParentsOfLonger DEF MainOf
  <2>4. MainOf(c) \in DOMAIN files
    BY DEF Present
  <2> QED BY <1>1, <2>3, <2>4 DEF IsTree, OneDeeper
<1>4. bs \in SUBSET dirs /\ dirs' = dirs \cup {SealDir(b) : b \in bs}
  BY <1>2, <1>3
<1> HIDE DEF bs, code, cs
<1>5. IsTree(SignedFiles(code), dirs)
  BY <1>1, TreeSigned
<1>6. IsTree(Seals(bs) ++ SignedFiles(code), dirs \cup {SealDir(b) : b \in bs})
  BY <1>4, <1>5, TreeSealed
<1> QED BY <1>1, <1>2, <1>4, <1>6

(* The app is sealed when dylibs have been removed from its root.          *)
LEMMA MainTree ==
    ASSUME Layout, SignMain, pc' = "repackage"
    PROVE  IsTree(files', dirs') /\ bundle.app \in dirs'
<1>1. /\ IsTree(files, dirs) /\ bundle.app \in dirs
  BY OnDisk DEF SignMain, Late
<1> DEFINE fs == Without(SignedFiles({MainExecutable}), RemovedDylibs(request))
           bs == {bundle.app}
<1>2. /\ files' = Seals(bs) ++ fs
      /\ dirs' = dirs \cup {SealDir(b) : b \in bs}
  BY DEF SignMain, Fails
<1>3. IsTree(SignedFiles({MainExecutable}), dirs)
  BY <1>1, TreeSigned
<1>4. IsTree(fs, dirs)
  BY <1>3, TreeWithout
<1>5. bs \in SUBSET dirs
  BY <1>1
<1> HIDE DEF fs, bs
<1>6. IsTree(Seals(bs) ++ fs, dirs \cup {SealDir(b) : b \in bs})
  BY <1>4, <1>5, TreeSealed
<1> QED BY <1>1, <1>2, <1>6

(* Nothing is on disk before the first step.                               *)
LEMMA EmptyTree == IsTree(NoFiles, {})
<1>1. PICK fs : fs = NoFiles
  OBVIOUS
<1>2. DOMAIN fs = {}
  BY <1>1 DEF NoFiles
<1>3. IsTree(fs, {})
  BY <1>2, FS_EmptySet DEF IsTree
<1> QED BY <1>1, <1>3

(* Before the first step there are only an archive and a request. *)
LEMMA LayoutInit == Init => Layout
<1> SUFFICES ASSUME Init PROVE Layout
  OBVIOUS
<1>1. IsArchive(input) /\ request \in Requests /\ MaxRounds \in Nat \ {0}
  BY RequestsAssumption DEF Init
<1>2. IsTree(files, dirs)
  BY EmptyTree DEF Init
<1>3. ~answer.success /\ answer.manifest = NoManifest
  BY DEF Init, Answer
<1>4. round \in 1..MaxRounds
  BY <1>1 DEF Init
<1> QED BY <1>1, <1>2, <1>3, <1>4 DEF Init, Layout, Early, Late

(* A step that neither ends the round nor touches what it works on keeps   *)
(* the invariant if it leaves a tree.                                      *)
LEMMA LayoutKept ==
    ASSUME Layout, pc \in Early \cup Late, pc' \in (Early \ {"extract"}) \cup Late,
           pc \in Early <=> pc' \in Early,
           UNCHANGED <<round, input, request, bundle, answer>>,
           IsTree(files', dirs'), bundle.app \in dirs',
           pc' = "report" => Packed(output', files', dirs')
    PROVE  Layout'
<1>1. Early \cap Late = {} /\ "returned" \notin Early \cup Late
  BY DEF Early, Late
<1>2. ~answer.success
  BY <1>1 DEF Layout
<1> QED BY <1>1, <1>2 DEF Layout

(* Open finds a bundle, or there is nothing to do. *)
LEMMA LayoutOpen == Layout /\ Open => Layout'
<1> SUFFICES ASSUME Layout, Open PROVE Layout'
  OBVIOUS
<1>1. ~answer.success /\ "open" \notin Early \cup Late /\ "returned" \notin Early \cup Late
  BY DEF Layout, Open, Early, Late
<1>2. CASE Discovers(input)
  <2>1. pc' = "extract" /\ bundle' = Discover(input)
    BY <1>2 DEF Open
  <2>2. pc' \in Early /\ pc' \notin Late /\ pc' \notin Early \ {"extract"} /\ pc' # "report"
    BY <2>1 DEF Early, Late
  <2> QED BY <1>1, <1>2, <2>1, <2>2 DEF Layout, Open
<1>3. CASE ~Discovers(input)
  <2>1. pc' = "returned" /\ bundle' = bundle
    BY <1>3 DEF Open
  <2> QED BY <1>1, <1>3, <2>1 DEF Layout, Open
<1> QED BY <1>2, <1>3

(* A call that fails keeps everything as it is. *)
LEMMA LayoutFails ==
    ASSUME Layout, pc \in Late, Fails PROVE Layout'
<1>1. ~answer.success /\ "returned" \notin Early \cup Late
  BY DEF Layout, Early, Late
<1> QED BY <1>1 DEF Layout, Fails

(* Strip leaves the bundle without what it removes. *)
LEMMA LayoutStrip == Layout /\ Strip => Layout'
<1> SUFFICES ASSUME Layout, Strip PROVE Layout'
  OBVIOUS
<1>1. IsTree(files', dirs') /\ bundle.app \in dirs'
  BY StripTree
<1>2. Discovers(input) /\ bundle = Discover(input) /\ ~answer.success /\ IsArchive(input)
  BY DEF Layout, Strip, Early
<1>3. bundle' = AfterStrip(Discover(input), request)
  BY <1>2 DEF Strip, AfterStrip
<1>4. bundle'.app = bundle.app
  BY <1>2, <1>3, BundleIs
<1>5. pc' = "nested" /\ "nested" \in Late /\ "nested" \notin Early
  BY DEF Strip, Late, Early
<1>6. UNCHANGED <<round, input, request, output, answer>>
  BY DEF Strip
<1> QED BY <1>1, <1>2, <1>3, <1>4, <1>5, <1>6 DEF Layout

(* Repackage writes an archive of the tree. *)
LEMMA LayoutRepackage == Layout /\ Repackage => Layout'
<1> SUFFICES ASSUME Layout, Repackage PROVE Layout'
  OBVIOUS
<1>1. IsTree(files, dirs) /\ bundle.app \in dirs
  BY OnDisk DEF Repackage, Late
<1>2. PICK paths, walk : /\ paths = DOMAIN files \cup dirs /\ walk = Walk(paths)
                         /\ output' = [i \in DOMAIN walk |-> Entry(walk[i])]
  BY DEF Repackage
<1>3. PICK es : es = [i \in DOMAIN walk |-> Entry(walk[i])]
  OBVIOUS
<1>4. Packed(es, files, dirs)
  BY <1>1, <1>2, <1>3, WalkPacks
<1>5. output' = es
  BY <1>2, <1>3
<1>6. Packed(output', files', dirs') /\ files' = files /\ dirs' = dirs
  BY <1>4, <1>5 DEF Repackage
<1>7. pc \in Late /\ pc' = "report" /\ "report" \in Late /\ Late \cap Early = {}
  BY DEF Repackage, Late, Early
<1> QED BY <1>1, <1>6, <1>7, LayoutKept DEF Repackage

(* Report ends the round with an answer. *)
LEMMA LayoutReport == Layout /\ Report => Layout'
<1> SUFFICES ASSUME Layout, Report PROVE Layout'
  OBVIOUS
<1>1. pc = "report" /\ pc' = "returned" /\ answer'.success
      /\ UNCHANGED <<round, input, request, bundle, files, dirs, output>>
  BY DEF Report
<1>2. "report" \in Late /\ "returned" \notin Early \cup Late
  BY DEF Late, Early
<1> QED BY <1>1, <1>2 DEF Layout

(* The output is an archive, to be signed once more. *)
LEMMA LayoutAgain == Layout /\ Again => Layout'
<1> SUFFICES ASSUME Layout, Again PROVE Layout'
  OBVIOUS
<1>1. PICK q \in Requests : Begin(output, q)
  BY DEF Again
<1>2. IsArchive(output)
  BY PackedIs DEF Layout, Again
<1>3. IsTree(files', dirs')
  <2>1. files' = NoFiles /\ dirs' = {}
    BY <1>1 DEF Begin
  <2> QED BY <2>1, EmptyTree
<1>4. ~answer'.success /\ answer'.manifest = NoManifest
  BY <1>1 DEF Begin, Answer
<1>5. round' \in 1..MaxRounds
  BY RequestsAssumption DEF Layout, Again
<1>6. /\ pc' = "open" /\ pc' \notin Early \cup Late
      /\ bundle' = NoBundle /\ request' = q /\ input' = output
  BY <1>1 DEF Begin, Early, Late
<1> QED BY <1>2, <1>3, <1>4, <1>5, <1>6 DEF Layout, Late

(* Each step keeps the invariant. *)
LEMMA LayoutStep == Layout /\ [Next]_vars => Layout'
<1> SUFFICES ASSUME Layout, [Next]_vars PROVE Layout'
  OBVIOUS
<1>1. ASSUME Extract PROVE Layout'
  <2>1. pc \in Early /\ pc' \in Early \ {"extract"} /\ pc' # "report"
    BY <1>1 DEF Extract, Early
  <2> QED BY <1>1, <2>1, ExtractTree, LayoutKept DEF Extract
<1>2. ASSUME ModifyInfoPlist PROVE Layout'
  <2>1. pc \in Early /\ pc' \in Early \ {"extract"} /\ pc' # "report"
    BY <1>2 DEF ModifyInfoPlist, Early
  <2> QED BY <1>2, <2>1, ModifyTree, LayoutKept DEF ModifyInfoPlist
<1>3. ASSUME ReplaceIcon PROVE Layout'
  <2>1. pc \in Early /\ pc' \in Early \ {"extract"} /\ pc' # "report"
    BY <1>3 DEF ReplaceIcon, Early
  <2> QED BY <1>3, <2>1, IconsTree, LayoutKept DEF ReplaceIcon
<1>4. ASSUME HandleProfile PROVE Layout'
  <2>1. pc \in Early /\ pc' \in Early \ {"extract"} /\ pc' # "report"
    BY <1>4 DEF HandleProfile, Early
  <2> QED BY <1>4, <2>1, ProfileTree, LayoutKept DEF HandleProfile
<1>5. ASSUME CopyIntoFrameworks PROVE Layout'
  <2>1. pc \in Early /\ pc' \in Early \ {"extract"} /\ pc' # "report"
    BY <1>5 DEF CopyIntoFrameworks, Early
  <2> QED BY <1>5, <2>1, CopyTree, LayoutKept DEF CopyIntoFrameworks
<1>6. ASSUME SignNested PROVE Layout'
  <2>1. CASE pc' = "main"
    <3>1. pc \in Late /\ pc' \in Late /\ pc' # "report" /\ Late \cap Early = {}
      BY <1>6, <2>1 DEF SignNested, Late, Early
    <3>2. UNCHANGED <<round, input, request, bundle, answer>>
      BY <1>6, <2>1 DEF SignNested, Fails
    <3> QED BY <1>6, <2>1, <3>1, <3>2, NestedTree, LayoutKept
  <2>2. CASE pc' # "main"
    BY <1>6, <2>2, LayoutFails DEF SignNested, Late
  <2> QED BY <2>1, <2>2
<1>7. ASSUME SignMain PROVE Layout'
  <2>1. CASE pc' = "repackage"
    <3>1. pc \in Late /\ pc' \in Late /\ pc' # "report" /\ Late \cap Early = {}
      BY <1>7, <2>1 DEF SignMain, Late, Early
    <3>2. UNCHANGED <<round, input, request, bundle, answer>>
      BY <1>7, <2>1 DEF SignMain, Fails
    <3> QED BY <1>7, <2>1, <3>1, <3>2, MainTree, LayoutKept
  <2>2. CASE pc' # "repackage"
    BY <1>7, <2>2, LayoutFails DEF SignMain, Late
  <2> QED BY <2>1, <2>2
<1>8. ASSUME Done \/ UNCHANGED vars PROVE Layout'
  BY <1>8 DEF Layout, Done, vars
<1> QED BY <1>1, <1>2, <1>3, <1>4, <1>5, <1>6, <1>7, <1>8, LayoutOpen, LayoutStrip,
           LayoutRepackage, LayoutReport, LayoutAgain DEF Next

(***************************************************************************)
(* Whatever is unpacked, edited, copied and removed: at every step what is *)
(* on disk is a tree, the output is an archive of it, and the output is an *)
(* archive that can be signed again.                                       *)
(***************************************************************************)
THEOREM LayoutHolds == Spec => []Layout
BY LayoutInit, LayoutStep, PTL DEF Spec

(***************************************************************************)
(* In every state the files are where their directories are, and the       *)
(* components are in the app.                                              *)
(***************************************************************************)
THEOREM ContentsTypes == Spec => []TypeOK
<1>1. Layout => TypeOK
  <2> SUFFICES ASSUME Layout PROVE TypeOK
    OBVIOUS
  <2>1. ASSUME NEW c \in bundle.frameworks \cup bundle.plugins \cup bundle.watch
        PROVE  IsStrictPrefix(bundle.app, c.path)
    <3>1. bundle # NoBundle
      BY <2>1 DEF NoBundle
    <3>2. Discovers(input) /\ bundle \in {Discover(input), AfterStrip(Discover(input), request)}
      BY <3>1 DEF Layout
    <3>3. IsBundle(bundle)
      BY <3>2, BundleIs DEF Layout
    <3>4. /\ bundle.app \in Seq(Names) /\ Len(bundle.app) = 2
          /\ c.path \in Seq(Names) /\ Len(c.path) = 4
          /\ bundle.app[1] = c.path[1] /\ bundle.app[2] = c.path[2]
      BY <2>1, <3>3 DEF IsBundle, IsApp, IsComponent
    <3>5. PICK a, p \in Seq(Names) : a = bundle.app /\ p = c.path
      BY <3>4
    <3>7. Len(a) = 2 /\ Len(p) = 4 /\ a[1] = p[1] /\ a[2] = p[2]
      BY <3>4, <3>5
    <3>6. Len(a) < Len(p) /\ \A j \in 1..Len(a) : a[j] = p[j]
      BY <3>7
    <3> QED BY <3>5, <3>6, StrictPrefixIs
  <2>2. pc \in {"open", "extract", "plist", "icons", "profile", "copy", "strip",
                "nested", "main", "repackage", "report", "returned"}
    BY DEF Layout, Early, Late
  <2> QED BY <2>1, <2>2 DEF TypeOK, Layout, IsTree
<1> QED BY <1>1, LayoutHolds, PTL

-----------------------------------------------------------------------------
(***************************************************************************)
(* What becomes of the contents.  At every step a file is one that the     *)
(* input has, one that the request brings or a seal; those of the input    *)
(* that are to stay are there, and they are what they were but for their   *)
(* signatures.                                                             *)
(***************************************************************************)
TheInfo == In(<<InfoPlist>>)
StrippedFrom(paths) == UNION {Under(d, paths) : d \in Stripped(request)}
Kept == FilesIn(input) \ (StrippedFrom(FilesIn(input)) \cup ToGo(request))
KeptDirs == DirsIn(input) \ StrippedFrom(DirsIn(input))
Copied == {InFrameworks(d) : d \in request.dylibs}

OldIcon == IF request.deleteAssets \/ Icons(request) # {} THEN {AssetsCar} ELSE {}
OldProfile == IF request.removeProfile /\ ~request.profile THEN {Profile} ELSE {}

(* Where seals are put, and what is to go in a step that is still to come. *)
Sealed == {c.path : c \in bundle.frameworks \cup bundle.plugins} \cup {bundle.app}
SealPlaces == IF pc \in Early THEN {} ELSE {SealOf(b) : b \in Sealed}
Pending ==
    (IF pc \in Early THEN StrippedFrom(FilesIn(input)) ELSE {})
        \cup (IF pc \in Early \cup {"nested", "main"} THEN RemovedDylibs(request) ELSE {})
        \cup (IF pc \in {"plist", "icons"} THEN OldIcon ELSE {})
        \cup (IF pc \in {"plist", "icons", "profile"} THEN OldProfile ELSE {})

IsContents(fs, pending, places) ==
    /\ Kept \subseteq DOMAIN fs
    /\ \A p \in DOMAIN fs : \/ p \in Kept \cup pending \cup Replaced(request) \cup Copied
                            \/ p \in places /\ fs[p].kind = "seal"
    /\ \A p \in Kept \ (Replaced(request) \cup {TheInfo}) :
          \/ p \in places /\ fs[p].kind = "seal"
          \/ SameBut({"signed"}, ReadFile(input, p), fs[p])

(* What the request wants in an Info.plist. *)
AsAsked(q, keys) ==
    /\ q.id # "" => "CFBundleIdentifier" \in DOMAIN keys /\ keys["CFBundleIdentifier"] = q.id
    /\ q.name # "" => "CFBundleDisplayName" \in DOMAIN keys /\ keys["CFBundleDisplayName"] = q.name
    /\ q.version # 0 => /\ "CFBundleShortVersionString" \in DOMAIN keys
                        /\ keys["CFBundleShortVersionString"] = q.version
    /\ IconName(q) # <<>> => /\ "CFBundleIcons" \in DOMAIN keys
                             /\ keys["CFBundleIcons"] = [files |-> <<IconName(q)>>]

IsInfo(fs, edited) ==
    /\ TheInfo \in DOMAIN fs /\ fs[TheInfo].kind = "plist"
    /\ "keys" \in DOMAIN fs[TheInfo] /\ "kind" \in DOMAIN fs[TheInfo]
    /\ SameBut(EditedKeys(request), ReadFile(input, TheInfo).keys, fs[TheInfo].keys)
    /\ edited => AsAsked(request, fs[TheInfo].keys)

(* Nothing but what may be written is written over what is kept.           *)
LEMMA ContentsWritten ==
    ASSUME NEW fs, NEW pending, NEW places, IsContents(fs, pending, places), NEW w,
           \A p \in DOMAIN w : p \in Replaced(request) \/ (p \in Copied /\ p \notin DOMAIN fs)
    PROVE  IsContents(w ++ fs, pending, places)
<1>1. PICK v : v = w ++ fs
  OBVIOUS
<1>2. Over(w ++ fs, w, fs)
  BY WrittenOver, Zenon
<1>3. /\ DOMAIN v = DOMAIN w \cup DOMAIN fs
      /\ \A p \in DOMAIN fs \ DOMAIN w : v[p] = fs[p]
  BY <1>1, <1>2 DEF Over
<1>4. Kept \subseteq DOMAIN v
  BY <1>3 DEF IsContents
<1>5. \A p \in DOMAIN v : \/ p \in Kept \cup pending \cup Replaced(request) \cup Copied
                          \/ p \in places /\ v[p].kind = "seal"
  BY <1>3 DEF IsContents
<1>6. \A p \in Kept \ Replaced(request) : p \in DOMAIN fs \ DOMAIN w
  BY DEF IsContents
<1>7. \A p \in Kept \ (Replaced(request) \cup {TheInfo}) :
         \/ p \in places /\ v[p].kind = "seal"
         \/ SameBut({"signed"}, ReadFile(input, p), v[p])
  BY <1>3, <1>6 DEF IsContents
<1>8. IsContents(v, pending, places)
  BY <1>4, <1>5, <1>7 DEF IsContents
<1> QED BY <1>1, <1>8

(* Nothing that is kept is removed. *)
LEMMA ContentsWithout ==
    ASSUME NEW fs, NEW pending, NEW places, IsContents(fs, pending, places), NEW gone,
           gone \cap Kept = {}
    PROVE  IsContents(Without(fs, gone), pending \ gone, places)
<1>1. PICK v : v = Without(fs, gone)
  OBVIOUS
<1>2. /\ DOMAIN v = DOMAIN fs \ gone
      /\ \A p \in DOMAIN fs \ gone : v[p] = fs[p]
  BY <1>1, WithoutGone DEF Remaining
<1>3. IsContents(v, pending \ gone, places)
  BY <1>2 DEF IsContents
<1> QED BY <1>1, <1>3

(* Seals are put where seals may be. *)
LEMMA ContentsSealed ==
    ASSUME NEW fs, NEW pending, NEW places, IsContents(fs, pending, places), NEW bs,
           \A b \in bs : SealOf(b) \in places
    PROVE  IsContents(Seals(bs) ++ fs, pending, places)
<1>1. PICK v : v = Seals(bs) ++ fs
  OBVIOUS
<1>2. PICK w : w = Seals(bs)
  OBVIOUS
<1>3. Over(Seals(bs) ++ fs, Seals(bs), fs)
  BY WrittenOver, Zenon
<1>4. /\ DOMAIN v = DOMAIN w \cup DOMAIN fs
      /\ \A p \in DOMAIN w : v[p] = w[p]
      /\ \A p \in DOMAIN fs \ DOMAIN w : v[p] = fs[p]
  BY <1>1, <1>2, <1>3 DEF Over
<1>5. \A p \in DOMAIN w : p \in places /\ w[p].kind = "seal"
  BY <1>2 DEF Seals
<1>6. IsContents(v, pending, places)
  BY <1>4, <1>5 DEF IsContents
<1> QED BY <1>1, <1>6

(* Signing changes nothing but signatures. *)
LEMMA ContentsSigned ==
    ASSUME IsTree(files, dirs), NEW pending, NEW places,
           IsContents(files, pending, places), NEW code
    PROVE  IsContents(SignedFiles(code), pending, places)
<1>1. PICK v : v = SignedFiles(code)
  OBVIOUS
<1>2. DOMAIN v = DOMAIN files
  BY <1>1 DEF SignedFiles
<1>3. ASSUME NEW p \in DOMAIN files
      PROVE  /\ v[p].kind = files[p].kind /\ DOMAIN v[p] = DOMAIN files[p]
             /\ \A k \in DOMAIN files[p] \ {"signed"} : v[p][k] = files[p][k]
  <2>1. PICK d : d = [files[p] EXCEPT !.signed = round]
    OBVIOUS
  <2>2. v[p] = d \/ v[p] = files[p]
    BY <1>1, <2>1 DEF SignedFiles
  <2>3. DOMAIN d = DOMAIN files[p] /\ \A k \in DOMAIN files[p] \ {"signed"} : d[k] = files[p][k]
    BY <2>1
  <2>4. "kind" \in DOMAIN files[p]
    BY DEF IsTree, IsData
  <2>5. d.kind = files[p].kind
    BY <2>3, <2>4
  <2> QED BY <2>2, <2>3, <2>5
<1>4. \A p \in DOMAIN files : SameBut({"signed"}, ReadFile(input, p), files[p])
                              => SameBut({"signed"}, ReadFile(input, p), v[p])
  BY <1>3 DEF SameBut
<1>5. IsContents(v, pending, places)
  BY <1>2, <1>3, <1>4 DEF IsContents
<1> QED BY <1>1, <1>5

(* What is pending may be stated in other words, and there may be more     *)
(* places for seals.                                                       *)
LEMMA ContentsMore ==
    ASSUME NEW fs, NEW pending, NEW places, IsContents(fs, pending, places),
           NEW more, NEW others, pending \cap DOMAIN fs \subseteq more, places \subseteq others
    PROVE  IsContents(fs, more, others)
BY DEF IsContents

(* The Info.plist is kept, by a name that nothing new has. *)
LEMMA InfoKept ==
    ASSUME Layout, pc \in Early \cup Late \/ answer.success
    PROVE  /\ IsBundle(bundle) /\ request \in Requests
           /\ TheInfo = AppFile(bundle.app, InfoPlist)
           /\ TheInfo \in Kept \ Replaced(request)
           /\ bundle.exec = KeyOr(ReadFile(input, TheInfo).keys, "CFBundleExecutable", NoName)
           /\ IsPlist(ReadFile(input, TheInfo)) /\ IsData(ReadFile(input, TheInfo))
<1>1. /\ Discovers(input) /\ bundle \in {Discover(input), AfterStrip(Discover(input), request)}
      /\ IsArchive(input) /\ request \in Requests
  BY DEF Layout
<1>2. /\ IsBundle(bundle) /\ bundle.app = Discover(input).app /\ bundle.exec = Discover(input).exec
      /\ IsApp(bundle.app)
  BY <1>1, BundleIs DEF IsBundle
<1>3. TheInfo = AppFile(bundle.app, InfoPlist)
  BY <1>2, Places DEF TheInfo
<1>4. /\ TheInfo \in FilesIn(input) /\ IsPlist(ReadFile(input, TheInfo))
      /\ bundle.exec = KeyOr(ReadFile(input, TheInfo).keys, "CFBundleExecutable", NoName)
  BY <1>1, <1>2, <1>3, DiscoverIs
<1>5. ASSUME NEW n, n # InfoPlist PROVE TheInfo # In(<<n>>)
  <2>1. In(<<n>>) = AppFile(bundle.app, n)
    BY <1>2, Places
  <2> QED BY <1>3, <1>5, <2>1 DEF AppFile
<1>6. InfoPlist \notin {PlugInsDir, WatchDir, ProfileName, Name(<<"Assets">>, "car")}
  BY DEF InfoPlist, PlugInsDir, WatchDir, ProfileName, Name
<1>7. TheInfo \notin StrippedFrom(FilesIn(input))
  <2> SUFFICES ASSUME NEW d \in Stripped(request), IsPrefix(d, TheInfo) PROVE FALSE
    BY DEF StrippedFrom, Under
  <2>1. PICK n \in {PlugInsDir, WatchDir} : d = In(<<n>>)
    BY DEF Stripped
  <2>2. d = AppFile(bundle.app, n)
    BY <1>2, <2>1, Places
  <2> DEFINE S == Names \cup {n, InfoPlist}
  <2>3. bundle.app[1] \in S /\ bundle.app[2] \in S /\ n \in S /\ InfoPlist \in S
    BY <1>2, ElementOfSeq DEF IsApp
  <2>4. PICK t : t = TheInfo
    OBVIOUS
  <2> HIDE DEF S
  <2>5. d \in Seq(S) /\ t \in Seq(S) /\ Len(d) = 3 /\ d[3] = n /\ t[3] = InfoPlist
    BY <1>3, <2>2, <2>3, <2>4 DEF AppFile
  <2>6. IsPrefix(d, t) <=> Len(d) <= Len(t) /\ \A j \in 1..Len(d) : d[j] = t[j]
    BY <2>5, PrefixIs
  <2>7. d[3] = t[3]
    BY <2>4, <2>5, <2>6
  <2> QED BY <1>6, <2>5, <2>7
<1>8. TheInfo \notin ToGo(request)
  <2>1. InfoPlist \notin request.removeDylibs
    BY <1>1, RequestsAssumption
  <2> QED BY <1>5, <1>6, <2>1 DEF ToGo, RemovedDylibs, AssetsCar, Profile
<1>9. TheInfo \notin Replaced(request)
  <2>1. \A i \in Icons(request) : i.name # InfoPlist
    BY <1>1, NamesAssumption DEF Icons, NewFiles
  <2>2. \A b : TheInfo # Append(InFrameworks(b), InBundle)
    <3> SUFFICES ASSUME NEW b PROVE TheInfo # Append(InFrameworks(b), InBundle)
      OBVIOUS
    <3>1. PICK d : d = InFrameworks(b)
      OBVIOUS
    <3>2. d = FrameworkFile(bundle.app, b)
      BY <1>2, <3>1, Places
    <3>3. d \in Seq({d[1], d[2], d[3], d[4]}) /\ Len(d) = 4
      BY <3>2 DEF FrameworkFile
    <3>4. Append(d, InBundle) = <<d[1], d[2], d[3], d[4], InBundle>>
      BY <3>3, Longer
    <3> QED BY <1>3, <3>1, <3>4 DEF AppFile
  <2> QED BY <1>5, <1>6, <2>1, <2>2 DEF Replaced, Profile
<1>10. IsData(ReadFile(input, TheInfo))
  BY <1>1, <1>4 DEF IsArchive
<1> QED BY <1>1, <1>2, <1>3, <1>4, <1>7, <1>8, <1>9, <1>10 DEF Kept

(* The Info.plist after the edits: nothing but the keys that the request   *)
(* names has changed, and these are what it wants.                         *)
LEMMA ModifyIs ==
    ASSUME NEW keys, NEW q, NEW new, new = Modify(keys, q)
    PROVE  SameBut(EditedKeys(q), keys, new) /\ AsAsked(q, new)
<1>1. PICK icon : icon = [files |-> <<IconName(q)>>]
  OBVIOUS
<1>2. PICK w1, w2, w3, w4, w5, w6, w7 :
         /\ w1 = When(q.id # "", [CFBundleIdentifier |-> q.id])
         /\ w2 = DisplayName(q)
         /\ w3 = When(q.version # 0, [CFBundleShortVersionString |-> q.version])
         /\ w4 = [CFBundleVersion |-> Clock]
         /\ w5 = When(q.minOS # 0, [MinimumOSVersion |-> q.minOS])
         /\ w6 = When(ShouldBumpMinOS(keys), [MinimumOSVersion |-> 10])
         /\ w7 = When(IconName(q) # <<>>,
                      [key \in {"CFBundleIcons", "CFBundleIcons~ipad"} |-> icon])
  OBVIOUS
<1>3. PICK e2, e3, e4, e5, e6, e7 : /\ e2 = w1 ++ w2 /\ e3 = e2 ++ w3 /\ e4 = e3 ++ w4
                                    /\ e5 = e4 ++ w5 /\ e6 = e5 ++ w6 /\ e7 = e6 ++ w7
  OBVIOUS
<1>4. Edits(keys, q) = e7
  BY <1>1, <1>2, <1>3 DEF Edits
<1>5. PICK f : f = e7 ++ keys
  OBVIOUS
<1>6. new = Without(f, Dropped(q))
  BY <1>4, <1>5 DEF Modify
<1>7. Remaining(new, f, Dropped(q))
  BY <1>6, WithoutGone
<1>8. /\ Over(e2, w1, w2) /\ Over(e3, e2, w3) /\ Over(e4, e3, w4)
      /\ Over(e5, e4, w5) /\ Over(e6, e5, w6) /\ Over(e7, e6, w7) /\ Over(f, e7, keys)
  BY <1>3, <1>5, WrittenOver, Zenon
<1>9. /\ w1 = IF q.id # "" THEN [CFBundleIdentifier |-> q.id] ELSE NoFiles
      /\ w2 = IF q.name # "" THEN [CFBundleDisplayName |-> q.name] ELSE NoFiles
      /\ w3 = IF q.version # 0 THEN [CFBundleShortVersionString |-> q.version] ELSE NoFiles
      /\ w5 = IF q.minOS # 0 THEN [MinimumOSVersion |-> q.minOS] ELSE NoFiles
      /\ w6 = IF ShouldBumpMinOS(keys) THEN [MinimumOSVersion |-> 10] ELSE NoFiles
      /\ w7 = IF IconName(q) # <<>>
              THEN [key \in {"CFBundleIcons", "CFBundleIcons~ipad"} |-> icon] ELSE NoFiles
  BY <1>2 DEF When, DisplayName
<1>10. /\ DOMAIN w1 = IF q.id # "" THEN {"CFBundleIdentifier"} ELSE {}
       /\ DOMAIN w2 = IF q.name # "" THEN {"CFBundleDisplayName"} ELSE {}
       /\ DOMAIN w3 = IF q.version # 0 THEN {"CFBundleShortVersionString"} ELSE {}
       /\ DOMAIN w4 = {"CFBundleVersion"}
       /\ DOMAIN w5 \subseteq {"MinimumOSVersion"} /\ DOMAIN w6 \subseteq {"MinimumOSVersion"}
       /\ DOMAIN w7 \subseteq {"CFBundleIcons", "CFBundleIcons~ipad"}
       /\ IconName(q) = <<>> => DOMAIN w7 = {}
  <2>1. DOMAIN NoFiles = {}
    BY DEF NoFiles
  <2> QED BY <1>2, <1>9, <2>1
<1>11. IconName(q) # <<>> => q.icons # {}
  BY DEF IconName
<1>12. DOMAIN e7 \subseteq EditedKeys(q)
  BY <1>8, <1>10, <1>11 DEF Over, EditedKeys
<1>13. Dropped(q) \subseteq EditedKeys(q)
  BY <1>11 DEF Dropped, EditedKeys
<1>14. SameBut(EditedKeys(q), keys, new)
  BY <1>7, <1>8, <1>12, <1>13 DEF SameBut, Remaining, Over
<1>15. {"CFBundleIdentifier", "CFBundleDisplayName", "CFBundleShortVersionString",
        "CFBundleIcons"} \cap Dropped(q) = {}
  BY DEF Dropped
<1>16. ASSUME q.id # ""
       PROVE  "CFBundleIdentifier" \in DOMAIN new /\ new["CFBundleIdentifier"] = q.id
  <2>1. "CFBundleIdentifier" \in DOMAIN w1 /\ w1["CFBundleIdentifier"] = q.id
    BY <1>9, <1>10, <1>16
  <2>2. "CFBundleIdentifier" \in DOMAIN e4 /\ e4["CFBundleIdentifier"] = q.id
    BY <1>8, <2>1 DEF Over
  <2>3. "CFBundleIdentifier" \in DOMAIN f /\ f["CFBundleIdentifier"] = q.id
    BY <1>8, <2>2 DEF Over
  <2> QED BY <1>7, <1>15, <2>3 DEF Remaining
<1>17. ASSUME q.name # ""
       PROVE  "CFBundleDisplayName" \in DOMAIN new /\ new["CFBundleDisplayName"] = q.name
  <2>1. /\ "CFBundleDisplayName" \in DOMAIN w2 /\ w2["CFBundleDisplayName"] = q.name
        /\ "CFBundleDisplayName" \notin DOMAIN w1
    BY <1>9, <1>10, <1>17
  <2>2. "CFBundleDisplayName" \in DOMAIN e4 /\ e4["CFBundleDisplayName"] = q.name
    BY <1>8, <2>1 DEF Over
  <2>3. "CFBundleDisplayName" \in DOMAIN f /\ f["CFBundleDisplayName"] = q.name
    BY <1>8, <2>2 DEF Over
  <2> QED BY <1>7, <1>15, <2>3 DEF Remaining
<1>18. ASSUME q.version # 0
       PROVE  /\ "CFBundleShortVersionString" \in DOMAIN new
              /\ new["CFBundleShortVersionString"] = q.version
  <2>1. /\ "CFBundleShortVersionString" \in DOMAIN w3
        /\ w3["CFBundleShortVersionString"] = q.version
        /\ "CFBundleShortVersionString" \notin DOMAIN w1 \cup DOMAIN w2
    BY <1>9, <1>10, <1>18
  <2>2. /\ "CFBundleShortVersionString" \in DOMAIN e4
        /\ e4["CFBundleShortVersionString"] = q.version
    BY <1>8, <2>1 DEF Over
  <2>3. /\ "CFBundleShortVersionString" \in DOMAIN f
        /\ f["CFBundleShortVersionString"] = q.version
    BY <1>8, <2>2 DEF Over
  <2> QED BY <1>7, <1>15, <2>3 DEF Remaining
<1>19. ASSUME IconName(q) # <<>>
       PROVE  "CFBundleIcons" \in DOMAIN new /\ new["CFBundleIcons"] = icon
  <2>1. "CFBundleIcons" \in DOMAIN w7 /\ w7["CFBundleIcons"] = icon
    BY <1>9, <1>19
  <2>2. "CFBundleIcons" \notin DOMAIN e6
    <3>1. /\ DOMAIN w1 \subseteq {"CFBundleIdentifier"}
          /\ DOMAIN w2 \subseteq {"CFBundleDisplayName"}
          /\ DOMAIN w3 \subseteq {"CFBundleShortVersionString"}
      BY <1>10
    <3>2. /\ "CFBundleIcons" \notin DOMAIN w1 /\ "CFBundleIcons" \notin DOMAIN w2
          /\ "CFBundleIcons" \notin DOMAIN w3
      BY <3>1
    <3>3. /\ "CFBundleIcons" \notin DOMAIN w4 /\ "CFBundleIcons" \notin DOMAIN w5
          /\ "CFBundleIcons" \notin DOMAIN w6
      BY <1>10
    <3> QED BY <1>8, <3>2, <3>3 DEF Over
  <2>3. "CFBundleIcons" \in DOMAIN f /\ f["CFBundleIcons"] = icon
    BY <1>8, <2>1, <2>2 DEF Over
  <2> QED BY <1>7, <1>15, <2>3 DEF Remaining
<1> QED BY <1>1, <1>14, <1>16, <1>17, <1>18, <1>19 DEF AsAsked

(* What stays while the input, the request and the app do.                 *)
LEMMA Unmoved ==
    ASSUME UNCHANGED <<input, request>>, bundle'.app = bundle.app
    PROVE  /\ TheInfo' = TheInfo /\ Kept' = Kept /\ KeptDirs' = KeptDirs /\ Copied' = Copied
           /\ Replaced(request)' = Replaced(request)
           /\ StrippedFrom(FilesIn(input))' = StrippedFrom(FilesIn(input))
           /\ RemovedDylibs(request)' = RemovedDylibs(request)
           /\ OldIcon' = OldIcon /\ OldProfile' = OldProfile
<1>1. \A n : In(n)' = In(n)
  BY DEF In
<1>2. \A n : InFrameworks(n)' = InFrameworks(n)
  BY <1>1 DEF InFrameworks
<1>3. TheInfo' = TheInfo /\ AssetsCar' = AssetsCar /\ Profile' = Profile
  BY <1>1 DEF TheInfo, AssetsCar, Profile
<1>4. Stripped(request)' = Stripped(request) /\ RemovedDylibs(request)' = RemovedDylibs(request)
  BY <1>1 DEF Stripped, RemovedDylibs
<1>5. OldIcon' = OldIcon /\ OldProfile' = OldProfile
  BY <1>3 DEF OldIcon, OldProfile
<1>6. Copied' = Copied
  BY <1>2 DEF Copied
<1>7. Replaced(request)' = Replaced(request)
  BY <1>1, <1>2, <1>3 DEF Replaced
<1>8. StrippedFrom(FilesIn(input))' = StrippedFrom(FilesIn(input))
      /\ StrippedFrom(DirsIn(input))' = StrippedFrom(DirsIn(input))
  BY <1>4 DEF StrippedFrom
<1>9. ToGo(request)' = ToGo(request)
  BY <1>3, <1>4 DEF ToGo
<1>10. Kept' = Kept /\ KeptDirs' = KeptDirs
  BY <1>8, <1>9 DEF Kept, KeptDirs
<1> QED BY <1>3, <1>4, <1>5, <1>6, <1>7, <1>8, <1>10

(* The steps at which there are contents to speak of. *)
Unpacked == pc \in (Early \ {"extract"}) \cup Late \/ answer.success

Content ==
    Unpacked => /\ IsContents(files, Pending, SealPlaces)
                /\ IsInfo(files, pc # "plist")
                /\ KeptDirs \subseteq dirs

(* What the steps below show of the files that they leave is enough.       *)
LEMMA ContentKept ==
    ASSUME UNCHANGED <<input, request>>, bundle'.app = bundle.app,
           IsContents(files', Pending', SealPlaces'), IsInfo(files', pc' # "plist"),
           KeptDirs \subseteq dirs'
    PROVE  Content'
<1>1. /\ TheInfo' = TheInfo /\ Kept' = Kept /\ KeptDirs' = KeptDirs /\ Copied' = Copied
      /\ Replaced(request)' = Replaced(request)
  BY Unmoved
<1>2. IsContents(files, Pending, SealPlaces)'
  BY <1>1 DEF IsContents
<1>3. IsInfo(files, pc # "plist")'
  BY <1>1 DEF IsInfo, EditedKeys
<1> QED BY <1>1, <1>2, <1>3 DEF Content

(* The Info.plist is as it was where it is the same file. *)
LEMMA InfoSame ==
    ASSUME NEW fs, NEW edited, IsInfo(fs, edited), NEW gs,
           TheInfo \in DOMAIN gs, gs[TheInfo] = fs[TheInfo]
    PROVE  IsInfo(gs, edited)
BY DEF IsInfo

(* The same for a step after the edits, with what is pending and where     *)
(* seals are in its own words.                                             *)
LEMMA ContentNext ==
    ASSUME UNCHANGED <<input, request>>, bundle'.app = bundle.app, pc' # "plist",
           NEW fs, files' = fs, NEW pending, NEW places,
           IsContents(fs, pending, places), IsInfo(fs, TRUE),
           pending \cap DOMAIN fs \subseteq Pending', places \subseteq SealPlaces',
           KeptDirs \subseteq dirs'
    PROVE  Content'
<1>1. PICK more, others : more = Pending' /\ others = SealPlaces'
  OBVIOUS
<1>2. pending \cap DOMAIN fs \subseteq more /\ places \subseteq others
  BY <1>1
<1>3. IsContents(fs, more, others)
  BY <1>2, ContentsMore
<1>4. (pc' # "plist") = TRUE
  OBVIOUS
<1> QED BY <1>1, <1>3, <1>4, ContentKept

(* What is unpacked is what the input has. *)
LEMMA ContentExtract == Layout /\ Extract => Content'
<1> SUFFICES ASSUME Layout, Extract PROVE Content'
  OBVIOUS
<1>1. /\ TheInfo \in Kept /\ IsPlist(ReadFile(input, TheInfo)) /\ IsData(ReadFile(input, TheInfo))
  BY InfoKept DEF Extract, Early
<1>2. PICK fs : fs = [p \in FilesIn(input) |-> ReadFile(input, p)]
  OBVIOUS
<1>3. /\ files' = fs /\ dirs' = DirsIn(input) /\ pc' = "plist"
      /\ UNCHANGED <<input, request, bundle>>
  BY <1>2 DEF Extract
<1>4. /\ OldIcon' = OldIcon /\ OldProfile' = OldProfile
      /\ StrippedFrom(FilesIn(input))' = StrippedFrom(FilesIn(input))
      /\ RemovedDylibs(request)' = RemovedDylibs(request)
  BY <1>3, Unmoved
<1>5. Pending' = StrippedFrom(FilesIn(input)) \cup RemovedDylibs(request) \cup OldIcon \cup OldProfile
  BY <1>3, <1>4 DEF Pending, Early
<1>6. FilesIn(input) \subseteq Kept \cup Pending'
  BY <1>5 DEF Kept, ToGo, OldIcon, OldProfile
<1>7. \A p \in FilesIn(input) : SameBut({"signed"}, ReadFile(input, p), fs[p])
  BY <1>2 DEF SameBut
<1>8. IsContents(fs, Pending', SealPlaces')
  <2>1. PICK pending : pending = Pending'
    OBVIOUS
  <2>2. DOMAIN fs = FilesIn(input) /\ Kept \subseteq FilesIn(input)
    BY <1>2 DEF Kept
  <2> QED BY <1>6, <1>7, <2>2 DEF IsContents
<1>9. IsInfo(fs, FALSE)
  <2>1. TheInfo \in DOMAIN fs /\ fs[TheInfo] = ReadFile(input, TheInfo)
    BY <1>1, <1>2 DEF Kept
  <2> QED BY <1>1, <2>1 DEF IsInfo, IsData, IsPlist, SameBut
<1>10. (pc' # "plist") = FALSE
  BY <1>3
<1> QED BY <1>3, <1>8, <1>9, <1>10, ContentKept DEF KeptDirs

(* A step after the first, before which the contents were right. *)
LEMMA ContentBefore ==
    ASSUME Layout, Content, pc \in (Early \ {"extract"}) \cup Late
    PROVE  /\ IsContents(files, Pending, SealPlaces) /\ IsInfo(files, pc # "plist")
           /\ KeptDirs \subseteq dirs /\ IsTree(files, dirs) /\ IsBundle(bundle)
           /\ IsApp(bundle.app) /\ request \in Requests
           /\ TheInfo = AppFile(bundle.app, InfoPlist)
           /\ TheInfo \in Kept \ Replaced(request) /\ TheInfo \in DOMAIN files
<1>1. IsContents(files, Pending, SealPlaces) /\ IsInfo(files, pc # "plist")
  BY DEF Content, Unpacked
<1> QED BY <1>1, OnDisk, InfoKept DEF Content, Unpacked, IsInfo

(* The Info.plist is edited, and nothing else. *)
LEMMA ContentModify == Layout /\ Content /\ ModifyInfoPlist => Content'
<1> SUFFICES ASSUME Layout, Content, ModifyInfoPlist PROVE Content'
  OBVIOUS
<1>1. pc = "plist" /\ pc' = "icons" /\ UNCHANGED <<input, request, bundle, dirs>>
  BY DEF ModifyInfoPlist
<1>2. pc \in Early \ {"extract"} /\ pc' \in Early
  BY <1>1 DEF Early
<1>3. /\ IsContents(files, Pending, SealPlaces) /\ IsInfo(files, FALSE)
      /\ KeptDirs \subseteq dirs
  <2>1. (pc # "plist") = FALSE
    BY <1>1
  <2> QED BY <1>2, <2>1, ContentBefore
<1>4. PICK keys : keys = files[TheInfo].keys
  OBVIOUS
<1>5. PICK new : new = Modify(keys, request)
  OBVIOUS
<1>6. PICK d : d = [files[TheInfo] EXCEPT !.keys = new]
  OBVIOUS
<1>7. PICK fs : fs = [files EXCEPT ![TheInfo] = d]
  OBVIOUS
<1>8. files' = fs
  BY <1>4, <1>5, <1>6, <1>7 DEF ModifyInfoPlist, TheInfo
<1>9. SameBut(EditedKeys(request), keys, new) /\ AsAsked(request, new)
  BY <1>5, ModifyIs
<1>10. d.kind = "plist" /\ DOMAIN d = DOMAIN files[TheInfo] /\ d.keys = new
  BY <1>3, <1>6 DEF IsInfo
<1>11. TheInfo \in DOMAIN files /\ DOMAIN fs = DOMAIN files /\ fs[TheInfo] = d
       /\ \A p \in DOMAIN files \ {TheInfo} : fs[p] = files[p]
  BY <1>3, <1>7 DEF IsInfo
<1>12. SameBut(EditedKeys(request), ReadFile(input, TheInfo).keys, new)
  BY <1>3, <1>4, <1>9 DEF IsInfo, SameBut
<1>13. IsInfo(fs, TRUE)
  BY <1>3, <1>9, <1>10, <1>11, <1>12 DEF IsInfo
<1>14. Pending' = Pending /\ SealPlaces' = SealPlaces
  BY <1>1, <1>2, Unmoved DEF Pending, SealPlaces
<1>15. IsContents(fs, Pending, SealPlaces)
  <2>1. SealPlaces = {}
    BY <1>2 DEF SealPlaces
  <2> QED BY <1>3, <1>11, <2>1 DEF IsContents
<1>16. (pc' # "plist") = TRUE
  BY <1>1
<1> QED BY <1>1, <1>3, <1>8, <1>13, <1>14, <1>15, <1>16, ContentKept

(* What is written and removed is not what is kept, when icons are        *)
(* replaced ...                                                            *)
LEMMA ContentIcons == Layout /\ Content /\ ReplaceIcon => Content'
<1> SUFFICES ASSUME Layout, Content, ReplaceIcon PROVE Content'
  OBVIOUS
<1>1. pc = "icons" /\ pc' = "profile" /\ UNCHANGED <<input, request, bundle, dirs>>
  BY DEF ReplaceIcon
<1>2. pc \in Early \ {"extract"} /\ pc' \in Early
  BY <1>1 DEF Early
<1>3. /\ IsContents(files, Pending, SealPlaces) /\ IsInfo(files, TRUE)
      /\ KeptDirs \subseteq dirs /\ TheInfo \in Kept \ Replaced(request)
      /\ TheInfo \in DOMAIN files
  <2>1. (pc # "plist") = TRUE
    BY <1>1
  <2> QED BY <1>2, <2>1, ContentBefore
<1>4. PICK w : w = [p \in {In(<<i.name>>) : i \in Icons(request)} |->
                       (CHOOSE i \in Icons(request) : In(<<i.name>>) = p).data]
  OBVIOUS
<1>5. PICK fs, gs : fs = w ++ files /\ gs = Without(fs, OldIcon)
  OBVIOUS
<1>6. files' = gs
  BY <1>4, <1>5 DEF ReplaceIcon, OldIcon
<1>7. DOMAIN w \subseteq Replaced(request)
  BY <1>4 DEF Replaced
<1>8. IsContents(fs, Pending, SealPlaces)
  <2>1. IsContents(w ++ files, Pending, SealPlaces)
    BY <1>3, <1>7, ContentsWritten
  <2> QED BY <1>5, <2>1
<1>9. OldIcon \cap Kept = {}
  BY DEF OldIcon, Kept, ToGo
<1>10. IsContents(gs, Pending \ OldIcon, SealPlaces)
  BY <1>5, <1>8, <1>9, ContentsWithout
<1>11. Pending \ OldIcon \subseteq Pending' /\ SealPlaces \subseteq SealPlaces'
  BY <1>1, <1>2, Unmoved DEF Pending, SealPlaces
<1>12. IsInfo(gs, TRUE)
  <2>1. Over(w ++ files, w, files) /\ Remaining(Without(fs, OldIcon), fs, OldIcon)
    BY WrittenOver, WithoutGone, Zenon
  <2>2. TheInfo \in DOMAIN gs /\ gs[TheInfo] = files[TheInfo]
    BY <1>3, <1>5, <1>7, <1>9, <2>1 DEF Over, Remaining
  <2> QED BY <1>3, <2>2, InfoSame
<1> QED BY <1>1, <1>3, <1>6, <1>10, <1>11, <1>12, ContentNext

(* ... when the profile is, ...                                            *)
LEMMA ContentProfile == Layout /\ Content /\ HandleProfile => Content'
<1> SUFFICES ASSUME Layout, Content, HandleProfile PROVE Content'
  OBVIOUS
<1>1. pc = "profile" /\ pc' = "copy" /\ UNCHANGED <<input, request, bundle, dirs>>
  BY DEF HandleProfile
<1>2. pc \in Early \ {"extract"} /\ pc' \in Early
  BY <1>1 DEF Early
<1>3. /\ IsContents(files, Pending, SealPlaces) /\ IsInfo(files, TRUE)
      /\ KeptDirs \subseteq dirs /\ TheInfo \in Kept \ Replaced(request)
      /\ TheInfo \in DOMAIN files
  <2>1. (pc # "plist") = TRUE
    BY <1>1
  <2> QED BY <1>2, <2>1, ContentBefore
<1>4. PICK gs : gs = files'
  OBVIOUS
<1>5. IsContents(gs, Pending \ OldProfile, SealPlaces) /\ IsInfo(gs, TRUE)
  <2>1. CASE request.profile
    <3>1. PICK w : w = [p \in {Profile} |-> [kind |-> "profile", of |-> "request"]]
      OBVIOUS
    <3>2. gs = w ++ files
      BY <1>4, <2>1, <3>1 DEF HandleProfile
    <3>3. DOMAIN w \subseteq Replaced(request)
      BY <2>1, <3>1 DEF Replaced
    <3>4. IsContents(w ++ files, Pending, SealPlaces)
      BY <1>3, <3>3, ContentsWritten
    <3>5. Pending \ OldProfile = Pending
      BY <2>1 DEF OldProfile
    <3>6. Over(w ++ files, w, files)
      BY WrittenOver, Zenon
    <3>7. TheInfo \in DOMAIN gs /\ gs[TheInfo] = files[TheInfo]
      BY <1>3, <3>2, <3>3, <3>6 DEF Over
    <3>8. IsInfo(gs, TRUE)
      BY <1>3, <3>7, InfoSame
    <3> QED BY <3>2, <3>4, <3>5, <3>8
  <2>2. CASE ~request.profile
    <3>1. gs = IF request.removeProfile THEN Without(files, {Profile}) ELSE files
      BY <1>4, <2>2 DEF HandleProfile
    <3>2. CASE request.removeProfile
      <4>1. OldProfile = {Profile} /\ OldProfile \cap Kept = {}
        BY <2>2, <3>2 DEF OldProfile, Kept, ToGo
      <4>2. gs = Without(files, OldProfile)
        BY <3>1, <3>2, <4>1
      <4>3. IsContents(gs, Pending \ OldProfile, SealPlaces)
        BY <1>3, <4>1, <4>2, ContentsWithout
      <4>4. Remaining(Without(files, OldProfile), files, OldProfile)
        BY WithoutGone
      <4>5. TheInfo \in DOMAIN gs /\ gs[TheInfo] = files[TheInfo]
        BY <1>3, <4>1, <4>2, <4>4 DEF Remaining
      <4>6. IsInfo(gs, TRUE)
        BY <1>3, <4>5, InfoSame
      <4> QED BY <4>3, <4>6
    <3>3. CASE ~request.removeProfile
      <4>1. Pending \ OldProfile = Pending /\ gs = files
        BY <3>1, <3>3 DEF OldProfile
      <4> QED BY <1>3, <4>1
    <3> QED BY <3>2, <3>3
  <2> QED BY <2>1, <2>2
<1>6. Pending \ OldProfile \subseteq Pending' /\ SealPlaces \subseteq SealPlaces'
  BY <1>1, <1>2, Unmoved DEF Pending, SealPlaces
<1> QED BY <1>1, <1>3, <1>4, <1>5, <1>6, ContentNext

(* ... when bundles and dylibs are copied, ...                             *)
LEMMA ContentCopy == Layout /\ Content /\ CopyIntoFrameworks => Content'
<1> SUFFICES ASSUME Layout, Content, CopyIntoFrameworks PROVE Content'
  OBVIOUS
<1>1. pc = "copy" /\ pc' = "strip" /\ UNCHANGED <<input, request, bundle>> /\ dirs \subseteq dirs'
  BY DEF CopyIntoFrameworks
<1>2. pc \in Early \ {"extract"} /\ pc' \in Early
  BY <1>1 DEF Early
<1>3. /\ IsContents(files, Pending, SealPlaces) /\ IsInfo(files, TRUE)
      /\ KeptDirs \subseteq dirs /\ TheInfo \in Kept \ Replaced(request)
      /\ TheInfo \in DOMAIN files
  <2>1. (pc # "plist") = TRUE
    BY <1>1
  <2> QED BY <1>2, <2>1, ContentBefore
<1> DEFINE bps == {Append(InFrameworks(b), InBundle) : b \in request.bundles}
           dps == {InFrameworks(d) : d \in CopyDylibs(request)}
<1>4. PICK wb, wd : /\ wb = [p \in bps |-> request.bundled]
                    /\ wd = [p \in dps |-> [kind |-> "code", of |-> "request", signed |-> 0]]
  OBVIOUS
<1>5. files' = wd ++ wb ++ files
  BY <1>4 DEF CopyIntoFrameworks
<1>6. PICK w : w = wd ++ wb
  OBVIOUS
<1>7. PICK gs : gs = w ++ files
  OBVIOUS
<1>8. files' = gs
  BY <1>5, <1>6, <1>7
<1>9. Over(wd ++ wb, wd, wb) /\ Over(w ++ files, w, files)
  BY WrittenOver, Zenon
<1>10. DOMAIN wb \subseteq Replaced(request)
  BY <1>4 DEF Replaced
<1>11. DOMAIN wd \subseteq Copied /\ DOMAIN wd \cap DOMAIN files = {}
  BY <1>4 DEF CopyDylibs, Copied
<1>12. \A p \in DOMAIN w : p \in Replaced(request) \/ (p \in Copied /\ p \notin DOMAIN files)
  BY <1>6, <1>9, <1>10, <1>11 DEF Over
<1>13. IsContents(gs, Pending, SealPlaces)
  <2>1. IsContents(w ++ files, Pending, SealPlaces)
    BY <1>3, <1>12, ContentsWritten
  <2> QED BY <1>7, <2>1
<1>14. IsInfo(gs, TRUE)
  <2>1. TheInfo \notin DOMAIN w
    BY <1>3, <1>12
  <2>2. TheInfo \in DOMAIN gs /\ gs[TheInfo] = files[TheInfo]
    BY <1>3, <1>7, <1>9, <2>1 DEF Over
  <2> QED BY <1>3, <2>2, InfoSame
<1>15. Pending \subseteq Pending' /\ SealPlaces \subseteq SealPlaces'
  BY <1>1, <1>2, Unmoved DEF Pending, SealPlaces
<1> QED BY <1>1, <1>3, <1>8, <1>13, <1>14, <1>15, ContentNext

(* ... and when whole directories are removed.                             *)
LEMMA ContentStrip == Layout /\ Content /\ Strip => Content'
<1> SUFFICES ASSUME Layout, Content, Strip PROVE Content'
  OBVIOUS
<1>1. pc = "strip" /\ pc' = "nested" /\ UNCHANGED <<input, request>>
  BY DEF Strip
<1>2. pc \in Early \ {"extract"} /\ pc' \notin Early
  BY <1>1 DEF Early
<1>3. /\ IsContents(files, Pending, SealPlaces) /\ IsInfo(files, TRUE)
      /\ KeptDirs \subseteq dirs /\ TheInfo \in Kept \ Replaced(request)
      /\ TheInfo \in DOMAIN files
  <2>1. (pc # "plist") = TRUE
    BY <1>1
  <2> QED BY <1>2, <2>1, ContentBefore
<1>4. bundle'.app = bundle.app
  <2>1. bundle = Discover(input) /\ IsArchive(input) /\ Discovers(input)
    BY <1>2 DEF Layout
  <2>2. bundle' = AfterStrip(bundle, request)
    BY DEF Strip, AfterStrip
  <2> QED BY <2>1, <2>2, BundleIs
<1> DEFINE gone == StrippedFrom(DOMAIN files)
<1>5. PICK gs : gs = Without(files, gone)
  OBVIOUS
<1>6. files' = gs /\ dirs' = dirs \ StrippedFrom(dirs)
  BY <1>5 DEF Strip, StrippedFrom
<1>7. \A paths, others : StrippedFrom(paths) \cap others \subseteq StrippedFrom(others)
  BY DEF StrippedFrom, Under
<1>8. gone \cap Kept = {}
  <2>1. gone \cap FilesIn(input) \subseteq StrippedFrom(FilesIn(input))
    BY <1>7
  <2> QED BY <2>1 DEF Kept
<1>9. KeptDirs \subseteq dirs'
  <2>1. StrippedFrom(dirs) \cap DirsIn(input) \subseteq StrippedFrom(DirsIn(input))
    BY <1>7
  <2> QED BY <1>3, <1>6, <2>1 DEF KeptDirs
<1>10. StrippedFrom(FilesIn(input)) \cap DOMAIN files \subseteq gone
  BY <1>7
<1> HIDE DEF gone
<1>11. IsContents(gs, Pending \ gone, SealPlaces)
  BY <1>3, <1>5, <1>8, ContentsWithout
<1>12. Remaining(Without(files, gone), files, gone)
  BY WithoutGone
<1>13. (Pending \ gone) \cap DOMAIN gs \subseteq Pending'
  <2>1. DOMAIN gs = DOMAIN files \ gone
    BY <1>5, <1>12 DEF Remaining
  <2>2. RemovedDylibs(request)' = RemovedDylibs(request)
    BY <1>1, <1>4, Unmoved
  <2>3. Pending \subseteq StrippedFrom(FilesIn(input)) \cup RemovedDylibs(request)
    BY <1>1 DEF Pending
  <2>4. RemovedDylibs(request)' \subseteq Pending'
    BY <1>1 DEF Pending
  <2> QED BY <1>10, <2>1, <2>2, <2>3, <2>4
<1>14. SealPlaces \subseteq SealPlaces'
  BY <1>2 DEF SealPlaces
<1>15. IsInfo(gs, TRUE)
  <2>1. TheInfo \in DOMAIN gs /\ gs[TheInfo] = files[TheInfo]
    BY <1>3, <1>5, <1>8, <1>12 DEF Remaining
  <2> QED BY <1>3, <2>1, InfoSame
<1>16. pc' # "plist"
  BY <1>1
<1> QED BY <1>1, <1>4, <1>6, <1>9, <1>11, <1>13, <1>14, <1>15, <1>16, ContentNext

(* Seals are four or six names deep. *)
LEMMA SealPlacesAre ==
    ASSUME IsBundle(bundle), NEW b \in Sealed
    PROVE  \/ Len(SealOf(b)) = 4 /\ SealOf(b)[3] = CodeSignatureDir
           \/ Len(SealOf(b)) = 6
<1>1. PICK s : s = SealOf(b)
  OBVIOUS
<1>2. CASE b = bundle.app
  <2>1. s = <<bundle.app[1], bundle.app[2], CodeSignatureDir, CodeResources>>
    BY <1>1, <1>2, Places DEF IsBundle
  <2> QED BY <1>1, <2>1
<1>3. CASE b # bundle.app
  <2>1. b \in Seq(Names) /\ Len(b) = 4
    BY <1>3 DEF Sealed, IsBundle, IsComponent
  <2>2. s = <<b[1], b[2], b[3], b[4], CodeSignatureDir, CodeResources>>
    BY <1>1, <2>1, PlacesBelow
  <2> QED BY <1>1, <2>2
<1> QED BY <1>2, <1>3

(* No seal is an Info.plist of the app.                                    *)
LEMMA InfoNotSealed ==
    ASSUME IsBundle(bundle), NEW bs \in SUBSET Sealed
    PROVE  TheInfo \notin DOMAIN Seals(bs)
<1>1. PICK t : t = TheInfo
  OBVIOUS
<1>2. Len(t) = 3
  <2>1. t = AppFile(bundle.app, InfoPlist)
    BY <1>1, Places DEF IsBundle, TheInfo
  <2> QED BY <2>1 DEF AppFile
<1>3. \A p \in DOMAIN Seals(bs) : \E b \in bs : p = SealOf(b)
  BY DEF Seals
<1> QED BY <1>1, <1>2, <1>3, SealPlacesAre

(* Signing and sealing keep the Info.plist, which is not code.             *)
LEMMA InfoSigned ==
    ASSUME IsBundle(bundle), IsInfo(files, TRUE), NEW code, \A p \in code : IsCode(p),
           NEW bs \in SUBSET Sealed, NEW gone, TheInfo \notin gone
    PROVE  /\ IsInfo(Seals(bs) ++ SignedFiles(code), TRUE)
           /\ IsInfo(Seals(bs) ++ Without(SignedFiles(code), gone), TRUE)
<1>1. PICK fs, gs : fs = SignedFiles(code) /\ gs = Without(fs, gone)
  OBVIOUS
<1>2. TheInfo \notin code
  BY DEF IsCode, IsInfo
<1>3. TheInfo \in DOMAIN fs /\ fs[TheInfo] = files[TheInfo]
  BY <1>1, <1>2 DEF SignedFiles, IsInfo
<1>4. Remaining(Without(fs, gone), fs, gone)
  BY WithoutGone
<1>5. TheInfo \in DOMAIN gs /\ gs[TheInfo] = files[TheInfo]
  BY <1>1, <1>3, <1>4 DEF Remaining
<1>6. PICK w : w = Seals(bs)
  OBVIOUS
<1>7. TheInfo \notin DOMAIN w
  BY <1>6, InfoNotSealed
<1>8. Over(w ++ fs, w, fs) /\ Over(w ++ gs, w, gs)
  BY WrittenOver, Zenon
<1>9. PICK v, u : v = w ++ fs /\ u = w ++ gs
  OBVIOUS
<1>10. TheInfo \in DOMAIN v /\ v[TheInfo] = files[TheInfo]
       /\ TheInfo \in DOMAIN u /\ u[TheInfo] = files[TheInfo]
  BY <1>3, <1>5, <1>7, <1>8, <1>9 DEF Over
<1>11. IsInfo(v, TRUE) /\ IsInfo(u, TRUE)
  BY <1>10, InfoSame
<1> QED BY <1>1, <1>6, <1>9, <1>11

(* A call that fails has no contents to speak of. *)
LEMMA ContentFails == Layout /\ pc # "returned" /\ Fails => Content'
<1> SUFFICES ASSUME Layout, pc # "returned", Fails PROVE Content'
  OBVIOUS
<1>1. ~answer.success /\ "returned" \notin Early \cup Late
  BY DEF Layout, Early, Late
<1> QED BY <1>1 DEF Fails, Content, Unpacked

(* The components are sealed and signed. *)
LEMMA ContentNested == Layout /\ Content /\ SignNested => Content'
<1> SUFFICES ASSUME Layout, Content, SignNested PROVE Content'
  OBVIOUS
<1>1. pc = "nested" /\ pc \in Late /\ pc \notin Early
  BY DEF SignNested, Late, Early
<1>2. /\ IsContents(files, Pending, SealPlaces) /\ IsInfo(files, TRUE)
      /\ KeptDirs \subseteq dirs /\ IsTree(files, dirs) /\ IsBundle(bundle)
  <2>1. (pc # "plist") = TRUE
    BY <1>1
  <2> QED BY <1>1, <2>1, ContentBefore
<1> DEFINE cs == {c \in bundle.frameworks \cup bundle.plugins : Present(c)}
<1>3. PICK code, bs : /\ code = {MainOf(c) : c \in cs} \cup ToSet(bundle.dylibs)
                      /\ bs = {c.path : c \in cs}
  OBVIOUS
<1>4. CASE \A p \in code : IsCode(p)
  <2>1. /\ pc' = "main" /\ UNCHANGED <<input, request, bundle>> /\ dirs \subseteq dirs'
        /\ files' = Seals(bs) ++ SignedFiles(code)
    BY <1>3, <1>4 DEF SignNested
  <2>2. bs \subseteq Sealed
    BY <1>3 DEF Sealed
  <2>3. PICK gs : gs = Seals(bs) ++ SignedFiles(code)
    OBVIOUS
  <2>4. IsInfo(gs, TRUE)
    <3>1. PICK gone : gone = {}
      OBVIOUS
    <3>2. TheInfo \notin gone /\ bs \in SUBSET Sealed
      BY <2>2, <3>1
    <3>3. IsInfo(Seals(bs) ++ SignedFiles(code), TRUE)
      BY <1>2, <1>4, <3>2, InfoSigned
    <3> QED BY <2>3, <3>3
  <2>5. \A b \in bs : SealOf(b) \in SealPlaces
    BY <1>1, <2>2 DEF SealPlaces
  <2>6. IsContents(SignedFiles(code), Pending, SealPlaces)
    BY <1>2, ContentsSigned
  <2>7. IsContents(gs, Pending, SealPlaces)
    BY <2>3, <2>5, <2>6, ContentsSealed
  <2>8. Pending \subseteq Pending' /\ SealPlaces \subseteq SealPlaces'
    <3>1. pc' \notin Early
      BY <2>1 DEF Early
    <3>2. SealPlaces = {SealOf(b) : b \in Sealed} /\ SealPlaces' = {SealOf(b) : b \in Sealed}'
      BY <1>1, <3>1 DEF SealPlaces
    <3>3. Sealed' = Sealed
      BY <2>1 DEF Sealed
    <3> QED BY <1>1, <2>1, <3>1, <3>2, <3>3, Unmoved DEF Pending
  <2> QED BY <1>2, <2>1, <2>3, <2>4, <2>7, <2>8, ContentNext
<1>5. CASE ~\A p \in code : IsCode(p)
  <2>1. Fails
    BY <1>3, <1>5 DEF SignNested
  <2> QED BY <1>1, <2>1, ContentFails
<1> QED BY <1>4, <1>5

(* The app is sealed and signed, when the dylibs that are to go have gone. *)
LEMMA ContentMain == Layout /\ Content /\ SignMain => Content'
<1> SUFFICES ASSUME Layout, Content, SignMain PROVE Content'
  OBVIOUS
<1>1. pc = "main" /\ pc \in Late /\ pc \notin Early
  BY DEF SignMain, Late, Early
<1>2. /\ IsContents(files, Pending, SealPlaces) /\ IsInfo(files, TRUE)
      /\ KeptDirs \subseteq dirs /\ IsTree(files, dirs) /\ IsBundle(bundle)
      /\ TheInfo \in Kept
  <2>1. (pc # "plist") = TRUE
    BY <1>1
  <2> QED BY <1>1, <2>1, ContentBefore
<1>3. PICK code, bs, gone : /\ code = {MainExecutable} /\ bs = {bundle.app}
                            /\ gone = RemovedDylibs(request)
  OBVIOUS
<1>4. CASE IsCode(MainExecutable) /\ MainExecutable \notin RemovedDylibs(request)
  <2>1. /\ pc' = "repackage" /\ UNCHANGED <<input, request, bundle>> /\ dirs \subseteq dirs'
        /\ files' = Seals(bs) ++ Without(SignedFiles(code), gone)
    BY <1>3, <1>4 DEF SignMain
  <2>2. bs \subseteq Sealed
    BY <1>3 DEF Sealed
  <2>3. PICK fs, gs : fs = Without(SignedFiles(code), gone) /\ gs = Seals(bs) ++ fs
    OBVIOUS
  <2>4. gone \cap Kept = {}
    BY <1>3 DEF Kept, ToGo
  <2>5. IsInfo(gs, TRUE)
    BY <1>2, <1>3, <1>4, <2>2, <2>3, <2>4, InfoSigned
  <2>6. \A b \in bs : SealOf(b) \in SealPlaces
    BY <1>1, <2>2 DEF SealPlaces
  <2>7. IsContents(SignedFiles(code), Pending, SealPlaces)
    BY <1>2, ContentsSigned
  <2>8. IsContents(fs, Pending \ gone, SealPlaces)
    BY <2>3, <2>4, <2>7, ContentsWithout
  <2>9. IsContents(gs, Pending \ gone, SealPlaces)
    BY <2>3, <2>6, <2>8, ContentsSealed
  <2>10. Pending \ gone = {}
    BY <1>1, <1>3 DEF Pending
  <2>11. SealPlaces \subseteq SealPlaces'
    <3>1. pc' \notin Early
      BY <2>1 DEF Early
    <3>2. Sealed' = Sealed
      BY <2>1 DEF Sealed
    <3> QED BY <1>1, <3>1, <3>2 DEF SealPlaces
  <2>12. (Pending \ gone) \cap DOMAIN gs \subseteq Pending'
    BY <2>10
  <2> QED BY <1>2, <2>1, <2>3, <2>5, <2>9, <2>11, <2>12, ContentNext
<1>5. CASE ~(IsCode(MainExecutable) /\ MainExecutable \notin RemovedDylibs(request))
  <2>1. Fails
    BY <1>5 DEF SignMain
  <2> QED BY <1>1, <2>1, ContentFails
<1> QED BY <1>4, <1>5

(* Archiving and reporting touch no file.                                  *)
LEMMA ContentPacked == Layout /\ Content /\ (Repackage \/ Report) => Content'
<1> SUFFICES ASSUME Layout, Content, Repackage \/ Report PROVE Content'
  OBVIOUS
<1>1. /\ pc \in {"repackage", "report"} /\ pc \in Late /\ pc \notin Early
      /\ pc' \in {"report", "returned"} /\ pc' \notin Early
      /\ UNCHANGED <<input, request, bundle, files, dirs>>
  BY DEF Repackage, Report, Late, Early
<1>2. /\ IsContents(files, Pending, SealPlaces) /\ IsInfo(files, TRUE)
      /\ KeptDirs \subseteq dirs
  <2>1. (pc # "plist") = TRUE
    BY <1>1
  <2> QED BY <1>1, <2>1, ContentBefore
<1>3. Pending = {}
  BY <1>1 DEF Pending
<1>4. SealPlaces \subseteq SealPlaces'
  <2>1. Sealed' = Sealed
    BY <1>1 DEF Sealed
  <2> QED BY <1>1, <2>1 DEF SealPlaces
<1>5. Pending \cap DOMAIN files \subseteq Pending'
  BY <1>3
<1>6. bundle'.app = bundle.app /\ pc' # "plist"
  BY <1>1
<1> QED BY <1>1, <1>2, <1>4, <1>5, <1>6, ContentNext

(* Each step keeps the contents right.                                     *)
LEMMA ContentStep == Layout /\ Content /\ [Next]_vars => Content'
<1> SUFFICES ASSUME Layout, Content, [Next]_vars PROVE Content'
  OBVIOUS
<1>1. ASSUME Open \/ Again PROVE Content'
  <2>1. ~answer'.success
    BY <1>1 DEF Open, Again, Begin, Answer, Layout
  <2>2. pc' \in {"open", "extract", "returned"}
    BY <1>1 DEF Open, Again, Begin
  <2> QED BY <2>1, <2>2 DEF Content, Unpacked, Early, Late
<1>2. ASSUME Done \/ UNCHANGED vars PROVE Content'
  <2>1. UNCHANGED vars
    BY <1>2 DEF Done
  <2>2. pc' = pc /\ bundle' = bundle /\ UNCHANGED <<input, request, files, dirs, answer>>
    BY <2>1 DEF vars
  <2>3. Sealed' = Sealed
    BY <2>2 DEF Sealed
  <2>4. Pending' = Pending /\ SealPlaces' = SealPlaces
    BY <2>2, <2>3, Unmoved DEF Pending, SealPlaces
  <2>5. CASE Unpacked
    BY <2>2, <2>4, <2>5, ContentKept DEF Content
  <2>6. CASE ~Unpacked
    BY <2>2, <2>6 DEF Content, Unpacked
  <2> QED BY <2>5, <2>6
<1> QED BY <1>1, <1>2, ContentExtract, ContentModify, ContentIcons, ContentProfile, ContentCopy,
           ContentStrip, ContentNested, ContentMain, ContentPacked DEF Next

(* What becomes of the contents, at every step. *)
THEOREM ContentHolds == Spec => []Content
<1>1. Init => Content
  BY DEF Init, Answer, Content, Unpacked, Early, Late
<1>2. Layout /\ Content /\ [Next]_vars => Content'
  BY ContentStep
<1> QED BY <1>1, <1>2, LayoutHolds, PTL DEF Spec

(* What is on disk at the end is what is in the output. *)
LEMMA AtTheEnd ==
    ASSUME Layout, Content, pc = "report" \/ Signed
    PROVE  /\ IsArchive(output) /\ FilesIn(output) = DOMAIN files /\ DirsIn(output) = dirs
           /\ \A p \in DOMAIN files : Has(output, p) /\ ReadFile(output, p) = files[p]
           /\ Packed(output, files, dirs) /\ IsTree(files, dirs)
           /\ IsContents(files, {}, SealPlaces) /\ IsInfo(files, TRUE) /\ KeptDirs \subseteq dirs
<1>1. /\ pc \in {"report", "returned"} /\ pc \notin Early
      /\ pc = "report" \/ answer.success
      /\ pc = "report" => pc \in Late
  BY DEF Signed, Early, Late
<1>2. Packed(output, files, dirs) /\ IsTree(files, dirs)
  BY <1>1 DEF Layout
<1>3. Pending = {}
  BY <1>1 DEF Pending
<1>4. (pc # "plist") = TRUE
  BY <1>1
<1>5. IsContents(files, {}, SealPlaces) /\ IsInfo(files, TRUE) /\ KeptDirs \subseteq dirs
  BY <1>1, <1>3, <1>4 DEF Content, Unpacked
<1>6. /\ IsArchive(output) /\ FilesIn(output) = DOMAIN files /\ DirsIn(output) = dirs
      /\ \A p \in DOMAIN files : Has(output, p) /\ ReadFile(output, p) = files[p]
  BY <1>2, PackedIs
<1> QED BY <1>2, <1>5, <1>6

(***************************************************************************)
(* Whatever is in the input and in whatever order, the output has each     *)
(* file and directory of it once, with no other changes than the request   *)
(* asks for, and those that are always made.                               *)
(***************************************************************************)
THEOREM ChangesAreAsked == Spec => []OnlyAskedChanges
<1>1. Layout /\ Content => OnlyAskedChanges
  <2> SUFFICES ASSUME Layout, Content, Signed PROVE OnlyAskedChanges
    BY DEF OnlyAskedChanges
  <2>1. /\ FilesIn(output) = DOMAIN files /\ DirsIn(output) = dirs
        /\ \A p \in DOMAIN files : Has(output, p) /\ ReadFile(output, p) = files[p]
        /\ Packed(output, files, dirs)
        /\ IsContents(files, {}, SealPlaces) /\ IsInfo(files, TRUE) /\ KeptDirs \subseteq dirs
    BY AtTheEnd
  <2> DEFINE seals == {p \in FilesIn(output) : ReadFile(output, p).kind = "seal"}
  <2>2. Len(output) = Cardinality(FilesIn(output) \cup DirsIn(output))
    BY <2>1 DEF Packed
  <2>3. Kept \subseteq FilesIn(output) /\ KeptDirs \subseteq DirsIn(output)
    BY <2>1 DEF IsContents
  <2>4. FilesIn(output) \ Kept \subseteq Replaced(request) \cup seals \cup Copied
    BY <2>1 DEF IsContents
  <2>5. \A p \in Kept \ (Replaced(request) \cup seals \cup {TheInfo}) :
           SameBut({"signed"}, ReadFile(input, p), ReadFile(output, p))
    BY <2>1 DEF IsContents
  <2>6. SameBut(EditedKeys(request), ReadFile(input, TheInfo).keys, ReadFile(output, TheInfo).keys)
    BY <2>1 DEF IsInfo
  <2>7. /\ Kept = FilesIn(input)
                     \ ((UNION {Under(d, FilesIn(input)) : d \in Stripped(request)}) \cup ToGo(request))
        /\ KeptDirs = DirsIn(input) \ (UNION {Under(d, DirsIn(input)) : d \in Stripped(request)})
    BY DEF Kept, KeptDirs, StrippedFrom
  <2>8. TheInfo = In(<<InfoPlist>>) /\ Copied = {InFrameworks(d) : d \in request.dylibs}
    BY DEF TheInfo, Copied
  <2> QED BY <2>2, <2>3, <2>4, <2>5, <2>6, <2>7, <2>8 DEF OnlyAskedChanges
<1> QED BY <1>1, LayoutHolds, ContentHolds, PTL

-----------------------------------------------------------------------------
(***************************************************************************)
(* What is signed.  The dylibs and the executables of the components are,  *)
(* from SignNested on, and the app's own from SignMain on.                 *)
(***************************************************************************)
Fresh(fs, p) == p \in DOMAIN fs /\ fs[p].kind = "code" /\ fs[p].signed = round

Nested == bundle.frameworks \cup bundle.plugins

CodeIsFresh ==
    /\ pc \in {"main", "repackage", "report"} \/ answer.success =>
          /\ \A c \in Nested : Present(c) => Fresh(files, MainOf(c))
          /\ \A p \in ToSet(bundle.dylibs) : Fresh(files, p)
    /\ pc \in {"repackage", "report"} \/ answer.success => Fresh(files, MainExecutable)

LooseDylib(es, dir, p) ==
    /\ p \in FilesIn(es) /\ Len(p) = 4
    /\ p[1] = dir[1] /\ p[2] = dir[2] /\ p[3] = dir[3] /\ p[4].ext = "dylib"

(* The loose dylibs are the files with the extension in their directory.   *)
LEMMA DylibsAre ==
    ASSUME NEW es, IsArchive(es), NEW S, NEW dir \in Seq(S), Len(dir) = 3, NEW p
    PROVE  p \in ToSet(Dylibs(es, dir)) <=> LooseDylib(es, dir, p)
<1> DEFINE I == {j \in Below(es, dir, "dylib") : Len(es[j].path) = Len(dir) + 1 /\ ~es[j].dir}
<1>1. Len(dir) + 1 = 4
  OBVIOUS
<1>2. PICK f : f = Dylibs(es, dir)
  OBVIOUS
<1>3. f = [i \in I |-> es[i].path]
  BY <1>2 DEF Dylibs
<1>4. ToSet(f) = {f[i] : i \in DOMAIN f}
  BY DEF ToSet
<1>5. p \in ToSet(f) <=> \E i \in I : p = es[i].path
  BY <1>3, <1>4
<1>6. \A i \in I : i \in DOMAIN es /\ Len(es[i].path) = 4 /\ ~es[i].dir
  BY <1>1 DEF Below
<1>7. ASSUME p \in ToSet(f) PROVE LooseDylib(es, dir, p)
  <2>1. PICK i \in I : p = es[i].path
    BY <1>5, <1>7
  <2>2. i \in DOMAIN es /\ i \in Below(es, dir, "dylib") /\ Len(p) = 4 /\ ~es[i].dir
    BY <1>6, <2>1
  <2>3. PICK x \in Names : x.ext = "dylib" /\ IsBelow(p, dir, x)
    BY <2>1, <2>2, BelowIs
  <2>4. p[1] = dir[1] /\ p[2] = dir[2] /\ p[3] = dir[3] /\ p[4].ext = "dylib"
    BY <2>3 DEF IsBelow
  <2> QED BY <2>1, <2>2, <2>4 DEF FilesIn, LooseDylib
<1>8. ASSUME LooseDylib(es, dir, p) PROVE p \in ToSet(f)
  <2>1. PICK i \in DOMAIN es : p = es[i].path /\ ~es[i].dir
    BY <1>8 DEF FilesIn, LooseDylib
  <2>2. p \in Seq(Names) /\ Len(p) = 4
    BY <1>8, <2>1 DEF IsArchive, LooseDylib
  <2>3. 4 \in 1..Len(p)
    BY <2>2
  <2>4. p[4] \in Names
    BY <2>2, <2>3, ElementOfSeq
  <2>5. Len(es[i].path) >= 4
    BY <2>1, <2>2
  <2>6. i \in Below(es, dir, "dylib")
    BY <1>8, <2>1, <2>4, <2>5, BelowIs DEF LooseDylib
  <2>7. i \in I
    BY <1>1, <2>1, <2>2, <2>6
  <2> QED BY <1>5, <2>1, <2>7
<1> HIDE DEF I
<1> QED BY <1>2, <1>7, <1>8

AppDirectory(d, app, n) == Len(d) = 3 /\ d[1] = app[1] /\ d[2] = app[2] /\ d[3] = n

(* A directory of the app, for what is found below it.                     *)
LEMMA AppDir ==
    ASSUME NEW app, IsApp(app), NEW n, NEW d, d = Append(app, n)
    PROVE  d \in Seq(Names \cup {n}) /\ AppDirectory(d, app, n)
<1> DEFINE T == Names \cup {n}
<1>1. app[1] \in T /\ app[2] \in T /\ n \in T
  BY ElementOfSeq DEF IsApp
<1>2. d = <<app[1], app[2], n>>
  BY Longer DEF IsApp
<1> HIDE DEF T
<1>3. d \in Seq(T) /\ Len(d) = 3 /\ d[1] = app[1] /\ d[2] = app[2] /\ d[3] = n
  BY <1>1, <1>2
<1> QED BY <1>3 DEF T, AppDirectory

(* Where the executable of a component is. *)
LEMMA MainOfIs ==
    ASSUME NEW c, c.path \in Seq(Names), Len(c.path) = 4
    PROVE  /\ MainOf(c) = <<c.path[1], c.path[2], c.path[3], c.path[4], c.exec>>
           /\ Len(MainOf(c)) = 5
<1>1. PICK p : p = MainOf(c)
  OBVIOUS
<1>2. p = <<c.path[1], c.path[2], c.path[3], c.path[4], c.exec>>
  BY <1>1, Longer DEF MainOf
<1>3. Len(p) = 5
  BY <1>2
<1> QED BY <1>1, <1>2, <1>3

(* Where the nested code is: not where seals are put, nor where dylibs are *)
(* removed.                                                                *)
LEMMA NestedPlaces ==
    ASSUME Layout, pc \in Late \/ answer.success,
           NEW p \in {MainOf(c) : c \in Nested} \cup ToSet(bundle.dylibs)
    PROVE  /\ \A bs \in SUBSET Sealed : p \notin DOMAIN Seals(bs)
           /\ p \notin RemovedDylibs(request)
<1>1. /\ Discovers(input) /\ IsArchive(input) /\ IsBundle(bundle) /\ IsApp(bundle.app)
      /\ bundle.app = Discover(input).app /\ bundle.dylibs = Discover(input).dylibs
  BY BundleIs DEF Layout, IsBundle
<1>2. Len(p) = 5 \/ (Len(p) = 4 /\ p[3] = FrameworksDir)
  <2>1. CASE p \in {MainOf(c) : c \in Nested}
    <3>1. PICK c \in Nested : p = MainOf(c)
      BY <2>1
    <3>2. c.path \in Seq(Names) /\ Len(c.path) = 4
      BY <1>1, <3>1 DEF Nested, IsBundle, IsComponent
    <3> QED BY <3>1, <3>2, MainOfIs
  <2>2. CASE p \in ToSet(bundle.dylibs)
    <3>1. PICK S, d : S = Names \cup {FrameworksDir} /\ d = Append(bundle.app, FrameworksDir)
      OBVIOUS
    <3>5. d \in Seq(Names \cup {FrameworksDir}) /\ AppDirectory(d, bundle.app, FrameworksDir)
      BY <1>1, <3>1, AppDir
    <3>2. d \in Seq(S) /\ Len(d) = 3 /\ d[3] = FrameworksDir
      BY <3>1, <3>5 DEF AppDirectory
    <3>3. p \in ToSet(Dylibs(input, d))
      BY <1>1, <2>2, <3>1 DEF Discover
    <3>4. LooseDylib(input, d, p)
      BY <1>1, <3>2, <3>3, DylibsAre
    <3> QED BY <3>2, <3>4 DEF LooseDylib
  <2> QED BY <2>1, <2>2
<1>3. FrameworksDir # CodeSignatureDir
  BY DEF FrameworksDir, CodeSignatureDir, Name
<1>4. ASSUME NEW bs \in SUBSET Sealed PROVE p \notin DOMAIN Seals(bs)
  <2>1. \A q \in DOMAIN Seals(bs) : \E b \in bs : q = SealOf(b)
    BY DEF Seals
  <2> QED BY <1>1, <1>2, <1>3, <2>1, SealPlacesAre
<1>5. p \notin RemovedDylibs(request)
  <2> SUFFICES ASSUME NEW n, p = In(<<n>>) PROVE FALSE
    BY DEF RemovedDylibs
  <2>1. p = AppFile(bundle.app, n)
    BY <1>1, Places
  <2>2. Len(p) = 3
    BY <2>1 DEF AppFile
  <2> QED BY <1>2, <2>2
<1> QED BY <1>4, <1>5

(* What was signed stays so under seals, and without what is not it.       *)
LEMMA FreshUnderSeals ==
    ASSUME NEW fs, NEW p, Fresh(fs, p), NEW bs, p \notin DOMAIN Seals(bs)
    PROVE  Fresh(Seals(bs) ++ fs, p)
<1>1. PICK w, v : w = Seals(bs) /\ v = w ++ fs
  OBVIOUS
<1>2. Over(w ++ fs, w, fs)
  BY WrittenOver, Zenon
<1>3. p \in DOMAIN v /\ v[p] = fs[p]
  BY <1>1, <1>2 DEF Over, Fresh
<1>4. Fresh(v, p)
  BY <1>3 DEF Fresh
<1> QED BY <1>1, <1>4

(* What was signed in this round stays so when other files are removed. *)
LEMMA FreshWithout ==
    ASSUME NEW fs, NEW p, Fresh(fs, p), NEW gone, p \notin gone
    PROVE  Fresh(Without(fs, gone), p)
<1>1. PICK v : v = Without(fs, gone)
  OBVIOUS
<1>2. Remaining(Without(fs, gone), fs, gone)
  BY WithoutGone
<1>3. p \in DOMAIN v /\ v[p] = fs[p]
  BY <1>1, <1>2 DEF Remaining, Fresh
<1>4. Fresh(v, p)
  BY <1>3 DEF Fresh
<1> QED BY <1>1, <1>4

(* What is signed now, and what was signed in this round, is fresh.        *)
LEMMA SignedIsFresh ==
    ASSUME IsTree(files, dirs), NEW code, NEW p,
           (p \in code /\ IsCode(p)) \/ Fresh(files, p)
    PROVE  Fresh(SignedFiles(code), p)
<1>1. PICK fs : fs = SignedFiles(code)
  OBVIOUS
<1>2. p \in DOMAIN files /\ files[p].kind = "code"
  BY DEF IsCode, Fresh
<1>3. IsData(files[p]) /\ "signed" \in DOMAIN files[p] /\ "kind" \in DOMAIN files[p]
  BY <1>2 DEF IsTree, IsData
<1>4. PICK d : d = [files[p] EXCEPT !.signed = round]
  OBVIOUS
<1>5. d.signed = round /\ d.kind = files[p].kind
  BY <1>3, <1>4
<1>6. p \in DOMAIN fs /\ fs[p] = IF p \in code THEN d ELSE files[p]
  BY <1>1, <1>2, <1>4 DEF SignedFiles
<1>7. Fresh(fs, p)
  BY <1>2, <1>5, <1>6 DEF Fresh
<1> QED BY <1>1, <1>7

(* The components on disk and the dylibs are signed. *)
LEMMA FreshNested == Layout /\ SignNested => CodeIsFresh'
<1> SUFFICES ASSUME Layout, SignNested PROVE CodeIsFresh'
  OBVIOUS
<1>1. pc = "nested" /\ pc \in Late /\ ~answer.success
  BY DEF SignNested, Late, Layout
<1>2. IsTree(files, dirs) /\ IsBundle(bundle)
  BY <1>1, OnDisk
<1> DEFINE cs == {c \in bundle.frameworks \cup bundle.plugins : Present(c)}
<1>3. PICK code, bs : /\ code = {MainOf(c) : c \in cs} \cup ToSet(bundle.dylibs)
                      /\ bs = {c.path : c \in cs}
  OBVIOUS
<1>4. CASE \A p \in code : IsCode(p)
  <2>1. /\ pc' = "main" /\ UNCHANGED <<round, bundle, answer>>
        /\ files' = Seals(bs) ++ SignedFiles(code)
    BY <1>3, <1>4 DEF SignNested
  <2>2. bs \in SUBSET Sealed
    BY <1>3 DEF Sealed
  <2>3. PICK fs, gs : fs = SignedFiles(code) /\ gs = Seals(bs) ++ fs
    OBVIOUS
  <2>4. ASSUME NEW p \in code PROVE Fresh(gs, p)
    <3>1. p \in {MainOf(c) : c \in Nested} \cup ToSet(bundle.dylibs)
      BY <1>3 DEF Nested
    <3>2. p \notin DOMAIN Seals(bs)
      BY <1>1, <2>2, <3>1, NestedPlaces
    <3>3. Fresh(fs, p)
      BY <1>2, <1>4, <2>3, SignedIsFresh
    <3> QED BY <2>3, <3>2, <3>3, FreshUnderSeals
  <2>5. ASSUME NEW c \in Nested, c.exec # NoName, MainOf(c) \in DOMAIN gs
        PROVE  Fresh(gs, MainOf(c))
    <3>1. MainOf(c) \notin DOMAIN Seals(bs)
      BY <1>1, <2>2, NestedPlaces
    <3>2. Over(Seals(bs) ++ fs, Seals(bs), fs)
      BY WrittenOver, Zenon
    <3>3. DOMAIN gs = DOMAIN Seals(bs) \cup DOMAIN files
      BY <2>3, <3>2 DEF Over, SignedFiles
    <3>4. MainOf(c) \in DOMAIN files
      BY <2>5, <3>1, <3>3
    <3>5. MainOf(c) \in code
      BY <1>3, <2>5, <3>4 DEF Nested, Present
    <3> QED BY <2>4, <3>5
  <2>6. files' = gs
    BY <2>1, <2>3
  <2>7. \A c \in Nested' : Present(c)' => Fresh(files', MainOf(c))
    BY <2>1, <2>5, <2>6 DEF Nested, Present
  <2>8. \A p \in ToSet(bundle.dylibs) : Fresh(files', p)
    BY <1>3, <2>4, <2>6
  <2> QED BY <1>1, <2>1, <2>7, <2>8 DEF CodeIsFresh, Fresh
<1>5. CASE ~\A p \in code : IsCode(p)
  <2>1. Fails
    BY <1>3, <1>5 DEF SignNested
  <2> QED BY <1>1, <2>1 DEF Fails, CodeIsFresh
<1> QED BY <1>4, <1>5

(* The app's executable is signed, and what was signed is not lost.        *)
LEMMA FreshMain == Layout /\ CodeIsFresh /\ SignMain => CodeIsFresh'
<1> SUFFICES ASSUME Layout, CodeIsFresh, SignMain PROVE CodeIsFresh'
  OBVIOUS
<1>1. pc = "main" /\ pc \in Late /\ ~answer.success
  BY DEF SignMain, Late, Layout
<1>2. IsTree(files, dirs) /\ IsBundle(bundle) /\ IsApp(bundle.app)
  BY <1>1, OnDisk
<1>3. PICK code, bs, gone : /\ code = {MainExecutable} /\ bs = {bundle.app}
                            /\ gone = RemovedDylibs(request)
  OBVIOUS
<1>4. CASE IsCode(MainExecutable) /\ MainExecutable \notin RemovedDylibs(request)
  <2>1. /\ pc' = "repackage" /\ UNCHANGED <<round, bundle, answer>>
        /\ files' = Seals(bs) ++ Without(SignedFiles(code), gone)
    BY <1>3, <1>4 DEF SignMain
  <2>2. bs \in SUBSET Sealed
    BY <1>3 DEF Sealed
  <2>3. PICK fs, ws, gs : fs = SignedFiles(code) /\ ws = Without(fs, gone) /\ gs = Seals(bs) ++ ws
    OBVIOUS
  <2>4. ASSUME NEW p, p \notin DOMAIN Seals(bs), p \notin gone,
               p = MainExecutable \/ Fresh(files, p)
        PROVE  Fresh(gs, p)
    <3>1. Fresh(fs, p)
      BY <1>2, <1>3, <1>4, <2>3, <2>4, SignedIsFresh
    <3>2. Fresh(ws, p)
      BY <2>3, <2>4, <3>1, FreshWithout
    <3> QED BY <2>3, <2>4, <3>2, FreshUnderSeals
  <2>5. \A p \in {MainOf(c) : c \in Nested} \cup ToSet(bundle.dylibs) :
           p \notin DOMAIN Seals(bs) /\ p \notin gone
    BY <1>1, <1>3, <2>2, NestedPlaces
  <2>6. ASSUME NEW c \in Nested, c.exec # NoName, MainOf(c) \in DOMAIN gs
        PROVE  Fresh(gs, MainOf(c))
    <3>1. Over(Seals(bs) ++ ws, Seals(bs), ws) /\ Remaining(Without(fs, gone), fs, gone)
      BY WrittenOver, WithoutGone, Zenon
    <3>2. DOMAIN gs \subseteq DOMAIN Seals(bs) \cup DOMAIN files
      BY <2>3, <3>1 DEF Over, Remaining, SignedFiles
    <3>3. MainOf(c) \in DOMAIN files /\ MainOf(c) \notin DOMAIN Seals(bs) /\ MainOf(c) \notin gone
      BY <2>5, <2>6, <3>2
    <3>4. Fresh(files, MainOf(c))
      BY <1>1, <2>6, <3>3 DEF CodeIsFresh, Present
    <3> QED BY <2>4, <3>3, <3>4
  <2>7. ASSUME NEW p \in ToSet(bundle.dylibs) PROVE Fresh(gs, p)
    <3>1. Fresh(files, p)
      BY <1>1 DEF CodeIsFresh
    <3> QED BY <2>4, <2>5, <3>1
  <2>8. Fresh(gs, MainExecutable)
    <3>1. Len(MainExecutable) = 3
      <4>1. PICK p : p = MainExecutable
        OBVIOUS
      <4>2. p = AppFile(bundle.app, bundle.exec)
        BY <1>2, <4>1, Places DEF MainExecutable
      <4>3. Len(p) = 3
        BY <4>2 DEF AppFile
      <4> QED BY <4>1, <4>3
    <3>2. \A q \in DOMAIN Seals(bs) : \E b \in bs : q = SealOf(b)
      BY DEF Seals
    <3>3. MainExecutable \notin DOMAIN Seals(bs)
      BY <1>2, <2>2, <3>1, <3>2, SealPlacesAre
    <3> QED BY <1>3, <1>4, <2>4, <3>3
  <2>9. files' = gs
    BY <2>1, <2>3
  <2>10. \A c \in Nested' : Present(c)' => Fresh(files', MainOf(c))
    BY <2>1, <2>6, <2>9 DEF Nested, Present
  <2>11. MainExecutable' = MainExecutable
    BY <2>1 DEF MainExecutable, In
  <2> QED BY <1>1, <2>1, <2>7, <2>8, <2>9, <2>10, <2>11 DEF CodeIsFresh, Fresh
<1>5. CASE ~(IsCode(MainExecutable) /\ MainExecutable \notin RemovedDylibs(request))
  <2>1. Fails
    BY <1>5 DEF SignMain
  <2> QED BY <1>1, <2>1 DEF Fails, CodeIsFresh
<1> QED BY <1>4, <1>5

(* Each step keeps the code fresh.                                         *)
LEMMA FreshStep == Layout /\ CodeIsFresh /\ [Next]_vars => CodeIsFresh'
<1> SUFFICES ASSUME Layout, CodeIsFresh, [Next]_vars PROVE CodeIsFresh'
  OBVIOUS
<1>1. ASSUME Repackage \/ Report \/ Done \/ UNCHANGED vars PROVE CodeIsFresh'
  <2>1. /\ UNCHANGED <<round, bundle, files>>
        /\ pc' \in {"main", "repackage", "report"} \/ answer'.success
              => pc \in {"main", "repackage", "report"} \/ answer.success
        /\ pc' \in {"repackage", "report"} \/ answer'.success
              => pc \in {"repackage", "report"} \/ answer.success
    BY <1>1 DEF Repackage, Report, Done, vars
  <2>2. MainExecutable' = MainExecutable /\ Nested' = Nested
    BY <2>1 DEF MainExecutable, In, Nested
  <2>3. \A c : Present(c)' = Present(c) /\ MainOf(c)' = MainOf(c)
    BY <2>1 DEF Present, MainOf
  <2>4. \A p : Fresh(files, p)' = Fresh(files, p)
    BY <2>1 DEF Fresh
  <2> QED BY <2>1, <2>2, <2>3, <2>4 DEF CodeIsFresh, Fresh
<1>2. ASSUME ~(SignNested \/ SignMain \/ Repackage \/ Report \/ Done \/ UNCHANGED vars)
      PROVE  CodeIsFresh'
  <2>1. /\ pc' \in {"open", "extract", "plist", "icons", "profile", "copy", "strip",
                    "nested", "returned"}
        /\ ~answer'.success
    BY <1>2 DEF Next, Open, Extract, ModifyInfoPlist, ReplaceIcon, HandleProfile,
                CopyIntoFrameworks, Strip, Again, Begin, Answer, Layout
  <2> QED BY <2>1 DEF CodeIsFresh
<1> QED BY <1>1, <1>2, FreshNested, FreshMain

(* In every reachable state.                                               *)
LEMMA FreshHolds == Spec => []CodeIsFresh
<1>1. Init => CodeIsFresh
  BY DEF Init, Answer, CodeIsFresh
<1>2. Layout /\ CodeIsFresh /\ [Next]_vars => CodeIsFresh'
  BY FreshStep
<1> QED BY <1>1, <1>2, LayoutHolds, PTL DEF Spec

(* How deep things are in the app.                                         *)
LEMMA Depths ==
    ASSUME IsApp(bundle.app), NEW n
    PROVE  /\ Len(In(<<n>>)) = 3
           /\ Len(InFrameworks(n)) = 4 /\ InFrameworks(n)[3] = FrameworksDir
           /\ Len(Append(InFrameworks(n), InBundle)) = 5
           /\ Append(InFrameworks(n), InBundle)[3] = FrameworksDir
           /\ Append(InFrameworks(n), InBundle)[5] = InBundle
<1>1. PICK t, d : t = In(<<n>>) /\ d = InFrameworks(n)
  OBVIOUS
<1>2. t = AppFile(bundle.app, n) /\ d = FrameworkFile(bundle.app, n)
  BY <1>1, Places
<1>3. Len(t) = 3
  BY <1>2 DEF AppFile
<1>4. d \in Seq({d[1], d[2], d[3], d[4]}) /\ Len(d) = 4 /\ d[3] = FrameworksDir
  BY <1>2 DEF FrameworkFile
<1>5. PICK r : r = Append(d, InBundle)
  OBVIOUS
<1>6. r = <<d[1], d[2], d[3], d[4], InBundle>>
  BY <1>4, <1>5, Longer
<1>7. Len(r) = 5 /\ r[3] = d[3] /\ r[5] = InBundle
  BY <1>6
<1> QED BY <1>1, <1>3, <1>4, <1>5, <1>7

(* A directory in which the executables of components are looked for, and  *)
(* that is not removed.                                                    *)
Stays(name) == name = FrameworksDir \/ (name = PlugInsDir /\ ~request.stripExtensions)

InDirectory(p, name) == p[1] = bundle.app[1] /\ p[2] = bundle.app[2] /\ p[3] = name

(* What is removed with its directory. *)
LEMMA StrippedIs ==
    ASSUME IsApp(bundle.app), NEW p \in Seq(Names), Len(p) >= 3, NEW name, InDirectory(p, name),
           NEW paths
    PROVE  /\ Stays(name) \/ name \notin {PlugInsDir, WatchDir} => p \notin StrippedFrom(paths)
           /\ name = PlugInsDir /\ request.stripExtensions /\ p \in paths
                 => p \in StrippedFrom(paths)
<1>1. ASSUME NEW n \in {PlugInsDir, WatchDir} PROVE IsPrefix(In(<<n>>), p) <=> name = n
  <2>1. PICK d : d = In(<<n>>)
    OBVIOUS
  <2>2. d = AppFile(bundle.app, n)
    BY <2>1, Places
  <2> DEFINE T == Names \cup {n}
  <2>3. bundle.app[1] \in T /\ bundle.app[2] \in T /\ n \in T /\ p \in Seq(T)
    BY ElementOfSeq, SeqMonotonic DEF IsApp
  <2> HIDE DEF T
  <2>4. d \in Seq(T) /\ Len(d) = 3 /\ d[1] = bundle.app[1] /\ d[2] = bundle.app[2] /\ d[3] = n
    BY <2>2, <2>3 DEF AppFile
  <2>9. p \in Seq(T) /\ d \in Seq(T)
    BY <2>3, <2>4
  <2>5. IsPrefix(d, p) <=> Len(d) <= Len(p) /\ \A j \in 1..Len(d) : d[j] = p[j]
    BY <2>9, PrefixIs
  <2>6. Len(p) \in Nat
    BY LenProperties
  <2>7. Len(d) <= Len(p)
    BY <2>4, <2>6
  <2>8. (\A j \in 1..3 : d[j] = p[j]) <=> d[1] = p[1] /\ d[2] = p[2] /\ d[3] = p[3]
    OBVIOUS
  <2> QED BY <2>1, <2>4, <2>5, <2>7, <2>8 DEF InDirectory
<1>2. /\ FrameworksDir \notin {PlugInsDir, WatchDir} /\ PlugInsDir # WatchDir
  BY DEF FrameworksDir, PlugInsDir, WatchDir, Name
<1>3. ASSUME Stays(name) \/ name \notin {PlugInsDir, WatchDir}, NEW d \in Stripped(request)
      PROVE  ~IsPrefix(d, p)
  <2>1. PICK n \in {PlugInsDir, WatchDir} : d = In(<<n>>) /\ (n = PlugInsDir => request.stripExtensions)
    BY <1>2 DEF Stripped
  <2> QED BY <1>1, <1>2, <1>3, <2>1 DEF Stays
<1>4. ASSUME name = PlugInsDir, request.stripExtensions, p \in paths PROVE p \in StrippedFrom(paths)
  <2>1. In(<<PlugInsDir>>) \in Stripped(request)
    BY <1>4 DEF Stripped
  <2>2. IsPrefix(In(<<PlugInsDir>>), p)
    BY <1>1, <1>4
  <2> QED BY <1>4, <2>1, <2>2 DEF StrippedFrom, Under
<1> QED BY <1>3, <1>4 DEF StrippedFrom, Under

(* What is known when the app has been signed.                             *)
LEMMA AtTheEndOfBundle ==
    ASSUME Layout, pc = "report" \/ Signed
    PROVE  /\ IsArchive(input) /\ Discovers(input) /\ IsBundle(bundle) /\ IsApp(bundle.app)
           /\ bundle.app = Discover(input).app /\ bundle.dylibs = Discover(input).dylibs
           /\ bundle.exec = Discover(input).exec
           /\ bundle.frameworks = Discover(input).frameworks
           /\ bundle.plugins = IF request.stripExtensions THEN {} ELSE Discover(input).plugins
           /\ SealPlaces = {SealOf(b) : b \in Sealed}
<1>1. /\ IsArchive(input) /\ Discovers(input) /\ pc \in {"report", "returned"}
      /\ bundle = AfterStrip(Discover(input), request)
  BY DEF Layout, Signed, Late
<1>2. SealPlaces = {SealOf(b) : b \in Sealed}
  BY <1>1 DEF SealPlaces, Early
<1> QED BY <1>1, <1>2, BundleIs DEF IsBundle

(* What is five names deep in the output is in the input, or is a copied   *)
(* bundle's.                                                               *)
LEMMA DeepFiles ==
    ASSUME Layout, Content, Signed, NEW p \in DOMAIN files, Len(p) = 5
    PROVE  p \in Kept \/ (p[3] = FrameworksDir /\ p[5] = InBundle)
<1>1. IsContents(files, {}, SealPlaces)
  BY AtTheEnd
<1>2. /\ IsApp(bundle.app) /\ IsBundle(bundle) /\ SealPlaces = {SealOf(b) : b \in Sealed}
  BY AtTheEndOfBundle
<1>3. p \in Kept \cup Replaced(request) \cup Copied \cup SealPlaces
  BY <1>1 DEF IsContents
<1>4. p \notin Copied
  <2> SUFFICES ASSUME NEW n, p = InFrameworks(n) PROVE FALSE
    BY DEF Copied
  <2>1. Len(InFrameworks(n)) = 4
    BY <1>2, Depths
  <2> QED BY <2>1
<1>5. p \notin SealPlaces
  BY <1>2, SealPlacesAre
<1>6. ASSUME p \in Replaced(request) PROVE p[3] = FrameworksDir /\ p[5] = InBundle
  <2>1. ASSUME NEW n PROVE p # In(<<n>>)
    <3>1. Len(In(<<n>>)) = 3
      BY <1>2, Depths
    <3> QED BY <3>1
  <2>2. PICK b : p = Append(InFrameworks(b), InBundle)
    BY <1>6, <2>1 DEF Replaced, Profile
  <2> QED BY <1>2, <2>2, Depths
<1> QED BY <1>3, <1>4, <1>5, <1>6

(* What is five names deep in the input stays as it is, but for its        *)
(* signature, where nothing is removed and nothing is copied over it.      *)
LEMMA DeepKept ==
    ASSUME Layout, Content, Signed, NEW p \in FilesIn(input), Len(p) = 5, p[5] # InBundle,
           NEW name, InDirectory(p, name), Stays(name)
    PROVE  p \in DOMAIN files /\ SameBut({"signed"}, ReadFile(input, p), files[p])
<1>1. IsContents(files, {}, SealPlaces)
  BY AtTheEnd
<1>2. /\ IsApp(bundle.app) /\ IsBundle(bundle) /\ SealPlaces = {SealOf(b) : b \in Sealed}
      /\ IsArchive(input)
  BY AtTheEndOfBundle
<1>3. p \in Seq(Names)
  BY <1>2 DEF IsArchive, FilesIn
<1>4. ASSUME NEW n PROVE p # In(<<n>>)
  <2>1. Len(In(<<n>>)) = 3
    BY <1>2, Depths
  <2> QED BY <2>1
<1>5. p \notin ToGo(request) /\ p # TheInfo
  BY <1>4 DEF ToGo, RemovedDylibs, AssetsCar, Profile, TheInfo
<1>6. p \notin StrippedFrom(FilesIn(input))
  <2>1. Len(p) >= 3
    OBVIOUS
  <2> QED BY <1>2, <1>3, <2>1, StrippedIs
<1>7. p \in Kept
  BY <1>5, <1>6 DEF Kept
<1>8. p \notin Replaced(request)
  <2>1. \A b : p # Append(InFrameworks(b), InBundle)
    BY <1>2, Depths
  <2> QED BY <1>4, <2>1 DEF Replaced, Profile
<1>9. p \notin SealPlaces
  BY <1>2, SealPlacesAre
<1> QED BY <1>1, <1>5, <1>7, <1>8, <1>9 DEF IsContents

(* The executable that a component's Info.plist names is the same in the   *)
(* input and in the output.                                                *)
LEMMA SameExecutable ==
    ASSUME Layout, Content, Signed, NEW d \in Seq(Names), Len(d) = 4,
           NEW name, InDirectory(d, name), Stays(name)
    PROVE  /\ NamedExecutable(output, d) = NamedExecutable(input, d)
           /\ NamedExecutable(input, d) # NoName => Append(d, InfoPlist) \in FilesIn(input)
<1>1. /\ IsArchive(output) /\ FilesIn(output) = DOMAIN files
      /\ \A p \in DOMAIN files : Has(output, p) /\ ReadFile(output, p) = files[p]
  BY AtTheEnd
<1>2. IsArchive(input)
  BY AtTheEndOfBundle
<1>3. PICK p : p = Append(d, InfoPlist)
  OBVIOUS
<1>4. p = <<d[1], d[2], d[3], d[4], InfoPlist>>
  BY <1>3, Longer
<1>5. Len(p) = 5 /\ p[1] = d[1] /\ p[2] = d[2] /\ p[3] = d[3] /\ p[5] = InfoPlist
  BY <1>4
<1>6. InDirectory(p, name)
  BY <1>5 DEF InDirectory
<1>7. InfoPlist # InBundle
  BY DEF InfoPlist, InBundle, Name
<1>8. Has(input, p) <=> p \in FilesIn(input)
  BY <1>2, Lookup
<1>9. Has(output, p) <=> p \in DOMAIN files
  BY <1>1, Lookup
<1>10. p \in FilesIn(input) => /\ p \in DOMAIN files
                               /\ SameBut({"signed"}, ReadFile(input, p), files[p])
  BY <1>5, <1>6, <1>7, DeepKept
<1>11. p \in DOMAIN files => p \in FilesIn(input)
  BY <1>5, <1>7, DeepFiles DEF Kept
<1>12. ASSUME p \in FilesIn(input)
       PROVE  /\ IsPlist(ReadFile(input, p)) <=> IsPlist(ReadFile(output, p))
              /\ IsPlist(ReadFile(input, p)) => ReadFile(input, p).keys = ReadFile(output, p).keys
  <2>1. PICK old, new : old = ReadFile(input, p) /\ new = ReadFile(output, p)
    OBVIOUS
  <2>2. SameBut({"signed"}, old, new)
    BY <1>1, <1>10, <1>12, <2>1
  <2>3. IsData(old)
    BY <1>2, <1>12, <2>1 DEF IsArchive
  <2>4. "kind" \in DOMAIN old /\ new.kind = old.kind
    BY <2>2, <2>3 DEF SameBut, IsData
  <2>5. IsPlist(old) => "keys" \in DOMAIN old /\ new.keys = old.keys
    BY <2>2, <2>3 DEF SameBut, IsData
  <2> QED BY <2>1, <2>4, <2>5 DEF IsPlist
<1>13. NamedExecutable(output, d) = NamedExecutable(input, d)
  BY <1>3, <1>8, <1>9, <1>10, <1>11, <1>12 DEF NamedExecutable
<1> QED BY <1>3, <1>8, <1>13 DEF NamedExecutable

(* A component that is found in the output was found in the input, and its *)
(* executable is signed if it is there.                                    *)
LEMMA ComponentSigned ==
    ASSUME Layout, Content, CodeIsFresh, Signed, NEW name, NEW ext,
           \/ name = FrameworksDir /\ ext = "framework"
           \/ name = PlugInsDir /\ ext = "appex",
           NEW c \in Components(output, Append(bundle.app, name), ext),
           MainOf(c) \in DOMAIN files
    PROVE  Fresh(files, MainOf(c))
<1>1. /\ IsArchive(output) /\ FilesIn(output) = DOMAIN files /\ IsTree(files, dirs)
  BY AtTheEnd
<1>2. /\ IsArchive(input) /\ Discovers(input) /\ IsApp(bundle.app)
      /\ bundle.app = Discover(input).app /\ bundle.frameworks = Discover(input).frameworks
      /\ bundle.plugins = IF request.stripExtensions THEN {} ELSE Discover(input).plugins
  BY AtTheEndOfBundle
<1>3. PICK S, dir : S = Names \cup {name} /\ dir = Append(bundle.app, name)
  OBVIOUS
<1>4. dir \in Seq(Names \cup {name}) /\ AppDirectory(dir, bundle.app, name)
  BY <1>2, <1>3, AppDir
<1>5. dir \in Seq(S) /\ Len(dir) = 3 /\ dir[1] = bundle.app[1] /\ dir[2] = bundle.app[2]
      /\ dir[3] = name
  BY <1>3, <1>4 DEF AppDirectory
<1>6. PICK x \in Names : /\ x.ext = ext /\ c.path = <<dir[1], dir[2], dir[3], x>>
                         /\ c.path \in Seq(Names) /\ c = Component(output, c.path)
  <2>1. c \in Components(output, dir, ext)
    BY <1>3
  <2> QED BY <1>1, <1>5, <2>1, ComponentsAre
<1>7. PICK d : d = c.path
  OBVIOUS
<1>8. d \in Seq(Names) /\ Len(d) = 4 /\ d[1] = dir[1] /\ d[2] = dir[2] /\ d[3] = name /\ d[4] = x
  BY <1>5, <1>6, <1>7
<1>9. InDirectory(d, name)
  BY <1>5, <1>8 DEF InDirectory
<1>10. PICK p : p = MainOf(c)
  OBVIOUS
<1>11. p = <<d[1], d[2], d[3], d[4], c.exec>>
  BY <1>7, <1>8, <1>10, MainOfIs
<1>12. /\ Len(p) = 5 /\ p[1] = d[1] /\ p[2] = d[2] /\ p[3] = d[3] /\ p[4] = d[4]
       /\ p[5] = c.exec
  BY <1>11
<1>13. p \in DOMAIN files /\ p \in Seq(Names)
  BY <1>1, <1>10 DEF IsTree
<1>14. c.exec # NoName
  <2>1. 5 \in 1..Len(p)
    BY <1>12
  <2>2. p[5] \in Names
    BY <1>13, <2>1, ElementOfSeq
  <2> QED BY <1>12, <2>2, NamesAssumption
<1>15. p \in Kept \/ (p[3] = FrameworksDir /\ p[5] = InBundle)
  BY <1>12, <1>13, DeepFiles
<1>16. InDirectory(p, name) /\ Len(p) >= 3
  BY <1>9, <1>12 DEF InDirectory
<1>17. PlugInsDir # FrameworksDir
  BY DEF PlugInsDir, FrameworksDir, Name
<1>18. Stays(name)
  <2> SUFFICES ASSUME name = PlugInsDir, request.stripExtensions PROVE FALSE
    BY DEF Stays
  <2>1. p \in Kept
    BY <1>8, <1>12, <1>15, <1>17
  <2>2. p \in FilesIn(input) /\ p \notin StrippedFrom(FilesIn(input))
    BY <2>1 DEF Kept
  <2> QED BY <1>2, <1>13, <1>16, <2>2, StrippedIs
<1>19. /\ NamedExecutable(output, d) = NamedExecutable(input, d)
       /\ NamedExecutable(input, d) # NoName => Append(d, InfoPlist) \in FilesIn(input)
  BY <1>8, <1>9, <1>18, SameExecutable
<1>20. c.exec = ExecutableOf(output, d)
  BY <1>6, <1>7 DEF Component
<1>21. \E q \in FilesIn(input) : /\ Len(q) = 5 /\ q[1] = d[1] /\ q[2] = d[2] /\ q[3] = d[3]
                                 /\ q[4] = d[4]
  <2>1. CASE p \in FilesIn(input)
    BY <1>12, <2>1
  <2>2. CASE NamedExecutable(input, d) # NoName
    <3>1. PICK q : q = Append(d, InfoPlist)
      OBVIOUS
    <3>2. q = <<d[1], d[2], d[3], d[4], InfoPlist>>
      BY <1>8, <3>1, Longer
    <3>3. Len(q) = 5 /\ q[1] = d[1] /\ q[2] = d[2] /\ q[3] = d[3] /\ q[4] = d[4]
      BY <3>2
    <3> QED BY <1>19, <2>2, <3>1, <3>3
  <2>3. CASE p \notin FilesIn(input) /\ NamedExecutable(input, d) = NoName
    <3>1. c.exec = InBundle
      BY <1>12, <1>15, <2>3 DEF Kept
    <3>2. NamedExecutable(output, d) = NoName
      BY <1>19, <2>3
    <3>3. c.exec = Name(Last(d).stem, "")
      BY <1>20, <3>2 DEF ExecutableOf
    <3>4. PICK stem : stem = Last(d).stem
      OBVIOUS
    <3>5. Name(stem, "") # InBundle
      BY DEF Name, InBundle
    <3> QED BY <3>1, <3>3, <3>4, <3>5
  <2> QED BY <2>1, <2>2, <2>3
<1>22. PICK i \in DOMAIN input : /\ Len(input[i].path) = 5 /\ input[i].path[1] = dir[1]
                                 /\ input[i].path[2] = dir[2] /\ input[i].path[3] = dir[3]
                                 /\ input[i].path[4] = x
  BY <1>5, <1>8, <1>21 DEF FilesIn
<1>23. Component(input, d) \in Components(input, dir, ext)
  <2>1. Len(input[i].path) >= 4
    BY <1>22
  <2>2. Component(input, <<dir[1], dir[2], dir[3], x>>) \in Components(input, dir, ext)
    BY <1>2, <1>5, <1>6, <1>22, <2>1, ComponentsAre
  <2> QED BY <1>6, <1>7, <2>2
<1>24. Component(input, d) = c
  <2>1. ExecutableOf(input, d) = ExecutableOf(output, d)
    BY <1>19 DEF ExecutableOf
  <2> QED BY <1>6, <1>7, <2>1 DEF Component
<1>25. c \in Nested
  <2>1. CASE name = FrameworksDir /\ ext = "framework"
    <3>1. Discover(input).frameworks = Components(input, dir, ext)
      BY <1>2, <1>3, <2>1 DEF Discover
    <3> QED BY <1>2, <1>23, <1>24, <3>1 DEF Nested
  <2>2. CASE name = PlugInsDir /\ ext = "appex"
    <3>1. Discover(input).plugins = Components(input, dir, ext)
      BY <1>2, <1>3, <2>2 DEF Discover
    <3>2. ~request.stripExtensions
      BY <1>17, <1>18, <2>2 DEF Stays
    <3> QED BY <1>2, <1>23, <1>24, <3>1, <3>2 DEF Nested
  <2> QED BY <2>1, <2>2
<1> QED BY <1>14, <1>25 DEF CodeIsFresh, Signed, Present

(* A loose dylib that is found in the output is signed if it was in the    *)
(* input, and otherwise is one that the request brought.                   *)
LEMMA DylibSigned ==
    ASSUME Layout, Content, CodeIsFresh, Signed,
           NEW p \in ToSet(Dylibs(output, Append(bundle.app, FrameworksDir)))
    PROVE  /\ p \in DOMAIN files
           /\ p \in FilesIn(input) => Fresh(files, p)
           /\ p \notin FilesIn(input) => p \in Copied
<1>1. /\ IsArchive(output) /\ FilesIn(output) = DOMAIN files
      /\ IsContents(files, {}, SealPlaces)
  BY AtTheEnd
<1>2. /\ IsArchive(input) /\ Discovers(input) /\ IsApp(bundle.app) /\ IsBundle(bundle)
      /\ bundle.app = Discover(input).app /\ bundle.dylibs = Discover(input).dylibs
      /\ SealPlaces = {SealOf(b) : b \in Sealed}
  BY AtTheEndOfBundle
<1>3. PICK S, dir : S = Names \cup {FrameworksDir} /\ dir = Append(bundle.app, FrameworksDir)
  OBVIOUS
<1>4. dir \in Seq(Names \cup {FrameworksDir}) /\ AppDirectory(dir, bundle.app, FrameworksDir)
  BY <1>2, <1>3, AppDir
<1>5. dir \in Seq(S) /\ Len(dir) = 3 /\ dir[3] = FrameworksDir
  BY <1>3, <1>4 DEF AppDirectory
<1>6. LooseDylib(output, dir, p)
  <2>1. p \in ToSet(Dylibs(output, dir))
    BY <1>3
  <2> QED BY <1>1, <1>5, <2>1, DylibsAre
<1>7. p \in DOMAIN files /\ Len(p) = 4 /\ p[3] = FrameworksDir
  BY <1>1, <1>5, <1>6 DEF LooseDylib
<1>8. CASE p \in FilesIn(input)
  <2>1. LooseDylib(input, dir, p)
    BY <1>6, <1>8 DEF LooseDylib
  <2>2. p \in ToSet(Dylibs(input, dir))
    BY <1>2, <1>5, <2>1, DylibsAre
  <2>3. p \in ToSet(bundle.dylibs)
    BY <1>2, <1>3, <2>2 DEF Discover
  <2> QED BY <1>7, <1>8, <2>3 DEF CodeIsFresh, Signed
<1>9. CASE p \notin FilesIn(input)
  <2>1. p \in Replaced(request) \cup Copied \cup SealPlaces
    BY <1>1, <1>7, <1>9 DEF IsContents, Kept
  <2>2. p \notin SealPlaces
    <3>1. FrameworksDir # CodeSignatureDir
      BY DEF FrameworksDir, CodeSignatureDir, Name
    <3> QED BY <1>2, <1>7, <3>1, SealPlacesAre
  <2>3. p \notin Replaced(request)
    <3>1. ASSUME NEW n PROVE p # In(<<n>>)
      <4>1. Len(In(<<n>>)) = 3
        BY <1>2, Depths
      <4> QED BY <1>7, <4>1
    <3>2. ASSUME NEW b PROVE p # Append(InFrameworks(b), InBundle)
      <4>1. PICK r : r = Append(InFrameworks(b), InBundle)
        OBVIOUS
      <4>2. Len(r) = 5
        BY <1>2, <4>1, Depths
      <4> QED BY <1>7, <4>1, <4>2
    <3> QED BY <3>1, <3>2 DEF Replaced, Profile
  <2> QED BY <1>7, <1>9, <2>1, <2>2, <2>3
<1> QED BY <1>7, <1>8, <1>9

(* A path without its last name. *)
LEMMA FrontIs ==
    ASSUME NEW S, NEW p \in Seq(S), Len(p) \in {3, 5}
    PROVE  /\ Last(p) = p[Len(p)] /\ Front(p) \in Seq(S)
           /\ Len(p) = 3 => Front(p) = <<p[1], p[2]>>
           /\ Len(p) = 5 => Front(p) = <<p[1], p[2], p[3], p[4]>>
<1>1. PICK n \in {2, 4} : n = Len(p) - 1
  OBVIOUS
<1>2. PICK d : d = SubSeq(p, 1, n)
  OBVIOUS
<1>3. d = Front(p)
  BY <1>1, <1>2 DEF Front
<1>4. \A i \in 1..n : p[i] \in S
  BY <1>1, ElementOfSeq
<1>5. d \in Seq(S) /\ Len(d) = n /\ \A i \in 1..n : d[i] = p[i]
  BY <1>2, <1>4, SubSeqProperties
<1>6. CASE Len(p) = 3
  <2>1. Len(d) = 2 /\ d[1] = p[1] /\ d[2] = p[2]
    BY <1>1, <1>5, <1>6
  <2>2. d = <<d[1], d[2]>>
    BY <1>5, <2>1, Tuples
  <2> QED BY <1>3, <1>5, <1>6, <2>1, <2>2 DEF Last
<1>7. CASE Len(p) = 5
  <2>1. Len(d) = 4 /\ d[1] = p[1] /\ d[2] = p[2] /\ d[3] = p[3] /\ d[4] = p[4]
    BY <1>1, <1>5, <1>7
  <2>2. d = <<d[1], d[2], d[3], d[4]>>
    BY <1>5, <2>1, Tuples
  <2> QED BY <1>3, <1>5, <1>7, <2>1, <2>2 DEF Last
<1> QED BY <1>6, <1>7

(* The executable that the Info.plist in the output names is still the     *)
(* app's.                                                                  *)
LEMMA SameMain ==
    ASSUME Layout, Content, Signed
    PROVE  AppFile(bundle.app, ExecutableOf(output, bundle.app)) = MainExecutable
<1>1. /\ \A p \in DOMAIN files : Has(output, p) /\ ReadFile(output, p) = files[p]
      /\ IsInfo(files, TRUE)
  BY AtTheEnd
<1>2. IsApp(bundle.app) /\ IsBundle(bundle)
  BY AtTheEndOfBundle
<1>3. /\ TheInfo = AppFile(bundle.app, InfoPlist)
      /\ bundle.exec = KeyOr(ReadFile(input, TheInfo).keys, "CFBundleExecutable", NoName)
  BY InfoKept DEF Signed
<1>4. Append(bundle.app, InfoPlist) = TheInfo
  BY <1>2, <1>3, Places
<1>5. /\ TheInfo \in DOMAIN files /\ IsPlist(files[TheInfo])
      /\ SameBut(EditedKeys(request), ReadFile(input, TheInfo).keys, files[TheInfo].keys)
  BY <1>1 DEF IsInfo, IsPlist
<1>6. "CFBundleExecutable" \notin EditedKeys(request)
  BY DEF EditedKeys
<1>7. KeyOr(files[TheInfo].keys, "CFBundleExecutable", NoName) = bundle.exec
  BY <1>3, <1>5, <1>6 DEF SameBut, KeyOr
<1>8. NamedExecutable(output, bundle.app) = bundle.exec
  BY <1>1, <1>4, <1>5, <1>7 DEF NamedExecutable
<1>9. ExecutableOf(output, bundle.app) = bundle.exec
  BY <1>2, <1>8 DEF ExecutableOf, IsBundle
<1>10. In(<<bundle.exec>>) = AppFile(bundle.app, bundle.exec)
  BY <1>2, Places
<1> QED BY <1>9, <1>10 DEF MainExecutable

(* An executable of the output in a framework or an extension is that of a *)
(* component that Discover would find there.                               *)
LEMMA ReachedInComponent ==
    ASSUME Layout, Content, Signed, NEW p \in DOMAIN files, Len(p) = 5, IsPrefix(bundle.app, p),
           NEW name, p[3] = name, IsExecutable(output, p)
    PROVE  \E c \in Components(output, Append(bundle.app, name), p[4].ext) : MainOf(c) = p
<1>1. IsArchive(output) /\ FilesIn(output) = DOMAIN files
  BY AtTheEnd
<1>2. IsApp(bundle.app)
  BY AtTheEndOfBundle
<1>3. PICK i \in DOMAIN output : output[i].path = p /\ ~output[i].dir
  BY <1>1 DEF FilesIn
<1>4. p \in Seq(Names)
  BY <1>1, <1>3 DEF IsArchive
<1>5. p[1] = bundle.app[1] /\ p[2] = bundle.app[2]
  BY <1>2, <1>4, PrefixIs DEF IsApp
<1>6. PICK S, dir : S = Names \cup {name} /\ dir = Append(bundle.app, name)
  OBVIOUS
<1>7. dir \in Seq(S) /\ Len(dir) = 3 /\ p[1] = dir[1] /\ p[2] = dir[2] /\ p[3] = dir[3]
  <2>1. dir \in Seq(Names \cup {name}) /\ AppDirectory(dir, bundle.app, name)
    BY <1>2, <1>6, AppDir
  <2> QED BY <1>5, <1>6, <2>1 DEF AppDirectory
<1>8. PICK x, ext : x = p[4] /\ ext = x.ext /\ x \in Names
  <2>1. 4 \in 1..Len(p)
    OBVIOUS
  <2> QED BY <1>4, <2>1, ElementOfSeq
<1>9. PICK b : b = Front(p)
  OBVIOUS
<1>10. /\ b \in Seq(Names) /\ b = <<p[1], p[2], p[3], p[4]>> /\ Last(p) = p[5]
  BY <1>4, <1>9, FrontIs
<1>11. b = <<dir[1], dir[2], dir[3], x>>
  BY <1>7, <1>8, <1>10
<1>12. Component(output, b) \in Components(output, dir, ext)
  <2>1. /\ Len(output[i].path) >= 4 /\ output[i].path[1] = dir[1] /\ output[i].path[2] = dir[2]
        /\ output[i].path[3] = dir[3] /\ output[i].path[4] = x
    <3>1. Len(p) >= 4 /\ p[1] = dir[1] /\ p[2] = dir[2] /\ p[3] = dir[3] /\ p[4] = x
      BY <1>7, <1>8
    <3> QED BY <1>3, <3>1
  <2>2. Component(output, <<dir[1], dir[2], dir[3], x>>) \in Components(output, dir, ext)
    BY <1>1, <1>7, <1>8, <2>1, ComponentsAre
  <2> QED BY <1>11, <2>2
<1>13. PICK c : c = Component(output, b)
  OBVIOUS
<1>14. c.path = b /\ c.exec = p[5]
  BY <1>9, <1>10, <1>13 DEF Component, IsExecutable
<1>15. MainOf(c) = <<p[1], p[2], p[3], p[4], p[5]>>
  <2>1. Len(b) = 4 /\ b[1] = p[1] /\ b[2] = p[2] /\ b[3] = p[3] /\ b[4] = p[4]
    BY <1>10
  <2>2. c.path \in Seq(Names) /\ Len(c.path) = 4
    BY <1>10, <1>14, <2>1
  <2>3. MainOf(c) = <<c.path[1], c.path[2], c.path[3], c.path[4], c.exec>>
    BY <2>2, MainOfIs
  <2> QED BY <1>14, <2>1, <2>3
<1>16. MainOf(c) = p
  BY <1>4, <1>15, Tuples
<1> QED BY <1>6, <1>8, <1>12, <1>13, <1>16

(***************************************************************************)
(* Whatever the order of the entries of the input, with or without entries *)
(* for directories: of the files of the output, those that lie where the   *)
(* executables of the app and of its frameworks and extensions do, and the *)
(* dylibs in Frameworks/, are code signed in this round, but for dylibs    *)
(* that this round copied.                                                 *)
(***************************************************************************)
THEOREM CodeIsSigned == Spec => []ReachedCodeIsSigned
<1>1. Layout /\ Content /\ CodeIsFresh => ReachedCodeIsSigned
  <2> SUFFICES ASSUME Layout, Content, CodeIsFresh, Signed PROVE ReachedCodeIsSigned
    BY DEF ReachedCodeIsSigned
  <2>1. /\ IsArchive(output) /\ FilesIn(output) = DOMAIN files
        /\ \A p \in DOMAIN files : Has(output, p) /\ ReadFile(output, p) = files[p]
    BY AtTheEnd
  <2>2. IsArchive(input) /\ IsApp(bundle.app)
    BY AtTheEndOfBundle
  <2>3. Fresh(files, MainExecutable)
    BY DEF CodeIsFresh, Signed
  <2>4. \A p : Has(input, p) <=> p \in FilesIn(input)
    BY <2>2, Lookup
  <2>5. ASSUME NEW p \in DOMAIN files, Reached(output, bundle.app, p)
        PROVE  Fresh(files, p) \/ (p \notin FilesIn(input) /\ p \in Copied)
    <3>1. p \in Seq(Names) /\ IsPrefix(bundle.app, p)
      BY <2>1, <2>5 DEF IsArchive, FilesIn, Reached
    <3>2. p[1] = bundle.app[1] /\ p[2] = bundle.app[2]
      BY <2>2, <2>5, <3>1, PrefixIs DEF IsApp, Reached
    <3>3. CASE Len(p) = 3 /\ IsExecutable(output, p)
      <4>1. Last(p) = p[3] /\ Front(p) = <<p[1], p[2]>>
        BY <3>1, <3>3, FrontIs
      <4>2. bundle.app = <<bundle.app[1], bundle.app[2]>>
        BY <2>2, Tuples DEF IsApp
      <4>3. p[3] = ExecutableOf(output, bundle.app)
        BY <3>2, <3>3, <4>1, <4>2 DEF IsExecutable
      <4>4. p = <<p[1], p[2], p[3]>>
        BY <3>1, <3>3, Tuples
      <4>5. p = MainExecutable
        BY <3>2, <4>3, <4>4, SameMain DEF AppFile
      <4> QED BY <2>3, <4>5
    <3>4. CASE Len(p) = 4 /\ p[3] = FrameworksDir /\ p[4].ext = "dylib"
      <4>1. PICK dir : dir = Append(bundle.app, FrameworksDir)
        OBVIOUS
      <4>2. /\ dir \in Seq(Names \cup {FrameworksDir})
            /\ AppDirectory(dir, bundle.app, FrameworksDir)
        BY <2>2, <4>1, AppDir
      <4>3. LooseDylib(output, dir, p)
        BY <2>1, <3>2, <3>4, <4>2 DEF LooseDylib, AppDirectory
      <4>4. Len(dir) = 3
        BY <4>2 DEF AppDirectory
      <4>5. p \in ToSet(Dylibs(output, dir))
        BY <2>1, <4>2, <4>3, <4>4, DylibsAre
      <4> QED BY <4>1, <4>5, DylibSigned
    <3>5. CASE /\ Len(p) = 5 /\ p[3] = FrameworksDir /\ p[4].ext = "framework"
               /\ IsExecutable(output, p)
      <4>1. PICK c \in Components(output, Append(bundle.app, FrameworksDir), "framework") :
                    MainOf(c) = p
        BY <3>1, <3>5, ReachedInComponent
      <4> QED BY <4>1, ComponentSigned
    <3>6. CASE /\ Len(p) = 5 /\ p[3] = PlugInsDir /\ p[4].ext = "appex"
               /\ IsExecutable(output, p)
      <4>1. PICK c \in Components(output, Append(bundle.app, PlugInsDir), "appex") : MainOf(c) = p
        BY <3>1, <3>6, ReachedInComponent
      <4> QED BY <4>1, ComponentSigned
    <3> QED BY <2>5, <3>3, <3>4, <3>5, <3>6 DEF Reached
  <2> QED BY <2>1, <2>3, <2>4, <2>5 DEF ReachedCodeIsSigned, Fresh, Copied
<1> QED BY <1>1, LayoutHolds, ContentHolds, FreshHolds, PTL

-----------------------------------------------------------------------------
(***************************************************************************)
(* What is reported.  Without another app in the archive there is only one *)
(* Info.plist that readSignedAppInfo and getAppVersion can read.           *)
(***************************************************************************)
IsOnly(paths) ==
    \A p \in paths : Len(p) = 3 /\ p[1] = Payload /\ Last(p) = InfoPlist => p = TheInfo

(* They read the only one that there is.                                   *)
LEMMA AppInfoIs ==
    ASSUME NEW es, IsArchive(es), TheInfo \in FilesIn(es), IsOnly(FilesIn(es)),
           IsPlist(ReadFile(es, TheInfo)), IsApp(bundle.app), TheInfo = AppFile(bundle.app, InfoPlist)
    PROVE  AppInfo(es) = ReadFile(es, TheInfo).keys
<1>1. \A i \in InfoEntries(es) : es[i].path = TheInfo
  BY DEF InfoEntries, IsOnly, FilesIn
<1>2. PICK i \in DOMAIN es : es[i].path = TheInfo /\ ~es[i].dir
  BY DEF FilesIn
<1>3. PICK t : t = TheInfo
  OBVIOUS
<1>4. Len(t) = 3 /\ t[1] = Payload /\ Last(t) = InfoPlist
  <2>1. Len(t) = 3 /\ t[1] = bundle.app[1]
    BY <1>3 DEF AppFile
  <2>2. Last(t) = InfoPlist
    BY <1>3, AppPaths
  <2> QED BY <2>1, <2>2 DEF IsApp
<1>5. i \in InfoEntries(es)
  BY <1>2, <1>3, <1>4 DEF InfoEntries
<1>6. InfoEntries(es) \subseteq Nat
  BY Entries DEF InfoEntries
<1>7. Min(InfoEntries(es)) \in InfoEntries(es)
  BY <1>5, <1>6, MinIs
<1>8. es[Min(InfoEntries(es))].path = TheInfo
  BY <1>1, <1>7
<1> QED BY <1>5, <1>8 DEF AppInfo

(* If there is only one app in the input, it is the one that was signed.   *)
LEMMA OnlyApp ==
    ASSUME Layout, pc = "report" \/ Signed, OneApp(input)
    PROVE  /\ bundle.app[2].ext = "app"
           /\ \A i \in DOMAIN input : Len(input[i].path) > 1 /\ input[i].path[1] = Payload
                                         => input[i].path[2] = bundle.app[2]
<1>1. IsArchive(input) /\ Discovers(input) /\ bundle.app = FindAppPath(input)
  BY AtTheEndOfBundle DEF Discover
<1> DEFINE inApp == Below(input, <<Payload>>, "app")
<1>2. inApp # {}
  BY <1>1 DEF Discovers, FindAppPath
<1>3. inApp \subseteq DOMAIN input /\ inApp \subseteq Nat
  BY <1>1, Entries DEF Below
<1>4. PICK k \in DOMAIN input : k \in inApp /\ bundle.app = SubSeq(input[k].path, 1, 2)
  BY <1>1, <1>2, <1>3, MinIs DEF FindAppPath
<1>5. PICK p : p = input[k].path
  OBVIOUS
<1>6. Len(p) >= 2 /\ p[1] = Payload /\ p[2].ext = "app" /\ bundle.app = <<p[1], p[2]>>
  BY <1>1, <1>4, <1>5, BelowPayload
<1>7. p \in Seq(Names) /\ Len(p) \in Nat
  BY <1>1, <1>5, LenProperties DEF IsArchive
<1>8. Len(p) > 1 /\ bundle.app[2] = p[2]
  BY <1>6, <1>7
<1> DEFINE J == {j \in DOMAIN input : Len(input[j].path) > 1 /\ input[j].path[1] = Payload}
           apps == {input[i].path[2] : i \in J}
<1>9. Cardinality(apps) = 1
  BY DEF OneApp
<1>10. IsFiniteSet(apps)
  <2>1. IsFiniteSet(J)
    BY <1>1, Entries, FS_Subset
  <2>2. PICK f : f = [i \in J |-> input[i].path[2]]
    OBVIOUS
  <2>3. \A a \in apps : \E i \in J : a = f[i]
    BY <2>2
  <2> HIDE DEF apps, J
  <2> QED BY <2>1, <2>3, FiniteImage
<1>11. PICK a : apps = {a}
  <2> HIDE DEF apps
  <2> QED BY <1>9, <1>10, FS_Singleton
<1>12. \A i \in J : input[i].path[2] = a
  BY <1>11
<1>13. k \in J
  BY <1>5, <1>6, <1>8
<1>14. bundle.app[2] = a
  BY <1>5, <1>8, <1>12, <1>13
<1> QED BY <1>6, <1>8, <1>12, <1>14

(* With one app in the input, its Info.plist is the only one in the input, *)
(* and the only one in the output.                                         *)
LEMMA InfoIsOnly ==
    ASSUME Layout, Content, pc = "report", OneApp(input)
    PROVE  IsOnly(FilesIn(input)) /\ IsOnly(FilesIn(output))
<1>1. /\ FilesIn(output) = DOMAIN files /\ IsContents(files, {}, SealPlaces) /\ IsTree(files, dirs)
  BY AtTheEnd
<1>2. /\ IsArchive(input) /\ IsApp(bundle.app) /\ IsBundle(bundle)
      /\ SealPlaces = {SealOf(b) : b \in Sealed}
  BY AtTheEndOfBundle
<1>3. TheInfo = AppFile(bundle.app, InfoPlist) /\ TheInfo \in FilesIn(input) /\ request \in Requests
  BY InfoKept DEF Late, Kept
<1>4. PICK t : t = TheInfo
  OBVIOUS
<1>5. t[1] = Payload /\ Len(t) = 3 /\ t[2] = bundle.app[2] /\ t[1] = bundle.app[1]
  BY <1>2, <1>3, <1>4 DEF AppFile, IsApp
<1>9. ASSUME NEW p \in FilesIn(input), Len(p) = 3, p[1] = Payload
      PROVE  p[2] = bundle.app[2]
  <2>1. PICK i \in DOMAIN input : input[i].path = p
    BY DEF FilesIn
  <2>2. Len(p) > 1
    BY <1>9
  <2> QED BY <1>9, <2>1, <2>2, OnlyApp
<1>10. ASSUME NEW p \in FilesIn(input), Len(p) = 3, p[1] = Payload, Last(p) = InfoPlist
       PROVE  p = TheInfo
  <2>1. p[2] = bundle.app[2]
    BY <1>9, <1>10
  <2>2. p[3] = InfoPlist
    BY <1>10 DEF Last
  <2>3. p \in Seq(Names)
    BY <1>2 DEF IsArchive, FilesIn
  <2>4. p = <<p[1], p[2], p[3]>>
    BY <1>10, <2>3, Tuples
  <2> QED BY <1>3, <1>5, <1>10, <2>1, <2>2, <2>4 DEF AppFile
<1>11. ASSUME NEW p \in DOMAIN files, Len(p) = 3, p[1] = Payload, Last(p) = InfoPlist
       PROVE  p = TheInfo
  <2>1. p \in Kept \cup Replaced(request) \cup Copied \cup SealPlaces
    BY <1>1 DEF IsContents
  <2>2. p \notin SealPlaces
    BY <1>2, <1>11, SealPlacesAre
  <2>3. p \notin Copied
    <3> SUFFICES ASSUME NEW n, p = InFrameworks(n) PROVE FALSE
      BY DEF Copied
    <3>1. Len(InFrameworks(n)) = 4
      BY <1>2, Depths
    <3> QED BY <1>11, <3>1
  <2>4. ASSUME NEW n, n # InfoPlist PROVE p # In(<<n>>)
    <3>1. In(<<n>>) = AppFile(bundle.app, n)
      BY <1>2, Places
    <3>2. Last(AppFile(bundle.app, n)) = n
      BY <1>2, AppPaths
    <3> QED BY <1>11, <2>4, <3>1, <3>2
  <2>5. p \notin Replaced(request)
    <3>1. \A i \in Icons(request) : i.name # InfoPlist
      BY <1>3, NamesAssumption DEF Icons, NewFiles
    <3>2. ASSUME NEW b PROVE p # Append(InFrameworks(b), InBundle)
      <4>1. PICK r : r = Append(InFrameworks(b), InBundle)
        OBVIOUS
      <4>2. Len(r) = 5
        BY <1>2, <4>1, Depths
      <4> QED BY <1>11, <4>1, <4>2
    <3>3. ProfileName # InfoPlist
      BY DEF ProfileName, InfoPlist, Name
    <3> QED BY <2>4, <3>1, <3>2, <3>3 DEF Replaced, Profile
  <2>6. p \in FilesIn(input)
    BY <2>1, <2>2, <2>3, <2>5 DEF Kept
  <2> QED BY <1>10, <1>11, <2>6
<1> QED BY <1>1, <1>10, <1>11 DEF IsOnly

(* What an answer has to say of the output.                                *)
Describes(a) ==
    LET keys == ReadFile(output, In(<<InfoPlist>>)).keys
        m == a.manifest
    IN  /\ a.id = KeyOr(keys, "CFBundleIdentifier", "")
        /\ a.name \in {KeyOr(keys, "CFBundleDisplayName", ""), KeyOr(keys, "CFBundleName", "")}
        /\ request.name # "" => a.name = keys.CFBundleDisplayName
        /\ m # NoManifest =>
              /\ m.id = a.id /\ m.title = a.name
              /\ request.version = 0 /\ KeyOr(keys, "CFBundleShortVersionString", 0) # 0
                     => m.version = keys.CFBundleShortVersionString

(* The answer that Report gives says it.                                   *)
LEMMA ReportIs ==
    ASSUME Layout, Content, Report, OneApp(input)
    PROVE  Describes(answer')
<1>1. pc = "report"
  BY DEF Report
<1>2. /\ IsArchive(output) /\ FilesIn(output) = DOMAIN files
      /\ \A p \in DOMAIN files : Has(output, p) /\ ReadFile(output, p) = files[p]
      /\ IsInfo(files, TRUE)
  BY <1>1, AtTheEnd
<1>3. IsArchive(input) /\ IsApp(bundle.app)
  BY <1>1, AtTheEndOfBundle
<1>4. /\ TheInfo = AppFile(bundle.app, InfoPlist) /\ TheInfo \in FilesIn(input)
      /\ IsPlist(ReadFile(input, TheInfo))
  BY <1>1, InfoKept DEF Late, Kept
<1>5. PICK old, new : old = ReadFile(input, TheInfo).keys /\ new = ReadFile(output, TheInfo).keys
  OBVIOUS
<1>6. /\ TheInfo \in FilesIn(output) /\ IsPlist(ReadFile(output, TheInfo))
      /\ SameBut(EditedKeys(request), old, new) /\ AsAsked(request, new)
  BY <1>2, <1>5 DEF IsInfo, IsPlist
<1>7. IsOnly(FilesIn(input)) /\ IsOnly(FilesIn(output))
  BY <1>1, InfoIsOnly
<1>8. AppInfo(input) = old
  BY <1>3, <1>4, <1>5, <1>7, AppInfoIs
<1>9. AppInfo(output) = new
  BY <1>2, <1>3, <1>4, <1>5, <1>6, <1>7, AppInfoIs
<1>10. PICK id, name :
          /\ id = Or(request.id, "", KeyOr(new, "CFBundleIdentifier", ""))
          /\ name = Or(request.name, "", Or(KeyOr(new, "CFBundleName", ""), "",
                                            KeyOr(new, "CFBundleDisplayName", "")))
  OBVIOUS
<1>11. PICK m : m = IF request.createPlist THEN Manifest(id, name) ELSE NoManifest
  OBVIOUS
<1>12. answer' = [success |-> TRUE, id |-> id, name |-> name, manifest |-> m]
  BY <1>9, <1>10, <1>11 DEF Report
<1>13. answer'.id = id /\ answer'.name = name /\ answer'.manifest = m
  BY <1>12
<1>14. id = KeyOr(new, "CFBundleIdentifier", "")
  BY <1>6, <1>10 DEF Or, AsAsked, KeyOr
<1>15. /\ name \in {KeyOr(new, "CFBundleDisplayName", ""), KeyOr(new, "CFBundleName", "")}
       /\ request.name # "" => name = new["CFBundleDisplayName"]
  BY <1>6, <1>10 DEF Or, AsAsked, KeyOr
<1>16. ASSUME m # NoManifest
       PROVE  /\ m.id = id /\ m.title = name
              /\ request.version = 0 /\ KeyOr(new, "CFBundleShortVersionString", 0) # 0
                     => m.version = new["CFBundleShortVersionString"]
  <2>1. m = Manifest(id, name)
    BY <1>11, <1>16
  <2>2. m.id = id /\ m.title = name /\ m.version = Or(GetAppVersion(input), 0, 1)
    BY <2>1 DEF Manifest
  <2>3. ASSUME request.version = 0, KeyOr(new, "CFBundleShortVersionString", 0) # 0
        PROVE  m.version = new["CFBundleShortVersionString"]
    <3>1. "CFBundleShortVersionString" \notin EditedKeys(request)
      BY <2>3 DEF EditedKeys
    <3>2. /\ KeyOr(old, "CFBundleShortVersionString", 0) = new["CFBundleShortVersionString"]
          /\ new["CFBundleShortVersionString"] # 0
      BY <1>6, <2>3, <3>1 DEF SameBut, KeyOr
    <3>3. GetAppVersion(input) = new["CFBundleShortVersionString"]
      BY <1>8, <3>2 DEF GetAppVersion, Or
    <3> QED BY <2>2, <3>2, <3>3 DEF Or
  <2> QED BY <2>2, <2>3
<1>17. new = ReadFile(output, In(<<InfoPlist>>)).keys
  BY <1>5 DEF TheInfo
<1> QED BY <1>13, <1>14, <1>15, <1>16, <1>17 DEF Describes

(***************************************************************************)
(* Whatever the input, if it has one app: the answer and the manifest give *)
(* the identifier, the title and, as far as the input decides it, the      *)
(* version of the app in the output.                                       *)
(***************************************************************************)
THEOREM ReportIsRight == Spec => []ReportDescribesOutput
<1>1. Init => ReportDescribesOutput
  BY DEF Init, ReportDescribesOutput, Signed
<1>2. Layout /\ Content /\ ReportDescribesOutput /\ [Next]_vars => ReportDescribesOutput'
  <2> SUFFICES ASSUME Layout, Content, ReportDescribesOutput, [Next]_vars
               PROVE  ReportDescribesOutput'
    OBVIOUS
  <2>1. ReportDescribesOutput <=> (Signed /\ OneApp(input) => Describes(answer))
    BY DEF ReportDescribesOutput, Describes
  <2>2. CASE Report
    <3>1. UNCHANGED <<round, input, request, bundle, files, dirs, output>>
      BY <2>2 DEF Report
    <3>2. OneApp(input) => Describes(answer')
      BY <2>2, ReportIs
    <3>3. In(<<InfoPlist>>)' = In(<<InfoPlist>>)
      BY <3>1 DEF In
    <3>4. OneApp(input)' => OneApp(input)
      BY <3>1
    <3> QED BY <3>1, <3>2, <3>3, <3>4 DEF ReportDescribesOutput, Describes
  <2>3. CASE Done \/ UNCHANGED vars
    <3>1. UNCHANGED <<pc, input, request, bundle, output, answer>>
      BY <2>3 DEF Done, vars
    <3>2. In(<<InfoPlist>>)' = In(<<InfoPlist>>)
      BY <3>1 DEF In
    <3> QED BY <3>1, <3>2 DEF ReportDescribesOutput, Signed
  <2>4. CASE ~(Report \/ Done \/ UNCHANGED vars)
    <3>1. ~Signed'
      BY <2>4 DEF Next, Open, Extract, ModifyInfoPlist, ReplaceIcon, HandleProfile,
                  CopyIntoFrameworks, Strip, SignNested, SignMain, Fails, Repackage,
                  Again, Begin, Answer, Layout, Signed
    <3> QED BY <3>1 DEF ReportDescribesOutput
  <2> QED BY <2>2, <2>3, <2>4
<1> QED BY <1>1, <1>2, LayoutHolds, ContentHolds, PTL DEF Spec

-----------------------------------------------------------------------------
(***************************************************************************)
(* What is shown.  From ReplaceIcon on the new icons are there, and from   *)
(* CopyIntoFrameworks on the dylibs of the request; and no directory comes *)
(* to be outside of the app that the input does not have.                  *)
(***************************************************************************)
InApp(p) == Len(p) >= 3 /\ p[1] = bundle.app[1] /\ p[2] = bundle.app[2]

IconPlaces == {In(<<i.name>>) : i \in request.icons}

HasIcons(fs) ==
    \A i \in request.icons : In(<<i.name>>) \in DOMAIN fs /\ fs[In(<<i.name>>)] = i.data

NoneOutside(ds) == \A d \in ds : d \in DirsIn(input) \/ InApp(d)

Shown ==
    Unpacked =>
        /\ pc \notin {"plist", "icons"} /\ IconsGoByName(request) => HasIcons(files)
        /\ pc \notin {"plist", "icons", "profile", "copy"} => Copied \subseteq DOMAIN files
        /\ NoneOutside(dirs)

(* What the steps below show of the files and directories that they leave  *)
(* is enough.                                                              *)
LEMMA ShownNext ==
    ASSUME UNCHANGED <<input, request>>, bundle'.app = bundle.app,
           NEW fs, files' = fs, NEW ds, dirs' = ds,
           pc' \notin {"plist", "icons"} /\ IconsGoByName(request) => HasIcons(fs),
           pc' \notin {"plist", "icons", "profile", "copy"} => Copied \subseteq DOMAIN fs,
           NoneOutside(ds)
    PROVE  Shown'
<1>1. Copied' = Copied
  BY Unmoved
<1>2. \A n : In(<<n>>)' = In(<<n>>)
  BY DEF In
<1>3. NoneOutside(dirs)'
  BY DEF NoneOutside, InApp, DirsIn
<1>4. IconsGoByName(request)' => IconsGoByName(request)
  BY DEF IconsGoByName
<1>5. HasIcons(fs) => HasIcons(files)'
  BY <1>2 DEF HasIcons
<1> QED BY <1>1, <1>3, <1>4, <1>5 DEF Shown

(* Where the new icons are: in the directory of the app itself, where the  *)
(* profile, what is copied, what is stripped and the seals are not.        *)
LEMMA IconPlacesAre ==
    ASSUME IsBundle(bundle), request \in Requests, IconsGoByName(request), NEW p \in IconPlaces
    PROVE  /\ Len(p) = 3 /\ p # Profile /\ p \notin RemovedDylibs(request)
           /\ \A paths : p \notin StrippedFrom(paths)
           /\ \A bs \in SUBSET Sealed : p \notin DOMAIN Seals(bs)
<1>1. PICK i \in request.icons : p = In(<<i.name>>)
  BY DEF IconPlaces
<1>2. /\ i.name.ext = "png" /\ i.name \notin request.removeDylibs /\ i.name \in Names
      /\ IsApp(bundle.app)
  BY NamesAssumption DEF IconsGoByName, NewFiles, IsBundle
<1>3. p = AppFile(bundle.app, i.name)
  BY <1>1, <1>2, Places
<1>4. Len(p) = 3 /\ p[3] = i.name /\ InDirectory(p, i.name) /\ p \in Seq(Names)
  <2>1. Len(p) = 3 /\ p[3] = i.name /\ InDirectory(p, i.name)
    BY <1>3 DEF AppFile, InDirectory
  <2> QED BY <1>2, <1>3, <2>1, AppPaths
<1>5. \A n : p = In(<<n>>) => n = i.name
  <2> SUFFICES ASSUME NEW n, p = In(<<n>>) PROVE n = i.name
    OBVIOUS
  <2>1. p = AppFile(bundle.app, n)
    BY <1>2, Places
  <2>2. p[3] = n
    BY <2>1 DEF AppFile
  <2> QED BY <1>4, <2>2
<1>6. p # Profile
  <2>1. ProfileName.ext # "png"
    BY DEF ProfileName, Name
  <2> QED BY <1>2, <1>5, <2>1 DEF Profile
<1>7. p \notin RemovedDylibs(request)
  BY <1>2, <1>5 DEF RemovedDylibs
<1>8. ASSUME NEW paths PROVE p \notin StrippedFrom(paths)
  <2>1. PlugInsDir.ext # "png" /\ WatchDir.ext # "png"
    BY DEF PlugInsDir, WatchDir, Name
  <2>2. i.name \notin {PlugInsDir, WatchDir}
    BY <1>2, <2>1
  <2>3. Len(p) >= 3
    BY <1>4
  <2> QED BY <1>2, <1>4, <2>2, <2>3, StrippedIs
<1>9. ASSUME NEW bs \in SUBSET Sealed PROVE p \notin DOMAIN Seals(bs)
  <2>1. \A q \in DOMAIN Seals(bs) : \E b \in bs : q = SealOf(b)
    BY DEF Seals
  <2>2. \A b \in bs : Len(SealOf(b)) # 3
    BY SealPlacesAre
  <2> QED BY <1>4, <2>1, <2>2
<1> QED BY <1>4, <1>6, <1>7, <1>8, <1>9

(* Writing elsewhere, removing others and signing code leave the icons.    *)
LEMMA IconsLeft ==
    ASSUME NEW fs, HasIcons(fs)
    PROVE  /\ \A w : DOMAIN w \cap IconPlaces = {} => HasIcons(w ++ fs)
           /\ \A gone : gone \cap IconPlaces = {} => HasIcons(Without(fs, gone))
<1>1. ASSUME NEW w, DOMAIN w \cap IconPlaces = {} PROVE HasIcons(w ++ fs)
  <2>1. PICK gs : gs = w ++ fs
    OBVIOUS
  <2>2. Over(gs, w, fs)
    BY <2>1, WrittenOver, Zenon
  <2>3. HasIcons(gs)
    BY <1>1, <2>2 DEF HasIcons, IconPlaces, Over
  <2> QED BY <2>1, <2>3
<1>2. ASSUME NEW gone, gone \cap IconPlaces = {} PROVE HasIcons(Without(fs, gone))
  <2>1. PICK gs : gs = Without(fs, gone)
    OBVIOUS
  <2>2. Remaining(gs, fs, gone)
    BY <2>1, WithoutGone, Zenon
  <2>3. HasIcons(gs)
    BY <1>2, <2>2 DEF HasIcons, IconPlaces, Remaining
  <2> QED BY <2>1, <2>3
<1> QED BY <1>1, <1>2

(* The icons are images, so that they are not signed.                      *)
LEMMA IconsSigned ==
    ASSUME IconsGoByName(request), HasIcons(files), NEW code, \A p \in code : IsCode(p)
    PROVE  HasIcons(SignedFiles(code))
<1>1. PICK fs : fs = SignedFiles(code)
  OBVIOUS
<1>2. DOMAIN fs = DOMAIN files /\ \A p \in DOMAIN files \ code : fs[p] = files[p]
  BY <1>1 DEF SignedFiles
<1>3. ASSUME NEW i \in request.icons PROVE In(<<i.name>>) \notin code
  <2>1. files[In(<<i.name>>)].kind = "png"
    BY DEF HasIcons, IconsGoByName, IsImage
  <2> QED BY <1>3, <2>1 DEF IsCode
<1>4. HasIcons(fs)
  BY <1>2, <1>3 DEF HasIcons
<1> QED BY <1>1, <1>4

(* Where copied dylibs are: not where anything is removed.                 *)
LEMMA CopiedPlaces ==
    ASSUME IsBundle(bundle), request \in Requests, NEW p \in Copied
    PROVE  p \notin RemovedDylibs(request) /\ \A paths : p \notin StrippedFrom(paths)
<1>1. PICK d \in request.dylibs : p = InFrameworks(d)
  BY DEF Copied
<1>2. IsApp(bundle.app) /\ d \in Names
  BY NamesAssumption DEF NewFiles, IsBundle
<1>3. p = FrameworkFile(bundle.app, d)
  BY <1>1, <1>2, Places
<1>4. Len(p) = 4 /\ InDirectory(p, FrameworksDir) /\ p \in Seq(Names)
  <2>1. Len(p) = 4 /\ InDirectory(p, FrameworksDir)
    BY <1>3 DEF FrameworkFile, InDirectory
  <2> QED BY <1>2, <1>3, <2>1, AppPaths
<1>5. p \notin RemovedDylibs(request)
  <2> SUFFICES ASSUME NEW n, p = In(<<n>>) PROVE FALSE
    BY DEF RemovedDylibs
  <2>1. p = AppFile(bundle.app, n)
    BY <1>2, Places
  <2>2. Len(p) # 4
    BY <2>1 DEF AppFile
  <2> QED BY <1>4, <2>2
<1>6. Stays(FrameworksDir)
  BY DEF Stays
<1>7. Len(p) >= 3
  BY <1>4
<1>8. ASSUME NEW paths PROVE p \notin StrippedFrom(paths)
  BY <1>2, <1>4, <1>6, <1>7, StrippedIs
<1> QED BY <1>5, <1>8

(* Nothing is outside of the app in what is unpacked, nor in the app's own *)
(* directories.                                                            *)
LEMMA ShownExtract == Layout /\ (Extract \/ ModifyInfoPlist) /\ Shown => Shown'
<1> SUFFICES ASSUME Layout, Extract \/ ModifyInfoPlist, Shown PROVE Shown'
  OBVIOUS
<1>1. PICK fs, ds : files' = fs /\ dirs' = ds
  OBVIOUS
<1>2. CASE Extract
  <2>1. /\ pc' = "plist" /\ UNCHANGED <<input, request>> /\ bundle'.app = bundle.app
        /\ ds = DirsIn(input)
    BY <1>1, <1>2 DEF Extract
  <2>2. NoneOutside(ds)
    BY <2>1 DEF NoneOutside
  <2> QED BY <1>1, <2>1, <2>2, ShownNext
<1>3. CASE ModifyInfoPlist
  <2>1. /\ pc = "plist" /\ pc' = "icons" /\ UNCHANGED <<input, request>>
        /\ bundle'.app = bundle.app /\ ds = dirs
    BY <1>1, <1>3 DEF ModifyInfoPlist
  <2>2. NoneOutside(ds)
    BY <2>1 DEF Shown, Unpacked, Early
  <2> QED BY <1>1, <2>1, <2>2, ShownNext
<1> QED BY <1>2, <1>3

(* A step before which Shown said something.                               *)
LEMMA ShownBefore ==
    ASSUME Layout, Shown, pc \in (Early \ {"extract"}) \cup Late
    PROVE  /\ IsBundle(bundle) /\ IsApp(bundle.app) /\ request \in Requests
           /\ IsTree(files, dirs) /\ NoneOutside(dirs)
           /\ pc \notin {"plist", "icons"} /\ IconsGoByName(request) => HasIcons(files)
           /\ pc \notin {"plist", "icons", "profile", "copy"} => Copied \subseteq DOMAIN files
BY OnDisk DEF Shown, Unpacked

(* Every icon that is written is the one of its name, as each name is in   *)
(* the map once.                                                           *)
LEMMA ShownIcons == Layout /\ Shown /\ ReplaceIcon => Shown'
<1> SUFFICES ASSUME Layout, Shown, ReplaceIcon PROVE Shown'
  OBVIOUS
<1>1. /\ pc = "icons" /\ pc' = "profile" /\ UNCHANGED <<input, request, bundle, dirs>>
      /\ pc \in (Early \ {"extract"}) \cup Late
  BY DEF ReplaceIcon, Early
<1>2. IsBundle(bundle) /\ IsApp(bundle.app) /\ request \in Requests /\ NoneOutside(dirs)
  BY <1>1, ShownBefore
<1> DEFINE paths == {In(<<i.name>>) : i \in Icons(request)}
           Of(p) == CHOOSE i \in Icons(request) : In(<<i.name>>) = p
<1>3. PICK w : w = [p \in paths |-> Of(p).data]
  OBVIOUS
<1>4. PICK gone : gone = IF request.deleteAssets \/ Icons(request) # {} THEN {AssetsCar} ELSE {}
  OBVIOUS
<1>5. PICK fs, gs : fs = w ++ files /\ gs = Without(fs, gone)
  OBVIOUS
<1>6. files' = gs
  BY <1>3, <1>4, <1>5 DEF ReplaceIcon
<1>7. Over(fs, w, files) /\ Remaining(gs, fs, gone)
  BY <1>5, WrittenOver, WithoutGone, Zenon
<1>8. \A m, n : In(<<m>>) = In(<<n>>) => m = n
  <2> SUFFICES ASSUME NEW m, NEW n, In(<<m>>) = In(<<n>>) PROVE m = n
    OBVIOUS
  <2>1. AppFile(bundle.app, m) = AppFile(bundle.app, n)
    BY <1>2, Places
  <2> QED BY <2>1 DEF AppFile
<1>9. ASSUME IconsGoByName(request) PROVE HasIcons(gs)
  <2> SUFFICES ASSUME NEW i \in request.icons
               PROVE  In(<<i.name>>) \in DOMAIN gs /\ gs[In(<<i.name>>)] = i.data
    BY DEF HasIcons
  <2>1. i \in Icons(request) /\ i.name.ext = "png"
    BY <1>9 DEF IconsGoByName, Icons
  <2>2. PICK p : p = In(<<i.name>>)
    OBVIOUS
  <2>3. Of(p) = i
    <3>1. \A j \in Icons(request) : In(<<j.name>>) = p <=> j = i
      <4> SUFFICES ASSUME NEW j \in Icons(request), In(<<j.name>>) = p PROVE j = i
        BY <2>2
      <4>1. j.name = i.name
        BY <1>8, <2>2
      <4> QED BY <1>2, <2>1, <4>1, RequestsAssumption DEF Icons
    <3> QED BY <2>1, <3>1
  <2>4. p \in paths
    BY <2>1, <2>2
  <2>5. p \in DOMAIN w /\ w[p] = i.data
    BY <1>3, <2>3, <2>4
  <2>6. p \notin gone
    <3>1. PICK a : a = Name(<<"Assets">>, "car")
      OBVIOUS
    <3>2. a.ext = "car"
      BY <3>1 DEF Name
    <3>3. p # In(<<a>>)
      BY <1>8, <2>1, <2>2, <3>2
    <3> QED BY <1>4, <3>1, <3>3 DEF AssetsCar
  <2> HIDE DEF paths, Of
  <2>7. p \in DOMAIN fs /\ fs[p] = w[p]
    BY <1>7, <2>5 DEF Over
  <2>8. p \in DOMAIN gs /\ gs[p] = fs[p]
    BY <1>7, <2>6, <2>7 DEF Remaining
  <2> QED BY <2>2, <2>5, <2>7, <2>8
<1>10. bundle'.app = bundle.app /\ dirs' = dirs
  BY <1>1
<1> QED BY <1>1, <1>2, <1>6, <1>9, <1>10, ShownNext

(* The profile is not an icon.                                             *)
LEMMA ShownProfile == Layout /\ Shown /\ HandleProfile => Shown'
<1> SUFFICES ASSUME Layout, Shown, HandleProfile PROVE Shown'
  OBVIOUS
<1>1. /\ pc = "profile" /\ pc' = "copy" /\ UNCHANGED <<input, request, bundle, dirs>>
      /\ pc \in (Early \ {"extract"}) \cup Late
  BY DEF HandleProfile, Early
<1>2. /\ IsBundle(bundle) /\ request \in Requests /\ NoneOutside(dirs)
      /\ IconsGoByName(request) => HasIcons(files)
  BY <1>1, ShownBefore
<1>3. PICK w : w = [p \in {Profile} |-> [kind |-> "profile", of |-> "request"]]
  OBVIOUS
<1>4. files' \in {w ++ files, Without(files, {Profile}), files}
  BY <1>3 DEF HandleProfile
<1>5. ASSUME IconsGoByName(request) PROVE HasIcons(files')
  <2>1. {Profile} \cap IconPlaces = {}
    BY <1>2, <1>5, IconPlacesAre
  <2>2. DOMAIN w \cap IconPlaces = {}
    BY <1>3, <2>1
  <2>3. HasIcons(w ++ files) /\ HasIcons(Without(files, {Profile}))
    BY <1>2, <1>5, <2>1, <2>2, IconsLeft
  <2> QED BY <1>2, <1>4, <1>5, <2>3
<1>6. PICK fs : files' = fs
  OBVIOUS
<1>7. bundle'.app = bundle.app /\ dirs' = dirs
  BY <1>1
<1> QED BY <1>1, <1>2, <1>5, <1>6, <1>7, ShownNext

(* What is copied is there, as it is no directory; and it is below         *)
(* Frameworks.                                                             *)
LEMMA ShownCopy == Layout /\ Shown /\ CopyIntoFrameworks => Shown'
<1> SUFFICES ASSUME Layout, Shown, CopyIntoFrameworks PROVE Shown'
  OBVIOUS
<1>1. /\ pc = "copy" /\ pc' = "strip" /\ UNCHANGED <<input, request, bundle>>
      /\ pc \in (Early \ {"extract"}) \cup Late
  BY DEF CopyIntoFrameworks, Early
<1>2. /\ IsBundle(bundle) /\ IsApp(bundle.app) /\ request \in Requests
      /\ IsTree(files, dirs) /\ NoneOutside(dirs)
      /\ IconsGoByName(request) => HasIcons(files)
  BY <1>1, ShownBefore
<1> DEFINE bps == {Append(InFrameworks(b), InBundle) : b \in request.bundles}
           dps == {InFrameworks(d) : d \in CopyDylibs(request)}
<1>3. PICK wb, wd : /\ wb = [p \in bps |-> request.bundled]
                    /\ wd = [p \in dps |-> [kind |-> "code", of |-> "request", signed |-> 0]]
  OBVIOUS
<1>4. PICK w, gs : w = wd ++ wb /\ gs = w ++ files
  OBVIOUS
<1>5. files' = gs
  BY <1>3, <1>4 DEF CopyIntoFrameworks
<1>6. Over(w, wd, wb) /\ Over(gs, w, files)
  BY <1>4, WrittenOver, Zenon
<1>7. \A p \in DOMAIN w : Len(p) # 3
  <2>1. ASSUME NEW d PROVE Len(InFrameworks(d)) # 3
    <3>1. Len(InFrameworks(d)) = 4
      BY <1>2, Depths
    <3> QED BY <3>1
  <2>2. ASSUME NEW b PROVE Len(Append(InFrameworks(b), InBundle)) # 3
    <3>1. PICK n : n = Len(Append(InFrameworks(b), InBundle))
      OBVIOUS
    <3>2. n = 5
      BY <1>2, <3>1, Depths
    <3> QED BY <3>1, <3>2
  <2>3. DOMAIN w = dps \cup bps
    BY <1>3, <1>6 DEF Over
  <2> QED BY <2>1, <2>2, <2>3
<1>8. ASSUME IconsGoByName(request) PROVE HasIcons(gs)
  <2>1. DOMAIN w \cap IconPlaces = {}
    BY <1>2, <1>7, <1>8, IconPlacesAre
  <2> QED BY <1>2, <1>4, <1>8, <2>1, IconsLeft
<1>9. Copied \subseteq DOMAIN gs
  <2> SUFFICES ASSUME NEW d \in request.dylibs PROVE InFrameworks(d) \in DOMAIN gs
    BY DEF Copied
  <2>1. d \in NewFiles
    BY <1>2 DEF NewFiles
  <2>2. Last(InFrameworks(d)) = d
    <3>1. InFrameworks(d) = FrameworkFile(bundle.app, d)
      BY <1>2, Places
    <3> QED BY <1>2, <3>1, AppPaths
  <2>3. InFrameworks(d) \notin dirs
    BY <1>2, <2>1, <2>2 DEF IsTree
  <2>4. InFrameworks(d) \in dps \cup DOMAIN files
    BY <2>3 DEF CopyDylibs
  <2> HIDE DEF dps, bps
  <2> QED BY <1>3, <1>6, <2>4 DEF Over
<1>10. PICK ds : ds = dirs'
  OBVIOUS
<1>11. NoneOutside(ds)
  <2>1. ASSUME NEW d \in ds \ dirs PROVE InApp(d)
    <3>1. d \in {InFrameworks(b) : b \in request.bundles} \cup {In(<<FrameworksDir>>)}
      BY <1>10, <2>1 DEF CopyIntoFrameworks
    <3>2. d = In(<<FrameworksDir>>) \/ \E b : d = InFrameworks(b)
      BY <3>1
    <3>3. d = AppFile(bundle.app, FrameworksDir) \/ \E b : d = FrameworkFile(bundle.app, b)
      BY <1>2, <3>2, Places
    <3> QED BY <3>3 DEF AppFile, FrameworkFile, InApp
  <2> QED BY <1>2, <2>1 DEF NoneOutside
<1>12. bundle'.app = bundle.app
  BY <1>1
<1> QED BY <1>1, <1>5, <1>8, <1>9, <1>10, <1>11, <1>12, ShownNext

(* Whole directories that are removed hold neither icons nor dylibs.       *)
LEMMA ShownStrip == Layout /\ Shown /\ Strip => Shown'
<1> SUFFICES ASSUME Layout, Shown, Strip PROVE Shown'
  OBVIOUS
<1>1. /\ pc = "strip" /\ pc' = "nested" /\ UNCHANGED <<input, request>>
      /\ pc \in (Early \ {"extract"}) \cup Late /\ pc \in Early
  BY DEF Strip, Early
<1>2. /\ IsBundle(bundle) /\ request \in Requests /\ NoneOutside(dirs)
      /\ IconsGoByName(request) => HasIcons(files)
      /\ Copied \subseteq DOMAIN files
  BY <1>1, ShownBefore
<1>3. bundle'.app = bundle.app
  <2>1. bundle = Discover(input) /\ IsArchive(input) /\ Discovers(input)
    BY <1>1 DEF Layout
  <2>2. bundle' = AfterStrip(bundle, request)
    BY DEF Strip, AfterStrip
  <2> QED BY <2>1, <2>2, BundleIs
<1>4. PICK gone : gone = StrippedFrom(DOMAIN files)
  OBVIOUS
<1>5. PICK gs, ds : gs = Without(files, gone) /\ ds = dirs \ StrippedFrom(dirs)
  OBVIOUS
<1>6. files' = gs /\ dirs' = ds
  BY <1>4, <1>5 DEF Strip, StrippedFrom
<1>7. ASSUME IconsGoByName(request) PROVE HasIcons(gs)
  <2>1. gone \cap IconPlaces = {}
    BY <1>2, <1>4, <1>7, IconPlacesAre
  <2> QED BY <1>2, <1>5, <1>7, <2>1, IconsLeft
<1>8. Copied \subseteq DOMAIN gs
  <2>1. gone \cap Copied = {}
    BY <1>2, <1>4, CopiedPlaces
  <2>2. Remaining(gs, files, gone)
    BY <1>5, WithoutGone, Zenon
  <2> QED BY <1>2, <2>1, <2>2 DEF Remaining
<1>9. NoneOutside(ds)
  BY <1>2, <1>5 DEF NoneOutside
<1> QED BY <1>1, <1>3, <1>6, <1>7, <1>8, <1>9, ShownNext

(* Seals are put in the app.                                               *)
LEMMA SealDirsAre ==
    ASSUME IsBundle(bundle), NEW b \in Sealed
    PROVE  InApp(SealDir(b))
<1>1. CASE b = bundle.app
  <2>1. IsApp(bundle.app)
    BY DEF IsBundle
  <2>2. SealDir(b) = AppFile(bundle.app, CodeSignatureDir)
    BY <1>1, <2>1, Places
  <2> QED BY <2>2 DEF AppFile, InApp
<1>2. CASE b # bundle.app
  <2>1. PICK c \in bundle.frameworks \cup bundle.plugins : b = c.path
    BY <1>2 DEF Sealed
  <2>2. b \in Seq(Names) /\ Len(b) = 4 /\ b[1] = bundle.app[1] /\ b[2] = bundle.app[2]
    BY <2>1 DEF IsBundle, IsComponent
  <2>3. SealDir(b) = <<b[1], b[2], b[3], b[4], CodeSignatureDir>>
    BY <2>2, PlacesBelow
  <2> QED BY <2>2, <2>3 DEF InApp
<1> QED BY <1>1, <1>2

(* Sealing and signing leave the icons and the dylibs.                     *)
LEMMA ShownSigned ==
    ASSUME Layout, Shown, pc \in {"nested", "main"}, NEW code, \A p \in code : IsCode(p),
           NEW bs \in SUBSET Sealed, NEW gone \in {{}, RemovedDylibs(request)},
           UNCHANGED <<input, request, bundle>>,
           files' = Seals(bs) ++ Without(SignedFiles(code), gone),
           dirs' = dirs \cup {SealDir(b) : b \in bs}
    PROVE  Shown'
<1>1. pc \in (Early \ {"extract"}) \cup Late
  BY DEF Late
<1>2. /\ IsBundle(bundle) /\ request \in Requests /\ NoneOutside(dirs)
      /\ IconsGoByName(request) => HasIcons(files)
      /\ Copied \subseteq DOMAIN files
  BY <1>1, ShownBefore
<1>3. PICK fs, ws, gs : /\ fs = SignedFiles(code) /\ ws = Without(fs, gone)
                        /\ gs = Seals(bs) ++ ws
  OBVIOUS
<1>4. files' = gs
  BY <1>3
<1>5. ASSUME IconsGoByName(request) PROVE HasIcons(gs)
  <2>1. gone \cap IconPlaces = {} /\ DOMAIN Seals(bs) \cap IconPlaces = {}
    BY <1>2, <1>5, IconPlacesAre
  <2>2. HasIcons(fs)
    BY <1>2, <1>3, <1>5, IconsSigned
  <2>3. HasIcons(ws)
    BY <1>3, <2>1, <2>2, IconsLeft
  <2> QED BY <1>3, <2>1, <2>3, IconsLeft
<1>6. Copied \subseteq DOMAIN gs
  <2>1. DOMAIN fs = DOMAIN files
    BY <1>3 DEF SignedFiles
  <2>2. Remaining(ws, fs, gone) /\ Over(gs, Seals(bs), ws)
    BY <1>3, WrittenOver, WithoutGone, Zenon
  <2>3. gone \cap Copied = {}
    BY <1>2, CopiedPlaces
  <2> QED BY <1>2, <2>1, <2>2, <2>3 DEF Remaining, Over
<1>7. PICK ds : dirs' = ds
  OBVIOUS
<1>8. NoneOutside(ds)
  <2>1. \A b \in bs : InApp(SealDir(b))
    BY <1>2, SealDirsAre
  <2> QED BY <1>2, <1>7, <2>1 DEF NoneOutside
<1>9. bundle'.app = bundle.app
  OBVIOUS
<1> QED BY <1>4, <1>5, <1>6, <1>7, <1>8, <1>9, ShownNext

(* A call that fails shows nothing. *)
LEMMA ShownFails == Layout /\ pc # "returned" /\ Fails => Shown'
<1> SUFFICES ASSUME Layout, pc # "returned", Fails PROVE Shown'
  OBVIOUS
<1>1. pc' = "returned" /\ ~answer'.success
  BY DEF Fails, Layout
<1> QED BY <1>1 DEF Shown, Unpacked, Early, Late

(* The components and the app are sealed and signed.                       *)
LEMMA ShownSign == Layout /\ Shown /\ (SignNested \/ SignMain) => Shown'
<1> SUFFICES ASSUME Layout, Shown, SignNested \/ SignMain PROVE Shown'
  OBVIOUS
<1>1. CASE Fails
  BY <1>1, ShownFails DEF SignNested, SignMain
<1>2. CASE SignNested /\ ~Fails
  <2> DEFINE cs == {c \in bundle.frameworks \cup bundle.plugins : Present(c)}
  <2>1. PICK code, bs, gone : /\ code = {MainOf(c) : c \in cs} \cup ToSet(bundle.dylibs)
                              /\ bs = {c.path : c \in cs} /\ gone = {}
    OBVIOUS
  <2>2. \A p \in code : IsCode(p)
    BY <1>2, <2>1 DEF SignNested
  <2>3. /\ pc = "nested" /\ UNCHANGED <<input, request, bundle>>
        /\ files' = Seals(bs) ++ SignedFiles(code)
        /\ dirs' = dirs \cup {SealDir(c.path) : c \in cs}
    BY <1>2, <2>1 DEF SignNested
  <2>4. Without(SignedFiles(code), gone) = SignedFiles(code)
    BY <2>1 DEF Without, SignedFiles
  <2>5. {SealDir(c.path) : c \in cs} = {SealDir(b) : b \in bs}
    BY <2>1
  <2>6. bs \in SUBSET Sealed
    BY <2>1 DEF Sealed
  <2> HIDE DEF cs
  <2> QED BY <2>1, <2>2, <2>3, <2>4, <2>5, <2>6, ShownSigned
<1>3. CASE SignMain /\ ~Fails
  <2>1. PICK code, bs, gone : /\ code = {MainExecutable} /\ bs = {bundle.app}
                              /\ gone = RemovedDylibs(request)
    OBVIOUS
  <2>2. \A p \in code : IsCode(p)
    BY <1>3, <2>1 DEF SignMain
  <2>3. /\ pc = "main" /\ UNCHANGED <<input, request, bundle>>
        /\ files' = Seals(bs) ++ Without(SignedFiles(code), gone)
        /\ dirs' = dirs \cup {SealDir(bundle.app)}
    BY <1>3, <2>1 DEF SignMain
  <2>4. {SealDir(bundle.app)} = {SealDir(b) : b \in bs} /\ bs \in SUBSET Sealed
    BY <2>1 DEF Sealed
  <2> QED BY <2>1, <2>2, <2>3, <2>4, ShownSigned
<1> QED BY <1>1, <1>2, <1>3

(* Archiving and reporting touch no file.                                  *)
LEMMA ShownPacked == Layout /\ Shown /\ (Repackage \/ Report) => Shown'
<1> SUFFICES ASSUME Layout, Shown, Repackage \/ Report PROVE Shown'
  OBVIOUS
<1>1. /\ pc \in {"repackage", "report"} /\ UNCHANGED <<input, request, files, dirs>>
      /\ bundle'.app = bundle.app
  BY DEF Repackage, Report
<1>2. pc \in (Early \ {"extract"}) \cup Late
  BY <1>1 DEF Late
<1>3. PICK fs, ds : fs = files /\ ds = dirs
  OBVIOUS
<1>4. /\ IconsGoByName(request) => HasIcons(fs)
      /\ Copied \subseteq DOMAIN fs /\ NoneOutside(ds)
  BY <1>1, <1>2, <1>3, ShownBefore
<1>5. files' = fs /\ dirs' = ds
  BY <1>1, <1>3
<1> QED BY <1>1, <1>4, <1>5, ShownNext

(* Each step keeps it. *)
LEMMA ShownStep == Layout /\ Shown /\ [Next]_vars => Shown'
<1> SUFFICES ASSUME Layout, Shown, [Next]_vars PROVE Shown'
  OBVIOUS
<1>1. CASE Done \/ UNCHANGED vars
  <2>1. UNCHANGED vars
    BY <1>1 DEF Done
  <2>2. /\ IconsGoByName(request)' = IconsGoByName(request) /\ HasIcons(files)' = HasIcons(files)
        /\ Copied' = Copied /\ NoneOutside(dirs)' = NoneOutside(dirs) /\ Unpacked' = Unpacked
    BY <2>1 DEF vars, IconsGoByName, HasIcons, In, InFrameworks, Copied, NoneOutside, DirsIn,
                InApp, Unpacked
  <2> QED BY <2>1, <2>2 DEF Shown, vars
<1>2. CASE Open \/ Again
  <2>1. pc' \in {"open", "extract", "returned"} /\ ~answer'.success
    BY <1>2 DEF Open, Again, Begin, Answer, Layout
  <2> QED BY <2>1 DEF Shown, Unpacked, Early, Late
<1> QED BY <1>1, <1>2, ShownExtract, ShownIcons, ShownProfile, ShownCopy, ShownStrip,
           ShownSign, ShownPacked DEF Next

(* What is shown is there, at every step. *)
THEOREM ShownHolds == Spec => []Shown
<1>1. Init => Shown
  BY DEF Init, Answer, Shown, Unpacked, Early, Late
<1>2. Layout /\ Shown /\ [Next]_vars => Shown'
  BY ShownStep
<1> QED BY <1>1, <1>2, LayoutHolds, PTL DEF Spec

(* The app that is found, if there is only one.                            *)
LEMMA FoundApp ==
    ASSUME NEW es, IsArchive(es), NEW app, IsApp(app), app[2].ext = "app",
           \A i \in DOMAIN es : Len(es[i].path) >= 2 /\ es[i].path[1] = Payload
                                   => es[i].path[2] = app[2],
           NEW k \in DOMAIN es, Len(es[k].path) >= 2, es[k].path[1] = Payload
    PROVE  FindAppPath(es) = app
<1> DEFINE inApp == Below(es, <<Payload>>, "app")
<1>1. k \in inApp
  BY BelowPayload
<1>2. inApp \subseteq DOMAIN es /\ inApp \subseteq Nat
  BY Entries DEF Below
<1>3. PICK i \in DOMAIN es : i \in inApp /\ FindAppPath(es) = SubSeq(es[i].path, 1, 2)
  BY <1>1, <1>2, MinIs DEF FindAppPath
<1>4. PICK p : p = es[i].path
  OBVIOUS
<1>5. Len(p) >= 2 /\ p[1] = Payload /\ SubSeq(p, 1, 2) = <<p[1], p[2]>>
  BY <1>3, <1>4, BelowPayload
<1>6. p[2] = app[2]
  BY <1>4, <1>5
<1>7. app = <<app[1], app[2]>> /\ app[1] = Payload
  BY Tuples DEF IsApp
<1> QED BY <1>3, <1>4, <1>5, <1>6, <1>7

(* It is the only one in the output as well.                               *)
LEMMA OnlyAppInOutput ==
    ASSUME Layout, Content, Shown, Signed, OneApp(input),
           NEW p \in DOMAIN files \cup dirs, Len(p) > 1, p[1] = Payload
    PROVE  p[2] = bundle.app[2]
<1>1. IsContents(files, {}, SealPlaces) /\ IsTree(files, dirs)
  BY AtTheEnd
<1>2. /\ IsArchive(input) /\ IsApp(bundle.app) /\ IsBundle(bundle)
      /\ SealPlaces = {SealOf(b) : b \in Sealed}
  BY AtTheEndOfBundle
<1>3. ASSUME NEW i \in DOMAIN input, NEW q, q = input[i].path, Len(q) > 1, q[1] = Payload
      PROVE  q[2] = bundle.app[2]
  BY <1>3, OnlyApp
<1>4. CASE p \in FilesIn(input)
  <2>1. PICK i \in DOMAIN input : p = input[i].path
    BY <1>4 DEF FilesIn
  <2> QED BY <1>3, <2>1
<1>5. CASE p \in DirsIn(input)
  <2>1. PICK i \in DOMAIN input : p = input[i].path \/ p \in Parents(input[i].path)
    BY <1>5 DEF DirsIn
  <2>2. PICK q : q = input[i].path
    OBVIOUS
  <2>3. q \in Seq(Names) /\ Len(q) \in Nat
    BY <1>2, <2>2, LenProperties DEF IsArchive
  <2>4. CASE p \in Parents(q)
    <3>1. p \in Seq(Names) /\ Len(p) < Len(q) /\ IsStrictPrefix(p, q)
      BY <2>3, <2>4, ParentsAre
    <3>2. \A j \in 1..Len(p) : p[j] = q[j]
      BY <2>3, <3>1, StrictPrefixIs
    <3>3. Len(p) \in Nat
      BY <3>1, LenProperties
    <3>4. Len(q) > 1 /\ q[1] = p[1] /\ q[2] = p[2]
      BY <2>3, <3>1, <3>2, <3>3
    <3> QED BY <1>3, <2>2, <3>4
  <2> QED BY <1>3, <2>1, <2>2, <2>4
<1>6. CASE p \notin FilesIn(input) \cup DirsIn(input)
  <2>1. InApp(p) \/ p \in Replaced(request) \cup Copied \cup SealPlaces
    <3>1. CASE p \in dirs
      BY <1>6, <3>1 DEF Shown, Unpacked, Signed, NoneOutside
    <3>2. CASE p \in DOMAIN files
      BY <1>1, <1>6, <3>2 DEF IsContents, Kept
    <3> QED BY <3>1, <3>2
  <2>2. ASSUME NEW n PROVE In(<<n>>)[2] = bundle.app[2] /\ InFrameworks(n)[2] = bundle.app[2]
    <3>1. In(<<n>>) = AppFile(bundle.app, n) /\ InFrameworks(n) = FrameworkFile(bundle.app, n)
      BY <1>2, Places
    <3> QED BY <3>1 DEF AppFile, FrameworkFile
  <2>3. ASSUME NEW r, NEW b, r = Append(InFrameworks(b), InBundle) PROVE r[2] = bundle.app[2]
    <3>1. PICK d : d = InFrameworks(b)
      OBVIOUS
    <3>2. d = FrameworkFile(bundle.app, b)
      BY <1>2, <3>1, Places
    <3>3. d \in Seq({d[1], d[2], d[3], d[4]}) /\ Len(d) = 4 /\ d[2] = bundle.app[2]
      BY <3>2 DEF FrameworkFile
    <3>4. r = <<d[1], d[2], d[3], d[4], InBundle>>
      BY <2>3, <3>1, <3>3, Longer
    <3> QED BY <3>3, <3>4
  <2>4. ASSUME NEW b \in Sealed PROVE SealOf(b)[2] = bundle.app[2]
    <3>1. CASE b = bundle.app
      <4>1. SealOf(b) = <<bundle.app[1], bundle.app[2], CodeSignatureDir, CodeResources>>
        BY <1>2, <3>1, Places
      <4> QED BY <4>1
    <3>2. CASE b # bundle.app
      <4>1. PICK c \in bundle.frameworks \cup bundle.plugins : b = c.path
        BY <3>2 DEF Sealed
      <4>2. b \in Seq(Names) /\ Len(b) = 4 /\ b[2] = bundle.app[2]
        BY <1>2, <4>1 DEF IsBundle, IsComponent
      <4>3. SealOf(b) = <<b[1], b[2], b[3], b[4], CodeSignatureDir, CodeResources>>
        BY <4>2, PlacesBelow
      <4> QED BY <4>2, <4>3
    <3> QED BY <3>1, <3>2
  <2>5. \A q \in Replaced(request) : q[2] = bundle.app[2]
    <3> SUFFICES ASSUME NEW q \in Replaced(request) PROVE q[2] = bundle.app[2]
      OBVIOUS
    <3>1. CASE \E n : q = In(<<n>>)
      BY <2>2, <3>1
    <3>2. CASE \E b : q = Append(InFrameworks(b), InBundle)
      BY <2>3, <3>2
    <3>3. (\E n : q = In(<<n>>)) \/ \E b : q = Append(InFrameworks(b), InBundle)
      BY Zenon DEF Replaced, Profile
    <3> QED BY <3>1, <3>2, <3>3
  <2>6. \A q \in Copied \cup SealPlaces : q[2] = bundle.app[2]
    BY <1>2, <2>2, <2>4 DEF Copied
  <2> QED BY <2>1, <2>5, <2>6 DEF InApp
<1> QED BY <1>4, <1>5, <1>6

(* So that it is the one that the phone finds.                             *)
LEMMA SameApp ==
    ASSUME Layout, Content, Shown, Signed, OneApp(input)
    PROVE  Discover(output).app = bundle.app
<1>1. /\ IsArchive(output) /\ FilesIn(output) = DOMAIN files /\ DirsIn(output) = dirs
      /\ Packed(output, files, dirs) /\ IsInfo(files, TRUE)
  BY AtTheEnd
<1>2. IsApp(bundle.app) /\ bundle.app[2].ext = "app"
  BY AtTheEndOfBundle, OnlyApp
<1>3. \A i \in DOMAIN output : Len(output[i].path) >= 2 /\ output[i].path[1] = Payload
                                  => output[i].path[2] = bundle.app[2]
  <2> SUFFICES ASSUME NEW i \in DOMAIN output, NEW p, p = output[i].path,
                      Len(p) >= 2, p[1] = Payload
               PROVE  p[2] = bundle.app[2]
    OBVIOUS
  <2>1. p \in DOMAIN files \cup dirs
    BY <1>1 DEF Packed
  <2>2. p \in Seq(Names) /\ Len(p) \in Nat
    BY <1>1, LenProperties DEF IsArchive
  <2>3. Len(p) > 1
    BY <2>2
  <2> QED BY <2>1, <2>3, OnlyAppInOutput
<1>4. PICK k \in DOMAIN output : output[k].path = TheInfo
  BY <1>1 DEF IsInfo, Packed
<1>5. PICK t : t = TheInfo
  OBVIOUS
<1>6. t = AppFile(bundle.app, InfoPlist)
  BY <1>5, InfoKept DEF Signed
<1>7. Len(t) >= 2 /\ t[1] = Payload
  BY <1>2, <1>6 DEF AppFile, IsApp
<1>8. FindAppPath(output) = bundle.app
  BY <1>1, <1>2, <1>3, <1>4, <1>5, <1>7, FoundApp
<1> QED BY <1>8 DEF Discover

(* Every loose dylib is seen once, by its own name, and all those that     *)
(* were copied are.                                                        *)
LEMMA DylibsShown ==
    ASSUME Layout, Content, Shown, Signed,
           NEW found, found = Dylibs(output, Append(bundle.app, FrameworksDir)),
           NEW seen, seen = [i \in DOMAIN found |-> Last(found[i])]
    PROVE  IsInjective(seen) /\ {d \in request.dylibs : d.ext = "dylib"} \subseteq ToSet(seen)
<1>1. /\ IsArchive(output) /\ FilesIn(output) = DOMAIN files /\ Packed(output, files, dirs)
  BY AtTheEnd
<1>2. IsApp(bundle.app) /\ Copied \subseteq DOMAIN files
  BY AtTheEndOfBundle DEF Shown, Unpacked, Signed
<1>3. PICK S, dir : S = Names \cup {FrameworksDir} /\ dir = Append(bundle.app, FrameworksDir)
  OBVIOUS
<1>4. dir \in Seq(Names \cup {FrameworksDir}) /\ AppDirectory(dir, bundle.app, FrameworksDir)
  BY <1>2, <1>3, AppDir
<1>5. dir \in Seq(S) /\ Len(dir) = 3
  BY <1>3, <1>4 DEF AppDirectory
<1>6. \A p : p \in ToSet(found) <=> LooseDylib(output, dir, p)
  BY <1>1, <1>3, <1>5, DylibsAre
<1>7. \A i \in DOMAIN found : found[i] \in ToSet(found)
  BY DEF ToSet
<1>8. \A i \in DOMAIN found : i \in DOMAIN output /\ found[i] = output[i].path
  BY DEF Dylibs, Below
<1>9. ASSUME NEW p, LooseDylib(output, dir, p)
      PROVE  Last(p) = p[4] /\ p = <<dir[1], dir[2], dir[3], p[4]>>
  <2>1. p \in Seq(Names) /\ Len(p) = 4
    BY <1>1, <1>9 DEF LooseDylib, IsArchive, FilesIn
  <2>2. p = <<p[1], p[2], p[3], p[4]>>
    BY <2>1, Tuples
  <2>3. Last(p) = p[4]
    BY <2>1 DEF Last
  <2> QED BY <1>9, <2>2, <2>3 DEF LooseDylib
<1>10. ASSUME NEW i \in DOMAIN found, NEW j \in DOMAIN found, seen[i] = seen[j]
       PROVE  i = j
  <2>1. PICK p, q : p = found[i] /\ q = found[j]
    OBVIOUS
  <2>2. LooseDylib(output, dir, p) /\ LooseDylib(output, dir, q) /\ Last(p) = Last(q)
    BY <1>6, <1>7, <1>10, <2>1
  <2>3. p = q
    BY <1>9, <2>2
  <2>4. i \in DOMAIN output /\ j \in DOMAIN output /\ output[i].path = output[j].path
    BY <1>8, <2>1, <2>3
  <2> QED BY <1>1, <2>4 DEF Packed
<1>11. IsInjective(seen)
  BY <1>10 DEF IsInjective
<1>12. ASSUME NEW d \in request.dylibs, d.ext = "dylib" PROVE d \in ToSet(seen)
  <2>1. PICK p : p = InFrameworks(d)
    OBVIOUS
  <2>2. p = FrameworkFile(bundle.app, d) /\ p \in FilesIn(output)
    BY <1>1, <1>2, <2>1, Places DEF Copied
  <2>3. LooseDylib(output, dir, p) /\ p[4] = d
    BY <1>4, <1>12, <2>2 DEF LooseDylib, AppDirectory, FrameworkFile
  <2>4. Last(p) = d
    BY <1>9, <2>3
  <2>5. p \in ToSet(found)
    BY <1>6, <2>3
  <2>6. PICK i \in DOMAIN found : p = found[i]
    BY <2>5 DEF ToSet
  <2> QED BY <2>4, <2>6 DEF ToSet
<1> QED BY <1>11, <1>12

(* Of finitely many entries one is the last of the largest.                *)
LEMMA Largest ==
    ASSUME NEW I, I \subseteq Nat, IsFiniteSet(I), I # {}, NEW s \in [I -> Nat]
    PROVE  \E i \in I : \A j \in I : s[j] < s[i] \/ (s[j] = s[i] /\ j <= i)
<1> DEFINE Better(i) == {j \in I : s[i] < s[j] \/ (s[i] = s[j] /\ i < j)}
           counts == {Cardinality(Better(i)) : i \in I}
<1>1. \A i \in I : IsFiniteSet(Better(i)) /\ Cardinality(Better(i)) \in Nat
  BY FS_Subset, FS_CardinalityType
<1>2. counts \subseteq Nat /\ counts # {}
  BY <1>1
<1>3. PICK m \in counts : \A n \in counts : m <= n
  BY <1>2, Smallest
<1>4. PICK i \in I : m = Cardinality(Better(i))
  BY <1>3
<1>5. ASSUME NEW j \in Better(i) PROVE FALSE
  <2>1. j \in I /\ Better(j) \in SUBSET Better(i) /\ j \notin Better(j)
    <3>1. j \in I /\ j \notin Better(j) /\ i \in Nat /\ j \in Nat /\ s[i] \in Nat /\ s[j] \in Nat
      OBVIOUS
    <3>2. ASSUME NEW k \in Better(j) PROVE k \in Better(i)
      <4>1. k \in I /\ k \in Nat /\ s[k] \in Nat
        BY <3>2
      <4> QED BY <3>1, <3>2, <4>1
    <3> QED BY <3>1, <3>2
  <2>2. /\ Cardinality(Better(j)) <= Cardinality(Better(i))
        /\ Cardinality(Better(i)) = Cardinality(Better(j)) => Better(i) = Better(j)
    BY <1>1, <2>1, FS_Subset
  <2>3. Cardinality(Better(i)) # Cardinality(Better(j))
    BY <2>1, <2>2
  <2>4. Cardinality(Better(j)) \in counts
    BY <2>1
  <2>5. Cardinality(Better(j)) \in Nat /\ Cardinality(Better(i)) \in Nat
    BY <1>1, <2>1
  <2> HIDE DEF Better, counts
  <2>6. Cardinality(Better(i)) <= Cardinality(Better(j))
    BY <1>3, <1>4, <2>4
  <2> QED BY <2>2, <2>3, <2>5, <2>6
<1>6. ASSUME NEW j \in I PROVE s[j] < s[i] \/ (s[j] = s[i] /\ j <= i)
  <2>1. j \notin Better(i)
    BY <1>5
  <2>2. i \in Nat /\ j \in Nat /\ s[i] \in Nat /\ s[j] \in Nat
    OBVIOUS
  <2> QED BY <2>1, <2>2
<1> QED BY <1>6

GoesBy(name, p) ==
    /\ Len(p) = 3 /\ p[1] = bundle.app[1] /\ p[2] = bundle.app[2]
    /\ p[3].ext = "png" /\ IsPrefix(name, p[3].stem)

(* The entries that an icon is chosen from, when it goes by one name.      *)
LEMMA IconEntriesAre ==
    ASSUME NEW es, IsArchive(es), IsApp(bundle.app), NEW name, NEW i \in DOMAIN es,
           NEW p, p = es[i].path
    PROVE  i \in IconEntries(es, bundle.app, <<name>>) <=> ~es[i].dir /\ GoesBy(name, p)
<1>1. p \in Seq(Names) /\ Len(p) \in Nat /\ bundle.app \in Seq(Names) /\ Len(bundle.app) = 2
  BY LenProperties DEF IsArchive, IsApp
<1>2. IsStrictPrefix(bundle.app, p) <=> 2 < Len(p) /\ \A j \in 1..2 : bundle.app[j] = p[j]
  <2>1. PICK app : app = bundle.app
    OBVIOUS
  <2>2. app \in Seq(Names) /\ p \in Seq(Names)
    BY <1>1, <2>1
  <2>3. IsStrictPrefix(app, p) <=> Len(app) < Len(p) /\ \A j \in 1..Len(app) : app[j] = p[j]
    BY <2>2, StrictPrefixIs
  <2> QED BY <1>1, <2>1, <2>3
<1>3. (\A j \in 1..2 : bundle.app[j] = p[j]) <=> p[1] = bundle.app[1] /\ p[2] = bundle.app[2]
  OBVIOUS
<1>4. Len(bundle.app) + 1 = 3 /\ (Len(p) = 3 => 2 < Len(p) /\ Last(p) = p[3])
  BY <1>1 DEF Last
<1>5. PICK names : names = <<name>>
  OBVIOUS
<1>6. names # <<>> /\ \A n : (\E j \in DOMAIN names : IsPrefix(names[j], n)) <=> IsPrefix(name, n)
  BY <1>5
<1>7. i \in IconEntries(es, bundle.app, names) <=>
          /\ IsStrictPrefix(bundle.app, p) /\ Len(p) = Len(bundle.app) + 1 /\ ~es[i].dir
          /\ Last(p).ext = "png" /\ IsPrefix(name, Last(p).stem)
  BY <1>6 DEF IconEntries
<1>8. i \in IconEntries(es, bundle.app, names) <=>
          /\ 2 < Len(p) /\ p[1] = bundle.app[1] /\ p[2] = bundle.app[2] /\ Len(p) = 3
          /\ ~es[i].dir /\ Last(p).ext = "png" /\ IsPrefix(name, Last(p).stem)
  BY <1>2, <1>3, <1>4, <1>7
<1> QED BY <1>4, <1>5, <1>8 DEF GoesBy

ByName(p) == p \in DOMAIN files /\ GoesBy(request.iconName, p)

(* What goes by the icon's name in the output is new, or an old one that   *)
(* is smaller than a new one.                                              *)
LEMMA OldOrNew ==
    ASSUME Layout, Content, Shown, Signed, IconsGoByName(request), OldIconsAreSmaller(request),
           NEW p, ByName(p)
    PROVE  \/ \E i \in request.icons : p = In(<<i.name>>) /\ files[p] = i.data
           \/ /\ files[p].size \in Nat
              /\ \E i \in request.icons : files[p].size < i.data.size
<1>1. IsContents(files, {}, SealPlaces) /\ IsTree(files, dirs)
  BY AtTheEnd
<1>2. /\ IsArchive(input) /\ IsApp(bundle.app) /\ IsBundle(bundle)
      /\ SealPlaces = {SealOf(b) : b \in Sealed}
  BY AtTheEndOfBundle
<1>3. HasIcons(files) /\ request \in Requests /\ TheInfo = AppFile(bundle.app, InfoPlist)
  BY InfoKept DEF Shown, Unpacked, Signed
<1>4. p \in DOMAIN files /\ Len(p) = 3 /\ p[3].ext = "png"
  BY DEF ByName, GoesBy
<1>5. \A n : p = In(<<n>>) => p[3] = n
  <2> SUFFICES ASSUME NEW n, p = In(<<n>>) PROVE p[3] = n
    OBVIOUS
  <2>1. p = AppFile(bundle.app, n)
    BY <1>2, Places
  <2> QED BY <2>1 DEF AppFile
<1>6. CASE p \in IconPlaces
  BY <1>3, <1>6 DEF IconPlaces, HasIcons
<1>7. CASE p \notin IconPlaces
  <2>1. p \notin Replaced(request)
    <3>1. ASSUME NEW b PROVE p # Append(InFrameworks(b), InBundle)
      <4>1. PICK r : r = Append(InFrameworks(b), InBundle)
        OBVIOUS
      <4>2. Len(r) = 5
        BY <1>2, <4>1, Depths
      <4> QED BY <1>4, <4>1, <4>2
    <3>2. ProfileName.ext # "png"
      BY DEF ProfileName, Name
    <3>3. p # Profile
      BY <1>4, <1>5, <3>2 DEF Profile
    <3>4. \A i \in Icons(request) : p # In(<<i.name>>)
      BY <1>7 DEF Icons, IconPlaces
    <3> QED BY <3>1, <3>3, <3>4 DEF Replaced
  <2>2. p \notin Copied
    <3> SUFFICES ASSUME NEW n, p = InFrameworks(n) PROVE FALSE
      BY DEF Copied
    <3>1. Len(InFrameworks(n)) = 4
      BY <1>2, Depths
    <3> QED BY <1>4, <3>1
  <2>3. p \notin SealPlaces
    <3>1. \A b \in Sealed : Len(SealOf(b)) # 3
      BY <1>2, SealPlacesAre
    <3> QED BY <1>2, <1>4, <3>1
  <2>4. p # TheInfo
    <3>1. InfoPlist.ext # "png"
      BY DEF InfoPlist, Name
    <3> QED BY <1>4, <1>5, <3>1 DEF TheInfo
  <2>5. p \in Kept /\ SameBut({"signed"}, ReadFile(input, p), files[p])
    BY <1>1, <1>4, <2>1, <2>2, <2>3, <2>4 DEF IsContents
  <2>6. PICK k \in DOMAIN input : /\ input[k].path = p /\ ~input[k].dir
                                  /\ ReadFile(input, p) = input[k].data
    BY <1>2, <2>5, Lookup DEF Kept
  <2>7. k \in IconEntries(input, bundle.app, <<request.iconName>>)
    BY <1>2, <2>6, IconEntriesAre DEF ByName
  <2>8. /\ IsImage(input[k].data)
        /\ \E i \in request.icons : input[k].data.size < i.data.size
    BY <2>7 DEF OldIconsAreSmaller
  <2>9. files[p].size = input[k].data.size
    BY <2>5, <2>6, <2>8 DEF SameBut, IsImage
  <2> QED BY <2>8, <2>9 DEF IsImage
<1> QED BY <1>6, <1>7

(* The icon that is chosen is a new one.                                   *)
LEMMA IconShown ==
    ASSUME Layout, Content, Shown, Signed, request.icons # {}, IconsGoByName(request),
           OldIconsAreSmaller(request), NEW keys, AsAsked(request, keys)
    PROVE  ExtractIcon(output, bundle.app, keys) \in {i.data : i \in request.icons}
<1>1. /\ IsArchive(output) /\ FilesIn(output) = DOMAIN files
      /\ \A p \in DOMAIN files : Has(output, p) /\ ReadFile(output, p) = files[p]
      /\ Packed(output, files, dirs) /\ IsTree(files, dirs)
  BY AtTheEnd
<1>2. IsApp(bundle.app) /\ HasIcons(files)
  BY AtTheEndOfBundle DEF Shown, Unpacked, Signed
<1>3. PICK prefixes : prefixes = <<request.iconName>>
  OBVIOUS
<1>4. IconPrefixes(keys) = prefixes
  <2>1. IconName(request) = request.iconName /\ request.iconName # <<>>
    BY DEF IconName, IconsGoByName
  <2>2. "CFBundleIcons" \in DOMAIN keys /\ keys["CFBundleIcons"] = [files |-> <<request.iconName>>]
    BY <2>1 DEF AsAsked
  <2>3. keys["CFBundleIcons"].files = prefixes
    BY <1>3, <2>2
  <2> QED BY <2>2, <2>3 DEF IconPrefixes
<1>5. PICK icons : icons = IconEntries(output, bundle.app, prefixes)
  OBVIOUS
<1>6. ASSUME NEW k \in DOMAIN output, NEW p, p = output[k].path
      PROVE  k \in icons <=> ~output[k].dir /\ GoesBy(request.iconName, p)
  BY <1>1, <1>2, <1>3, <1>5, <1>6, IconEntriesAre
<1>7. icons \subseteq DOMAIN output
  BY <1>5 DEF IconEntries
<1>8. IsFiniteSet(icons) /\ icons \subseteq Nat
  BY <1>1, <1>7, Entries, FS_Subset
<1>9. ASSUME NEW k \in icons
      PROVE  /\ ByName(output[k].path) /\ output[k].data = files[output[k].path]
             /\ ReadFile(output, output[k].path) = files[output[k].path]
  <2>1. PICK p : p = output[k].path
    OBVIOUS
  <2>2. k \in DOMAIN output /\ ~output[k].dir /\ GoesBy(request.iconName, p)
    BY <1>6, <1>7, <2>1
  <2>3. p \in FilesIn(output)
    BY <2>1, <2>2 DEF FilesIn
  <2> QED BY <1>1, <2>1, <2>2, <2>3 DEF ByName, Packed
<1>10. ASSUME NEW i \in request.icons
       PROVE  \E k \in icons : output[k].data = i.data
  <2>1. PICK p : p = In(<<i.name>>)
    OBVIOUS
  <2>2. p \in FilesIn(output) /\ files[p] = i.data /\ p = AppFile(bundle.app, i.name)
    BY <1>1, <1>2, <2>1, Places DEF HasIcons
  <2>3. PICK k \in DOMAIN output : output[k].path = p /\ ~output[k].dir
    BY <2>2 DEF FilesIn
  <2>4. GoesBy(request.iconName, p)
    BY <2>2 DEF IconsGoByName, GoesBy, AppFile
  <2>5. k \in icons
    BY <1>6, <2>3, <2>4
  <2> QED BY <1>9, <2>2, <2>3, <2>5
<1>11. \A i \in request.icons : i.data.size \in Nat
  BY DEF IconsGoByName, IsImage
<1>12. ASSUME NEW k \in icons
       PROVE  /\ output[k].data.size \in Nat
              /\ \/ ReadFile(output, output[k].path) \in {i.data : i \in request.icons}
                 \/ \E i \in request.icons : output[k].data.size < i.data.size
  <2>1. PICK p : p = output[k].path
    OBVIOUS
  <2>2. ByName(p) /\ output[k].data = files[p] /\ ReadFile(output, p) = files[p]
    BY <1>9, <2>1
  <2>3. \/ \E i \in request.icons : p = In(<<i.name>>) /\ files[p] = i.data
        \/ /\ files[p].size \in Nat
           /\ \E i \in request.icons : files[p].size < i.data.size
    BY <2>2, OldOrNew
  <2> QED BY <1>11, <2>1, <2>2, <2>3
<1> DEFINE IsBest(i) == \A j \in icons :
                            \/ output[j].data.size < output[i].data.size
                            \/ output[j].data.size = output[i].data.size /\ j <= i
<1>13. \E i \in icons : IsBest(i)
  <2>1. PICK s : s = [k \in icons |-> output[k].data.size]
    OBVIOUS
  <2>2. s \in [icons -> Nat]
    BY <1>12, <2>1
  <2>3. icons # {}
    BY <1>10
  <2>4. \E i \in icons : \A j \in icons : s[j] < s[i] \/ (s[j] = s[i] /\ j <= i)
    BY <1>8, <2>2, <2>3, Largest
  <2> QED BY <2>1, <2>4
<1>14. PICK best \in icons : /\ IsBest(best)
                             /\ ExtractIcon(output, bundle.app, keys)
                                   = ReadFile(output, output[best].path)
  <2>1. PICK best : best = CHOOSE i \in icons : IsBest(i)
    OBVIOUS
  <2>2. best \in icons /\ IsBest(best)
    BY <1>13, <2>1
  <2>3. ExtractIcon(output, bundle.app, keys) = ReadFile(output, output[best].path)
    BY <1>4, <1>5, <1>13, <2>1 DEF ExtractIcon
  <2> QED BY <2>2, <2>3
<1>15. ASSUME NEW i \in request.icons, output[best].data.size < i.data.size PROVE FALSE
  <2>1. PICK k \in icons : output[k].data = i.data
    BY <1>10
  <2>2. output[k].data.size \in Nat /\ output[best].data.size \in Nat
    BY <1>12
  <2> QED BY <1>14, <1>15, <2>1, <2>2
<1> QED BY <1>12, <1>14, <1>15

(* The asset catalogue is gone.                                            *)
LEMMA AssetsGone ==
    ASSUME Layout, Content, Signed, request.icons # {}, IconsGoByName(request)
    PROVE  AssetsCar \notin DOMAIN files
<1>1. IsContents(files, {}, SealPlaces)
  BY AtTheEnd
<1>2. /\ IsApp(bundle.app) /\ IsBundle(bundle) /\ SealPlaces = {SealOf(b) : b \in Sealed}
  BY AtTheEndOfBundle
<1>3. PICK name, p : name = Name(<<"Assets">>, "car") /\ p = In(<<name>>)
  OBVIOUS
<1>4. p = AppFile(bundle.app, name) /\ AssetsCar = p
  BY <1>2, <1>3, Places DEF AssetsCar
<1>5. Len(p) = 3 /\ p[3] = name /\ name.ext = "car"
  BY <1>3, <1>4 DEF AppFile, Name
<1>6. \A n : p = In(<<n>>) => n = name
  <2> SUFFICES ASSUME NEW n, p = In(<<n>>) PROVE n = name
    OBVIOUS
  <2>1. p = AppFile(bundle.app, n)
    BY <1>2, Places
  <2>2. p[3] = n
    BY <2>1 DEF AppFile
  <2> QED BY <1>5, <2>2
<1>7. p \notin Kept
  <2>1. Icons(request) # {}
    BY DEF IconsGoByName, Icons
  <2> QED BY <1>4, <2>1 DEF Kept, ToGo
<1>8. p \notin Replaced(request)
  <2>1. ASSUME NEW b PROVE p # Append(InFrameworks(b), InBundle)
    <3>1. PICK r : r = Append(InFrameworks(b), InBundle)
      OBVIOUS
    <3>2. Len(r) = 5
      BY <1>2, <3>1, Depths
    <3> QED BY <1>5, <3>1, <3>2
  <2>2. ProfileName.ext # "car"
    BY DEF ProfileName, Name
  <2>3. p # Profile
    BY <1>5, <1>6, <2>2 DEF Profile
  <2>4. \A i \in Icons(request) : p # In(<<i.name>>)
    <3>1. \A i \in Icons(request) : i.name.ext = "png"
      BY DEF Icons, IconsGoByName
    <3> QED BY <1>5, <1>6, <3>1
  <2> QED BY <2>1, <2>3, <2>4 DEF Replaced
<1>9. p \notin Copied
  <2> SUFFICES ASSUME NEW n, p = InFrameworks(n) PROVE FALSE
    BY DEF Copied
  <2>1. Len(InFrameworks(n)) = 4
    BY <1>2, Depths
  <2> QED BY <1>5, <2>1
<1>10. p \notin SealPlaces
  <2>1. \A b \in Sealed : Len(SealOf(b)) # 3
    BY <1>2, SealPlacesAre
  <2> QED BY <1>2, <1>5, <2>1
<1> QED BY <1>1, <1>4, <1>7, <1>8, <1>9, <1>10 DEF IsContents

(* A dylib that is extracted is the input's of that name, signed in this   *)
(* round; what was not in the input was copied.                            *)
LEMMA DylibsExtracted ==
    ASSUME Layout, Content, CodeIsFresh, Signed, NEW found, found = Discover(output),
           found.dylibs = Dylibs(output, Append(bundle.app, FrameworksDir)),
           NEW k \in DOMAIN found.dylibs, NEW d, d = Last(found.dylibs[k])
    PROVE  IF Has(input, InFrameworks(d))
           THEN /\ ExtractDylibs(output)[d].signed = round
                /\ SameBut({"signed"}, ReadFile(input, InFrameworks(d)), ExtractDylibs(output)[d])
           ELSE d \in request.dylibs
<1>1. /\ IsArchive(output) /\ FilesIn(output) = DOMAIN files
      /\ \A p \in DOMAIN files : Has(output, p) /\ ReadFile(output, p) = files[p]
      /\ IsContents(files, {}, SealPlaces)
  BY AtTheEnd
<1>2. /\ IsArchive(input) /\ IsApp(bundle.app) /\ IsBundle(bundle)
      /\ SealPlaces = {SealOf(b) : b \in Sealed}
  BY AtTheEndOfBundle
<1>3. PICK S, dir : S = Names \cup {FrameworksDir} /\ dir = Append(bundle.app, FrameworksDir)
  OBVIOUS
<1>4. dir \in Seq(Names \cup {FrameworksDir}) /\ AppDirectory(dir, bundle.app, FrameworksDir)
  BY <1>2, <1>3, AppDir
<1>5. dir \in Seq(S) /\ Len(dir) = 3
  BY <1>3, <1>4 DEF AppDirectory
<1>6. PICK f : f = found.dylibs
  OBVIOUS
<1>7. \A p : p \in ToSet(f) <=> LooseDylib(output, dir, p)
  BY <1>1, <1>3, <1>5, <1>6, DylibsAre
<1>8. ASSUME NEW i \in DOMAIN f, Last(f[i]) = d
      PROVE  /\ f[i] = InFrameworks(d) /\ f[i] \in ToSet(f) /\ f[i] \in DOMAIN files
             /\ Len(f[i]) = 4 /\ f[i] \in Seq(Names) /\ InDirectory(f[i], FrameworksDir)
  <2>1. PICK p : p = f[i]
    OBVIOUS
  <2>2. p \in ToSet(f)
    BY <2>1 DEF ToSet
  <2>3. LooseDylib(output, dir, p)
    BY <1>7, <2>2
  <2>4. p \in Seq(Names) /\ Len(p) = 4 /\ p \in FilesIn(output)
    BY <1>1, <2>3 DEF LooseDylib, IsArchive, FilesIn
  <2>5. p = <<p[1], p[2], p[3], p[4]>>
    BY <2>4, Tuples
  <2>6. p[4] = d
    BY <1>8, <2>1, <2>4 DEF Last
  <2>7. p[1] = bundle.app[1] /\ p[2] = bundle.app[2] /\ p[3] = FrameworksDir
    BY <1>4, <2>3 DEF LooseDylib, AppDirectory
  <2>8. InFrameworks(d) = FrameworkFile(bundle.app, d)
    BY <1>2, Places
  <2>9. p = InFrameworks(d)
    BY <2>5, <2>6, <2>7, <2>8 DEF FrameworkFile
  <2> QED BY <1>1, <2>1, <2>2, <2>4, <2>7, <2>9 DEF InDirectory
<1>9. PICK p : p = InFrameworks(d)
  OBVIOUS
<1>10. /\ p \in ToSet(f) /\ p \in DOMAIN files /\ Len(p) = 4 /\ p \in Seq(Names)
       /\ InDirectory(p, FrameworksDir)
  BY <1>6, <1>8, <1>9
<1>11. (p \in FilesIn(input) => Fresh(files, p)) /\ (p \notin FilesIn(input) => p \in Copied)
  BY <1>6, <1>10, DylibSigned
<1>12. Len(p) = 4 /\ p[3] = FrameworksDir
  BY <1>10 DEF InDirectory
<1>13. CASE p \in FilesIn(input)
  <2>1. ExtractDylibs(output)[d] = files[p]
    <3>1. PICK j : j = CHOOSE i \in DOMAIN f : Last(f[i]) = d
      OBVIOUS
    <3>2. j \in DOMAIN f /\ Last(f[j]) = d
      BY <1>6, <3>1
    <3>3. d \in {Last(f[i]) : i \in DOMAIN f}
      BY <3>2
    <3>4. ExtractDylibs(output)[d] = ReadFile(output, f[j])
      BY <1>6, <3>1, <3>3 DEF ExtractDylibs
    <3>5. f[j] = p
      BY <1>8, <1>9, <3>2
    <3> QED BY <1>1, <1>10, <3>4, <3>5
  <2>2. ASSUME NEW n PROVE p # In(<<n>>)
    <3>1. Len(In(<<n>>)) = 3
      BY <1>2, Depths
    <3> QED BY <1>12, <3>1
  <2>3. p \notin StrippedFrom(FilesIn(input))
    <3>1. Len(p) >= 3
      BY <1>10
    <3> QED BY <1>2, <1>10, <3>1, StrippedIs DEF Stays
  <2>4. p \in Kept /\ p # TheInfo
    BY <1>13, <2>2, <2>3 DEF Kept, ToGo, RemovedDylibs, AssetsCar, Profile, TheInfo
  <2>5. p \notin Replaced(request)
    <3>1. ASSUME NEW b PROVE p # Append(InFrameworks(b), InBundle)
      <4>1. PICK r : r = Append(InFrameworks(b), InBundle)
        OBVIOUS
      <4>2. Len(r) = 5
        BY <1>2, <4>1, Depths
      <4> QED BY <1>12, <4>1, <4>2
    <3> QED BY <2>2, <3>1 DEF Replaced, Profile
  <2>6. p \notin SealPlaces
    <3>1. FrameworksDir # CodeSignatureDir
      BY DEF FrameworksDir, CodeSignatureDir, Name
    <3> QED BY <1>2, <1>12, <3>1, SealPlacesAre
  <2>7. SameBut({"signed"}, ReadFile(input, p), files[p])
    BY <1>1, <2>4, <2>5, <2>6 DEF IsContents
  <2> QED BY <1>2, <1>9, <1>11, <1>13, <2>1, <2>7, Lookup DEF Fresh
<1>14. CASE p \notin FilesIn(input)
  <2>1. PICK n \in request.dylibs : p = InFrameworks(n)
    BY <1>11, <1>14 DEF Copied
  <2>2. FrameworkFile(bundle.app, n) = FrameworkFile(bundle.app, d)
    BY <1>2, <1>9, <2>1, Places
  <2>3. n = d
    BY <2>2 DEF FrameworkFile
  <2> QED BY <1>2, <1>9, <1>14, <2>1, <2>3, Lookup
<1> QED BY <1>13, <1>14

(***************************************************************************)
(* Whatever the input, if it has one app, and whatever the request: the    *)
(* phone shows the name, the identifier and the version that were asked    *)
(* for, every dylib once with all that were copied, extracts those of the  *)
(* input as they were signed, and shows a new icon where nothing that the  *)
(* code leaves unchecked stands against it.                                *)
(***************************************************************************)
THEOREM InspectionShowsEdits == Spec => []InspectShowsEdits
<1>1. ASSUME Layout, Content, Shown, CodeIsFresh PROVE InspectShowsEdits
  <2> SUFFICES ASSUME Signed, OneApp(input) PROVE InspectShowsEdits
    BY DEF InspectShowsEdits
  <2>1. PICK found, seen : found = Discover(output) /\ seen = Inspect(output)
    OBVIOUS
  <2>2. /\ found.app = bundle.app
        /\ found.dylibs = Dylibs(output, Append(bundle.app, FrameworksDir))
    BY <1>1, <2>1, SameApp DEF Discover
  <2>3. /\ IsArchive(output) /\ FilesIn(output) = DOMAIN files
        /\ \A p \in DOMAIN files : Has(output, p) /\ ReadFile(output, p) = files[p]
        /\ IsInfo(files, TRUE)
    BY <1>1, AtTheEnd
  <2>4. IsApp(bundle.app) /\ TheInfo = AppFile(bundle.app, InfoPlist)
    BY <1>1, AtTheEndOfBundle, InfoKept DEF Signed
  <2>5. PICK keys : keys = ReadFile(output, Append(found.app, InfoPlist)).keys
    OBVIOUS
  <2>6. AsAsked(request, keys)
    <3>1. Append(found.app, InfoPlist) = TheInfo
      BY <2>2, <2>4, Places
    <3>2. keys = files[TheInfo].keys
      BY <2>3, <2>5, <3>1 DEF IsInfo
    <3> QED BY <2>3, <3>2 DEF IsInfo
  <2>7. /\ seen.name = Or(KeyOr(keys, "CFBundleDisplayName", ""), "",
                          KeyOr(keys, "CFBundleName", ""))
        /\ seen.id = KeyOr(keys, "CFBundleIdentifier", "")
        /\ seen.version = Or(KeyOr(keys, "CFBundleShortVersionString", 0), 0,
                             KeyOr(keys, "CFBundleVersion", 0))
        /\ seen.icon = ExtractIcon(output, found.app, keys)
        /\ seen.dylibs = [i \in DOMAIN found.dylibs |-> Last(found.dylibs[i])]
        /\ seen.assets = Has(output, Append(found.app, Name(<<"Assets">>, "car")))
    BY <2>1, <2>5 DEF Inspect
  <2>8. /\ request.id # "" => seen.id = request.id
        /\ request.name # "" => seen.name = request.name
        /\ request.version # 0 => seen.version = request.version
    BY <2>6, <2>7 DEF AsAsked, KeyOr, Or
  <2>9. ASSUME request.icons # {}, IconsGoByName(request), OldIconsAreSmaller(request)
        PROVE  seen.icon \in {i.data : i \in request.icons} /\ ~seen.assets
    <3>1. seen.icon \in {i.data : i \in request.icons}
      BY <1>1, <2>2, <2>6, <2>7, <2>9, IconShown
    <3>2. AssetsCar \notin FilesIn(output)
      BY <1>1, <2>3, <2>9, AssetsGone
    <3>3. Append(found.app, Name(<<"Assets">>, "car")) = AssetsCar
      BY <2>2, <2>4, Places DEF AssetsCar
    <3>4. ~Has(output, AssetsCar)
      BY <2>3, <3>2, Lookup
    <3> QED BY <2>7, <3>1, <3>3, <3>4
  <2>10. /\ IsInjective(seen.dylibs)
         /\ {d \in request.dylibs : d.ext = "dylib"} \subseteq ToSet(seen.dylibs)
    BY <1>1, <2>2, <2>7, DylibsShown
  <2>11. ASSUME NEW d \in ToSet(seen.dylibs)
         PROVE  IF Has(input, InFrameworks(d))
                THEN /\ ExtractDylibs(output)[d].signed = round
                     /\ SameBut({"signed"}, ReadFile(input, InFrameworks(d)),
                                ExtractDylibs(output)[d])
                ELSE d \in request.dylibs
    <3>1. PICK s : s = seen.dylibs
      OBVIOUS
    <3>2. DOMAIN s = DOMAIN found.dylibs /\ \A i \in DOMAIN s : s[i] = Last(found.dylibs[i])
      BY <2>7, <3>1
    <3>3. PICK k \in DOMAIN s : d = s[k]
      BY <2>11, <3>1 DEF ToSet
    <3>4. k \in DOMAIN found.dylibs /\ d = Last(found.dylibs[k])
      BY <3>2, <3>3
    <3> QED BY <1>1, <2>1, <2>2, <3>4, DylibsExtracted
  <2> QED BY <2>1, <2>8, <2>9, <2>10, <2>11 DEF InspectShowsEdits
<1> QED BY <1>1, LayoutHolds, ContentHolds, ShownHolds, FreshHolds, PTL
===============================================================================
