------------------------- MODULE CodeResourcesProofs -------------------------
(***************************************************************************)
(* The entries of CodeResources do not depend on the order in which Go     *)
(* ranges over the rules, whatever the rules are, as long as no two of the *)
(* same weight disagree on a file (TiesAgree); the default dictionaries    *)
(* are such rules, and list what the README says.                          *)
(***************************************************************************)
EXTENDS DefaultResources, TLAPS

(* What the loop has decided of the current file. *)
Deciding(r) == best = Weight(r) /\ omit = r.omit /\ optional = r.optional

(* A rule that gives no weight weighs 1. *)
LEMMA WeightIsNat == \A r \in Rule : Weight(r) \in Nat
  BY RulesAssumption DEF Weight

(* While the walk goes on, it is at a path. *)
LEMMA WalkIsOfPaths ==
  ASSUME TypeOK, at <= Len(Walk)
  PROVE  Current \in Path
  BY RulesAssumption DEF TypeOK, Current

(* Matching starts over with all the rules and nothing decided. *)
LEMMA MatchStarts ==
  ASSUME NEW d \in Dicts, Match(d), UNCHANGED at, TypeOK,
         at <= Len(Walk), Current \notin Excluded
  PROVE  /\ dict' \in {0} \cup Dicts /\ todo' \subseteq Rule
         /\ best' \in Nat \cup {-1} /\ omit' \in BOOLEAN /\ optional' \in BOOLEAN
         /\ LoopInPlace'
  <1>1. Rules[d] \subseteq Rule
    BY RulesAssumption
  <1>2. SeenRules' = {}
    BY <1>1 DEF Match, SeenRules, Dicts, Current
  <1> QED
    BY <1>1, <1>2 DEF Match, LoopInPlace, Current, Dicts

(* When the loop is over a heaviest matching rule has decided. *)
LEMMA HeaviestDecides ==
  ASSUME ResourcesInvariant, dict # 0, todo = {}
  PROVE  /\ dict \in Dicts
         /\ Current \in Path
         /\ \E r \in Rules[dict] : Heaviest(r, dict, Current) /\ Deciding(r)
  <1>1. dict \in Dicts /\ Current \in Path /\ at <= Len(Walk)
    BY WalkIsOfPaths DEF ResourcesInvariant, TypeOK, LoopInPlace
  <1>2. SeenRules = Matching[Current] \cap Rules[dict]
    BY DEF SeenRules
  <1>3. SeenRules # {}
    BY <1>1, <1>2, TiesAgree
  <1>4. PICK r \in SeenRules : Deciding(r) /\ \A s \in SeenRules : Weight(s) <= best
    BY <1>3 DEF ResourcesInvariant, LoopInPlace, Deciding
  <1> QED
    BY <1>1, <1>2, <1>4 DEF Heaviest, Deciding

-----------------------------------------------------------------------------
(* Before the walk, nothing is decided and no file is listed. *)
LEMMA InitEstablishes == Init => ResourcesInvariant
  <1> SUFFICES ASSUME Init PROVE ResourcesInvariant
    OBVIOUS
  <1>1. TypeOK
    <2>1. Len(Walk) \in Nat
      BY RulesAssumption
    <2>2. at \in 1..(Len(Walk) + 1) /\ dict \in {0} \cup Dicts /\ todo \subseteq Rule
          /\ best \in Nat \cup {-1}
      BY <2>1 DEF Init
    <2>3. omit \in BOOLEAN /\ optional \in BOOLEAN
      BY DEF Init
    <2>4. files \in [Dicts -> SUBSET Entry]
      BY DEF Init
    <2> QED
      BY <2>2, <2>3, <2>4 DEF TypeOK
  <1>2. LoopInPlace /\ FirstListed
    BY DEF Init, LoopInPlace, FirstListed
  <1>3. EntriesFollowHeaviestRule /\ NothingForgotten
    BY DEF Init, EntriesFollowHeaviestRule, NothingForgotten
  <1> QED
    BY <1>1, <1>2, <1>3 DEF ResourcesInvariant

(* The walk goes on to a path: excluded, or to be matched. *)
LEMMA VisitPreserves ==
  ASSUME ResourcesInvariant, Visit
  PROVE  ResourcesInvariant'
  <1> USE DEF ResourcesInvariant
  <1>0. /\ at \in 1..(Len(Walk) + 1) /\ Len(Walk) \in Nat /\ at <= Len(Walk)
        /\ UNCHANGED files
    BY RulesAssumption DEF TypeOK, Visit
  <1>1. CASE Current \in Excluded
    <2>1. at' = at + 1 /\ UNCHANGED <<dict, todo, best, omit, optional>> /\ dict = 0
      BY <1>1 DEF Visit
    <2>2. TypeOK' /\ LoopInPlace' /\ FirstListed'
      BY <1>0, <2>1 DEF TypeOK, LoopInPlace, FirstListed
    <2>3. EntriesFollowHeaviestRule'
      BY <1>0, <2>1 DEF EntriesFollowHeaviestRule, Heaviest
    <2>4. NothingForgotten'
      <3>1. \A i \in 1..(at' - 1) : i \in 1..(at - 1) \/ i = at
        BY <1>0, <2>1
      <3> QED
        BY <1>0, <1>1, <2>1, <3>1
           DEF NothingForgotten, Listed, Heaviest, Current
    <2> QED
      BY <2>2, <2>3, <2>4
  <1>2. CASE Current \notin Excluded
    <2>1. Match(1) /\ at' = at
      BY <1>2 DEF Visit
    <2>2. TypeOK' /\ LoopInPlace'
      BY <1>0, <1>2, <2>1, MatchStarts DEF TypeOK, Dicts
    <2>3. FirstListed'
      BY <2>1 DEF FirstListed, Match
    <2>4. EntriesFollowHeaviestRule' /\ NothingForgotten'
      BY <1>0, <2>1 DEF EntriesFollowHeaviestRule, NothingForgotten, Heaviest, Listed
    <2> QED
      BY <2>2, <2>3, <2>4
  <1> QED
    BY <1>1, <1>2

(* After one more rule the loop still holds the flags of a heaviest one. *)
LEMMA TryRulePreserves ==
  ASSUME ResourcesInvariant, NEW r \in Rule, TryRule(r)
  PROVE  ResourcesInvariant'
  <1> USE DEF ResourcesInvariant
  <1>0. /\ dict \in Dicts /\ dict # 0 /\ r \in todo /\ todo' = todo \ {r}
        /\ UNCHANGED <<at, dict, files>> /\ todo \subseteq Rules[dict]
        /\ Rules[dict] \subseteq Rule /\ UNCHANGED Current
    BY RulesAssumption DEF TypeOK, TryRule, LoopInPlace, Current
  <1>1. TypeOK'
    BY <1>0, RulesAssumption, WeightIsNat DEF TypeOK, TryRule
  <1>2. SeenRules' = SeenRules \cup ({r} \cap Matching[Current])
    BY <1>0 DEF SeenRules
  <1>3. LoopInPlace'
    <2>1. SeenRules \subseteq Rule /\ (\A s \in SeenRules : Weight(s) \in Nat)
      BY <1>0, WeightIsNat DEF SeenRules
    <2>2. CASE Beats(r)
      <3>1. /\ SeenRules' = SeenRules \cup {r} /\ Weight(r) > best
            /\ best' = Weight(r) /\ omit' = r.omit /\ optional' = r.optional
        BY <1>2, <2>2 DEF Beats, TryRule
      <3>2. \A s \in SeenRules : Weight(s) <= best
        BY <1>0 DEF LoopInPlace
      <3>3. best \in Nat \cup {-1} /\ Weight(r) \in Nat
        BY WeightIsNat DEF TypeOK
      <3>4. \A s \in SeenRules' : Weight(s) <= best'
        BY <3>1, <3>2, <3>3, <2>1
      <3> QED
        BY <1>0, <3>1, <3>4 DEF LoopInPlace
    <2>3. CASE r \in Matching[Current] /\ ~Beats(r)
      <3>1. SeenRules' = SeenRules \cup {r} /\ UNCHANGED <<best, omit, optional>>
        BY <1>2, <2>3 DEF TryRule
      <3>2. Weight(r) <= best /\ best # -1
        BY <2>3, WeightIsNat DEF Beats, TypeOK
      <3> QED
        BY <1>0, <3>1, <3>2 DEF LoopInPlace
    <2>4. CASE r \notin Matching[Current]
      <3>1. SeenRules' = SeenRules /\ UNCHANGED <<best, omit, optional>>
        BY <1>2, <2>4 DEF TryRule, Beats
      <3> QED
        BY <1>0, <3>1 DEF LoopInPlace
    <2> QED
      BY <2>2, <2>3, <2>4
  <1>4. FirstListed' /\ EntriesFollowHeaviestRule' /\ NothingForgotten'
    BY <1>0 DEF FirstListed, EntriesFollowHeaviestRule, NothingForgotten,
                Heaviest, Listed
  <1> QED
    BY <1>1, <1>3, <1>4

(* An entry is recorded with the flags that the loop has arrived at. *)
LEMMA RecordPreserves ==
  ASSUME ResourcesInvariant, Record
  PROVE  ResourcesInvariant'
  <1> USE DEF ResourcesInvariant
  <1>0. /\ dict \in Dicts /\ dict # 0 /\ todo = {} /\ at <= Len(Walk)
        /\ Current \in Path /\ Current \notin Excluded
        /\ at \in 1..(Len(Walk) + 1) /\ Len(Walk) \in Nat
    BY RulesAssumption, HeaviestDecides DEF Record, TypeOK, LoopInPlace
  <1>1. PICK r \in Rules[dict] : Heaviest(r, dict, Current) /\ Deciding(r)
    BY <1>0, HeaviestDecides
  <1>2. files' = IF omit THEN files ELSE [files EXCEPT ![dict] = @ \cup {Recorded}]
    BY DEF Record
  <1>3. /\ Recorded \in Entry /\ Recorded.path = Current
        /\ Recorded.optional = (dict = 2 /\ optional)
    <2>1. optional \in BOOLEAN /\ dict \in {1, 2}
      BY <1>0 DEF TypeOK, Dicts
    <2>2. (IF dict = 1 THEN FALSE ELSE optional) \in BOOLEAN
      BY <2>1
    <2>3. Recorded \in Entry
      BY <1>0, <2>2 DEF Recorded, Entry
    <2>4. Recorded.path = Current
      BY DEF Recorded
    <2>5. Recorded.optional = IF dict = 1 THEN FALSE ELSE optional
      BY DEF Recorded
    <2>6. (IF dict = 1 THEN FALSE ELSE optional) = (dict = 2 /\ optional)
      <3>1. CASE dict = 1
        <4>1. dict # 2
          BY <3>1
        <4> QED
          BY <3>1, <4>1, Zenon
      <3>2. CASE dict = 2
        <4>1. dict # 1
          BY <3>2
        <4> QED
          BY <2>1, <3>2, <4>1, Zenon
      <3> QED
        BY <2>1, <3>1, <3>2
    <2> QED
      BY <2>3, <2>4, <2>5, <2>6
  <1>4. /\ files' \in [Dicts -> SUBSET Entry]
        /\ \A d \in Dicts : files[d] \subseteq files'[d]
        /\ \A d \in Dicts : \A e \in files'[d] :
              e \in files[d] \/ (~omit /\ d = dict /\ e = Recorded)
        /\ ~omit => Recorded \in files'[dict]
    BY <1>0, <1>2, <1>3 DEF TypeOK
  <1>5. EntriesFollowHeaviestRule'
    <2> SUFFICES ASSUME NEW d \in Dicts, NEW e \in files'[d]
                 PROVE  /\ e.path \notin Excluded
                        /\ \E s \in Rules[d] : /\ Heaviest(s, d, e.path)
                                               /\ ~s.omit
                                               /\ e.optional = (d = 2 /\ s.optional)
      BY DEF EntriesFollowHeaviestRule, Heaviest
    <2>1. CASE e \in files[d]
      BY <2>1 DEF EntriesFollowHeaviestRule
    <2>2. CASE ~omit /\ d = dict /\ e = Recorded
      BY <1>0, <1>1, <1>3, <2>2 DEF Deciding
    <2> QED
      BY <1>4, <2>1, <2>2
  (* What the loop decided is what every heaviest rule says. *)
  <1>6. \A s \in Rules[dict] : Heaviest(s, dict, Current) /\ ~s.omit =>
           \E e \in files'[dict] : e.path = Current
    <2> SUFFICES ASSUME NEW s \in Rules[dict], Heaviest(s, dict, Current), ~s.omit
                 PROVE  \E e \in files'[dict] : e.path = Current
      OBVIOUS
    <2>1. Weight(s) \in Nat /\ Weight(r) \in Nat
      BY <1>0, RulesAssumption, WeightIsNat
    <2>2. Weight(s) = Weight(r)
      BY <1>1, <2>1 DEF Heaviest
    <2>3. s.omit = r.omit
      BY <1>0, <1>1, <2>2, TiesAgree DEF Heaviest
    <2> QED
      BY <1>1, <1>3, <1>4, <2>3 DEF Deciding
  <1>7. \A d \in Dicts, p \in Path : Listed(d, p) => Listed(d, p)'
    BY <1>4 DEF Listed
  <1>8. CASE dict = 1
    <2>1. Match(2) /\ UNCHANGED at
      BY <1>8 DEF Record, Second
    <2>2. TypeOK' /\ LoopInPlace'
      BY <1>0, <1>4, <2>1, MatchStarts DEF TypeOK, Dicts
    <2>3. FirstListed'
      BY <1>6, <1>8, <2>1 DEF FirstListed, Heaviest, Listed, Current, Match
    <2>4. NothingForgotten'
      <3>1. \A i \in 1..(at - 1) : Walk[i] \in Path
        BY <1>0, RulesAssumption
      <3> QED
        BY <2>1, <3>1, <1>7 DEF NothingForgotten, Heaviest
    <2> QED
      BY <1>5, <2>2, <2>3, <2>4
  <1>9. CASE dict = 2
    <2>1. dict' = 0 /\ at' = at + 1 /\ UNCHANGED <<todo, best, omit, optional>>
      BY <1>9 DEF Record
    <2>2. TypeOK' /\ LoopInPlace' /\ FirstListed'
      BY <1>0, <1>4, <2>1 DEF TypeOK, LoopInPlace, FirstListed
    <2>3. NothingForgotten'
      <3> SUFFICES ASSUME NEW i \in 1..at, NEW d \in Dicts, NEW s \in Rules[d],
                          Walk[i] \notin Excluded, Heaviest(s, d, Walk[i]), ~s.omit
                   PROVE  Listed(d, Walk[i])'
        BY <1>0, <2>1 DEF NothingForgotten, Heaviest
      <3>1. Walk[i] \in Path
        BY <1>0, RulesAssumption
      <3>2. CASE i \in 1..(at - 1)
        BY <3>1, <3>2, <1>7 DEF NothingForgotten
      <3>3. CASE i = at /\ d = 1
        <4>1. Listed(1, Current)
          BY <1>9, <3>3 DEF FirstListed, Current
        <4>2. Listed(1, Walk[i])
          BY <3>3, <4>1 DEF Current
        <4> QED
          BY <3>1, <3>3, <4>2, <1>7
      <3>4. CASE i = at /\ d = 2
        <4>1. \E e \in files'[dict] : e.path = Current
          BY <1>6, <1>9, <3>4 DEF Current
        <4> QED
          BY <1>9, <3>4, <4>1 DEF Current, Listed
      <3> QED
        BY <1>0, <3>2, <3>3, <3>4 DEF Dicts
    <2> QED
      BY <1>5, <2>2, <2>3
  <1> QED
    BY <1>0, <1>8, <1>9 DEF Dicts

(***************************************************************************)
(* The invariant of the matching loops of coderesources.Generate holds for *)
(* every bundle, every table of rules and every order of iteration.        *)
(***************************************************************************)
THEOREM ResourcesKept == Spec => []ResourcesInvariant
  <1>1. ResourcesInvariant /\ [Next]_vars => ResourcesInvariant'
    <2> SUFFICES ASSUME ResourcesInvariant, [Next]_vars PROVE ResourcesInvariant'
      OBVIOUS
    <2>1. CASE Visit
      BY <2>1, VisitPreserves
    <2>2. ASSUME NEW r \in Rule, TryRule(r) PROVE ResourcesInvariant'
      BY <2>2, TryRulePreserves
    <2>3. CASE Record
      BY <2>3, RecordPreserves
    <2>4. CASE UNCHANGED vars
      BY <2>4 DEF vars, ResourcesInvariant, TypeOK, LoopInPlace, FirstListed,
                  EntriesFollowHeaviestRule, NothingForgotten, SeenRules, Current,
                  Heaviest, Listed
    <2> QED
      BY <2>1, <2>2, <2>3, <2>4 DEF Next, Done
  <1> QED
    BY <1>1, InitEstablishes, PTL DEF Spec

(***************************************************************************)
(* An entry of CodeResources follows the heaviest rule of its dictionary   *)
(* that its path matches (matchRulesV1, matchRulesV2).                     *)
(***************************************************************************)
THEOREM HeaviestRuleDecides == Spec => []EntriesFollowHeaviestRule
  <1>1. ResourcesInvariant => EntriesFollowHeaviestRule
    BY DEF ResourcesInvariant
  <1> QED
    BY <1>1, ResourcesKept, PTL

(***************************************************************************)
(* A file that the heaviest rule of a dictionary does not omit is in that  *)
(* dictionary once the walk has passed it, whatever the other one says.    *)
(***************************************************************************)
THEOREM NoFileForgotten == Spec => []NothingForgotten
  <1>1. ResourcesInvariant => NothingForgotten
    BY DEF ResourcesInvariant
  <1> QED
    BY <1>1, ResourcesKept, PTL

-----------------------------------------------------------------------------
(* The default dictionaries: what each of their patterns matches. *)
LEMMA Patterns ==
    /\ Pattern["all"] = Files /\ Pattern["lproj"] = InLproj
    /\ Pattern["locversion"] = {p \in InLproj : p.name = "locversion.plist"}
    /\ Pattern["base"] = {p \in Files : p.dir = "Base.lproj"}
    /\ Pattern["version"] = AtTop("version.plist")
    /\ Pattern["dSYM"] = {p \in Files : p.dir = "dSYM"}
    /\ Pattern["DSStore"] = {p \in Files : p.name = ".DS_Store"}
    /\ Pattern["info"] = AtTop("Info.plist") /\ Pattern["pkgInfo"] = AtTop("PkgInfo")
    /\ Pattern["profile"] = AtTop("embedded.provisionprofile")
  BY DEF Pattern

(* What a rule says, with weight 1 for none. *)
Plain(r, pattern, weight) ==
    r.pattern = pattern /\ Weight(r) = weight /\ r.omit = FALSE /\ r.optional = FALSE
Omits(r, pattern, weight) ==
    r.pattern = pattern /\ Weight(r) = weight /\ r.omit = TRUE /\ r.optional = FALSE
Optional(r, pattern, weight) ==
    r.pattern = pattern /\ Weight(r) = weight /\ r.omit = FALSE /\ r.optional = TRUE

(* The flags of a rule are those that it is written with. *)
LEMMA RuleSays ==
    /\ \A pattern, weight : weight \in Nat \ {0} =>
          /\ Plain(R(pattern, weight, {}), pattern, weight)
          /\ Omits(R(pattern, weight, {"omit"}), pattern, weight)
          /\ Optional(R(pattern, weight, {"optional"}), pattern, weight)
    /\ \A pattern : Plain(R(pattern, 0, {}), pattern, 1)
<1>1. ASSUME NEW pattern, NEW weight \in Nat, NEW n, n = (IF weight = 0 THEN 1 ELSE weight),
             NEW r, r = R(pattern, weight, {})
      PROVE  Plain(r, pattern, n)
  <2>1. r.pattern = pattern /\ Weight(r) = n /\ ~r.omit /\ ~r.optional
    BY <1>1 DEF R, Weight
  <2>2. r.omit \in BOOLEAN /\ r.optional \in BOOLEAN
    BY <1>1 DEF R
  <2> QED BY <2>1, <2>2 DEF Plain
<1>2. ASSUME NEW pattern, NEW weight \in Nat, NEW n, n = (IF weight = 0 THEN 1 ELSE weight),
             NEW r, r = R(pattern, weight, {"omit"})
      PROVE  Omits(r, pattern, n)
  <2>1. r.pattern = pattern /\ Weight(r) = n /\ r.omit /\ ~r.optional
    BY <1>2 DEF R, Weight
  <2>2. r.omit \in BOOLEAN /\ r.optional \in BOOLEAN
    BY <1>2 DEF R
  <2> QED BY <2>1, <2>2 DEF Omits
<1>3. ASSUME NEW pattern, NEW weight \in Nat, NEW n, n = (IF weight = 0 THEN 1 ELSE weight),
             NEW r, r = R(pattern, weight, {"optional"})
      PROVE  Optional(r, pattern, n)
  <2>1. r.pattern = pattern /\ Weight(r) = n /\ ~r.omit /\ r.optional
    BY <1>3 DEF R, Weight
  <2>2. r.omit \in BOOLEAN /\ r.optional \in BOOLEAN
    BY <1>3 DEF R
  <2> QED BY <2>1, <2>2 DEF Optional
<1>4. ASSUME NEW pattern, NEW weight \in Nat \ {0}
      PROVE  /\ Plain(R(pattern, weight, {}), pattern, weight)
             /\ Omits(R(pattern, weight, {"omit"}), pattern, weight)
             /\ Optional(R(pattern, weight, {"optional"}), pattern, weight)
  BY <1>1, <1>2, <1>3
<1>5. ASSUME NEW pattern PROVE Plain(R(pattern, 0, {}), pattern, 1)
  BY <1>1
<1> QED BY <1>4, <1>5

(* The rules of the first dictionary. *)
LEMMA FirstRules ==
    /\ \A r \in DefaultRulesV1 :
          \/ Plain(r, "all", 1) \/ Optional(r, "lproj", 1000)
          \/ Omits(r, "locversion", 1100) \/ Plain(r, "base", 1010)
          \/ Plain(r, "version", 1)
    /\ \E r \in DefaultRulesV1 : Plain(r, "all", 1)
    /\ \E r \in DefaultRulesV1 : Optional(r, "lproj", 1000)
    /\ \E r \in DefaultRulesV1 : Plain(r, "base", 1010)
<1>1. PICK a, b, c, d, e :
         /\ a = R("all", 0, {}) /\ b = R("lproj", 1000, {"optional"})
         /\ c = R("locversion", 1100, {"omit"}) /\ d = R("base", 1010, {})
         /\ e = R("version", 0, {})
  OBVIOUS
<1>2. /\ Plain(a, "all", 1) /\ Optional(b, "lproj", 1000)
      /\ Omits(c, "locversion", 1100) /\ Plain(d, "base", 1010)
      /\ Plain(e, "version", 1)
  BY <1>1, RuleSays
<1>3. DefaultRulesV1 = {a, b, c, d, e}
  BY <1>1 DEF DefaultRulesV1
<1> QED BY <1>2, <1>3

(* The rules of the second. *)
LEMMA SecondRules ==
    /\ \A r \in DefaultRulesV2 :
          \/ Plain(r, "dSYM", 11) \/ Omits(r, "DSStore", 2000)
          \/ Plain(r, "all", 1) \/ Optional(r, "lproj", 1000)
          \/ Omits(r, "locversion", 1100) \/ Plain(r, "base", 1010)
          \/ Omits(r, "info", 20) \/ Omits(r, "pkgInfo", 20)
          \/ Plain(r, "profile", 20) \/ Plain(r, "version", 20)
    /\ \E r \in DefaultRulesV2 : Plain(r, "dSYM", 11)
    /\ \E r \in DefaultRulesV2 : Omits(r, "DSStore", 2000)
    /\ \E r \in DefaultRulesV2 : Plain(r, "all", 1)
    /\ \E r \in DefaultRulesV2 : Optional(r, "lproj", 1000)
    /\ \E r \in DefaultRulesV2 : Plain(r, "base", 1010)
    /\ \E r \in DefaultRulesV2 : Omits(r, "info", 20)
<1>1. PICK a, b, c, d, e :
         /\ a = R("dSYM", 11, {}) /\ b = R("DSStore", 2000, {"omit"})
         /\ c = R("all", 1, {}) /\ d = R("lproj", 1000, {"optional"})
         /\ e = R("locversion", 1100, {"omit"})
  OBVIOUS
<1>2. PICK f, g, h, i, j :
         /\ f = R("base", 1010, {}) /\ g = R("info", 20, {"omit"})
         /\ h = R("pkgInfo", 20, {"omit"}) /\ i = R("profile", 20, {})
         /\ j = R("version", 20, {})
  OBVIOUS
<1>3. /\ Plain(a, "dSYM", 11) /\ Omits(b, "DSStore", 2000)
      /\ Plain(c, "all", 1) /\ Optional(d, "lproj", 1000)
      /\ Omits(e, "locversion", 1100)
  BY <1>1, RuleSays
<1>4. /\ Plain(f, "base", 1010) /\ Omits(g, "info", 20)
      /\ Omits(h, "pkgInfo", 20) /\ Plain(i, "profile", 20)
      /\ Plain(j, "version", 20)
  BY <1>2, RuleSays
<1>5. DefaultRulesV2 = {a, b, c, d, e, f, g, h, i, j}
  BY <1>1, <1>2 DEF DefaultRulesV2
<1> QED BY <1>3, <1>4, <1>5

(***************************************************************************)
(* rules.go:7-60: the default dictionaries are what TiesAgree asks for, so *)
(* the order in which Go visits them makes no difference.                  *)
(***************************************************************************)
THEOREM DefaultTiesAgree ==
    \A rules \in {DefaultRulesV1, DefaultRulesV2}, p \in Files :
        /\ \E r \in rules : p \in Pattern[r.pattern]
        /\ \A r, s \in rules :
              p \in Pattern[r.pattern] /\ p \in Pattern[s.pattern] /\ Weight(r) = Weight(s)
                 => r.omit = s.omit /\ r.optional = s.optional
<1>1. ASSUME NEW p \in Files
      PROVE  /\ \E r \in DefaultRulesV1 : p \in Pattern[r.pattern]
             /\ \A r, s \in DefaultRulesV1 :
                   p \in Pattern[r.pattern] /\ p \in Pattern[s.pattern]
                     /\ Weight(r) = Weight(s)
                      => r.omit = s.omit /\ r.optional = s.optional
  <2>1. \E r \in DefaultRulesV1 : p \in Pattern[r.pattern]
    BY FirstRules, Patterns DEF Plain, Omits, Optional
  <2>2. ASSUME NEW r \in DefaultRulesV1, NEW s \in DefaultRulesV1, Weight(r) = Weight(s)
        PROVE  r.omit = s.omit /\ r.optional = s.optional
    <3>1. \/ r.omit = FALSE /\ r.optional = FALSE /\ s.omit = FALSE /\ s.optional = FALSE
          \/ r.omit = FALSE /\ r.optional = TRUE /\ s.omit = FALSE /\ s.optional = TRUE
          \/ r.omit = TRUE /\ r.optional = FALSE /\ s.omit = TRUE /\ s.optional = FALSE
      BY <2>2, FirstRules DEF Plain, Omits, Optional
    <3> QED BY <3>1, Zenon
  <2> QED BY <2>1, <2>2
<1>2. ASSUME NEW p \in Files
      PROVE  /\ \E r \in DefaultRulesV2 : p \in Pattern[r.pattern]
             /\ \A r, s \in DefaultRulesV2 :
                   p \in Pattern[r.pattern] /\ p \in Pattern[s.pattern]
                     /\ Weight(r) = Weight(s)
                      => r.omit = s.omit /\ r.optional = s.optional
  <2>1. \E r \in DefaultRulesV2 : p \in Pattern[r.pattern]
    BY SecondRules, Patterns DEF Plain, Omits, Optional
  <2>2. ASSUME NEW r \in DefaultRulesV2, NEW s \in DefaultRulesV2, Weight(r) = Weight(s),
               p \in Pattern[r.pattern], p \in Pattern[s.pattern]
        PROVE  r.omit = s.omit /\ r.optional = s.optional
    <3> DEFINE Same == \/ /\ r.omit = FALSE /\ r.optional = FALSE
                          /\ s.omit = FALSE /\ s.optional = FALSE
                       \/ /\ r.omit = FALSE /\ r.optional = TRUE
                          /\ s.omit = FALSE /\ s.optional = TRUE
                       \/ /\ r.omit = TRUE /\ r.optional = FALSE
                          /\ s.omit = TRUE /\ s.optional = FALSE
               Hidden == p.name \in {"Info.plist", "PkgInfo"}
    <3>1. Weight(r) # 20 => Same
      BY <2>2, SecondRules DEF Plain, Omits, Optional
    <3>2. ASSUME NEW t \in DefaultRulesV2, Weight(t) = 20, p \in Pattern[t.pattern]
          PROVE  /\ t.optional = FALSE
                 /\ Hidden => t.omit = TRUE
                 /\ ~Hidden => t.omit = FALSE
      <4>1. \/ Omits(t, "info", 20) \/ Omits(t, "pkgInfo", 20)
            \/ Plain(t, "profile", 20) \/ Plain(t, "version", 20)
        BY <3>2, SecondRules DEF Plain, Omits, Optional
      <4>2. CASE Omits(t, "info", 20) \/ Omits(t, "pkgInfo", 20)
        <5>1. Hidden
          BY <3>2, <4>2, Patterns DEF Omits, AtTop
        <5> QED BY <4>2, <5>1 DEF Omits
      <4>3. CASE Plain(t, "profile", 20) \/ Plain(t, "version", 20)
        <5>1. ~Hidden
          BY <3>2, <4>3, Patterns DEF Plain, AtTop
        <5> QED BY <4>3, <5>1 DEF Plain
      <4> QED BY <4>1, <4>2, <4>3
    <3>3. Weight(r) = 20 => Same
      BY <2>2, <3>2
    <3>4. Same => r.omit = s.omit /\ r.optional = s.optional
      BY Zenon
    <3> QED BY <3>1, <3>3, <3>4
  <2> QED BY <2>1, <2>2
<1> QED BY <1>1, <1>2

(* Which rules match, if those are the rules. *)
LEMMA DefaultsMatch ==
    ASSUME AreDefaults, NEW p \in Files
    PROVE  /\ \A r : r \in Matching[p] \cap Rules[1] <=>
                        r \in DefaultRulesV1 /\ p \in Pattern[r.pattern]
           /\ \A r : r \in Matching[p] \cap Rules[2] <=>
                        r \in DefaultRulesV2 /\ p \in Pattern[r.pattern]
           /\ Rules[1] = DefaultRulesV1 /\ Rules[2] = DefaultRulesV2
           /\ p \in Excluded <=> IsFileExcluded(p)
<1>1. Rules[1] = DefaultRulesV1 /\ Rules[2] = DefaultRulesV2
  BY DEF AreDefaults, DefaultDictionaries
<1>2. Matching[p] = {r \in DefaultRulesV1 \cup DefaultRulesV2 : p \in Pattern[r.pattern]}
  BY DEF AreDefaults, DefaultMatching, DefaultRule
<1>3. p \in Excluded <=> IsFileExcluded(p)
  BY DEF AreDefaults, DefaultExcluded
<1> QED BY <1>1, <1>2, <1>3

(* All but localized versions have their place in the first dictionary. *)
LEMMA FirstLists ==
    ASSUME AreDefaults, NEW p \in Files, p.name # "locversion.plist"
    PROVE  \E r \in Rules[1] : Heaviest(r, 1, p) /\ ~r.omit
<1> DEFINE H(r) == \A s \in DefaultRulesV1 : p \in Pattern[s.pattern] => Weight(s) <= Weight(r)
<1>1. ASSUME NEW r \in DefaultRulesV1, p \in Pattern[r.pattern], H(r), ~r.omit
      PROVE  \E q \in Rules[1] : Heaviest(q, 1, p) /\ ~q.omit
  BY <1>1, DefaultsMatch DEF Heaviest
<1>2. CASE p.dir = "Base.lproj"
  <2>1. PICK r \in DefaultRulesV1 : Plain(r, "base", 1010)
    BY FirstRules
  <2>2. p \in Pattern[r.pattern] /\ H(r)
    BY <1>2, <2>1, FirstRules, Patterns DEF Plain, Omits, Optional
  <2> QED BY <1>1, <2>1, <2>2 DEF Plain, Omits, Optional
<1>3. CASE p.dir = "en.lproj"
  <2>1. PICK r \in DefaultRulesV1 : Optional(r, "lproj", 1000)
    BY FirstRules
  <2>2. p \in Pattern[r.pattern] /\ H(r)
    BY <1>3, <2>1, FirstRules, Patterns DEF Plain, Omits, Optional, InLproj
  <2> QED BY <1>1, <2>1, <2>2 DEF Plain, Omits, Optional
<1>4. CASE p.dir \notin {"Base.lproj", "en.lproj"}
  <2>1. PICK r \in DefaultRulesV1 : Plain(r, "all", 1)
    BY FirstRules
  <2>2. p \in Pattern[r.pattern] /\ H(r)
    BY <1>4, <2>1, FirstRules, Patterns DEF Plain, Omits, Optional, InLproj
  <2> QED BY <1>1, <2>1, <2>2 DEF Plain, Omits, Optional
<1> QED BY <1>2, <1>3, <1>4

(* The heaviest rule of the second dictionary, by the kind of the file. *)
LEMMA SecondDecides ==
    ASSUME AreDefaults, NEW p \in Files, NEW r, Heaviest(r, 2, p)
    PROVE  /\ p.name = ".DS_Store" => r.omit
           /\ p.name = "Info.plist" /\ p.dir = "top" => r.omit
           /\ ~r.omit => r.optional = (p.dir = "en.lproj")
           /\ p.name = "Info.plist" /\ p.dir # "top" => ~r.omit
<1>1. /\ r \in DefaultRulesV2 /\ p \in Pattern[r.pattern]
      /\ \A s \in DefaultRulesV2 : p \in Pattern[s.pattern] => Weight(s) <= Weight(r)
  BY DefaultsMatch DEF Heaviest
<1>2. p.name = ".DS_Store" => r.omit
  <2>1. PICK s \in DefaultRulesV2 : Omits(s, "DSStore", 2000)
    BY SecondRules
  <2>2. p.name = ".DS_Store" => 2000 <= Weight(r)
    BY <1>1, <2>1, Patterns DEF Plain, Omits, Optional
  <2> QED BY <1>1, <2>2, SecondRules DEF Plain, Omits, Optional
<1>3. p.name = "Info.plist" /\ p.dir = "top" => r.omit
  <2> SUFFICES ASSUME p.name = "Info.plist", p.dir = "top" PROVE r.omit
    OBVIOUS
  <2>1. PICK s \in DefaultRulesV2 : Omits(s, "info", 20)
    BY SecondRules
  <2>2. 20 <= Weight(r)
    BY <1>1, <2>1, Patterns DEF Plain, Omits, Optional, AtTop
  <2> QED BY <1>1, <2>2, SecondRules, Patterns DEF Plain, Omits, Optional, AtTop, InLproj
<1>4. ASSUME ~r.omit PROVE r.optional = (p.dir = "en.lproj")
  <2>1. CASE p.dir = "en.lproj"
    <3>1. PICK s \in DefaultRulesV2 : Optional(s, "lproj", 1000)
      BY SecondRules
    <3>2. 1000 <= Weight(r)
      BY <1>1, <2>1, <3>1, Patterns DEF Plain, Omits, Optional, InLproj
    <3>3. ~Plain(r, "base", 1010)
      BY <1>1, <2>1, Patterns DEF Plain, Omits, Optional
    <3>4. r.optional = TRUE
      BY <1>1, <1>4, <3>2, <3>3, SecondRules DEF Plain, Omits, Optional
    <3> QED BY <2>1, <3>4
  <2>2. CASE p.dir = "Base.lproj"
    <3>1. PICK s \in DefaultRulesV2 : Plain(s, "base", 1010)
      BY SecondRules
    <3>2. 1010 <= Weight(r)
      BY <1>1, <2>2, <3>1, Patterns DEF Plain, Omits, Optional
    <3>3. r.optional = FALSE
      BY <1>1, <3>2, SecondRules DEF Plain, Omits, Optional
    <3> QED BY <2>2, <3>3
  <2>3. CASE p.dir \notin {"en.lproj", "Base.lproj"}
    <3>1. r.optional = FALSE
      BY <1>1, <2>3, SecondRules, Patterns DEF Plain, Omits, Optional, InLproj
    <3> QED BY <2>3, <3>1
  <2> QED BY <2>1, <2>2, <2>3
<1>5. p.name = "Info.plist" /\ p.dir # "top" => ~r.omit
  BY <1>1, SecondRules, Patterns DEF Plain, Omits, Optional, AtTop, InLproj
<1> QED BY <1>2, <1>3, <1>4, <1>5

(* An Info.plist below the top has a heaviest rule. *)
LEMMA SecondLists ==
    ASSUME AreDefaults, NEW p \in Files, p.name = "Info.plist", p.dir # "top"
    PROVE  \E r \in Rules[2] : Heaviest(r, 2, p)
<1> DEFINE H(r) == \A s \in DefaultRulesV2 : p \in Pattern[s.pattern] => Weight(s) <= Weight(r)
<1>1. ASSUME NEW r \in DefaultRulesV2, p \in Pattern[r.pattern], H(r)
      PROVE  \E q \in Rules[2] : Heaviest(q, 2, p)
  BY <1>1, DefaultsMatch DEF Heaviest
<1>2. CASE p.dir = "Base.lproj"
  <2>1. PICK r \in DefaultRulesV2 : Plain(r, "base", 1010)
    BY SecondRules
  <2>2. p \in Pattern[r.pattern] /\ H(r)
    BY <1>2, <2>1, SecondRules, Patterns DEF Plain, Omits, Optional, AtTop
  <2> QED BY <1>1, <2>2
<1>3. CASE p.dir = "en.lproj"
  <2>1. PICK r \in DefaultRulesV2 : Optional(r, "lproj", 1000)
    BY SecondRules
  <2>2. p \in Pattern[r.pattern] /\ H(r)
    BY <1>3, <2>1, SecondRules, Patterns DEF Plain, Omits, Optional, InLproj, AtTop
  <2> QED BY <1>1, <2>2
<1>4. CASE p.dir = "dSYM"
  <2>1. PICK r \in DefaultRulesV2 : Plain(r, "dSYM", 11)
    BY SecondRules
  <2>2. p \in Pattern[r.pattern] /\ H(r)
    BY <1>4, <2>1, SecondRules, Patterns DEF Plain, Omits, Optional, InLproj, AtTop
  <2> QED BY <1>1, <2>2
<1>5. CASE p.dir \notin {"Base.lproj", "en.lproj", "dSYM"}
  <2>1. PICK r \in DefaultRulesV2 : Plain(r, "all", 1)
    BY SecondRules
  <2>2. p \in Pattern[r.pattern] /\ H(r)
    BY <1>5, <2>1, SecondRules, Patterns DEF Plain, Omits, Optional, InLproj, AtTop
  <2> QED BY <1>1, <2>2
<1> QED BY <1>2, <1>3, <1>4, <1>5

(***************************************************************************)
(* README.md:382-390, rules.go:7-60: for any walk over files of these      *)
(* kinds, with the default dictionaries, and any order of iteration, the   *)
(* seal lists what is documented.                                          *)
(***************************************************************************)
THEOREM DefaultsAreAsDocumented == AreDefaults => (Spec => []DictionariesAsDocumented)
<1> SUFFICES ASSUME AreDefaults PROVE Spec => []DictionariesAsDocumented
  OBVIOUS
<1>1. ResourcesInvariant => DictionariesAsDocumented
  <2> SUFFICES ASSUME EntriesFollowHeaviestRule, NothingForgotten,
                      NEW p \in Files, Passed(p)
               PROVE  /\ IsFileExcluded(p) => ~Listed(1, p) /\ ~Listed(2, p)
                      /\ p.name = ".DS_Store" => ~Listed(2, p) /\ Listed(1, p)
                      /\ p.name = "Info.plist" =>
                            Listed(1, p) /\ (Listed(2, p) <=> p.dir # "top")
                      /\ p.dir = "en.lproj" =>
                            \A e \in files[2] : e.path = p => e.optional
                      /\ p.dir # "en.lproj" =>
                            \A e \in files[2] : e.path = p => ~e.optional
    BY DEF ResourcesInvariant, DictionariesAsDocumented
  <2>1. PICK i \in 1..(at - 1) : Walk[i] = p
    BY DEF Passed
  <2>2. IsFileExcluded(p) => ~Listed(1, p) /\ ~Listed(2, p)
    BY DefaultsMatch DEF EntriesFollowHeaviestRule, Listed, Dicts
  <2>3. ASSUME NEW d \in Dicts, NEW r \in Rules[d], Heaviest(r, d, p), ~r.omit,
               ~IsFileExcluded(p)
        PROVE  Listed(d, p)
    BY <2>1, <2>3, DefaultsMatch DEF NothingForgotten
  <2>4. p.name \in {".DS_Store", "Info.plist"} => Listed(1, p)
    BY <2>3, FirstLists DEF Dicts, IsFileExcluded
  <2>5. ASSUME NEW e \in files[2], e.path = p
        PROVE  \E r \in Rules[2] : Heaviest(r, 2, p) /\ ~r.omit /\ e.optional = r.optional
    <3>1. PICK r \in Rules[2] : /\ Heaviest(r, 2, e.path) /\ ~r.omit
                                /\ e.optional = (2 = 2 /\ r.optional)
      BY <2>5, Zenon DEF EntriesFollowHeaviestRule, Dicts
    <3>2. r.optional \in BOOLEAN
      BY RulesAssumption DEF Dicts
    <3>3. e.optional = r.optional
      BY <3>1, <3>2
    <3> QED BY <2>5, <3>1, <3>3
  <2>6. /\ p.name = ".DS_Store" => ~Listed(2, p)
        /\ p.name = "Info.plist" /\ p.dir = "top" => ~Listed(2, p)
    BY <2>5, SecondDecides DEF Listed
  <2>7. p.name = "Info.plist" /\ p.dir # "top" => Listed(2, p)
    BY <2>3, SecondLists, SecondDecides DEF Dicts, IsFileExcluded
  <2>8. ASSUME NEW e \in files[2], e.path = p PROVE e.optional = (p.dir = "en.lproj")
    BY <2>5, <2>8, SecondDecides
  <2> QED BY <2>2, <2>4, <2>6, <2>7, <2>8
<1> QED BY <1>1, ResourcesKept, PTL
=============================================================================
