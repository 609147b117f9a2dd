---------------------------- MODULE CodeResources ----------------------------
(***************************************************************************)
(* coderesources.Generate (plist/coderesources/generator.go): a walk over  *)
(* the files of a bundle, each of which is matched against two dictionaries*)
(* of rules.  The rules are Go maps: every loop over one visits its rules  *)
(* in an order of its own.                                                 *)
(***************************************************************************)
EXTENDS Integers, Sequences

CONSTANTS
    Path,      \* the files of a bundle
    Walk,      \* the order in which filepath.Walk visits them
    Excluded,  \* those that IsFileExcluded, or are in _CodeSignature
    Rule,      \* records [pattern, weight, omit, optional]
    Rules,     \* for each dictionary, its rules: Rules[1] and Rules[2]
    Matching   \* for each file, the rules whose pattern it matches

Dicts == {1, 2}

(* A rule without a weight has weight 1. *)
Weight(r) == IF r.weight = 0 THEN 1 ELSE r.weight

ASSUME RulesAssumption ==
    /\ Walk \in Seq(Path)
    /\ \A r \in Rule : /\ r.weight \in Nat
                       /\ r.omit \in BOOLEAN
                       /\ r.optional \in BOOLEAN
    /\ Rules \in [Dicts -> SUBSET Rule]
    /\ Matching \in [Path -> SUBSET Rule]

(* Every file matches some rule, and rules of the same weight agree on     *)
(* every file that both match.                                             *)
ASSUME TiesAgree ==
    \A d \in Dicts, p \in Path :
        /\ Matching[p] \cap Rules[d] # {}
        /\ \A r, s \in Matching[p] \cap Rules[d] :
              Weight(r) = Weight(s) => r.omit = s.omit /\ r.optional = s.optional

VARIABLES
    at,        \* the file that the walk has come to
    dict,      \* the dictionary that is being matched; 0 before the first
    todo,      \* the rules that the loop has not visited yet
    best,      \* bestWeight
    omit,
    optional,
    files      \* files1 and files2, as sets of entries

vars == <<at, dict, todo, best, omit, optional, files>>

Current == Walk[at]

Entry == [path : Path, optional : BOOLEAN]

(* The type invariant. *)
TypeOK ==
    /\ at \in 1..(Len(Walk) + 1)
    /\ dict \in {0} \cup Dicts
    /\ todo \subseteq Rule
    /\ best \in Nat \cup {-1}
    /\ omit \in BOOLEAN
    /\ optional \in BOOLEAN
    /\ files \in [Dicts -> SUBSET Entry]

Init ==
    /\ at = 1
    /\ dict = 0
    /\ todo = {}
    /\ best = -1
    /\ omit = FALSE
    /\ optional = FALSE
    /\ files = [d \in Dicts |-> {}]

(* matchRulesV1 or matchRulesV2 is called. *)
Match(d) ==
    /\ dict' = d
    /\ todo' = Rules[d]
    /\ best' = -1
    /\ omit' = FALSE
    /\ optional' = FALSE

(* The next file; an excluded one is in neither dictionary. *)
Visit ==
    /\ at <= Len(Walk)
    /\ dict = 0
    /\ IF Current \in Excluded
       THEN at' = at + 1 /\ UNCHANGED <<dict, todo, best, omit, optional>>
       ELSE at' = at /\ Match(1)
    /\ UNCHANGED files

(* One round of the loop over the rules. *)
LaterBeats(r) == r \in Matching[Current]     \* mutant: the last one decides
Beats(r) == r \in Matching[Current] /\ Weight(r) > best

TryRule(r) ==
    /\ dict # 0
    /\ r \in todo
    /\ todo' = todo \ {r}
    /\ IF Beats(r)
       THEN best' = Weight(r) /\ omit' = r.omit /\ optional' = r.optional
       ELSE UNCHANGED <<best, omit, optional>>
    /\ UNCHANGED <<at, dict, files>>

(* What is recorded of a file that is not to be omitted: the first         *)
(* dictionary has no flags.                                                *)
Recorded == [path |-> Current, optional |-> IF dict = 1 THEN FALSE ELSE optional]

(* The loop is over; the second dictionary is matched after the first,     *)
(* whatever came of that.                                                  *)
SecondIfOmitted ==    \* mutant: what the first lists, the second never sees
    IF ~omit
    THEN dict' = 0 /\ at' = at + 1 /\ UNCHANGED <<todo, best, omit, optional>>
    ELSE Match(2) /\ UNCHANGED at
Second == Match(2) /\ UNCHANGED at

Record ==
    /\ dict # 0
    /\ todo = {}
    /\ files' = IF omit THEN files ELSE [files EXCEPT ![dict] = @ \cup {Recorded}]
    /\ IF dict = 1 THEN Second
       ELSE /\ dict' = 0
            /\ at' = at + 1
            /\ UNCHANGED <<todo, best, omit, optional>>

Done == at > Len(Walk) /\ UNCHANGED vars

Next == Visit \/ (\E r \in Rule : TryRule(r)) \/ Record \/ Done

Spec == Init /\ [][Next]_vars

-----------------------------------------------------------------------------
(* A rule that decides: of the highest weight among those that match.      *)
Heaviest(r, d, p) ==
    /\ r \in Matching[p] \cap Rules[d]
    /\ \A s \in Matching[p] \cap Rules[d] : Weight(s) <= Weight(r)

(***************************************************************************)
(* Whatever the order in which Go visits the rules, a file is listed only  *)
(* if the heaviest of the rules it matches does not omit it, and with the  *)
(* flag of that rule; ...                                                  *)
(***************************************************************************)
EntriesFollowHeaviestRule ==
    \A d \in Dicts : \A e \in files[d] :
        /\ e.path \notin Excluded
        /\ \E r \in Rules[d] : /\ Heaviest(r, d, e.path)
                               /\ ~r.omit
                               /\ e.optional = (d = 2 /\ r.optional)

(***************************************************************************)
(* ... and every file that the walk has passed and that rule does not omit *)
(* is listed, in each dictionary by the rules of that one.                 *)
(***************************************************************************)
Listed(d, p) == \E e \in files[d] : e.path = p

NothingForgotten ==
    \A i \in 1..(at - 1) : \A d \in Dicts : \A r \in Rules[d] :
        Walk[i] \notin Excluded /\ Heaviest(r, d, Walk[i]) /\ ~r.omit =>
            Listed(d, Walk[i])

-----------------------------------------------------------------------------
(* Why: the loop holds the flags of a heaviest of the rules it has seen.   *)
SeenRules == (Rules[dict] \ todo) \cap Matching[Current]

LoopInPlace ==
    dict # 0 =>
        /\ at <= Len(Walk)
        /\ Current \notin Excluded
        /\ todo \subseteq Rules[dict]
        /\ SeenRules = {} => best = -1
        /\ SeenRules # {} =>
              \E r \in SeenRules :
                  /\ best = Weight(r) /\ omit = r.omit /\ optional = r.optional
                  /\ \A s \in SeenRules : Weight(s) <= best

(* The second loop runs after the first has recorded its entry. *)
FirstListed ==
    dict = 2 => \A r \in Rules[1] : Heaviest(r, 1, Current) /\ ~r.omit =>
                    Listed(1, Current)

ResourcesInvariant ==
    /\ TypeOK
    /\ LoopInPlace
    /\ FirstListed
    /\ EntriesFollowHeaviestRule
    /\ NothingForgotten
=============================================================================
