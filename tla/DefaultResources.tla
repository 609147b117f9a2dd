--------------------------- MODULE DefaultResources ---------------------------
(* CodeResources with the default dictionaries, for a walk over any files. *)
EXTENDS CodeResources, DefaultRules

DefaultDictionaries == <<DefaultRulesV1, DefaultRulesV2>>
DefaultRule == DefaultRulesV1 \cup DefaultRulesV2
DefaultMatching == [p \in Files |-> {r \in DefaultRule : p \in Pattern[r.pattern]}]
DefaultExcluded == {p \in Files : IsFileExcluded(p)}

AreDefaults ==
    /\ Path = Files /\ Excluded = DefaultExcluded
    /\ Rule = DefaultRule /\ Rules = DefaultDictionaries /\ Matching = DefaultMatching

-----------------------------------------------------------------------------
Passed(p) == \E i \in 1..(at - 1) : Walk[i] = p

(***************************************************************************)
(* README.md:382-390: the main executable and the seal are in neither      *)
(* dictionary, .DS_Store files are not in the second, and the Info.plist   *)
(* of the bundle - of no other one - is in the first only.  Localized      *)
(* files are optional except those of the Base.lproj.                      *)
(***************************************************************************)
DictionariesAsDocumented ==
    \A p \in Files : Passed(p) =>
        /\ IsFileExcluded(p) => ~Listed(1, p) /\ ~Listed(2, p)
        /\ p.name = ".DS_Store" => ~Listed(2, p) /\ Listed(1, p)
        /\ p.name = "Info.plist" => Listed(1, p) /\ (Listed(2, p) <=> p.dir # "top")
        /\ p.dir = "en.lproj" => \A e \in files[2] : e.path = p => e.optional
        /\ p.dir # "en.lproj" => \A e \in files[2] : e.path = p => ~e.optional
=============================================================================
