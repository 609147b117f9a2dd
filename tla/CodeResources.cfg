CONSTANTS
    Path <- Files
    Walk <- MCWalk
    Excluded <- DefaultExcluded
    Rule <- DefaultRule
    Rules <- DefaultDictionaries
    Matching <- DefaultMatching
SPECIFICATION Spec
INVARIANTS
    ResourcesInvariant
    EntriesFollowHeaviestRule
    NothingForgotten
    DictionariesAsDocumented
