CONSTANTS
    PageSize = 3
    FATAlign = 4
    Binaries <- Roomy
    Edits <- MCEdits
    MaxInject = 2
    CMSSizes <- ECDSASizes
    MaxRounds = 2
SPECIFICATION Spec
INVARIANTS
    TypeOK
    HashesMatchFile
    EndsAgree
    SlicesApart
    CodeIsKept
    LoadsAsAsked
