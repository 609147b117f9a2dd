CONSTANTS
    PageSize = 3
    FATAlign = 4
    Binaries <- Tight
    Edits <- MCEdits
    MaxInject = 2
    CMSSizes <- RSASizes
    MaxRounds = 1
SPECIFICATION Spec
INVARIANT CopiesAllSections
