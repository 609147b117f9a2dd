CONSTANTS
    Inputs <- MCInputs
    Requests <- MCRequests
    NameOrder <- MCNameOrder
    MaxRounds = 2
SPECIFICATION Spec
INVARIANTS
    TypeOK
    ReachedCodeIsSigned
    OnlyAskedChanges
    ReportDescribesOutput
    InspectShowsEdits
