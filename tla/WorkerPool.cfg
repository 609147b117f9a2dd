CONSTANTS
    N = 3
    NumCPU = 2
    Urls <- MCUrls
SPECIFICATION FairSpec
INVARIANTS
    PoolInvariant
    ReportIsTrue
    NothingLeftOnReturn
    DiskIsBounded
PROPERTIES
    Returns
    ReportsWholeBatch
