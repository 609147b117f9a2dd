CONSTANTS
    HashSize = 2
    HeaderSize = 3
    Half = 4
    IntHalf = 64
    Values <- MCValues
    Depth <- MCDepth
    Requests <- MCRequests
SPECIFICATION Spec
INVARIANTS
    DirectoryReadsBack
    SuperBlobReadsBack
    SignatureAgreesWithItself
    EntitlementsReadBack
    RequirementReadsBack
