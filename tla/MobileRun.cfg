CONSTANTS
    c1 = c1
    c2 = c2
    c3 = c3
    Stderr = Stderr
    Calls <- MCCalls
    Apps <- MCApps
    Requests <- MCRequests
    Pepper = "ours"
    MaxActive = 3
    MaxLines = 2
SPECIFICATION Spec
SYMMETRY Symmetry
INVARIANTS
    MobileInvariant
    WriterIsRestored
