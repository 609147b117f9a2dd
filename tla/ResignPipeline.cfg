CONSTANTS
    App = App
    fw = fw
    ext = ext
    watch = watch
    nested = nested
    d1 = d1
    d2 = d2
    NewID = NewID
    NoID = NoID
    Frameworks <- MCFrameworks
    Plugins <- MCPlugins
    WatchApps <- MCWatchApps
    Nested <- MCNested
    Host <- MCHost
    Dylibs <- MCDylibs
    Inputs <- MCInputs
    Requests <- MCRequests
SPECIFICATION FairSpec
INVARIANTS
    SigningInvariant
    SealsMatchArchive
    SlotsMatchArchive
    ReceivedCodeIsSigned
    EntitlementsByRole
    InjectedLoadsResolve
PROPERTIES
    Returns
    SignsInPostOrder
