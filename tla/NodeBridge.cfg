SPECIFICATION FairSpec
CONSTANTS
    Addrs = {a1, a2}
    Wraps = {w1}
    Excs = {e1, e2}
    NoExc = NoExc
    Free = Free
    OutCounts = {0, 2}
    MaxStack = 6
    MaxScopes = 4
INVARIANTS
    TypeOK
    CallDepthMatches
    LongjmpTargetLive
    NoPendingIntoNative
    DispatcherScopesOpen
    OutWithinRoom
    ParamsMatchFin
PROPERTIES
    ImplementsAbsBridge
    ExceptionResolved
