SPECIFICATION FairSpec
CONSTANTS
    a1 = a1
    a2 = a2
    Addrs = {a1, a2}
    Index <- Distinct
    Fns = {f1, f2}
    Closures = {c1}
    Wraps = {w1}
    Excs = {e1}
    NoExc = NoExc
    Free = Free
    OutCounts = {0, 2}
    MaxStack = 5
INVARIANTS
    TypeOK
    RightCallback
    OutWithinRoom
    ErrorOnlyInJs
PROPERTIES
    ImplementsAbsDuk
    ErrorResolved
