SPECIFICATION Spec
CONSTANTS
    Addrs = {a1}
    Wraps = {w1}
    Excs = {e1}
    NoExc = NoExc
    Free = Free
    OutCounts = {0}
    MaxStack = 5
    MaxScopes = 3
INVARIANTS
    ScopesBalanced
