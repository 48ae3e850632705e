SPECIFICATION FairSpec
CONSTANTS
    Timers = {t1, t2, t3}
    None = None
INVARIANTS
    TypeOK
PROPERTIES
    InPostingOrder
    TimesFired
    EveryHandlerRuns
