SPECIFICATION FairSpec
CONSTANTS
    Depth = 2
    RegBase = 2
    Modulus = 8
    Memory <- MCMemory
    Programs <- ListedPrograms
    Params <- MCParams
    Garbage <- MCGarbage
INVARIANTS
    TypeOK
    AbortJustified
PROPERTIES
    ImplementsDoc
    Terminates
