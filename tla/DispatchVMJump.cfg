SPECIFICATION Spec
CONSTANTS
    Depth = 2
    RegBase = 2
    Modulus = 8
    Memory <- MCMemory
    Programs <- JumpPrograms
    Params <- MCParams
    Garbage <- MCGarbage
INVARIANTS
    AbortJustified
