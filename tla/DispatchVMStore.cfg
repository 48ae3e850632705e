SPECIFICATION Spec
CONSTANTS
    Depth = 2
    RegBase = 2
    Modulus = 8
    Memory <- MCMemory
    Programs <- StorePrograms
    Params <- MCParams
    Garbage <- MCGarbage
PROPERTIES
    StoreHitsBase
