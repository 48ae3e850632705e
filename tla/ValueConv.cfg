SPECIFICATION Spec
CONSTANTS
    WordSize = 128
    IntSize = 16
    HalfSize = 8
    ByteSize = 4
    Exact = 32
    Units = {1, 2, 4}
    FloatOne = 6
    Garbage = {0, 85, 127}
INVARIANTS
    TypeOK
    RoundTrip
    ResultSeen
    NumberArrives
    NoNumberArrives
