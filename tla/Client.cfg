SPECIFICATION Spec
CONSTANTS
    stublib = stublib
    wasmlib = wasmlib
    missing = missing
    entry = entry
    helper = helper
    absent = absent
    address = address
    Paths = {stublib, wasmlib, missing}
    Names = {entry, helper, absent}
    Symtab <- Tables
    Null = Null
    SigBuf = 4
    OutBuf = 3
    Apis <- Library
    Header <- Symbols
    FuncTypes <- Registered
    NullFn = NullFn
    Entry = entry
    KindOf <- Kinds
    Versions = 2
    MaxArgs = 3
    Pointer = 9
    NotGiven = NotGiven
INVARIANTS
    TypeOK
    GetReportsItself
    LearnedIsDeclared
    AnswersFit
    ValuesArrive
    RightImport
    NoNullUse
