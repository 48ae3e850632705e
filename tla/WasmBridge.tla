----------------------------- MODULE WasmBridge -----------------------------
(***************************************************************************)
(* The bridge of a WebAssembly module translated to C by wasm2c            *)
(* (src/wasm/wasm2c/bridge/stub.inc.c) with the indices that the scripts   *)
(* beside it generate (NcccW2cDataGen.cmake, NcccTemplateW2cMetadata.cmake,*)
(* NcccParseW2cSource.cmake).                                              *)
(*                                                                         *)
(* Queries are operators that give the cells they write, from out[0] on;   *)
(* they are defined for the indices for which the code does not abort.     *)
(* The state of the bridge is what stub_library_set_import fills.          *)
(***************************************************************************)
EXTENDS Marshal, FiniteSets

CONSTANTS Header,      \* the symbols of the header wasm2c wrote, in its order
          FuncTypes,   \* the signatures its source registers, in its order
          NullFn       \* a pointer that is not set

WasmTypes == {"u32", "u64", "f32", "f64"}
Results == {<<>>} \cup {<<t>> : t \in WasmTypes}
Signatures == [in : Seq(WasmTypes), out : Results]

\* A variable has no arguments, and its type as its only result.
Functions == [role : {"import", "export"}, variable : {FALSE}, in : Seq(WasmTypes),
              out : Results]
Variables == [role : {"import", "export"}, variable : {TRUE}, in : {<<>>},
              out : {<<t>> : t \in WasmTypes \cup {"wasm_rt_memory_t", "wasm_rt_table_t"}}]

\* The script's pattern does not match the signature without arguments and results.
ASSUME WasmAssumption ==
    /\ Header \in Seq(Functions \cup Variables)
    /\ FuncTypes \in Seq(Signatures \ {[in |-> <<>>, out |-> <<>>]})

VARIABLES ncccdispatch,  \* imported function -> the dispatch function of its calls
          nccc,          \* imported function -> the context it passes on
          imported,      \* imported variable -> stubstore_sym, or the pointer sym
          initialised    \* the module's init has run

wasmvars == <<ncccdispatch, nccc, imported, initialised>>

-----------------------------------------------------------------------------
(* Indices.                                                                *)

Syms == DOMAIN Header
Imports == {s \in Syms : Header[s].role = "import"}
Exports == {s \in Syms : Header[s].role = "export"}
ImportFuncs == {s \in Imports : ~Header[s].variable}
ImportVars == {s \in Imports : Header[s].variable}
ExportFuncs == {s \in Exports : ~Header[s].variable}

\* A memory or a table: the bridge holds a pointer to it.
IsObject(s) == Header[s].out[1] \in {"wasm_rt_memory_t", "wasm_rt_table_t"}

\* Functions and variables count together, in the order of the header.
importidx_FromOne(s) == Cardinality({t \in Imports : t <= s})
importidx(s) == Cardinality({t \in Imports : t < s})
exportidx(s) == Cardinality({t \in Exports : t < s})

TOTAL_IMPORTS == Cardinality(Imports)
TOTAL_EXPORTS == Cardinality(Exports)

\* One numbering for the types of both.
TOTALINDEX_IMPORT(s) == importidx(s)
TOTALINDEX_EXPORT(s) == exportidx(s) + TOTAL_IMPORTS
TOTALINDEX(s) == IF s \in Imports THEN TOTALINDEX_IMPORT(s) ELSE TOTALINDEX_EXPORT(s)

\* typenames: [] => [] always, then each signature where it is first registered.
NewTypes == {i \in DOMAIN FuncTypes : \A j \in 1..(i - 1) : FuncTypes[j] # FuncTypes[i]}
TYPE_IDX(i) == 1 + Cardinality({j \in NewTypes : j < i})
TOTAL_TYPES == 1 + Cardinality(NewTypes)
NoArgs == [in |-> <<>>, out |-> <<>>]
TypeIds == {0} \cup {TYPE_IDX(i) : i \in NewTypes}
TypeAt(idx) == IF idx = 0 THEN NoArgs
               ELSE FuncTypes[CHOOSE i \in NewTypes : TYPE_IDX(i) = idx]

WasmCode(t) == CASE t = "wasm_rt_memory_t" -> -1
                 [] t = "wasm_rt_table_t" -> -2
                 [] OTHER -> CITYPE(t)
WasmCodes(ts) == [i \in DOMAIN ts |-> WasmCode(ts[i])]

-----------------------------------------------------------------------------
(* Queries.                                                                *)

\* An index other than 0 is an abort.
wasm_library_info == <<TOTAL_EXPORTS, TOTAL_IMPORTS, TOTAL_EXPORTS + TOTAL_IMPORTS,
                       TOTAL_TYPES>>

\* A function's value is its stub, a variable's the address of the pointer to it.
NcccFn(s) == <<"nccc", s>>
PointerTo(s) == <<"variable", s>>
ExportValue(s) == IF Header[s].variable THEN PointerTo(s) ELSE NcccFn(s)

ExportAt(idx) == {s \in Exports : exportidx(s) = idx}
ImportAt(idx) == {s \in Imports : importidx(s) = idx}
The(S) == CHOOSE s \in S : TRUE
Flag(b) == IF b THEN 1 ELSE 0

\* An index without a symbol gets as far as the second switch, and aborts there.
library_get_export_Own(idx) ==
    LET s == The(ExportAt(idx)) IN
    <<0, s, ExportValue(s), exportidx(s), Flag(Header[s].variable)>>
library_get_export(idx) ==
    LET s == The(ExportAt(idx)) IN
    <<0, s, ExportValue(s), TOTALINDEX_EXPORT(s), Flag(Header[s].variable)>>

library_get_import(idx) ==
    IF ImportAt(idx) = {} THEN <<-1, NullFn, NullFn, -1, 0>>
    ELSE LET s == The(ImportAt(idx)) IN
         <<0, s, s, TOTALINDEX_IMPORT(s), Flag(Header[s].variable)>>

\* The symbol of an index in the common numbering.
CallinfoIds == {TOTALINDEX(s) : s \in Syms}
CallinfoOf(idx) == Header[CHOOSE s \in Syms : TOTALINDEX(s) = idx]

\* get_counts: 0, arguments, results; get_types adds their codes.
Counts(sig) == <<0, Len(sig.in), Len(sig.out)>>
TypeCodes(sig) == WasmCodes(sig.in) \o WasmCodes(sig.out)

callinfo_get_counts_Args(idx) == IF idx \in CallinfoIds
                                   THEN <<0, Len(CallinfoOf(idx).in), 0>> ELSE <<-1, 0, 0>>
callinfo_get_counts(idx) == IF idx \in CallinfoIds THEN Counts(CallinfoOf(idx)) ELSE <<-1, 0, 0>>
callinfo_get_types(idx) == IF idx \in CallinfoIds
                             THEN Counts(CallinfoOf(idx)) \o TypeCodes(CallinfoOf(idx))
                             ELSE <<-1>>

\* The bridges of function pointers; in[0] of a type stub is the function to call.
TypeStub(idx) == <<"typestub", idx>>
typebridge_get_counts(idx) == IF idx \in TypeIds THEN Counts(TypeAt(idx)) ELSE <<-1, 0, 0>>
typebridge_get_types(idx) ==
    IF idx \in TypeIds
      THEN <<0, TypeStub(idx), Len(TypeAt(idx).in), Len(TypeAt(idx).out)>>
           \o TypeCodes(TypeAt(idx))
      ELSE <<-1>>

-----------------------------------------------------------------------------
(* Linking.                                                                *)

\* Function pointers are null, stubstore_sym is zeroed, the pointer to an imported memory or
\* table is null; so are, before init, the variables that exported functions are called by.
WasmInit == /\ ncccdispatch = [s \in ImportFuncs |-> NullFn]
            /\ nccc = [s \in ImportFuncs |-> NullFn]
            /\ imported = [s \in ImportVars |-> IF IsObject(s) THEN NullFn ELSE Zero]
            /\ initialised = FALSE

\* stub_library_set_import answers 0 for the indices that get_import knows.
library_set_import_Once(idx, dispatch, value) ==
    /\ ncccdispatch' = [s \in ImportFuncs |-> IF importidx(s) = idx THEN dispatch ELSE ncccdispatch[s]]
    /\ nccc' = [s \in ImportFuncs |->
                   IF importidx(s) = idx /\ nccc[s] = NullFn THEN value ELSE nccc[s]]
    /\ imported' = [s \in ImportVars |-> IF importidx(s) = idx THEN value ELSE imported[s]]
    /\ UNCHANGED initialised
library_set_import_Functions(idx, dispatch, value) ==
    /\ ncccdispatch' = [s \in ImportFuncs |-> IF importidx(s) = idx THEN dispatch ELSE ncccdispatch[s]]
    /\ nccc' = [s \in ImportFuncs |-> IF importidx(s) = idx THEN value ELSE nccc[s]]
    /\ UNCHANGED <<imported, initialised>>
library_set_import(idx, dispatch, value) ==
    /\ ncccdispatch' = [s \in ImportFuncs |-> IF importidx(s) = idx THEN dispatch ELSE ncccdispatch[s]]
    /\ nccc' = [s \in ImportFuncs |-> IF importidx(s) = idx THEN value ELSE nccc[s]]
    /\ imported' = [s \in ImportVars |-> IF importidx(s) = idx THEN value ELSE imported[s]]
    /\ UNCHANGED initialised

\* The init of wasm2c's module, which the header script leaves out of the bridge: it sets the
\* variables of the exports.  It may fill imported memories and tables from data segments.
CanFail == \E s \in ImportVars : IsObject(s) /\ imported[s] = NullFn
init == initialised' = TRUE /\ UNCHANGED <<ncccdispatch, nccc, imported>>

\* The letters of the types of a function's arguments and results.
InLetters(s) == Letters(WasmCodes(Header[s].in))
OutLetters(s) == Letters(WasmCodes(Header[s].out))

WasmTypeOK == /\ DOMAIN ncccdispatch = ImportFuncs
              /\ DOMAIN nccc = ImportFuncs
              /\ DOMAIN imported = ImportVars
              /\ initialised \in BOOLEAN
=============================================================================
