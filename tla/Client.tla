------------------------------- MODULE Client -------------------------------
(***************************************************************************)
(* A JavaScript program that uses a library of which it knows nothing but  *)
(* the name of its entry point:                                            *)
(*   load   dlfcn_open and dlfcn_get, until it has the entry point         *)
(*   ask    the library's description: a stub library's dispatch function  *)
(*          (StubMeta), or the queries of a WebAssembly bridge (WasmBridge)*)
(*   use    it links the imports of a WebAssembly module, in any order and *)
(*          as often as it likes, lets the module's init run, and calls    *)
(*          what it has learned of, through make_nccc_call, with the       *)
(*          letters of the types it was told; the library calls back       *)
(*          through make_nccc_cb (Marshal)                                 *)
(* The program is external: the actions are the calls it can make, and it  *)
(* does not pass a handle or an address it was not given.  Descriptions    *)
(* are read with util_rawcall into buffers of util_malloc.                 *)
(***************************************************************************)
EXTENDS Dlfcn, StubMeta, WasmBridge

CONSTANTS Entry,      \* the name of the entry point
          KindOf,     \* library -> "stub" or "wasm"
          Versions,   \* how many callbacks the program makes for one import
          MaxArgs,    \* bound: arguments of a call
          Pointer,    \* a function pointer of a WebAssembly table
          NotGiven    \* the program has not set an import

\* What an import can be set to: the dispatch function of callbacks and a context of it, made
\* with the types of that import.
Dispatcher == "nccc_cb_dispatcher"
Contexts == [sym : Imports, version : 1..Versions]

ASSUME ClientAssumption ==
    /\ NotGiven \notin Contexts /\ NullFn \notin Contexts \cup {Dispatcher}
    /\ KindOf \in [Libraries -> {"stub", "wasm"}] /\ Entry \in Names
    /\ MaxArgs \in Nat /\ {Versions, Pointer} \subseteq Nat /\ Apis # <<>>

VARIABLES phase,    \* "load", "ask", "use", "abort" or "crash" (a null pointer was used)
          kind,     \* of the library, or "none"
          counts,   \* what the library says it has: exports, imports, types
          next,     \* how many of these the program has asked for
          ask,      \* the question in progress
          learned,  \* address -> the codes of arguments and results
          names,    \* what the imports are called, by index
          given,    \* import -> the context the program set it to last
          running,  \* the exported function that is running, or {}
          call      \* the last transfer of values between JavaScript and C

clvars == <<phase, kind, counts, next, ask, learned, names, given, running, call>>
vars == <<dlvars, wasmvars, clvars>>

NoCounts == [exports |-> 0, imports |-> 0, types |-> 0]
NoAsk == [fn |-> "none", idx |-> 0, addr |-> NullFn, room |-> 0, wrote |-> 0]
NoCall == [len |-> 0, room |-> 1, want |-> <<>>, got |-> <<>>]

Total == counts.exports + counts.imports + counts.types
Import(s) == <<"import", s>>

Init == /\ DlInit /\ WasmInit
        /\ phase = "load" /\ kind = "none"
        /\ counts = NoCounts /\ next = 0 /\ ask = NoAsk
        /\ learned = [a \in {} |-> Zero] /\ names = <<>>
        /\ given = [s \in Imports |-> NotGiven]
        /\ running = {} /\ call = NoCall

-----------------------------------------------------------------------------
(* Load.                                                                   *)

Open(path) == /\ phase = "load"
              /\ dlfcn_open(path)
              /\ UNCHANGED <<wasmvars, clvars>>

Get(name) == /\ phase = "load" /\ reply.op # "none" /\ reply.obj \in Libraries
             /\ dlfcn_get(reply.obj, name)
             /\ UNCHANGED <<wasmvars, clvars>>

\* With the entry point the program asks what the library has.
AskLibrary ==
    /\ phase = "load"
    /\ reply.op = "get" /\ reply.name = Entry /\ reply.res = 0 /\ reply.ptr # Null
    /\ phase' = "ask"
    /\ kind' = KindOf[reply.obj]
    /\ counts' = IF kind' = "stub"
                   THEN [exports |-> stub_dispatch(1, 0)[3], imports |-> 0, types |-> 0]
                   ELSE [exports |-> wasm_library_info[1], imports |-> wasm_library_info[2],
                         types |-> wasm_library_info[4]]
    /\ UNCHANGED <<dlvars, wasmvars, next, ask, learned, names, given, running, call>>

-----------------------------------------------------------------------------
(* Ask.                                                                    *)

\* Buffers hold Junk where the library has not written.
Answer(room, cells) == [i \in 1..room |-> IF i \in DOMAIN cells THEN cells[i] ELSE Junk]
Peek(buf, i) == IF i \in DOMAIN buf THEN buf[i] ELSE Junk
Slice(buf, from, n) == [i \in 1..n |-> Peek(buf, from + i)]

\* The objects are asked for in the order of their indices: exports, imports, types.
AskExport ==
    /\ phase = "ask" /\ ask.fn = "none" /\ next < counts.exports
    /\ LET cells == IF kind = "stub" THEN stub_dispatch(2, next)
                                     ELSE library_get_export(next) IN
          ask' = IF kind = "stub"
                   THEN [fn |-> "arg_info", idx |-> cells[2], addr |-> cells[6],
                         room |-> 3 + cells[7] + cells[8], wrote |-> 0]
                   ELSE [NoAsk EXCEPT !.fn = "counts", !.idx = cells[4], !.addr = cells[3]]
    /\ UNCHANGED <<dlvars, wasmvars, phase, kind, counts, next, learned, names, given,
                   running, call>>

AskImport ==
    /\ phase = "ask" /\ ask.fn = "none"
    /\ counts.exports <= next /\ next < counts.exports + counts.imports
    /\ LET cells == library_get_import(next - counts.exports) IN
          /\ names' = Append(names, cells[2])
          /\ ask' = [NoAsk EXCEPT !.fn = "counts", !.idx = cells[4], !.addr = Import(cells[2])]
    /\ UNCHANGED <<dlvars, wasmvars, phase, kind, counts, next, learned, given, running, call>>

AskType ==
    /\ phase = "ask" /\ ask.fn = "none" /\ counts.exports + counts.imports <= next /\ next < Total
    /\ LET idx == next - counts.exports - counts.imports
           cells == typebridge_get_counts(idx) IN
          ask' = [NoAsk EXCEPT !.fn = "type", !.idx = idx, !.room = 4 + cells[2] + cells[3]]
    /\ UNCHANGED <<dlvars, wasmvars, phase, kind, counts, next, learned, names, given,
                   running, call>>

\* The counts say how long the buffer for the types must be.
AskCounts ==
    /\ phase = "ask" /\ ask.fn = "counts"
    /\ LET cells == callinfo_get_counts(ask.idx) IN
          ask' = [ask EXCEPT !.fn = "types", !.room = 3 + cells[2] + cells[3]]
    /\ UNCHANGED <<dlvars, wasmvars, phase, kind, counts, next, learned, names, given,
                   running, call>>

\* The types of an object; a type also tells its stub.
AskTypes ==
    /\ phase = "ask" /\ ask.fn \in {"arg_info", "types", "type"}
    /\ LET cells == CASE ask.fn = "arg_info" -> stub_dispatch(6, ask.idx)
                      [] ask.fn = "types" -> callinfo_get_types(ask.idx)
                      [] ask.fn = "type" -> typebridge_get_types(ask.idx)
           buf == Answer(ask.room, cells)
           head == IF ask.fn = "type" THEN 4 ELSE 3
           addr == IF ask.fn = "type" THEN Peek(buf, 2) ELSE ask.addr
           told == [in |-> Slice(buf, head, Peek(buf, head - 1)),
                    out |-> Slice(buf, head + Peek(buf, head - 1), Peek(buf, head))]
       IN /\ learned' = [a \in DOMAIN learned \cup {addr} |->
                            IF a = addr THEN told ELSE learned[a]]
          /\ ask' = [ask EXCEPT !.fn = "none", !.wrote = Len(cells)]
    /\ next' = next + 1
    /\ phase' = IF next' = Total THEN "use" ELSE "ask"
    /\ UNCHANGED <<dlvars, wasmvars, kind, counts, names, given, running, call>>

\* One index too far: stub libraries and imports answer -1, an export of a WebAssembly module
\* is an abort.
ExportAborts(idx) == ExportAt(idx) = {}
AskBeyond ==
    /\ phase = "use" /\ kind = "wasm" /\ running = {}
    /\ ExportAborts(counts.exports)
    /\ phase' = "abort"
    /\ UNCHANGED <<dlvars, wasmvars, kind, counts, next, ask, learned, names, given, running,
                   call>>

-----------------------------------------------------------------------------
(* Use.                                                                    *)

\* make_nccc_call and make_nccc_cb keep so much of a signature.
InSig(addr) == Kept(Letters(learned[addr].in))
OutSig(addr) == Kept(Letters(learned[addr].out))

\* While the module runs, JavaScript does only in a callback.
Linked == \E s \in ImportFuncs : ncccdispatch[s] # NullFn
JsRuns == running = {} \/ Linked

SetImport(i) ==
    /\ phase = "use" /\ kind = "wasm" /\ JsRuns
    /\ \E k \in 1..Versions :
          LET ctx == [sym |-> names[i + 1], version |-> k] IN
          /\ library_set_import(i, Dispatcher, ctx)
          /\ given' = [given EXCEPT ![names[i + 1]] = ctx]
    /\ UNCHANGED <<dlvars, phase, kind, counts, next, ask, learned, names, running, call>>

\* Somebody calls the module's init.  It crashes if it needs a memory or a table that is not
\* set; a start function is not modelled.
InitModule ==
    /\ phase = "use" /\ kind = "wasm" /\ running = {} /\ ~initialised
    /\ \/ init /\ UNCHANGED phase
       \/ CanFail /\ phase' = "crash" /\ UNCHANGED wasmvars
    /\ UNCHANGED <<dlvars, kind, counts, next, ask, learned, names, given, running, call>>

\* The arguments of a call are numbered from 1, and may be too few or too many.
Args(n) == [i \in 1..n |-> i]
Expected(n, sig) == Padded(sig, Args(n))

\* A call of an exported function of the library.  A stub returns at once, a WebAssembly
\* function may call its imports first.
CallStub(id, n) ==
    /\ phase = "use" /\ kind = "stub"
    /\ LET sig == Letters(Codes(Api(id).in))
           rsig == Letters(Codes(Api(id).out))
           cells == InCells(FALSE, Zero, InSig(Stub(id)), Args(n))
           result == Cells(rsig, Args(Len(rsig))) IN
       /\ call' = [len |-> Len(sig), room |-> SigBuf,
                   want |-> Expected(n, sig) \o Args(Len(rsig)),
                   got |-> ReadAll(cells, 0, sig) \o ReadAll(result, 0, OutSig(Stub(id)))]
       /\ phase' = IF InAborts(OutSig(Stub(id))) THEN "abort" ELSE "use"
    /\ UNCHANGED <<dlvars, wasmvars, kind, counts, next, ask, learned, names, given, running>>

\* The stub of an export calls through a variable that is null before init.
CallExport(s, n) ==
    /\ phase = "use" /\ kind = "wasm" /\ running = {}
    /\ LET cells == InCells(FALSE, Zero, InSig(NcccFn(s)), Args(n)) IN
       call' = [len |-> Len(Header[s].in), room |-> SigBuf,
                want |-> Expected(n, InLetters(s)), got |-> ReadAll(cells, 0, InLetters(s))]
    /\ running' = {s}
    /\ phase' = IF initialised THEN "use" ELSE "crash"
    /\ UNCHANGED <<dlvars, wasmvars, kind, counts, next, ask, learned, names, given>>

\* The result is written as its type and converted by its letter; a void function writes
\* none.
Return(s) ==
    /\ phase = "use" /\ s \in running
    /\ LET cells == Cells(OutLetters(s), Args(Len(Header[s].out))) IN
       call' = [len |-> 0, room |-> SigBuf,
                want |-> Args(Len(Header[s].out)), got |-> ReadAll(cells, 0, OutSig(NcccFn(s)))]
    /\ phase' = IF InAborts(OutSig(NcccFn(s))) THEN "abort" ELSE "use"
    /\ running' = {}
    /\ UNCHANGED <<dlvars, wasmvars, kind, counts, next, ask, learned, names, given>>

\* A function pointer is called through the stub of its type, given as dispatch function; the
\* tables hold one after init.
CallPointer(idx, n) ==
    /\ phase = "use" /\ kind = "wasm" /\ running = {} /\ initialised
    /\ LET a == TypeStub(idx)
           sig == Letters(WasmCodes(TypeAt(idx).in))
           rsig == Letters(WasmCodes(TypeAt(idx).out))
           cells == InCells(TRUE, Pointer, InSig(a), Args(n))
           result == Cells(rsig, Args(Len(rsig))) IN
       /\ call' = [len |-> Len(sig), room |-> SigBuf,
                   want |-> <<Pointer>> \o Expected(n, sig) \o Args(Len(rsig)),
                   got |-> <<Read(cells, 1, "p")>> \o ReadAll(cells, 1, sig)
                           \o ReadAll(result, 0, OutSig(a))]
       /\ phase' = IF InAborts(OutSig(a)) THEN "abort" ELSE "use"
    /\ UNCHANGED <<dlvars, wasmvars, kind, counts, next, ask, learned, names, given, running>>

\* nccc_cb_dispatcher reads the cells, and writes the result, by the letters of its context.
nccc_cb_dispatcher(ctx) == [in |-> InSig(Import(ctx.sym)), out |-> OutSig(Import(ctx.sym))]

\* The module calls an imported function: its stub calls the dispatch function it was given,
\* a null pointer before stub_library_set_import.
CallImport(s) ==
    /\ phase = "use" /\ running # {}
    /\ IF ncccdispatch[s] = NullFn THEN phase' = "crash" /\ UNCHANGED call
       ELSE LET sig == nccc_cb_dispatcher(nccc[s])
                cells == Cells(InLetters(s), Args(Len(Header[s].in)))
                result == Cells(sig.out, Args(Len(sig.out))) IN
            /\ call' = [len |-> Len(Header[s].in), room |-> SigBuf,
                        want |-> Args(Len(Header[s].in)) \o Args(Len(Header[s].out)),
                        got |-> ReadAll(cells, 0, sig.in) \o ReadAll(result, 0, OutLetters(s))]
            /\ phase' = IF InAborts(sig.in) THEN "abort" ELSE "use"
    /\ UNCHANGED <<dlvars, wasmvars, kind, counts, next, ask, learned, names, given, running>>

\* A C function calls back: an array fills the n outputs of the context, another value the
\* first.  The letters are those the dispatcher captured before it called the callback.  For
\* the terminator among them value_out aborts, unless the value is one it writes whatever the
\* letter: undefined, null, a boolean, an external or a buffer.
OutputSig(n) == [i \in 1..n |-> IF i % 2 = 1 THEN "i" ELSE "d"]
CallBack(n, isArray, needsLetter, stack) ==
    /\ phase = "use" /\ kind = "stub"
    /\ LET sig == OutputSig(n)
           filled == IF isArray \/ n = 0 THEN n ELSE 1
           letters == SubSeq(Captured(sig, stack), 1, filled) IN
       /\ call' = [len |-> n, room |-> OutBuf,
                   want |-> Args(filled),
                   got |-> ReadAll(Cells(letters, Args(filled)), 0, SubSeq(sig, 1, filled))]
       /\ phase' = IF needsLetter /\ "end" \in {letters[i] : i \in 1..filled} THEN "abort" ELSE "use"
    /\ UNCHANGED <<dlvars, wasmvars, kind, counts, next, ask, learned, names, given, running>>

\* The module uses an imported memory or table through the pointer it was given.
UseObject(s) ==
    /\ phase = "use" /\ running # {}
    /\ imported[s] = NullFn
    /\ phase' = "crash"
    /\ UNCHANGED <<dlvars, wasmvars, kind, counts, next, ask, learned, names, given, running, call>>

\* A callback throws: the dispatcher jumps to the trampoline that called the module.
CallbackThrows ==
    /\ phase = "use" /\ running # {}
    /\ Linked
    /\ running' = {}
    /\ UNCHANGED <<dlvars, wasmvars, phase, kind, counts, next, ask, learned, names, given, call>>

Stopped == phase \in {"abort", "crash"} /\ UNCHANGED vars

Next == \/ \E p \in Paths : Open(p)
        \/ \E n \in Names : Get(n)
        \/ AskLibrary \/ AskExport \/ AskImport \/ AskType \/ AskCounts \/ AskTypes
        \/ AskBeyond
        \/ \E i \in 0..(counts.imports - 1) : SetImport(i)
        \/ InitModule
        \/ \E id \in ApiIds, n \in 0..MaxArgs : CallStub(id, n)
        \/ \E s \in ExportFuncs, n \in 0..MaxArgs : CallExport(s, n)
        \/ \E n \in 0..(SigBuf - 1), isArray, needsLetter \in BOOLEAN, l \in {"i", "d", "end"} :
              CallBack(n, isArray, needsLetter, l)
        \/ \E idx \in TypeIds, n \in 0..MaxArgs : CallPointer(idx, n)
        \/ \E s \in Exports : Return(s)
        \/ \E s \in ImportFuncs : CallImport(s)
        \/ \E s \in ImportVars : UseObject(s)
        \/ CallbackThrows \/ Stopped

Spec == Init /\ [][Next]_vars

-----------------------------------------------------------------------------
(* Properties.                                                             *)

\* Every variable has its type, no more is asked for than the library has, and imported
\* functions have the dispatch function of callbacks or none.
TypeOK == /\ DlTypeOK /\ WasmTypeOK
          /\ phase \in {"load", "ask", "use", "abort", "crash"}
          /\ kind \in {"none", "stub", "wasm"} /\ (kind = "none") <=> (phase = "load")
          /\ next \in 0..Total
          /\ DOMAIN names \subseteq 1..counts.imports
          /\ \A i \in DOMAIN names : names[i] \in Imports
          /\ \A s \in ImportFuncs : ncccdispatch[s] \in {Dispatcher, NullFn}
          /\ running \subseteq ExportFuncs

\* What the program has learned of an address is what the code behind it reads and writes:
\* the description of an object, found under an index of its own, and the stub that is
\* generated from the same tables agree, whatever symbols are mixed in the header.
Declared(a) ==
    CASE a[1] = "stub" -> [in |-> Codes(Api(a[2]).in), out |-> Codes(Api(a[2]).out)]
      [] a[1] = "typestub" -> [in |-> WasmCodes(TypeAt(a[2]).in), out |-> WasmCodes(TypeAt(a[2]).out)]
      [] OTHER -> [in |-> WasmCodes(Header[a[2]].in), out |-> WasmCodes(Header[a[2]].out)]
LearnedIsDeclared == \A a \in DOMAIN learned : learned[a] = Declared(a)

\* The counts a library reports are those it writes types for: the answer about the types
\* fills the buffer of that size, no less and no more.
AnswersFit == ask.wrote \in {0, ask.room}

\* Arguments and results arrive in their places, under their types, with zeros for what is
\* missing, through a stub, a dispatch function, a callback: as long as the signature fits
\* the buffer it is kept in.
ValuesArrive == call.len < call.room => call.got = call.want

\* An import is linked to what the program last set under its name, and to nothing else.
RightImport ==
    /\ \A s \in ImportFuncs :
          IF given[s] = NotGiven THEN ncccdispatch[s] = NullFn
          ELSE <<ncccdispatch[s], nccc[s]>> = <<Dispatcher, given[s]>>
    /\ \A s \in ImportVars : given[s] # NotGiven => imported[s] = given[s]

\* A null pointer is used only where an exported function is called before the module's init
\* has run, or where the program has left unset an import that the library told it of: who
\* sets all it was told of, and lets init run first, never crashes.
NoNullUse == phase = "crash" => \/ running # {} /\ ~initialised
                                \/ \E i \in DOMAIN names : given[names[i]] = NotGiven
=============================================================================
