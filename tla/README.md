# NCCC in TLA+

NCCC lets JavaScript call native functions and native code call JavaScript through one
uniform C signature, `void f(const nccv64* in, nccv64* out)`: arguments and results are
arrays of 64-bit cells, and a string of type letters says what each cell holds.  This
directory holds the specifications of that code: TLA+ modules, the TLC configurations that
check them, and proofs checked by TLAPS.

## 1. Inventory of the system

| Part | Source | State it keeps | Operations |
|---|---|---|---|
| Node.js binding | `js/node/node-nccc/node-nccc.c` | statics `calldepth`, `g_jmpbuf`; callback contexts (`cb_params_t`), finalizer params, handle scopes, the pending exception of the environment | `make_nccc_call` and its trampoline, `make_nccc_cb` and its dispatcher, `nccc_destroy_cb_ctx`, `nccc_wrap_pointer` and `do_finalize` |
| Duktape binding | `js/duktape/duk-nccc/duk-nccc.c` | the global stash (callback by context address), contexts, params of native functions and of wrapped pointers | the same entry points, with the finalizer `do_free_nccc_call` |
| Value conversion | `value_in`, `value_out`, `get_pointer` of both bindings; `stubsupport/nccv64.h`, `stubcode.inc.c` | none (a cell is written on one side and read on the other) | C result to cell, cell to JavaScript value, JavaScript value to cell |
| Dispatch machine | `stubsupport/nccc_corelib.c`, `.h` | a register file on the stack, an instruction pointer | ten operations, entry points for 0 to 7 arguments |
| Event loop of duk-yuni | `js/duktape/duk-yuni/bootstrap.js`, `yuniduk.c` | `eventqueue` | `setTimeout`, `setImmediate`, `setInterval`, `Boot`, `MainLoop` |
| Helpers and polyfills of duk-yuni | the same files | none | `readfile`, `copyWithin`, printing, `Array.fill`, `Math` |
| Stub metadata | `stubsupport/stubcode.inc.c`, `NcccStubMacros.cmake` | constant tables | `library_info`, `library_export_info`, `library_arg_info` |
| WebAssembly bridge | `wasm/wasm2c/bridge/stub.inc.c`, its CMake generators | import table and dispatch pointers, export tables | information queries, `stub_library_set_import`, call stubs |
| Core utilities | `common/ncccutils.c` | none | peek, poke, malloc, free, `rawcall`, mathematics |
| Dynamic linking | `common/ncccdlfcn.c`, `win32-dlfcn.c` | the error of the linker | `dlfcn_open`, `dlfcn_get` |
| whereami, test module, build files | `common/whereami.c`, `tests/testmodule`, `CMakeLists.txt` | none | third party; constants printed and returned; configuration |

How the parts meet:

- JavaScript calls a closure made by `make_nccc_call`; the trampoline converts the
  arguments (`value_out`), calls the native function, converts the results (`value_in`).
- Native code calls a *context* made by `make_nccc_cb` through the dispatcher, which
  converts in the other directions and calls the JavaScript function.  The two nest to any
  depth on one C stack.
- The garbage collector calls `do_finalize`, which calls a native destructor, which may
  dispatch callbacks again.
- The dispatch machine makes ordinary C callbacks out of contexts: its program moves the
  arguments of the C function into cells and calls the dispatcher.
- The stubs and the WebAssembly bridge are what a trampoline calls, and `set_import` hands
  a WebAssembly module dispatchers to call.
- The event loop of duk-yuni runs all JavaScript of the Duktape side after the boot file.

Hard behaviours: exceptions that must cross native frames (Node.js: a `longjmp` of the
binding's own; Duktape: one of the engine's); contexts that are destroyed, and whose
address is used again, while their dispatcher is on the stack; finalizers that run on an
empty stack (Node.js) or on top of any script (Duktape) and may throw; widths and
signedness that differ on the two sides; a queue whose handlers post to it.  There are no
threads inside one environment, but worker threads load the Node.js binding several times
into one process, where its two statics exist once.  Nothing is persistent: crash recovery
and lost messages do not arise.

What makes each part correct:

- *Node.js binding*: `calldepth` and `g_jmpbuf` agree with the stack at every moment; a
  jump lands in a live frame, the right one; native code called by JavaScript never runs
  on with an exception pending; outputs fit; params and scopes are released.
- *Duktape binding*: a context finds its own callback; params live as long as they are
  read; errors stay on the JavaScript side; everything is freed.
- *Value conversion*: a value keeps its meaning in each direction and over a round trip.
- *Dispatch machine*: it does what its header lists, and stops at what is not listed.
- *Event loop*: posting order, each handler exactly as often as asked for, none starved.
- *Stub metadata*, *WebAssembly bridge*: every index a query accepts is described by its
  own table entry, in buffers of the size its counts say; a program that trusts the answers
  calls every function with the right types, and meets a null pointer only where it left an
  import unset or called an export before the module's `init`.
- *Dynamic linking*: success is reported exactly when there is a handle or an address.

## 2. Modules

| Module | Models | Abstract specification |
|---|---|---|
| `NodeBridge` | control flow and memory of the Node.js binding | implements `AbsBridge` |
| `AbsBridge` | which side runs, and where an exception comes out; no source lines of its own | |
| `NodeWorkers` | the two statics of the Node.js binding shared by several environments | |
| `DukBridge` (`MCDukBridge`) | the Duktape binding under duk-yuni's main program | implements `AbsDuk` |
| `AbsDuk` | which side runs, and where an error comes out, with an engine that unwinds by itself; no source lines of its own | |
| `ValueConv` | one value crossing the boundary, in both bindings | |
| `DispatchVM` (`MCDispatchVM`) | `nccc_dispatch_N` as the code executes it | implements `DispatchDoc` |
| `DispatchDoc` | the ten operations as `nccc_corelib.h:11-22` lists them | |
| `EventLoop` | the queue of duk-yuni | |
| `Dlfcn` | `dlfcn_open`, `dlfcn_get` over the linker's error state | |
| `Marshal` | argument lists: type codes, letters, cells, the lengths of signatures | |
| `StubMeta` | the dispatch function of a stub library (extends `Marshal`) | |
| `WasmBridge` | a bridged WebAssembly module: numberings, queries, imports (extends `Marshal`) | |
| `Client` (`MCClient`) | a program that finds, describes, links and calls a library; composes `Dlfcn`, `StubMeta` and `WasmBridge` | |
| `NodeBridge_proofs`, `NodeWorkers_proofs`, `DukBridge_proofs`, `DispatchVM_proofs`, `EventLoop_proofs`, `ValueConv_proofs`, `WasmBridge_proofs` (which has those about `Marshal` too), `Client_proofs` | theorems and lemmas about the modules of those names | |

How they depend on each other:

    Dlfcn ------------------------+
    Marshal --- StubMeta ---------+--- Client --- MCClient, Client_proofs
            \-- WasmBridge -------/
    AbsBridge <-- NodeBridge      AbsDuk <-- DukBridge           (<-- implements)
    DispatchDoc <-- DispatchVM
    NodeWorkers   EventLoop   ValueConv                          (stand alone)

Each definition's source lines are in `PROJECT.json` under `map`.

### NodeBridge

The variable `stack` is the C stack, one record per frame of interest: `task` (JavaScript
run by the event loop), `call` (trampoline and native function), `cb` (dispatcher and
callback), `fin` (`do_finalize` and destructor).  `calldepth` and `jmpbuf` are the two
statics; `jmpbuf` holds the stack position of the trampoline that saved it, so a stale
buffer is a number that no longer names that frame.  `scopes` counts handle scopes of
dispatchers, `exc` is N-API's pending exception, `ctxs` maps addresses to contexts (only
the output count of a signature matters here), `wraps` the finalizer params.

| Action | Code |
|---|---|
| `JsCall`, `NativeReturn` | `nccc_call_trampoline` before and after the native function |
| `NativeDispatch`, `JsReturn` | `nccc_cb_dispatcher` before and after `napi_call_function` |
| `ThrowAndJump`, `ThrowAtDepth0` | the two branches of `nccc_cb_dispatcher` after an exception; the first includes what the landing trampoline does |
| `PendingDispatch` | the whole dispatcher when an exception is pending already |
| `MakeCb`, `DestroyCb`, `WrapPointer` | the entry points of those names |
| `StartFinalizer`, `FinReturn` | `do_finalize` before and after the destructor |
| `BadValue` | an `abort()` of the conversions or argument checks, wherever one can happen |
| `StartTask`, `TaskReturn`, `JsThrow`, `JsCatch`, `ThrowOutOfTask`, `ReportUncaught` | JavaScript and Node.js (external) |

JavaScript and native code between two calls are arbitrary.  Assumed of them: contexts that
are dispatched or destroyed exist, and a native caller gives a dispatcher the cells its
signature asks for.  Assumed of Node.js: finalizers run from the event loop, with an empty
stack, and uncaught exceptions are reported there.  That native code can call nothing of
Node.js while an exception is pending is N-API's rule, a guard of the model and no property
of it.  `make_nccc_call` needs no state: what it allots is never freed.

### DukBridge

The same picture of the stack, with `main` for the script `dukload` runs.  `stash` is the
part of the global stash the binding uses, indexed by `Index[address]`, the 32-bit property
index Duktape makes of a pointer; `calls` and `wraps` are the params of native functions and
of wrapped pointers.  Errors are the engine's: `Unwind` removes the dispatcher's frame and
its native caller's, and if that caller was a destructor the error ends in the engine's
protected call of the finalizer.  Finalizers may run on top of any JavaScript frame
(reference counts reach zero there) and when the heap is destroyed.

`destroy_cb_ctx` is two steps.  Deleting the stash entry may drop the last reference to the
callback and to all it holds, and Duktape then runs finalizers, which call destructors, which
may dispatch: all this happens before the context is freed (`DestroyEnds`).  `destroying`
tells on which frame a context's destruction waits; the script of that frame does not go on
meanwhile (`JsRuns`).

Two things are Duktape's own and enter the model as assumptions: a running trampoline keeps
its function and so its params alive (`Pinned`), and a finalizer's call is protected
(`ErrorAfter`).

`Sides` maps the stack to that of `AbsDuk`: `main` and `cb` are JavaScript, `call` is a native
function, `fin` a finalizer.  `AbsDuk` and `AbsBridge` are the difference between the two
bindings in their callers' eyes: with Duktape an error comes out of the innermost native call
and ends at a finalizer, with Node.js it comes out of the outermost one.

### ValueConv

A behaviour is one crossing: a C result written into a cell, converted to JavaScript,
converted back; or a JavaScript value converted to a cell: a number, `null`, `undefined`, a
boolean, a pointer (in Node.js an external) or a buffer, a string, or an object that is none
of these.  The bindings differ in what they make of them.  Node.js writes an address to the
whole cell under every letter, `f` and `d` too, and takes a string under `p` only; Duktape
writes the low bits that the type has, takes strings under `p`, `i` and `l`, and throws under
`f` and `d`.  Bits that a stub does not write are nondeterministic (`Garbage`).  The parameters are sizes, the numbers of values of a word,
an int, a short and a byte: what the code does with bits is then division with remainder.  A
double is exact up to `Exact` and a multiple of one of the `Units` beyond, each of which is
the spacing of the doubles of one binary exponent; `Rounded` takes the nearest, ties to even.
`f` and `d` carry their bits unread; `FloatOne` stands for those of 1.0, which the Duktape
binding makes of `true`.

### DispatchVM and DispatchDoc

Memory is one function from addresses to words in which the register file is a range, since
`REGADDR` makes addresses of registers and `CALL` writes through them.  Cells next to the
file are mapped and belong to someone else, so a bad register number has an effect.  Access
to an address that is not mapped is the status `undef`.  `JMP` moves `ip` and falls into `JNZ`,
which reads operands and a register there without a check and falls into `abort()`; the model
has both reads, which may be undefined too.  `DispatchDoc` is written from the
list in the header alone, with jumps that jump.

### EventLoop

`queue` and `running` are the code's; `fired` and `before` are history variables for the
properties.  The program runs in phases: the promise polyfill, whose error nothing catches
and which therefore is fatal, the boot file, whose error is caught and printed, and the loop,
where an error is fatal again.  Delays are stored by the code and never read, and `clearInterval` only prints:
neither is modelled.

### NodeWorkers

`NodeBridge` with everything left out that only one environment sees: a stack of `call` and
`cb` frames per environment, and `calldepth` and `g_jmpbuf` once.  Each access to them is a
step, between any two of which the other thread may run: the test of `calldepth` (`Enter`), the
`setjmp` (`Save`), the increment and the decrement, which are a load and a store each (`Load`,
`Increment`; `NativeReturn`, `Decrement`), the test after an exception (`Throw`), the `longjmp`
and the assignment where it lands (`Longjmp`, `Reset`).  A jump out of the own stack, or into a frame that has returned, stops its thread
(`lost`): C says nothing of what it does then.

### Dlfcn

`lastError` is whether `dlerror` has something to report: the static `lastError` of
`win32-dlfcn.c`, or the C library's on POSIX, where a call that succeeds may or may not
clear an older error.  `reply` is what the out cells of the last call hold.

### Marshal, StubMeta, WasmBridge

A cell is the letter it was written by with a value; reading it by another letter, or a cell
nobody wrote, gives `Junk`.  The answers of the queries are operators whose value is the
sequence of the cells written, in the order of the code, so that a caller that mistakes one
cell for another reads something else.

`StubMeta` takes the `nccc_api()` lines of a library as the constant `Apis`.  `WasmBridge`
takes the symbols of the header `wasm2c` wrote (`Header`) and the signatures its source
registers (`FuncTypes`); the four numberings of the generators are counted from these, each
as the script counts: imports over functions and variables, exports by themselves, call
infos over both with exports behind imports, and types where they are first registered, with
`[] => []` first.  Its state is what `stub_library_set_import` fills, and whether the module's
`init` has run: an exported function is called through a variable of the code `wasm2c`
generates, which is null until then, and `init` fails on an imported memory or table that is
not set.  The header script leaves `init` out of the bridge, so the model has it as an action
of its environment.

### Client

The program is external: nothing in the repository loads a library.  What it can do follows
from the entry points it is given, and it passes only handles and addresses it was given.

| Action | Code |
|---|---|
| `Open`, `Get` | `dlfcn_open`, `dlfcn_get` |
| `AskLibrary`, `AskExport`, `AskImport`, `AskType`, `AskCounts`, `AskTypes` | one query each, through `util_rawcall` into a buffer of the size an earlier answer gave |
| `AskBeyond` | `library_get_export` with an index too large: `abort()` |
| `SetImport` | `stub_library_set_import` with the dispatcher and a context, also in a callback |
| `InitModule` | the module's `init`, which somebody calls at some time or never |
| `CallStub`, `CallExport` and `Return`, `CallPointer` | a closure of `make_nccc_call` with the letters learned: a stub of a C library, an exported function, a function pointer through the stub of its type as dispatch function |
| `CallImport` | the stub of an imported function: `nccc_cb_dispatcher` with its context |
| `CallBack` | `nccc_cb_dispatcher` for a context with outputs beyond `outtypes`; the letter found there is the terminator or what the stack held, and the terminator is an `abort()` for values that need a letter |
| `UseObject`, `CallbackThrows` | the module's code, and a `longjmp` over it |

What the program has learned is `learned`, address to type codes; `want` and `got` in `call`
are what the last transfer should have carried and what it carried, computed from the
declaration on one side and from the learned codes on the other.

## 3. Runs

| Run | Checks | Bounds |
|---|---|---|
| `node_bridge` | invariants of section 4, `ImplementsAbsBridge`, `ExceptionResolved` | 2 addresses, output counts 0 and 2, 1 wrapped pointer, 2 exceptions, 6 frames, 4 scopes |
| `node_bridge_scopes` | `ScopesBalanced` is violated | as above, smaller |
| `duk_bridge` | invariants, `ImplementsAbsDuk`, `ErrorResolved` | 2 addresses, 2 functions, 1 closure, 1 wrapped pointer, 1 error, 5 frames |
| `duk_bridge_leak` | `ParamsFreed` is violated | as above, smaller |
| `client` | invariants of section 4 | a stub library of 4 functions, a module of 8 symbols and 4 signatures (one twice), 2 contexts for each import, 0 to 3 arguments, `SigBuf` 4, `OutBuf` 3 |
| `node_workers` | `ReturnsToOwnRoot` is violated | 2 environments, 4 frames each |
| `dispatch` | `ImplementsDoc`, `AbortJustified`, `Terminates` | 2 registers, 8 words, 3 other cells, every program of 2 or 3 instructions from 20 |
| `dispatch_store`, `dispatch_jump` | `StoreHitsBase`, `AbortJustified` are violated | programs of stores, of jumps |
| `event_loop` | `InPostingOrder`, `TimesFired`, `EveryHandlerRuns` | 3 timers at a time, used again without limit |
| `value_conv` | `RoundTrip`, `ResultSeen`, `NumberArrives`, `NoNumberArrives` | 128 words, 16 ints, 8 shorts, 4 bytes; doubles exact up to 32, spacings 1, 2 and 4 |
| `value_conv_unsigned` | `UnsignedSeen` is violated | as above |

Why the bounds suffice.

- *node_bridge*: with 6 frames, task, call, callback, call, callback, call fit, so a jump
  passes over two dispatchers or more, and under a destructor a whole nested call fits.  Two addresses and
  two output counts let an address be freed and used again with another count while its
  dispatcher runs.  Four scopes let leaked ones accumulate beside live ones.  A seventh frame
  only repeats the alternation, and the theorems of section 5 hold for any number.
- *duk_bridge*: 5 frames hold a finalizer on top of a callback, with a callback of its own
  that throws, in the middle of a destruction too.  Two functions tell contexts apart, two
  addresses make reuse possible.
- *client*: the symbols mix functions and variables, imports and exports, so that no two of
  the numberings coincide; a memory, a table and a number are among the variables, and one
  symbol of a library has the value null.  The buffers of the binding, 40 letters and 33,
  are scaled to 4 and 3: one function has a signature that just does not fit, callbacks with
  3 outputs reach the letter behind the captured ones.  Two contexts for an import tell the
  last setting from an earlier one.
- *node_workers*: the shortest counterexamples need two frames in one environment and one in
  the other.
- *dispatch*: two registers and cells on either side of the file give every boundary case
  of `regcheck` (-1, 0, the last, one past it); three instructions let the result of a
  `REGADDR` or `ADD` be used as an address by `LD`, `ST` or `CALL`.  The parameters 0 and 1
  are mapped addresses, the garbage 6 is not.  The loads and stores of this run have
  registers in the file, and its stores store their base register: what `LD` and `ST` do
  otherwise is finding 3 and a hazard.
- *event_loop*: three timers are enough for one to wait behind two others; a finished one
  can be posted again, so handlers post forever and starvation would show.
- *value_conv*: every word, so every sign and every carry at every size occurs; the doubles
  are exact for every int and not for every word, as in C, and a word meets each spacing.

Deadlock is checked in every run but `node_workers`: each module has a step for the state
in which its program has ended (`Halted`, `Over`, `Stopped`).  In `node_workers` a thread
that has jumped to where it should not stops, and with both lost nothing happens any more.

### Fairness

- `NodeBridge`: weak fairness of the steps that propagate an exception (they are
  straight-line code of the binding and of Node.js), of the report of an uncaught
  exception, and of `FinReturn`: a destructor returns in the end.  Without the last one a
  destructor could dispatch forever with an exception pending.  Nothing is assumed of
  JavaScript or of native functions: they may run forever.
- `DukBridge`: weak fairness of `Unwind` and `Uncaught`, both inside Duktape.
- `DispatchVM`: the machine takes its next step.
- `Client`, `NodeWorkers`, `ValueConv`: none; their properties are about safety.
- `EventLoop`: the loop goes round, and the polyfill, the boot file and each handler end, by returning or
  by throwing.  A handler that never ends would stop the whole program: there is one thread.

## 4. What the checks show

`NodeBridge`:

- `CallDepthMatches`: `calldepth` counts the trampolines on the stack, although a jump skips
  the decrements of those it passes over.
- `LongjmpTargetLive`: where a dispatcher may jump, the buffer was saved by the outermost
  trampoline and that frame has not returned.
- `NoPendingIntoNative`: only a destructor gets control back with an exception pending.
- `DispatcherScopesOpen`: the scope of a dispatcher that runs is open.
- `OutWithinRoom`: the output count captured before the callback protects the caller's
  cells from a context that was destroyed or replaced meanwhile.  It does not ask for every
  output: a value that is no array fills the first only.
- `ParamsMatchFin`: no jump leaves a destructor half-way.
- `ImplementsAbsBridge`: an exception nobody catches comes out, unchanged, in the JavaScript
  frame that made the outermost native call.
- `ExceptionResolved`: it is caught or reported in the end.

`DukBridge`: `RightCallback` (over reuse of addresses, every context finds its own callback in
the stash until its destruction begins, whatever the finalizers do that this sets off, and no
dead one is retained), `OutWithinRoom`, `ErrorOnlyInJs`, `ErrorResolved`.  Were the context
freed before the entry is deleted, a finalizer could make a new one at the same address, and
the destruction would delete its callback.  `RightCallback` is checked with distinct indices.  If two live contexts lie a multiple of 4 GiB apart, their
indices are equal and it fails, in the model as in the code; `Index` is a parameter so that
this can be seen.  `ImplementsAbsDuk`: an error nobody catches comes out, unchanged, in the
JavaScript frame that made the innermost native call, and a finalizer in between swallows it.

`Client`:

- `GetReportsItself`: an older error does not make `dlfcn_get` fail, and a symbol whose value
  is null is found.
- `LearnedIsDeclared`, `AnswersFit`: what the queries say of an object, found under one
  numbering from another, is what the stub generated for it reads and writes, and each
  answer fills exactly the buffer that was allotted by the counts.
- `ValuesArrive`: arguments and results keep place and type through stubs, dispatch
  functions (where everything moves up by one cell) and callbacks, with too many or too few
  arguments, if the signature fits the buffer that keeps it.
- `RightImport`: dispatch function and context of an import change together, also when a
  callback sets the import that called it.
- `NoNullUse`: a null pointer is used only where an exported function is called before the
  module's `init` has run, or where an import that the program was told of is not set.

`Client` has an `abort()` where its own steps meet one (a letter `value_in` refuses, the
terminator among the letters of a callback, an export that does not exist).  The code aborts
in other places too, for an unknown value, a null address, an unknown operation of a stub
library, another library index than 0, or without memory; no property lists them.

`DispatchVM`: `ImplementsDoc` (each step is the listed operation, on registers and memory),
`AbortJustified` (an `abort()` has an unknown operation or a register that is none as its
cause), `Terminates`.  They are claims about programs whose loads and stores name registers of
the file, as the code never looks at those: with others the machine goes on, or is undefined.

`ValueConv`:

- `RoundTrip`: a value that goes to JavaScript and back under one letter is unchanged, except
  64-bit integers between two doubles.
- `ResultSeen`: what JavaScript sees of a result.  An `int`, and a 64-bit integer that is a
  double, is seen as it is; other 64-bit integers as a double at most half a spacing away; an
  unsigned int as the signed one of the same bits.  Of 8- and 16-bit results only the low bits
  are right.
- `NumberArrives`: an integer that the C type has a value for arrives as that value.
- `NoNumberArrives`: null, undefined and booleans arrive as zeros and ones in the type of the
  letter, except `true` for `f` and `d` in the Node.js binding, which writes the integer 1
  there ("FIXME: Ignore type"); the address of a pointer, a buffer or a string arrives in the
  bits the type has.

### Findings

1. `node_bridge_scopes`: with nested callbacks, a throw closes the innermost dispatcher's
   handle scope and jumps over the others; theirs stay open.
2. `duk_bridge_leak`: an error in a destructor's callback leaves `do_finalize` before
   `free(params)`.
3. `dispatch_store`: `ST` uses the register it stores as its base and ignores its base
   operand.
4. `dispatch_jump`: `JMP` falls through to `JNZ`, and that to the default case, which
   aborts; the machine has no working jumps.
5. `value_conv_unsigned`: unsigned 32-bit results with the top bit set arrive negative.
   `RoundTrip` and `NumberArrives` show that no information is lost by it.
6. `node_workers`: with two environments an exception is sent to the trampoline of the other
   one, or to a frame that has returned: `calldepth` and `g_jmpbuf` belong to the process.

Seen while modelling, without a run: `value_in` of the Node.js binding aborts for the
letters `L`, `x` and `X` which its `value_out` takes; it reads 8- and 16-bit results as ints,
whose upper bits no stub has written; `setInterval` fires twice and stops
(`TimesFired` states it as it is); `LD` and `ST` do not check their registers and go on with
whatever lies beyond the file; signatures of 40 letters and more are cut without notice, and
outputs from the 33rd on are converted by letters that were not copied (`ValuesArrive` excepts
them); an export index out of range is an `abort()` where the comparable import query answers
-1; two addresses of contexts that are a multiple of 4 GiB apart share a property index; the
stub of an export calls through a null pointer until an `init` has run that the bridge does
not offer to its caller; an error of the promise polyfill ends duk-yuni before the boot file.

## 5. What is proved

### NodeBridge_proofs

It proves, for every value of the constants under `NodeAssumption` (a
context's absence is not a number, no exception value equals `NoExc`, output counts and
bounds are naturals):

- `Spec => []P` for `TypeOK` and all six other invariants of the `node_bridge` run, through
  one inductive invariant `IInv` (`Invariance`);
- `Implementation`: `Spec => Abs!Spec`.

None of the invariants is inductive alone.  `LongjmpTargetLive` needs `CallDepthMatches`
(depth zero must mean that no trampoline is there, or the next one would not save the
buffer); both need `Shape`, which says how kinds of frames alternate: JavaScript and native
frames in turn, `task` only outermost, `fin` only outermost.  From `Shape` and the minimality
of `jmpbuf` it follows that a jump removes every `call` frame, which is why resetting the depth
to zero is right, and that it never removes a `fin` frame, which gives `ParamsMatchFin`.
`NoPendingIntoNative` needs the depth again: the branch that leaves the exception pending
is taken only when no trampoline is on the stack, so by `Shape` the native frame below is
a destructor.  `OutWithinRoom` needs that each `cb` frame's captured count is its room,
which is part of `Shape`.  `DispatcherScopesOpen` is an inequality because of finding 1.

The proof has one lemma per action or family of actions, and lemmas on what appending to
and cutting the stack does to the frames of a kind.  For the refinement, each action maps
to one step of `AbsBridge` or to a stutter; `Shape` gives the position of the outermost
JavaScript frame, which is where `jmpbuf - 1` points.

### DukBridge_proofs

Under `DukAssumption` (`Free` is no function and no context, `NoExc` no error, counts are
naturals, there is room for the script's frame):

- `Spec => []P` for `TypeOK`, `OutWithinRoom`, `ErrorOnlyInJs`;
- `Implementation`: `Spec => Abs!Spec`, the error flow of `AbsDuk`;
- `RightCallback` when `IndexInjective` holds: no two addresses agree in their low 32 bits.

`IInv` adds the shape of the stack to these.  `ErrorOnlyInJs` needs it: when an error leaves
a callback, either the native caller is a destructor, and the error ends there, or it is a
trampoline and then, by the alternation of the sides, not the outermost frame, so a
JavaScript frame is left to receive the error.  That no object has two destructors on the
stack (`FinOnce`) gives the part of `TypeOK` that ties `wraps` to the stack.
`RightCallback` is a separate induction over contexts, stash and the destructions that are
under way.

The refinement needs the shape of the stack once more: the binding removes two frames, its own
and its native caller's, and this is what `AbsDuk` asks for (everything above the nearest
JavaScript frame) because the sides alternate.  The one native frame among them is a
finalizer or is not, which decides whether the error goes on.

### DispatchVM_proofs

Under `VMAssumption` (register file and mapped memory lie among the words) and
`ProgramAssumption` (programs are finite sequences of instructions with integer operands,
constants are words), `TypeOK` holds for every program.  `ImplementsDoc` and
`AbortJustified` are proved for *plain* programs: no jumps, loads and
stores with registers in the file, stores of their base register, constants that go to
mapped memory.  These are the conditions under which the code and the list agree, the part
about registers of loads and stores because the code does not check them; the runs
`dispatch_store` and `dispatch_jump` show that two others are needed.

### EventLoop_proofs

For every set of timers: `TypeOK`, `InPostingOrder`, `TimesFired`.  The strengthening says
that no timer is queued twice or while it runs, that whoever was posted before a waiting
timer stands in front of it (so that nobody is left for the first), and that the kind of an
entry tells how its timer was made and how often it has fired.

### ValueConv_proofs

All five invariants of the `value_conv` run, for words, ints, shorts and bytes of any sizes of
which each divides the next, a byte having more than two values; for doubles that are exact
for every int and whose spacings cover every signed word; and for any garbage
(`SizeAssumption`, `WordAssumption`; C and IEEE 754 give all of it, with 2^64, 2^32, 2^16, 2^8,
2^53 and the spacings 1 to 2^11).  That words have more than twice as many values as doubles
are exact for (`2 * Exact < WordSize`) is needed: if an integer that JavaScript can hold
exactly were no 64-bit integer, `NumberArrives` would be false in the Node.js binding.

The argument is one about congruence.  `CellInv` and `SeenInv` say that the cell, and then the
number JavaScript sees, is the given value modulo the size of the C type; `FitUnique` and
`MemberOfClass` that the member of a letter is the one value of the type in its class, so that
undefined bits, sign extension and reading an unsigned as a signed int change nothing that
is read in the end.  That the smaller sizes divide the larger ones carries the class through
a conversion by a wider type (`CongruentNarrower`).  `RoundTrip` is not inductive without
`SeenInv`, which keeps the value in the state in between, and `CellInv` for the one before.
For doubles, `RoundedType` bounds what rounding loses by half a unit and shows that it loses
nothing of a multiple of the unit; `ExactBelow` that every integer up to `Exact` is one.

### NodeWorkers_proofs

With one environment `ReturnsToOwnRoot` holds (`AloneReturnsToOwnRoot`), for any bound on the
stack: the frames alternate, and a depth that is not zero implies that the buffer is that of
the first frame.  Together with the run this says that the second environment is what breaks
it, and nothing in the way the steps of one thread are divided.

### Client_proofs, with WasmBridge_proofs

Under the assumptions of the modules (the tables have the shape the generators give them, a
signature of one letter fits, `NotGiven` and `NullFn` are none of the values an import can
be set to) all seven invariants of the `client` run hold for every symbol table, every
`Apis`, `Header` and `FuncTypes`, and buffers of any size.  `IInv` is the conjunction of four
parts that the actions of one phase each disturb:

- `DlInv`: the linker's error and the last reply; `GetReportsItself` is inductive with types.
- `LearnInv`: `LearnedIsDeclared` and `AnswersFit` say nothing of a question that has been
  asked halfway.  `AskInv` does: the index, address and buffer size in `ask` are those of the
  object number `next`, and `LearnedInv` and `NamesInv` say that exactly the objects before it
  are known.  To show that an answer is about the object asked for takes the lemmas of
  `WasmBridge_proofs`: each numbering is a bijection between its objects and the numbers below
  its total (`RankProperties`, by counting), and behind the imports the exports do not meet
  them (`CallinfoFound`).
- `LinkInv`: `RightImport`, with the fact that what was given for an import was made for it.
- `CallInv`: `ValuesArrive` and `NoNullUse` follow at each call from `LearnInv` and `LinkInv`
  and from the lemmas about `Marshal`: cells written by letters and read by the same letters
  give the values, also behind the cell of a native address, and a kept signature that fits is
  the whole one.  For `NoNullUse`, a memory or table that `init` misses is an import of which
  the program knows the name.

### Only model-checked

Liveness (`ExceptionResolved`, `ErrorResolved`, `Terminates`, `EveryHandlerRuns`): reasoning
about fairness and `ENABLED` is beyond the prover used here.  Every safety property of every
run that passes is proved.  `RightCallback` and the properties of `DispatchVM` but its types are
proved under the conditions named above, which the runs meet too.

## 6. What is not modelled

- The code `wasm2c` generates but for the effect of `init` on the export variables and on
  imported memories and tables; a start function in it that calls imports.  That a `longjmp` over it leaves `wasm_rt_call_stack_depth`
  raised is a hazard without a property, since the counting is not in this repository.
- WebAssembly code that is entered again from a callback it made: `Client` has one call of the
  module at a time, `NodeBridge` has the nesting.
- The Duktape binding under `Client`: argument lists are those of the Node.js binding, whose
  letters include all the types; the Duktape binding aborts for most of them.  With it goes
  `util_shortcircuit`, which gives an import a native function: only the Duktape binding
  exports it.
- The regular expressions with which the CMake scripts take names and types from C text.
- Numbers given to `f` and `d`, and fractions: floating point is carried as bits.
- Allocation that fails (the code aborts) and memory that becomes unreachable: when a
  conversion throws half-way through an entry point of the Duktape binding, or when
  `destroy_cb_ctx` frees a context without its type strings.
- Duktape coroutines: one thread is modelled.
- `copywithin_uint8` and the other helpers and polyfills of duk-yuni, `poke`, `free` and the
  mathematical functions of the core utilities: single operations that keep nothing.
- Unloading: nothing calls `dlclose`; `dlopen` of the program itself (a null path) is not made.
- whereami (third party), the test module (constants), the build files.

A program that passes a handle, an index in the wrong numbering or a pointer it made up is
outside `Client`, as is native code that dispatches to a context that does not exist.

## 7. Plan

Done: `NodeBridge` with `AbsBridge`, `DispatchVM` with `DispatchDoc`, `DukBridge` with
`AbsDuk`, `EventLoop`, `ValueConv`, `Dlfcn`, `Marshal`, `StubMeta`, `WasmBridge`, `Client`,
`NodeWorkers`, and proofs of every safety invariant, action property and refinement of theirs.

Left, in the order of their worth:

1. Coroutines in `DukBridge`: contexts keep the thread that made them.
2. Arguments of `Client` calls that are themselves contexts or closures, to join it with the
   nesting of `NodeBridge`.
3. `copywithin_uint8` against the definition of `copyWithin`.
