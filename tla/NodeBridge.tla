----------------------------- MODULE NodeBridge -----------------------------
(***************************************************************************)
(* The Node.js binding of NCCC (src/js/node/node-nccc/node-nccc.c):        *)
(* JavaScript calls native functions through nccc_call_trampoline, native  *)
(* code calls JavaScript back through nccc_cb_dispatcher, and native       *)
(* destructors run from the garbage collector through do_finalize.         *)
(*                                                                         *)
(* An exception thrown by a callback cannot travel through native frames.  *)
(* The binding carries it over them with one static jmp_buf, saved by the  *)
(* outermost trampoline, and a static call depth that says whether there   *)
(* is an outermost trampoline to jump to.                                  *)
(*                                                                         *)
(* The C stack is the variable stack, outermost frame first:               *)
(*   task  JavaScript run by Node's event loop                             *)
(*   call  nccc_call_trampoline and the native function it called          *)
(*   cb    nccc_cb_dispatcher and the JavaScript callback it called        *)
(*   fin   do_finalize and the native destructor it called                 *)
(* What the JavaScript program and the native functions do between two     *)
(* calls is arbitrary.  Two things are assumed of them: native code        *)
(* dispatches, and JavaScript destroys, only contexts that exist, and a    *)
(* native caller allots a callback as many output cells as its context     *)
(* declares.  Two things are assumed of Node: finalizers run from the      *)
(* event loop, when the stack is empty, and an uncaught exception is       *)
(* reported there.  Argument conversion is left to other modules; here it  *)
(* only matters that it may abort.                                         *)
(***************************************************************************)
EXTENDS Integers, Sequences, FiniteSets

CONSTANTS Addrs,      \* addresses malloc may give a callback context
          Wraps,      \* external values made by wrap_pointer
          Excs,       \* JavaScript exception values
          NoExc,      \* no exception is pending
          Free,       \* the content of an address that holds no context
          OutCounts,  \* the output counts that occur in callback signatures
          MaxStack,   \* bound: frames on the stack
          MaxScopes   \* bound: handle scopes open at once

ASSUME NodeAssumption ==
    /\ NoExc \notin Excs
    /\ Free \notin Nat
    /\ OutCounts \subseteq Nat
    /\ MaxStack \in Nat
    /\ MaxScopes \in Nat

VARIABLES stack,      \* the C stack
          calldepth,  \* static int calldepth
          jmpbuf,     \* static jmp_buf g_jmpbuf: the frame that saved it, 0 before any did
          scopes,     \* handle scopes opened by dispatchers and not closed
          exc,        \* the environment's pending exception
          ctxs,       \* callback contexts: Free, or the number of outputs
          wraps,      \* the state of each external value's finalizer_params
          out,        \* what the last dispatcher to finish wrote
          aborted     \* abort() was called

vars == <<stack, calldepth, jmpbuf, scopes, exc, ctxs, wraps, out, aborted>>

-----------------------------------------------------------------------------
Kinds == {"task", "call", "cb", "fin"}

\* ctx, outcount: the context a cb frame runs and its captured output count;
\* room: the output cells its caller allotted; wrap: the value a fin frame finalizes.
Frame == [kind : Kinds, ctx : Addrs \cup {Free}, outcount : Nat, room : Nat,
          wrap : Wraps \cup {Free}]

Plain(k) == [kind |-> k, ctx |-> Free, outcount |-> 0, room |-> 0, wrap |-> Free]

CbFrame(c) == [kind |-> "cb", ctx |-> c, outcount |-> ctxs[c], room |-> ctxs[c],
               wrap |-> Free]

FinFrame(w) == [kind |-> "fin", ctx |-> Free, outcount |-> 0, room |-> 0, wrap |-> w]

Top == stack[Len(stack)]
Below == SubSeq(stack, 1, Len(stack) - 1)

IsJs(f) == f.kind \in {"task", "cb"}
FramesIn(s, k) == {i \in 1..Len(s) : s[i].kind = k}
FramesOf(k) == FramesIn(stack, k)

SideOf(f) == IF IsJs(f) THEN "js" ELSE "native"
Sides(s) == [i \in 1..Len(s) |-> SideOf(s[i])]

\* JavaScript code is the running frame; it may have an exception to propagate.
InJs == ~aborted /\ stack # <<>> /\ IsJs(Top)
InNative == ~aborted /\ stack # <<>> /\ ~IsJs(Top)

-----------------------------------------------------------------------------
(* The two statics of node-nccc.c, and how they decide.                    *)

\* if(calldepth == 0) setjmp(g_jmpbuf), at stack position pos
SavedJmpbuf_EveryCall(depth, buf, pos) == pos
SavedJmpbuf_FirstCall(depth, buf, pos) == IF buf = 0 THEN pos ELSE buf
SavedJmpbuf(depth, buf, pos) == IF depth = 0 THEN pos ELSE buf

\* A dispatcher whose callback threw jumps, or else leaves the exception pending.
Jumps_Always(depth) == TRUE
Jumps_NestedOnly(depth) == depth > 1
Jumps(depth) == depth # 0

\* The call depth once the jump has landed in the outermost trampoline.
DepthAfterJump_Kept(depth) == depth
DepthAfterJump_Decremented(depth) == depth - 1
DepthAfterJump(depth) == 0

\* The dispatcher closes its own scope before it jumps.
ScopesAfterJump_All(n) == 0
ScopesAfterJump(n) == n - 1

\* napi_call_function runs no JavaScript while an exception is pending.
RunsJs_Unchecked(e) == TRUE
RunsJs(e) == e = NoExc

\* The output count a dispatcher fills: captured before the callback ran.
FilledCount_Reread(f) == IF ctxs[f.ctx] = Free THEN 0 ELSE ctxs[f.ctx]
FilledCount(f) == f.outcount

-----------------------------------------------------------------------------
Init == /\ stack = <<>>
        /\ calldepth = 0
        /\ jmpbuf = 0
        /\ scopes = 0
        /\ exc = NoExc
        /\ ctxs = [a \in Addrs |-> Free]
        /\ wraps = [w \in Wraps |-> "none"]
        /\ out = [room |-> 0, wrote |-> 0, array |-> FALSE]
        /\ aborted = FALSE

\* Node's event loop runs a piece of JavaScript.
StartTask == /\ ~aborted /\ stack = <<>> /\ exc = NoExc
             /\ MaxStack > 0
             /\ stack' = <<Plain("task")>>
             /\ UNCHANGED <<calldepth, jmpbuf, scopes, exc, ctxs, wraps, out, aborted>>

TaskReturn == /\ InJs /\ exc = NoExc /\ Top.kind = "task"
              /\ stack' = Below
              /\ UNCHANGED <<calldepth, jmpbuf, scopes, exc, ctxs, wraps, out, aborted>>

\* make_nccc_cb: malloc gives any free address, one freed a moment ago included.
MakeCb == /\ InJs /\ exc = NoExc
          /\ \E a \in Addrs, n \in OutCounts :
                /\ ctxs[a] = Free
                /\ ctxs' = [ctxs EXCEPT ![a] = n]
          /\ UNCHANGED <<stack, calldepth, jmpbuf, scopes, exc, wraps, out, aborted>>

\* nccc_destroy_cb_ctx: callable at any time, from the context's own callback too.
DestroyCb == /\ InJs /\ exc = NoExc
             /\ \E a \in Addrs :
                   /\ ctxs[a] # Free
                   /\ ctxs' = [ctxs EXCEPT ![a] = Free]
             /\ UNCHANGED <<stack, calldepth, jmpbuf, scopes, exc, wraps, out, aborted>>

\* nccc_wrap_pointer: an external value with its finalizer_params.
WrapPointer == /\ InJs /\ exc = NoExc
               /\ \E w \in Wraps :
                     /\ wraps[w] = "none"
                     /\ wraps' = [wraps EXCEPT ![w] = "live"]
               /\ UNCHANGED <<stack, calldepth, jmpbuf, scopes, exc, ctxs, out, aborted>>

\* nccc_call_trampoline up to the native function.
JsCall == /\ InJs /\ exc = NoExc
          /\ Len(stack) < MaxStack
          /\ stack' = Append(stack, Plain("call"))
          /\ jmpbuf' = SavedJmpbuf(calldepth, jmpbuf, Len(stack) + 1)
          /\ calldepth' = calldepth + 1
          /\ UNCHANGED <<scopes, exc, ctxs, wraps, out, aborted>>

\* The native function returned; nccc_call_trampoline hands its results to JavaScript.
NativeReturn == /\ InNative /\ Top.kind = "call"
                /\ stack' = Below
                /\ calldepth' = calldepth - 1
                /\ UNCHANGED <<jmpbuf, scopes, exc, ctxs, wraps, out, aborted>>

\* do_finalize: the collector found the external value unreachable.
StartFinalizer == /\ ~aborted /\ stack = <<>> /\ exc = NoExc
                  /\ MaxStack > 0
                  /\ \E w \in Wraps :
                        /\ wraps[w] = "live"
                        /\ wraps' = [wraps EXCEPT ![w] = "running"]
                        /\ stack' = <<FinFrame(w)>>
                  /\ UNCHANGED <<calldepth, jmpbuf, scopes, exc, ctxs, out, aborted>>

\* The destructor returned: do_finalize frees the params and returns to Node.
FinReturn == /\ InNative /\ Top.kind = "fin"
             /\ wraps' = [wraps EXCEPT ![Top.wrap] = "none"]
             /\ stack' = Below
             /\ UNCHANGED <<calldepth, jmpbuf, scopes, exc, ctxs, out, aborted>>

\* A dispatcher with no array to store leaves all cells but the first as they were.
FirstCell(n) == IF n = 0 THEN 0 ELSE 1

\* nccc_cb_dispatcher up to napi_call_function, which runs the callback.
NativeDispatch(c) == /\ InNative /\ RunsJs(exc)
                     /\ ctxs[c] # Free
                     /\ Len(stack) < MaxStack /\ scopes < MaxScopes
                     /\ stack' = Append(stack, CbFrame(c))
                     /\ scopes' = scopes + 1
                     /\ UNCHANGED <<calldepth, jmpbuf, exc, ctxs, wraps, out, aborted>>

\* nccc_cb_dispatcher after a callback that threw, at depth 0: the exception is set
\* pending again and the first output is cleared, as if undefined had been returned.
ClearedOut(room, n) == [room |-> room, wrote |-> FirstCell(n), array |-> FALSE]

\* The whole dispatcher when an exception was pending already: napi_call_function
\* reports it at once.  A pointer argument cannot even be built, and aborts.  Native code
\* never has an exception pending at another depth than 0 (NoPendingIntoNative).
PendingDispatch(c) == /\ InNative /\ ~RunsJs(exc)
                      /\ ctxs[c] # Free
                      /\ scopes < MaxScopes
                      /\ ~Jumps(calldepth)
                      /\ \/ /\ out' = ClearedOut(ctxs[c], ctxs[c])
                            /\ UNCHANGED aborted
                         \/ /\ aborted' = TRUE
                            /\ UNCHANGED out
                      /\ UNCHANGED <<stack, calldepth, jmpbuf, scopes, exc, ctxs, wraps>>

\* nccc_cb_dispatcher after a callback that returned: a result that is an array fills
\* every output, any other result only the first.
JsReturn == /\ InJs /\ exc = NoExc /\ Top.kind = "cb"
            /\ \E isArray \in BOOLEAN :
                  out' = [room |-> Top.room,
                          wrote |-> IF isArray THEN FilledCount(Top)
                                               ELSE FirstCell(FilledCount(Top)),
                          array |-> isArray]
            /\ scopes' = scopes - 1
            /\ stack' = Below
            /\ UNCHANGED <<calldepth, jmpbuf, exc, ctxs, wraps, aborted>>

JsThrow == /\ InJs /\ exc = NoExc
           /\ exc' \in Excs
           /\ UNCHANGED <<stack, calldepth, jmpbuf, scopes, ctxs, wraps, out, aborted>>

JsCatch == /\ InJs /\ exc # NoExc
           /\ exc' = NoExc
           /\ UNCHANGED <<stack, calldepth, jmpbuf, scopes, ctxs, wraps, out, aborted>>

\* The callback threw with native calls on the stack: close the scope and longjmp.  The
\* trampoline that saved the buffer throws the exception again in its JavaScript caller.
ThrowAndJump == /\ InJs /\ exc # NoExc /\ Top.kind = "cb"
                /\ Jumps(calldepth)
                /\ stack' = SubSeq(stack, 1, jmpbuf - 1)
                /\ calldepth' = DepthAfterJump(calldepth)
                /\ scopes' = ScopesAfterJump(scopes)
                /\ UNCHANGED <<jmpbuf, exc, ctxs, wraps, out, aborted>>

\* The callback threw and no trampoline is there: the destructor gets control back,
\* with the exception pending.
ThrowAtDepth0 == /\ InJs /\ exc # NoExc /\ Top.kind = "cb"
                 /\ ~Jumps(calldepth)
                 /\ out' = ClearedOut(Top.room, FilledCount(Top))
                 /\ scopes' = scopes - 1
                 /\ stack' = Below
                 /\ UNCHANGED <<calldepth, jmpbuf, exc, ctxs, wraps, aborted>>

\* Nobody caught the exception in the task.
ThrowOutOfTask == /\ InJs /\ exc # NoExc /\ Top.kind = "task"
                  /\ stack' = Below
                  /\ UNCHANGED <<calldepth, jmpbuf, scopes, exc, ctxs, wraps, out, aborted>>

\* Node reports an exception that left the outermost frame.
ReportUncaught == /\ ~aborted /\ stack = <<>> /\ exc # NoExc
                  /\ exc' = NoExc
                  /\ UNCHANGED <<stack, calldepth, jmpbuf, scopes, ctxs, wraps, out, aborted>>

\* value_out meets a value it has no conversion for, and aborts the process.  It stands
\* for the other abort() calls of the binding too: they differ in the condition only.
BadValue == /\ ~aborted /\ stack # <<>> /\ exc = NoExc
            /\ aborted' = TRUE
            /\ UNCHANGED <<stack, calldepth, jmpbuf, scopes, exc, ctxs, wraps, out>>

Halted == aborted /\ UNCHANGED vars

Next == \/ StartTask \/ TaskReturn \/ MakeCb \/ DestroyCb \/ WrapPointer
        \/ JsCall \/ NativeReturn \/ StartFinalizer \/ FinReturn
        \/ \E c \in Addrs : NativeDispatch(c) \/ PendingDispatch(c)
        \/ JsReturn \/ JsThrow \/ JsCatch
        \/ ThrowAndJump \/ ThrowAtDepth0 \/ ThrowOutOfTask \/ ReportUncaught
        \/ BadValue \/ Halted

Spec == Init /\ [][Next]_vars

\* An exception that was thrown is propagated, a destructor returns, Node reports.
Fairness == /\ WF_vars(ThrowAndJump) /\ WF_vars(ThrowAtDepth0) /\ WF_vars(ThrowOutOfTask)
            /\ WF_vars(FinReturn) /\ WF_vars(ReportUncaught)

FairSpec == Spec /\ Fairness

-----------------------------------------------------------------------------
(* Properties.                                                             *)

\* Every variable has its type, and the call depth is bounded by the stack.
TypeOK == /\ stack \in Seq(Frame)
          /\ calldepth \in 0..MaxStack
          /\ jmpbuf \in Nat
          /\ scopes \in Nat
          /\ exc \in Excs \cup {NoExc}
          /\ ctxs \in [Addrs -> OutCounts \cup {Free}]
          /\ wraps \in [Wraps -> {"none", "live", "running"}]
          /\ out \in [room : Nat, wrote : Nat, array : BOOLEAN]
          /\ aborted \in BOOLEAN

\* The static calldepth counts the trampolines on the stack: the increments and the
\* decrements skipped by a longjmp, and the reset after it, balance.
CallDepthMatches == calldepth = Cardinality(FramesOf("call"))

\* While the depth says that a dispatcher may jump, the jump buffer was saved by a
\* trampoline that has not returned (longjmp into a returned frame is undefined), and by
\* the outermost one.
LongjmpTargetLive ==
    calldepth # 0 => /\ jmpbuf \in FramesOf("call")
                     /\ \A i \in FramesOf("call") : jmpbuf <= i

\* No native function called from JavaScript ever runs, or returns results through its
\* trampoline, with an exception pending: only a destructor does.
NoPendingIntoNative == (exc # NoExc /\ InNative) => Top.kind = "fin"

\* A dispatcher's handle scope, which holds the arguments and the result of its
\* callback, stays open as long as its frame is on the stack.
DispatcherScopesOpen == scopes >= Cardinality(FramesOf("cb"))

\* A dispatcher writes no more cells than its caller allotted, and all of them when the
\* callback returned an array, also when the callback destroyed its own context and the
\* address was given to another one.
OutWithinRoom == /\ out.wrote <= out.room
                 /\ out.array => out.wrote = out.room

\* The params of an external value are in use exactly while its destructor is on the
\* stack: no jump leaves a destructor half-way, which would leak them.
ParamsMatchFin ==
    \A w \in Wraps : wraps[w] = "running" <=>
                     \E i \in FramesOf("fin") : stack[i].wrap = w

\* Every handle scope that was opened and not closed belongs to a dispatcher that is
\* still running ("Return back to depth == 0" closes what was opened above it).
ScopesBalanced == scopes = Cardinality(FramesOf("cb"))

\* A pending exception is in the end caught or reported.
ExceptionResolved == exc # NoExc ~> (exc = NoExc \/ aborted)

\* The depth and the jump buffer implement what AbsBridge says of exceptions.
Abs == INSTANCE AbsBridge WITH side <- Sides(stack), pending <- exc

ImplementsAbsBridge == Abs!Spec
=============================================================================
