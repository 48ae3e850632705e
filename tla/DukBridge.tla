----------------------------- MODULE DukBridge -----------------------------
(***************************************************************************)
(* The Duktape binding of NCCC (src/js/duktape/duk-nccc/duk-nccc.c) under  *)
(* the main program of duk-yuni.  It has the same entry points as the      *)
(* Node.js binding, but leaves exceptions to Duktape, which unwinds with a *)
(* longjmp of its own to the nearest JavaScript frame that called native   *)
(* code, and it finds a context's callback in the global stash, under the  *)
(* context's address.                                                      *)
(*                                                                         *)
(* The C stack is the variable stack, outermost frame first:               *)
(*   main  the script, called by dukload without protection                *)
(*   call  nccc_call_trampoline and the native function it called          *)
(*   cb    nccc_cb_dispatcher and the JavaScript callback it called        *)
(*   fin   do_finalize and the native destructor it called                 *)
(* Duktape counts references: a finalizer may run on top of any JavaScript *)
(* frame, and runs for every value left when the heap is destroyed.  An    *)
(* error in a finalizer is swallowed by Duktape.  Finalizers run also      *)
(* inside destroy_cb_ctx, when the stash lets go of the callback: its two  *)
(* halves are two steps.  Native code dispatches only to contexts that     *)
(* exist, and JavaScript destroys a context once.  Duktape itself is       *)
(* modelled from its use here: property indices are 32 bits wide, so the   *)
(* stash entry of a context is found under Index[address].                 *)
(***************************************************************************)
EXTENDS Integers, Sequences, FiniteSets

CONSTANTS Addrs,      \* addresses malloc may give a callback context
          Index,      \* address -> the property index Duktape makes of it
          Fns,        \* JavaScript functions used as callbacks
          Closures,   \* functions made by make_nccc_call
          Wraps,      \* objects made by wrap_pointer
          Excs,       \* JavaScript error values
          NoExc,      \* no error is being thrown
          Free,       \* no context, no stash entry
          OutCounts,  \* the output counts that occur in signatures
          MaxStack    \* bound: frames on the stack

ASSUME DukAssumption ==
    /\ DOMAIN Index = Addrs /\ NoExc \notin Excs
    /\ Free \notin Fns /\ Free \notin [outs : OutCounts, fn : Fns]
    /\ OutCounts \subseteq Nat /\ MaxStack \in Nat \ {0}

VARIABLES stack,    \* the C stack
          exc,      \* the error being thrown, or NoExc
          ctxs,     \* address -> Free, or the context's output count and its function
          stash,    \* global stash: index -> Free, or the retained callback
          calls,    \* closure -> "none", "held" or "dropped" (unreachable, not yet finalized)
          wraps,    \* object -> "none", "live", "running", or "lost" (params never freed)
          destroying,  \* address -> the position of the frame in destroy_cb_ctx of it, or 0
          out,      \* what the last dispatcher to finish wrote
          status    \* "run", "exit", "fatal" (uncaught error) or "abort"

vars == <<stack, exc, ctxs, stash, calls, wraps, destroying, out, status>>

-----------------------------------------------------------------------------
F(k, obj, n) == [kind |-> k, obj |-> obj, outcount |-> n, room |-> n]

Indices == {Index[a] : a \in Addrs}
Top == stack[Len(stack)]
Cut(n) == SubSeq(stack, 1, Len(stack) - n)
IsJs(f) == f.kind \in {"main", "cb"}
OnStack(k, obj) == \E i \in DOMAIN stack : stack[i].kind = k /\ stack[i].obj = obj

InJs == status = "run" /\ stack # <<>> /\ IsJs(Top)
InNative == status = "run" /\ stack # <<>> /\ ~IsJs(Top)

\* A script runs, in a callback or not; or one has called destroy_cb_ctx and waits for it.
NoError == InJs /\ exc = NoExc
JsRuns == NoError /\ \A a \in Addrs : destroying[a] # Len(stack)

\* The output count is read from the context before the callback runs.
FilledCount_Reread(f) == IF ctxs[f.obj] = Free THEN 0 ELSE ctxs[f.obj].outs
FilledCount(f) == f.outcount

\* destroy_cb_ctx deletes the stash entry first and frees the context last.
DestroyOrder_FreeFirst == <<"context", "entry">>
DestroyOrder == <<"entry", "context">>
Remove(part, a) ==
    /\ stash' = IF part = "entry" THEN [stash EXCEPT ![Index[a]] = Free] ELSE stash
    /\ ctxs' = IF part = "context" THEN [ctxs EXCEPT ![a] = Free] ELSE ctxs

\* A running trampoline keeps its function, and the params in it, alive: it pushed the
\* current function on the value stack.
Pinned(c) == OnStack("call", c)

\* How many frames an error that leaves a callback takes with it: the dispatcher's and its
\* native caller's.
FramesSkipped_CallbackOnly == 1
FramesSkipped_ToRoot == Len(stack) - 1
FramesSkipped == 2

\* Only a destructor's protected call swallows the error.
ErrorAfter(f) == IF f.kind = "fin" THEN NoExc ELSE exc

-----------------------------------------------------------------------------
Init == /\ stack = <<F("main", Free, 0)>>
        /\ exc = NoExc
        /\ ctxs = [a \in Addrs |-> Free]
        /\ stash = [i \in Indices |-> Free]
        /\ calls = [c \in Closures |-> "none"]
        /\ wraps = [w \in Wraps |-> "none"]
        /\ destroying = [a \in Addrs |-> 0]
        /\ out = [room |-> 0, wrote |-> 0, array |-> FALSE]
        /\ status = "run"

make_nccc_cb == /\ JsRuns
                /\ \E a \in Addrs, f \in Fns, n \in OutCounts :
                      /\ ctxs[a] = Free
                      /\ ctxs' = [ctxs EXCEPT ![a] = [outs |-> n, fn |-> f]]
                      /\ stash' = [stash EXCEPT ![Index[a]] = f]
                /\ UNCHANGED <<stack, exc, calls, wraps, destroying, out, status>>

\* Deleting the entry may drop the last reference to the callback and to what it holds.
destroy_cb_ctx == /\ JsRuns
                  /\ \E a \in Addrs : /\ ctxs[a] # Free /\ destroying[a] = 0
                                      /\ Remove(DestroyOrder[1], a)
                                      /\ destroying' = [destroying EXCEPT ![a] = Len(stack)]
                  /\ UNCHANGED <<stack, exc, calls, wraps, out, status>>

\* The finalizers that this has set off have run.
DestroyEnds == /\ NoError
               /\ \E a \in Addrs : /\ destroying[a] = Len(stack)
                                   /\ Remove(DestroyOrder[2], a)
                                   /\ destroying' = [destroying EXCEPT ![a] = 0]
               /\ UNCHANGED <<stack, exc, calls, wraps, out, status>>

make_nccc_call == /\ JsRuns
                  /\ \E c \in Closures : /\ calls[c] = "none"
                                         /\ calls' = [calls EXCEPT ![c] = "held"]
                  /\ UNCHANGED <<stack, exc, ctxs, stash, wraps, destroying, out, status>>

wrap_pointer == /\ JsRuns
                /\ \E w \in Wraps : /\ wraps[w] = "none"
                                    /\ wraps' = [wraps EXCEPT ![w] = "live"]
                /\ UNCHANGED <<stack, exc, ctxs, stash, calls, destroying, out, status>>

\* JavaScript forgets a native function, or a callback that held it goes.
DropClosure == /\ NoError
               /\ \E c \in Closures : /\ calls[c] = "held"
                                      /\ calls' = [calls EXCEPT ![c] = "dropped"]
               /\ UNCHANGED <<stack, exc, ctxs, stash, wraps, destroying, out, status>>

\* do_free_nccc_call: the finalizer of a native function frees its params.  Destroying
\* the heap, with the script gone, finalizes the functions still reachable too.
do_free_nccc_call == /\ status = "run"
                     /\ \E c \in Closures :
                           /\ calls[c] = "dropped" \/ (calls[c] = "held" /\ stack = <<>>)
                           /\ ~Pinned(c)
                           /\ calls' = [calls EXCEPT ![c] = "none"]
                     /\ UNCHANGED <<stack, exc, ctxs, stash, wraps, destroying, out, status>>

\* nccc_call_trampoline up to the native function.
Call == /\ JsRuns /\ Len(stack) < MaxStack
        /\ \E c \in Closures : /\ calls[c] = "held"
                               /\ stack' = Append(stack, F("call", c, 0))
        /\ UNCHANGED <<exc, ctxs, stash, calls, wraps, destroying, out, status>>

NativeReturn == /\ InNative /\ Top.kind = "call"
                /\ stack' = Cut(1)
                /\ UNCHANGED <<exc, ctxs, stash, calls, wraps, destroying, out, status>>

\* do_finalize: a wrapped pointer became unreachable, or the heap is being destroyed.
StartFinalizer == /\ NoError \/ (status = "run" /\ stack = <<>>)
                  /\ Len(stack) < MaxStack
                  /\ \E w \in Wraps : /\ wraps[w] = "live"
                                      /\ wraps' = [wraps EXCEPT ![w] = "running"]
                                      /\ stack' = Append(stack, F("fin", w, 0))
                  /\ UNCHANGED <<exc, ctxs, stash, calls, destroying, out, status>>

FinReturn == /\ InNative /\ Top.kind = "fin"
             /\ wraps' = [wraps EXCEPT ![Top.obj] = "none"]
             /\ stack' = Cut(1)
             /\ UNCHANGED <<exc, ctxs, stash, calls, destroying, out, status>>

\* nccc_cb_dispatcher up to duk_call: no callback in the stash is an abort().
Dispatch(a) == /\ InNative /\ Len(stack) < MaxStack
               /\ ctxs[a] # Free
               /\ IF stash[Index[a]] = Free
                    THEN status' = "abort" /\ UNCHANGED stack
                    ELSE /\ stack' = Append(stack, F("cb", a, ctxs[a].outs))
                         /\ UNCHANGED status
               /\ UNCHANGED <<exc, ctxs, stash, calls, wraps, destroying, out>>

\* The callback returned: an array fills every output, any other value only the first.
CbReturn == /\ JsRuns /\ Top.kind = "cb"
            /\ \E isArray \in BOOLEAN :
                  LET n == FilledCount(Top) IN
                  out' = [room |-> Top.room, array |-> isArray,
                          wrote |-> IF isArray \/ n = 0 THEN n ELSE 1]
            /\ stack' = Cut(1)
            /\ UNCHANGED <<exc, ctxs, stash, calls, wraps, destroying, status>>

\* JavaScript throws, or a binding function does for it (a value of the wrong kind).
Throw == /\ JsRuns
         /\ exc' \in Excs
         /\ UNCHANGED <<stack, ctxs, stash, calls, wraps, destroying, out, status>>

Catch == /\ InJs /\ exc # NoExc
         /\ exc' = NoExc
         /\ UNCHANGED <<stack, ctxs, stash, calls, wraps, destroying, out, status>>

\* The error leaves a callback (or is raised by the conversion of its result): Duktape
\* jumps over the dispatcher and the native code that called it.  What do_finalize would
\* still have freed stays allocated.
Unwind == /\ InJs /\ exc # NoExc /\ Top.kind = "cb"
          /\ LET caller == stack[Len(stack) - 1] IN
                /\ stack' = Cut(FramesSkipped)
                /\ exc' = ErrorAfter(caller)
                /\ wraps' = IF caller.kind = "fin" THEN [wraps EXCEPT ![caller.obj] = "lost"]
                                                   ELSE wraps
          /\ UNCHANGED <<ctxs, stash, calls, destroying, out, status>>

\* duk_call in dukload is not protected: the fatal error handler ends the process.
Uncaught == /\ InJs /\ exc # NoExc /\ Top.kind = "main"
            /\ status' = "fatal"
            /\ UNCHANGED <<stack, exc, ctxs, stash, calls, wraps, destroying, out>>

\* A type letter no conversion knows, in the arguments of a callback or in a result too.
UnknownLetter == /\ JsRuns \/ InNative
                 /\ status' = "abort"
                 /\ UNCHANGED <<stack, exc, ctxs, stash, calls, wraps, destroying, out>>

MainReturn == /\ JsRuns /\ Top.kind = "main"
              /\ stack' = Cut(1)
              /\ UNCHANGED <<exc, ctxs, stash, calls, wraps, destroying, out, status>>

\* duk_destroy_heap is done when every finalizer has run.
Exit == /\ status = "run" /\ stack = <<>>
        /\ \A w \in Wraps : wraps[w] # "live"
        /\ \A c \in Closures : calls[c] = "none"
        /\ status' = "exit"
        /\ UNCHANGED <<stack, exc, ctxs, stash, calls, wraps, destroying, out>>

Halted == status # "run" /\ UNCHANGED vars

Next == \/ make_nccc_cb \/ destroy_cb_ctx \/ DestroyEnds \/ make_nccc_call \/ wrap_pointer
        \/ DropClosure \/ do_free_nccc_call \/ Call \/ NativeReturn
        \/ StartFinalizer \/ FinReturn \/ \E a \in Addrs : Dispatch(a)
        \/ CbReturn \/ Throw \/ Catch \/ Unwind \/ Uncaught \/ UnknownLetter
        \/ MainReturn \/ Exit \/ Halted

Spec == Init /\ [][Next]_vars

\* An error propagates: both steps are Duktape's own.
Fairness == /\ WF_vars(Unwind) /\ WF_vars(Uncaught)
FairSpec == Spec /\ Fairness

-----------------------------------------------------------------------------
(* Properties.                                                             *)

\* Every variable has its type; callbacks sit on native frames, native frames on
\* JavaScript frames (a finalizer may be outermost), and the destructor of an object is
\* running exactly when its frame is on the stack.
TypeOK == /\ \A i \in DOMAIN stack :
                /\ stack[i].kind \in {"main", "call", "cb", "fin"}
                /\ stack[i].kind = "main" => i = 1
                /\ stack[i].kind = "cb" => i > 1 /\ ~IsJs(stack[i - 1])
                /\ ~IsJs(stack[i]) /\ i > 1 => IsJs(stack[i - 1])
          /\ \A w \in Wraps : (wraps[w] = "running") <=> OnStack("fin", w)
          /\ Len(stack) <= MaxStack
          /\ exc \in Excs \cup {NoExc}
          /\ ctxs \in [Addrs -> [outs : OutCounts, fn : Fns] \cup {Free}]
          /\ stash \in [Indices -> Fns \cup {Free}]
          /\ calls \in [Closures -> {"none", "held", "dropped"}]
          /\ wraps \in [Wraps -> {"none", "live", "running", "lost"}]
          /\ destroying \in [Addrs -> Nat]
          /\ out.wrote \in Nat
          /\ status \in {"run", "exit", "fatal", "abort"}

\* "retain callback": a context that exists finds in the stash the callback it was made
\* with, until its destruction begins and although addresses are reused, and a callback is
\* retained for no other.  So a dispatcher never runs another context's callback, and finds
\* none only if a destructor calls a context that is being destroyed.  It needs that no two
\* live addresses agree in their low 32 bits.
RightCallback ==
    /\ \A a \in Addrs : ctxs[a] # Free =>
          stash[Index[a]] = IF destroying[a] # 0 THEN Free ELSE ctxs[a].fn
    /\ \A i \in Indices : stash[i] # Free =>
          \E a \in Addrs : Index[a] = i /\ (ctxs[a] # Free \/ destroying[a] # 0)

\* As for Node.js: what a dispatcher writes fits what its caller allotted, also when the
\* callback destroyed its own context.
OutWithinRoom == /\ out.wrote <= out.room
                 /\ out.array => out.wrote = out.room

\* The frame on which an error is thrown is a JavaScript frame: control never passes to
\* native code with an error in flight.
ErrorOnlyInJs == (status = "run" /\ exc # NoExc) => InJs

\* What the stack is to a script: native functions it called, finalizers it did not.
SideOf(f) == IF IsJs(f) THEN "js" ELSE IF f.kind = "call" THEN "native" ELSE "final"
Sides(s) == [i \in DOMAIN s |-> SideOf(s[i])]

\* "Duktape uses setjmp/longjmp for exceptions": errors go where AbsDuk says, out of the
\* innermost native call and never past a finalizer.
Abs == INSTANCE AbsDuk WITH side <- Sides(stack), pending <- exc, over <- (status # "run")
ImplementsAbsDuk == Abs!Spec

\* An error is caught, swallowed by a finalizer's protected call, or fatal.
ErrorResolved == exc # NoExc ~> (exc = NoExc \/ status # "run")

\* "free(params)": the params of every finalized pointer are freed.
ParamsFreed == \A w \in Wraps : wraps[w] # "lost"
=============================================================================
