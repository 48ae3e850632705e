----------------------------- MODULE EventLoop -----------------------------
(***************************************************************************)
(* The event loop of duk-yuni (src/js/duktape/duk-yuni/bootstrap.js:184-   *)
(* 228): setTimeout and its relatives append to one queue, and after the   *)
(* polyfill and the boot file have run the main loop takes handlers from   *)
(* its front until it is empty.  The delay is kept in the entry and never  *)
(* read, so it is left out; clearInterval only prints.                     *)
(*                                                                         *)
(* A timer is one call of setTimeout, setImmediate or setInterval.  Timers *)
(* are taken from a finite set and used again once they are finished, so   *)
(* that handlers may post new timers forever.                              *)
(***************************************************************************)
EXTENDS Naturals, Sequences

CONSTANTS Timers,  \* bound: the timers that may exist at the same time
          None     \* no timer

ASSUME LoopAssumption == None \notin Timers

VARIABLES queue,    \* eventqueue: entries [timer, kind]
          running,  \* the entry whose handler runs, or [timer |-> None, ...]
          phase,    \* "polyfill", "boot", "loop", "done" or "fatal"
          use,      \* timer -> "free", "timeout" or "interval"
          fired,    \* history: how often the timer's function has been called
          before    \* history: the timers queued when this one was posted, still waiting

vars == <<queue, running, phase, use, fired, before>>

Entry(t, k) == [timer |-> t, kind |-> k]
Idle == Entry(None, "once")

Waiting == {queue[i].timer : i \in DOMAIN queue}
ScriptRuns == phase \in {"polyfill", "boot"} \/ (phase = "loop" /\ running # Idle)

-----------------------------------------------------------------------------
Init == /\ queue = <<>>
        /\ running = Idle
        /\ phase = "polyfill"
        /\ use = [t \in Timers |-> "free"]
        /\ fired = [t \in Timers |-> 0]
        /\ before = [t \in Timers |-> {}]

\* eventqueue.push({func, delay})
Push_Front(q, e) == <<e>> \o q
Push(q, e) == Append(q, e)

\* eventqueue.shift() takes the first entry.
Shifted_Last(q) == Len(q)
Shifted(q) == 1

\* The function setInterval queues calls func, then queues func itself once more.
AfterHandler_Nothing(e) == queue
AfterHandler_Twice(e) ==
    IF e.kind = "wrapper" THEN queue \o <<Entry(e.timer, "func"), Entry(e.timer, "func")>>
                          ELSE queue
AfterHandler(e) == IF e.kind = "wrapper" THEN Push(queue, Entry(e.timer, "func")) ELSE queue

\* while(eventqueue.length != 0)
LoopGoesOn == queue # <<>>

Post(t, u, k) ==
    /\ ScriptRuns
    /\ use[t] = "free"
    /\ queue' = Push(queue, Entry(t, k))
    /\ use' = [use EXCEPT ![t] = u]
    /\ fired' = [fired EXCEPT ![t] = 0]
    /\ before' = [before EXCEPT ![t] = Waiting]
    /\ UNCHANGED <<running, phase>>

\* setImmediate(func) is setTimeout(func, 0).
setTimeout(t) == Post(t, "timeout", "once")

setInterval(t) == Post(t, "interval", "wrapper")

\* The promise polyfill is evaluated first, where nothing catches what it throws: the error
\* leaves bootstrap.js and duk_call in dukload.
PolyfillEnds == /\ phase = "polyfill"
                /\ phase' = "boot"
                /\ UNCHANGED <<queue, running, use, fired, before>>

PolyfillThrows == /\ phase = "polyfill"
                  /\ phase' = "fatal"
                  /\ UNCHANGED <<queue, running, use, fired, before>>

\* The boot file is read and evaluated; what it throws is caught and printed.
BootEnds == /\ phase = "boot"
            /\ phase' = "loop"
            /\ UNCHANGED <<queue, running, use, fired, before>>

Shift == /\ phase = "loop" /\ running = Idle /\ LoopGoesOn
         /\ LET n == Shifted(queue)
                t == queue[n].timer
            IN /\ running' = queue[n]
               /\ queue' = [i \in 1..(Len(queue) - 1) |-> IF i < n THEN queue[i] ELSE queue[i + 1]]
               /\ fired' = [fired EXCEPT ![t] = @ + 1]
               /\ before' = [s \in Timers |-> before[s] \ {t}]
         /\ UNCHANGED <<phase, use>>

HandlerReturns ==
    /\ phase = "loop" /\ running # Idle
    /\ LET q == AfterHandler(running)
           again == Len(q) > Len(queue)
       IN /\ queue' = q
          /\ use' = IF again THEN use ELSE [use EXCEPT ![running.timer] = "free"]
          /\ before' = IF again THEN [before EXCEPT ![running.timer] = Waiting] ELSE before
    /\ running' = Idle
    /\ UNCHANGED <<phase, fired>>

\* The main loop does not catch either.
HandlerThrows == /\ phase = "loop" /\ running # Idle
                 /\ phase' = "fatal"
                 /\ UNCHANGED <<queue, running, use, fired, before>>

LoopEnds == /\ phase = "loop" /\ running = Idle /\ ~LoopGoesOn
            /\ phase' = "done"
            /\ UNCHANGED <<queue, running, use, fired, before>>

Over == phase \in {"done", "fatal"} /\ UNCHANGED vars

Next == \/ \E t \in Timers : setTimeout(t) \/ setInterval(t)
        \/ PolyfillEnds \/ PolyfillThrows
        \/ BootEnds \/ Shift \/ HandlerReturns \/ HandlerThrows \/ LoopEnds \/ Over

Spec == Init /\ [][Next]_vars

\* The polyfill, the boot file and the handlers end, and the loop goes round.
FairSpec == /\ Spec
            /\ WF_vars(PolyfillEnds \/ PolyfillThrows)
            /\ WF_vars(BootEnds) /\ WF_vars(Shift) /\ WF_vars(LoopEnds)
            /\ WF_vars(HandlerReturns \/ HandlerThrows)

-----------------------------------------------------------------------------
(* Properties.                                                             *)

\* Every variable has its type, and a timer is in use exactly while it waits or runs.
TypeOK == /\ queue \in Seq([timer : Timers, kind : {"once", "wrapper", "func"}])
          /\ running \in [timer : Timers \cup {None}, kind : {"once", "wrapper", "func"}]
          /\ phase \in {"polyfill", "boot", "loop", "done", "fatal"}
          /\ use \in [Timers -> {"free", "timeout", "interval"}]
          /\ before \in [Timers -> SUBSET Timers]
          /\ \A t \in Timers : use[t] # "free" <=> t \in Waiting \cup {running.timer}

\* Handlers run in the order in which they were posted, whatever their delays: none starts
\* while a handler posted before it waits.
InPostingOrder ==
    [][running' # running /\ running' # Idle => before[running'.timer] = {}]_vars

\* A timer that is finished has called its function once, or twice when setInterval made
\* it: an interval does not repeat beyond that, and no handler is lost or run again.
TimesFired ==
    [][\A t \in Timers :
          use[t] # "free" /\ use'[t] = "free"
             => fired'[t] = IF use[t] = "interval" THEN 2 ELSE 1]_vars

\* A handler that waits is run, even if other handlers keep posting new ones, unless an
\* earlier one or the polyfill throws.
EveryHandlerRuns ==
    \A t \in Timers : t \in Waiting ~> (running.timer = t \/ phase = "fatal")
=============================================================================
