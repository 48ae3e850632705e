----------------------------- MODULE AbsBridge -----------------------------
(***************************************************************************)
(* What a bridge between a JavaScript host and native code promises about  *)
(* control flow: which side runs, and where an exception thrown by a       *)
(* JavaScript callback comes out.  Nothing is said of how the bridge does  *)
(* it: no call depth, no jump buffer, no handle scopes.                    *)
(*                                                                         *)
(* A JavaScript frame and a native frame alternate on the stack.  An       *)
(* exception nobody catches in the frame that throws it does not stop at   *)
(* the frames in between: it comes out of the outermost call into native   *)
(* code, in the JavaScript frame that made that call.  Only when no such   *)
(* call is on the stack (the outermost frame is native, and the throwing   *)
(* callback was called by it) does native code get control back with the   *)
(* exception still pending.                                                *)
(***************************************************************************)
EXTENDS Naturals, Sequences

CONSTANTS Excs,      \* the exception values
          NoExc      \* no exception is pending

VARIABLES side,      \* the stack: a sequence of "js" and "native", outermost first
          pending    \* the exception being propagated, or NoExc

vars == <<side, pending>>

Sides == {"js", "native"}

Running(s) == side # <<>> /\ side[Len(side)] = s

Below == SubSeq(side, 1, Len(side) - 1)

\* The position of the outermost JavaScript frame.
RootJs == IF side[1] = "js" THEN 1 ELSE 2

Init == side = <<>> /\ pending = NoExc

\* The host's event loop starts a JavaScript task or a native finalizer.
Start == /\ side = <<>> /\ pending = NoExc
         /\ \E s \in Sides : side' = <<s>>
         /\ UNCHANGED pending

\* The running side calls the other one.
Call == /\ side # <<>> /\ pending = NoExc
        /\ \/ Running("js") /\ side' = Append(side, "native")
           \/ Running("native") /\ side' = Append(side, "js")
        /\ UNCHANGED pending

\* The running frame returns; only an outermost native frame may do so with
\* an exception pending.
Return == /\ side # <<>>
          /\ pending = NoExc \/ side = <<"native">>
          /\ side' = Below
          /\ UNCHANGED pending

Throw == /\ Running("js") /\ pending = NoExc
         /\ pending' \in Excs
         /\ UNCHANGED side

Catch == /\ Running("js") /\ pending # NoExc
         /\ pending' = NoExc
         /\ UNCHANGED side

\* Nobody catches in the throwing frame.
Unwind == /\ Running("js") /\ pending # NoExc
          /\ side' = IF Len(side) > RootJs THEN SubSeq(side, 1, RootJs) ELSE Below
          /\ UNCHANGED pending

\* The exception left the outermost frame: the host takes note of it.
Report == /\ side = <<>> /\ pending # NoExc
          /\ pending' = NoExc
          /\ UNCHANGED side

Next == Start \/ Call \/ Return \/ Throw \/ Catch \/ Unwind \/ Report

Spec == Init /\ [][Next]_vars
=============================================================================
