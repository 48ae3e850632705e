------------------------------- MODULE AbsDuk -------------------------------
(***************************************************************************)
(* What an engine that unwinds by itself promises about control flow       *)
(* between scripts and native code: which side runs, and where an error    *)
(* that nobody catches comes out.                                          *)
(*                                                                         *)
(* The stack has JavaScript frames, native functions that JavaScript       *)
(* called, and finalizers, which the engine calls itself.  An error comes  *)
(* out in the nearest JavaScript frame below, of the innermost native      *)
(* call, while AbsBridge sends it to the outermost.  It passes over no     *)
(* finalizer: there it ends.  Where no frame is left to receive it, the    *)
(* process is over.                                                        *)
(***************************************************************************)
EXTENDS Naturals, Sequences

CONSTANTS Excs,      \* the error values
          NoExc      \* no error is being thrown

VARIABLES side,      \* the stack: "js", "native" and "final", outermost first
          pending,   \* the error being thrown, or NoExc
          over       \* the process has ended

vars == <<side, pending, over>>

Running(s) == ~over /\ side # <<>> /\ side[Len(side)] = s
Native == Running("native") \/ Running("final")

\* The frames that are passed over on the way to the nearest JavaScript frame below.
Landing == CHOOSE m \in 0..(Len(side) - 1) : /\ m > 0 => side[m] = "js"
                                             /\ \A i \in (m + 1)..(Len(side) - 1) : side[i] # "js"
Skipped == {side[i] : i \in (Landing + 1)..(Len(side) - 1)}

Init == side = <<"js">> /\ pending = NoExc /\ over = FALSE

\* The running side calls the other one; the engine may also run a finalizer when the script
\* has returned.
Call == /\ pending = NoExc
        /\ \/ Running("js") /\ \E s \in {"native", "final"} : side' = Append(side, s)
           \/ ~over /\ side = <<>> /\ side' = <<"final">>
           \/ Native /\ side' = Append(side, "js")
        /\ UNCHANGED <<pending, over>>

\* No frame returns while an error is thrown.
Return == /\ pending = NoExc
          /\ Running("js") \/ Native
          /\ side' = SubSeq(side, 1, Len(side) - 1)
          /\ UNCHANGED <<pending, over>>

Throw == /\ Running("js") /\ pending = NoExc
         /\ pending' \in Excs
         /\ UNCHANGED <<side, over>>

Catch == /\ Running("js") /\ pending # NoExc
         /\ pending' = NoExc
         /\ UNCHANGED <<side, over>>

\* Nobody catches in the throwing frame.
Unwind == /\ Running("js") /\ pending # NoExc /\ Len(side) > 1
          /\ side' = SubSeq(side, 1, Landing)
          /\ pending' = IF "final" \in Skipped THEN NoExc ELSE pending
          /\ UNCHANGED over

\* The process ends, with an error only if the script itself let it go.
Stop == /\ ~over /\ over' = TRUE
        /\ pending # NoExc => side = <<"js">>
        /\ UNCHANGED <<side, pending>>

Next == Call \/ Return \/ Throw \/ Catch \/ Unwind \/ Stop

Spec == Init /\ [][Next]_vars
=============================================================================
