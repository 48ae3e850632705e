---------------------------- MODULE MCDukBridge ----------------------------
(* The value of Index for the runs of DukBridge on two addresses.          *)
EXTENDS DukBridge, TLC

CONSTANTS a1, a2

\* The addresses differ in their low 32 bits.
Distinct == (a1 :> 1) @@ (a2 :> 2)
=============================================================================
