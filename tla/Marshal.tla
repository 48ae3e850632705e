------------------------------ MODULE Marshal ------------------------------
(***************************************************************************)
(* Argument lists between JavaScript and C: what nccc_call_trampoline puts *)
(* into the cells of a call, what nccc_cb_dispatcher makes of the cells it *)
(* is given, and how long the signatures are that both keep                *)
(* (src/js/node/node-nccc/node-nccc.c).  The conversion of one value is    *)
(* the subject of ValueConv; here a cell is the letter it was converted by *)
(* and the value, and a cell read as another type, or never written, gives *)
(* Junk.  Values are natural numbers; Zero is also what undefined becomes. *)
(***************************************************************************)
EXTENDS Integers, Sequences

CONSTANTS SigBuf,  \* char typestringbuf[SigBuf]: letters and a terminator
          OutBuf   \* char outtypes[OutBuf]

\* A signature of one letter fits.
ASSUME MarshalAssumption == /\ SigBuf \in Nat /\ SigBuf > 1
                            /\ OutBuf \in Nat /\ OutBuf > 0

Zero == 0
Junk == -1

\* stubcode.inc.c:90-102: the types in the order of their codes, and their letters.
TypeOrder == <<"u32", "u64", "f32", "f64", "s32", "s64", "ptr", "uptr", "sptr",
               "u8", "u16", "s8", "s16">>
LetterOrder == <<"I", "L", "f", "d", "i", "l", "p", "X", "x", "B", "H", "b", "h">>

Types == {TypeOrder[i] : i \in DOMAIN TypeOrder}
CITYPE(t) == (CHOOSE i \in DOMAIN TypeOrder : TypeOrder[i] = t) - 1
Codes(ts) == [i \in DOMAIN ts |-> CITYPE(ts[i])]
Letter(code) == LetterOrder[code + 1]
Letters(codes) == [i \in DOMAIN codes |-> Letter(codes[i])]

\* napi_get_value_string_utf8 into typestringbuf.
Kept(sig) == IF Len(sig) < SigBuf THEN sig ELSE SubSeq(sig, 1, SigBuf - 1)

-----------------------------------------------------------------------------
Cell(l, v) == [letter |-> l, v |-> v]
Cells(sig, vals) == [i \in DOMAIN sig |-> Cell(sig[i], vals[i])]

\* The cells of a call: a missing argument is undefined, a surplus one is ignored.  With a
\* dispatch function the native address comes first and the arguments move up by one.
Padded(sig, args) == [i \in DOMAIN sig |-> IF i \in DOMAIN args THEN args[i] ELSE Zero]
InCells_Unmoved(dispatched, addr, sig, args) == Cells(sig, Padded(sig, args))
InCells(dispatched, addr, sig, args) ==
    (IF dispatched THEN <<Cell("p", addr)>> ELSE <<>>) \o Cells(sig, Padded(sig, args))

\* What reading cells by the letters of a signature gives: a stub's arguments start at the
\* cell behind offset.
Read(cells, i, l) == IF i \in DOMAIN cells /\ cells[i].letter = l THEN cells[i].v ELSE Junk
ReadAll(cells, offset, sig) == [i \in DOMAIN sig |-> Read(cells, i + offset, sig[i])]

\* value_in aborts for these letters, value_out knows them all.
NoResult == {"L", "x", "X"}
InAborts(sig) == \E i \in DOMAIN sig : sig[i] \in NoResult

\* The letters by which the dispatcher converts outputs: strncpy copies OutBuf - 1 of them,
\* a terminator follows, and beyond it the stack is read.
Captured(sig, stack) ==
    [i \in DOMAIN sig |-> IF i < OutBuf THEN sig[i] ELSE IF i = OutBuf THEN "end" ELSE stack]
=============================================================================
