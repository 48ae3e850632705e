----------------------------- MODULE ValueConv -----------------------------
(***************************************************************************)
(* How one value crosses the boundary between C and JavaScript:            *)
(*   stub       writes a C result into a 64-bit cell (stubcode.inc.c)      *)
(*   value_in   makes a JavaScript value of the cell                       *)
(*   value_out  makes a cell of a JavaScript value                         *)
(* for each type letter of a signature, in the Node.js and the Duktape     *)
(* binding.  What fits is a parameter: a cell holds one of WordSize words, *)
(* an int one of IntSize values, and so on; a JavaScript number is exact   *)
(* up to Exact and a multiple of one of the Units beyond.                  *)
(*                                                                         *)
(* The bits of a float or a double are carried unread: a number that came  *)
(* from the letter f or d is [kind |-> "float", v |-> its bits], and no    *)
(* other numbers are given to those letters.  A pointer (of Node.js an     *)
(* external), a buffer and a string stand for the address that value_out   *)
(* takes from them: of the object itself, of its bytes, or of a copy.      *)
(***************************************************************************)
EXTENDS Integers

CONSTANTS WordSize, IntSize, HalfSize, ByteSize,  \* 2^64, 2^32, 2^16, 2^8
          Exact,      \* 2^53: 2 to the bits of a double's significand
          Units,      \* the spacings of the doubles: 1, 2, 4, ...
          FloatOne,   \* the bits of 1.0
          Garbage     \* words an uninitialised cell may hold

\* The doubles of this magnitude are the multiples of u.
Spacing(u, n) == n < Exact * u /\ (u = 1 \/ Exact * u <= 2 * n)

Divides(m, n) == \E k \in 1..n : n = m * k

ASSUME SizeAssumption ==
    /\ {WordSize, IntSize, HalfSize, ByteSize, Exact} \subseteq Nat
    /\ 2 < ByteSize /\ Divides(2, ByteSize) /\ Divides(ByteSize, HalfSize)
    /\ Divides(HalfSize, IntSize) /\ Divides(IntSize, WordSize)
    /\ Divides(2, Exact) /\ IntSize <= Exact /\ 2 * Exact < WordSize

ASSUME WordAssumption ==
    /\ Units \subseteq Nat \ {0}
    /\ \A n \in 0..(WordSize \div 2) : \E u \in Units : Spacing(u, n)
    /\ FloatOne \in 2..(IntSize - 1)
    /\ Garbage \subseteq 0..(WordSize - 1)

VARIABLES binding,  \* "node" or "duk"
          letter,   \* the type letter of the value
          given,    \* what goes in: a C value, or a JavaScript value
          cell,     \* the nccv64
          js,       \* the JavaScript value
          phase     \* "c", "js", "back", "abort" or "throw" (a JavaScript error)

vars == <<binding, letter, given, cell, js, phase>>

Words == 0..(WordSize - 1)

Signed == {"i", "l", "x", "h", "b"}
Floats == {"f", "d"}

\* stubcode.inc.c:90-102: the letters of the C types.
Letters == {"I", "L", "f", "d", "i", "l", "p", "X", "x", "B", "H", "b", "h"}

Size(l) == CASE l \in {"B", "b"} -> ByteSize
             [] l \in {"H", "h"} -> HalfSize
             [] l \in {"I", "i", "f"} -> IntSize
             [] OTHER -> WordSize

AsSigned(w, size) == IF w < size \div 2 THEN w ELSE w - size

\* Reading the member of the union that belongs to a letter.
Member(l, w) == LET u == w % Size(l) IN IF l \in Signed THEN AsSigned(u, Size(l)) ELSE u

CValues(l) == {Member(l, w) : w \in 0..(Size(l) - 1)}

\* Writing that member leaves the other bits of the cell alone.
Written(l, v, old) == (old - (old % Size(l))) + (v % Size(l))

-----------------------------------------------------------------------------
Number(n) == [kind |-> "number", v |-> n]
Float(w) == [kind |-> "float", v |-> w]
Pointer(w) == [kind |-> "pointer", v |-> w]     \* or a buffer
String(w) == [kind |-> "string", v |-> w]

Nothing == {[kind |-> k, v |-> 0] : k \in {"null", "undefined"}}
Booleans == {[kind |-> "boolean", v |-> b] : b \in {0, 1}}
Addresses == {Pointer(w) : w \in Words} \cup {String(w) : w \in Words}
Inputs == Nothing \cup Booleans \cup {[kind |-> "object", v |-> 0]}
          \cup {Number(n) : n \in -(IntSize \div 2)..Exact} \cup Addresses

\* The double nearest to an integer, ties to even.
Abs(n) == IF n < 0 THEN -n ELSE n
Unit(n) == CHOOSE u \in Units : Spacing(u, Abs(n))
Rounded(n) ==
    LET u == Unit(n)
        q == Abs(n) \div u
        r == 2 * (Abs(n) % u)
        up == r > u \/ (r = u /\ q % 2 = 1)
        m == (IF up THEN q + 1 ELSE q) * u
    IN IF n < 0 THEN -m ELSE m

\* napi_create_int32, duk_push_int
NumberOfInt_Unsigned(w) == w % IntSize
NumberOfInt(w) == AsSigned(w % IntSize, IntSize)

\* napi_create_int64, duk_push_number
NumberOfLong_Int(w) == NumberOfInt(w)
NumberOfLong(w) == Rounded(AsSigned(w, WordSize))

\* The letters value_in has a case for.
InLetters(b) == IF b = "node" THEN {"i", "I", "b", "B", "h", "H", "l", "p", "f", "d"}
                              ELSE {"i", "l", "p", "f", "d"}

ValueIn(l, w) == CASE l = "l" -> Number(NumberOfLong(w))
                   [] l = "p" -> Pointer(w)
                   [] l \in Floats -> Float(w % Size(l))
                   [] OTHER -> Number(NumberOfInt(w))

\* The letters value_out has a case for.
OutLetters(b) == IF b = "node" THEN Letters ELSE {"i", "l", "p", "f", "d"}

\* napi_get_value_int64 writes all of the cell, whatever the letter.
LongOf_Int(n) == n % IntSize
LongOf_Wide(n) == n
LongOf(n) == n % WordSize

\* A number that has no value of the C type has no defined conversion.
Fits(n, size) == -(size \div 2) <= n /\ n < size \div 2

\* value_out of the Node.js binding: the words the cell may hold afterwards.  All that is no
\* number fills the cell whatever the letter, an address too.
NodeCells(l, v) ==
    IF v.kind # "number" THEN {v.v}
    ELSE IF Fits(v.v, WordSize) THEN {LongOf(v.v)} ELSE Words

\* value_out of the Duktape binding writes the member of the letter, true as 1.0 to a float;
\* of an address an int takes the low bits.
Filled_Bits(l, v, old) == v.v
Filled(l, v, old) == IF l \in Floats /\ v.kind = "boolean" /\ v.v = 1 THEN FloatOne ELSE v.v
DukCells(l, v, old) ==
    IF v.kind = "number" /\ ~Fits(v.v, Size(l))
      THEN {Written(l, w, old) : w \in 0..(Size(l) - 1)}
      ELSE {Written(l, Filled(l, v, old), old)}

\* What has no conversion, so that Node.js aborts and Duktape throws: an object that is no
\* pointer; a string that is no p to Node.js; an address where Duktape requires a float.
Refused(b, l, v) == \/ v.kind = "object"
                    \/ b = "node" /\ l # "p" /\ v.kind = "string"
                    \/ b = "duk" /\ l \in Floats /\ v.kind \in {"pointer", "string"}

-----------------------------------------------------------------------------
Init == /\ binding \in {"node", "duk"}
        /\ letter \in Letters
        /\ \/ /\ phase = "c"
              /\ given \in {[kind |-> "c", v |-> v] : v \in CValues(letter)}
              /\ \E g \in Garbage : cell = Written(letter, given.v, g)
              /\ js = given
           \/ /\ phase = "js"
              /\ given \in Inputs
              /\ letter \in Floats => given.kind # "number"
              /\ js = given
              /\ cell \in Garbage

value_in == /\ phase = "c"
            /\ IF letter \in InLetters(binding)
                 THEN js' = ValueIn(letter, cell) /\ phase' = "js"
                 ELSE phase' = "abort" /\ UNCHANGED js
            /\ cell' \in Garbage     \* the cell of the next call
            /\ UNCHANGED <<binding, letter, given>>

value_out ==
    /\ phase = "js"
    /\ IF letter \notin OutLetters(binding) \/ Refused(binding, letter, js)
         THEN /\ phase' = IF binding = "duk" /\ letter \in OutLetters(binding) THEN "throw"
                                                                               ELSE "abort"
              /\ UNCHANGED cell
         ELSE /\ phase' = "back"
              /\ cell' \in IF binding = "node" THEN NodeCells(letter, js)
                                               ELSE DukCells(letter, js, cell)
    /\ UNCHANGED <<binding, letter, given, js>>

Over == phase \in {"back", "abort", "throw"} /\ UNCHANGED vars

Next == value_in \/ value_out \/ Over
Spec == Init /\ [][Next]_vars

-----------------------------------------------------------------------------
(* Properties.                                                             *)

\* Every variable has its type, the cell its width.
TypeOK == /\ binding \in {"node", "duk"} /\ letter \in Letters
          /\ cell \in Words
          /\ phase \in {"c", "js", "back", "abort", "throw"}

\* A C value between two doubles.
Inexact == letter = "l" /\ given.kind = "c" /\ Abs(given.v) % Unit(given.v) # 0

\* A C value that is returned to JavaScript and passed back under the same letter arrives
\* as it was: bits that the stub left undefined and the signedness of value_in do no harm.
RoundTrip == (phase = "back" /\ given.kind = "c" /\ ~Inexact)
                 => Member(letter, cell) = given.v

\* For the letters i and l JavaScript sees the number C returned, if it is a double, as all
\* up to Exact are; of others it loses half a spacing of the doubles at most.  An unsigned int
\* is seen as the signed one of the same bits.  Of a shorter type the low bits are right: the
\* others are those of the cell, which no stub has written.
ResultSeen ==
    (phase = "js" /\ given.kind = "c") =>
        /\ letter \in {"i", "l"} => /\ ~Inexact \/ Abs(given.v) <= Exact => js = Number(given.v)
                                    /\ 2 * Abs(js.v - given.v) <= Unit(given.v)
        /\ letter = "I" => js = Number(AsSigned(given.v, IntSize))
        /\ letter \in {"b", "B", "h", "H"} => Member(letter, js.v) = given.v

\* A JavaScript integer that the C type has a value for arrives as that value: the 64-bit
\* conversion of the Node.js binding serves the unsigned and the narrow types too.
NumberArrives == (phase = "back" /\ given.kind = "number" /\ given.v \in CValues(letter)
                     /\ (binding = "node" \/ Fits(given.v, Size(letter))))
                         => Member(letter, cell) = given.v

\* null, undefined and booleans arrive as the 0 and 1 of the type, also in a cell that held
\* something else; only the Node.js binding, which ignores the type of true, gives a float
\* other bits.  The address of a pointer, a buffer or a string arrives in the bits the type
\* has, all of them under p.
TrueOf(l) == IF l \in Floats THEN FloatOne ELSE 1
NoNumberArrives ==
    phase = "back" =>
        /\ (given \in Nothing \cup Booleans
              /\ (given.v = 0 \/ binding = "duk" \/ letter \notin Floats))
                  => Member(letter, cell) = IF given.v = 0 THEN 0 ELSE TrueOf(letter)
        /\ given \in Addresses => Member(letter, cell) = Member(letter, given.v)

\* "return UINT32_MAX; /* 4294967295 */": JavaScript sees an unsigned 32-bit result as it is.
UnsignedSeen == (phase = "js" /\ given.kind = "c" /\ letter = "I") => js = Number(given.v)
=============================================================================
