----------------------------- MODULE DispatchVM -----------------------------
(***************************************************************************)
(* nccc_dispatch_N of src/stubsupport/nccc_corelib.c, the machine that     *)
(* lets a C callback with up to seven pointer arguments call a function of *)
(* the uniform calling convention: a small program moves the arguments     *)
(* into a buffer made of registers, calls, and returns.                    *)
(*                                                                         *)
(* One action per case of the switch, as the code executes it.  Cells are  *)
(* 64-bit; addresses count cells here, bytes in the code.  The register    *)
(* file is a local array, so cells next to it belong to someone else; they *)
(* are in Memory when they are mapped.  A function called by CALL writes   *)
(* at most one output cell; its first operand holds such a function.       *)
(***************************************************************************)
EXTENDS Integers, Sequences

CONSTANTS Depth,      \* NCCC_DISPATCH_STACK_DEPTH
          RegBase,    \* the address of p[0]
          Modulus,    \* words and addresses are the naturals below Modulus
          Memory,     \* the mapped addresses outside the register file
          Programs,   \* the programs that are run, sequences of [op, x, y, z]
          Params,     \* the words a caller passes in p0, p1, ...
          Garbage     \* the words an uninitialised register may hold

ASSUME VMAssumption ==
    /\ Depth \in Nat \ {0} /\ RegBase \in Nat /\ Modulus \in Nat \ {0}
    /\ RegBase + Depth <= Modulus
    /\ Memory \subseteq 0..(Modulus - 1)
    /\ Memory \cap (RegBase..(RegBase + Depth - 1)) = {}
    /\ Params \subseteq 0..(Modulus - 1) /\ Garbage \subseteq 0..(Modulus - 1)

Operations == {"RETURN", "REGADDR", "ADD", "LDC", "LD", "ST", "MOV", "CALL", "JMP", "JNZ",
               "UNKNOWN"}

\* Operands are numbers of any size, constants are words.
ASSUME ProgramAssumption ==
    \A p \in Programs :
        /\ p \in Seq([op : Operations, x : Int, y : Int, z : Int])
        /\ \A i \in DOMAIN p : p[i].op = "LDC" => p[i].x \in 0..(Modulus - 1)

VARIABLES program,   \* op: the instructions
          ip,        \* the position of the next one
          cells,     \* the mapped memory, the register file included
          status     \* "run", "done", "abort" or "undef" (undefined behaviour)

vars == <<program, ip, cells, status>>

Words == 0..(Modulus - 1)
RegFile == RegBase..(RegBase + Depth - 1)
Mapped == RegFile \cup Memory

Instr == program[ip]
Running(op) == status = "run" /\ ip \in DOMAIN program /\ Instr.op = op

\* regcheck: r < 0 or r >= NCCC_DISPATCH_STACK_DEPTH aborts.
regcheck_Strict(r) == r \in 0..(Depth - 2)
regcheck(r) == r \in 0..(Depth - 1)

\* reg[r]: no bounds are checked by the access itself.
RegAt(r) == RegBase + r
reg(r) == cells[RegAt(r)]

Continue_Stuck == UNCHANGED <<ip, program, status>>
Continue == ip' = ip + 1 /\ UNCHANGED <<program, status>>
Stop(s) == status' = s /\ UNCHANGED <<program, ip>>

-----------------------------------------------------------------------------
\* nccc_dispatch_0 to nccc_dispatch_7: the first k registers hold the arguments, the
\* others what the stack held.
Init == /\ program \in Programs
        /\ ip = 1
        /\ status = "run"
        /\ \E k \in 0..7 :
              /\ k <= Depth
              /\ \E p \in [RegFile -> Params \cup Garbage] :
                    /\ \A a \in RegFile : IF a < RegBase + k THEN p[a] \in Params
                                                             ELSE p[a] \in Garbage
                    /\ cells = [a \in Mapped |-> IF a \in RegFile THEN p[a] ELSE 0]

RETURN == Running("RETURN") /\ Stop("done") /\ UNCHANGED cells

\* The operations that check their registers first.
Checked(op, rs) == Running(op) /\ \A r \in rs : regcheck(r)

REGADDR == /\ Checked("REGADDR", {Instr.x, Instr.y})
           /\ cells' = [cells EXCEPT ![RegAt(Instr.y)] = RegAt(Instr.x)]
           /\ Continue

\* "Use unsigned for wrapping addition"
Sum_NoWrap(a, b) == a + b
Sum(a, b) == (a + b) % Modulus

ADD == /\ Checked("ADD", {Instr.x, Instr.y, Instr.z})
       /\ cells' = [cells EXCEPT ![RegAt(Instr.z)] = Sum(reg(Instr.x), reg(Instr.y))]
       /\ Continue

MOV == /\ Checked("MOV", {Instr.x, Instr.y})
       /\ cells' = [cells EXCEPT ![RegAt(Instr.y)] = reg(Instr.x)]
       /\ Continue

CALL == /\ Checked("CALL", {Instr.x, Instr.y, Instr.z})
        /\ \/ UNCHANGED cells
           \/ /\ reg(Instr.z) \in Mapped
              /\ \E w \in Words : cells' = [cells EXCEPT ![reg(Instr.z)] = w]
        /\ Continue

BadRegister ==
    /\ \/ (Running("REGADDR") \/ Running("MOV")) /\ \E r \in {Instr.x, Instr.y} : ~regcheck(r)
       \/ (Running("ADD") \/ Running("CALL"))
             /\ \E r \in {Instr.x, Instr.y, Instr.z} : ~regcheck(r)
    /\ Stop("abort")
    /\ UNCHANGED cells

\* LDC checks its register after the write, which may have hit a neighbouring cell.
LDC == /\ Running("LDC")
       /\ RegAt(Instr.y) \in Mapped
       /\ cells' = [cells EXCEPT ![RegAt(Instr.y)] = Instr.x]
       /\ IF regcheck(Instr.y) THEN Continue ELSE Stop("abort")

\* LD and ST check nothing.
LoadFrom_NoOffset == reg(Instr.x)
LoadFrom == reg(Instr.x) + Instr.y
LoadMapped == {RegAt(Instr.x), RegAt(Instr.z)} \subseteq Mapped /\ LoadFrom \in Mapped
LD == /\ Running("LD") /\ LoadMapped
      /\ cells' = [cells EXCEPT ![RegAt(Instr.z)] = cells[LoadFrom]]
      /\ Continue

\* mem = reg[src].ptr: the base of the store is the register that is stored.
StoreTo == reg(Instr.z) + Instr.y
StoreMapped == RegAt(Instr.z) \in Mapped /\ StoreTo \in Mapped
ST == /\ Running("ST") /\ StoreMapped
      /\ cells' = [cells EXCEPT ![StoreTo] = reg(Instr.z)]
      /\ Continue

\* JMP moves ip and falls into JNZ, which reads its operands there and the register they name,
\* unchecked, moves ip and falls into default: abort().
JnzAt == IF Instr.op = "JMP" THEN ip + Instr.x ELSE ip
JnzReads == JnzAt \in DOMAIN program /\ RegAt(program[JnzAt].x) \in Mapped
FallThrough == /\ \/ Running("UNKNOWN")
                  \/ (Running("JMP") \/ Running("JNZ")) /\ JnzReads
               /\ Stop("abort")
               /\ UNCHANGED cells

\* An access outside mapped memory, or past the end of the program, is undefined.
Undefined ==
    /\ status = "run"
    /\ \/ ip \notin DOMAIN program
       \/ Running("LDC") /\ RegAt(Instr.y) \notin Mapped
       \/ Running("LD") /\ ~LoadMapped
       \/ Running("ST") /\ ~StoreMapped
       \/ (Running("JMP") \/ Running("JNZ")) /\ ~JnzReads
       \/ Checked("CALL", {Instr.x, Instr.y, Instr.z}) /\ reg(Instr.z) \notin Mapped
    /\ Stop("undef")
    /\ UNCHANGED cells

Halted == status # "run" /\ UNCHANGED vars

Next == \/ RETURN \/ REGADDR \/ ADD \/ LDC \/ LD \/ ST \/ MOV \/ CALL \/ FallThrough
        \/ BadRegister \/ Undefined \/ Halted

Spec == Init /\ [][Next]_vars
FairSpec == Spec /\ WF_vars(Next)

-----------------------------------------------------------------------------
(* Properties.                                                             *)

TypeOK == /\ DOMAIN program = 1..Len(program)
          /\ ip \in 1..(Len(program) + 1)
          /\ cells \in [Mapped -> Words]
          /\ status \in {"run", "done", "abort", "undef"}

Doc == INSTANCE DispatchDoc

\* The switch executes the operations as nccc_corelib.h lists them: every step of the
\* machine is the listed operation at ip, on registers and memory alike.
ImplementsDoc == Doc!Spec

\* The machine stops with abort() only for an operation that is none of the ten listed,
\* or for an operand that names no register.
AbortJustified ==
    status = "abort" => \/ Instr.op = "UNKNOWN"
                        \/ \E r \in Doc!RegisterOperands(Instr) : ~Doc!InFile(r)

\* A store goes to the address in its base register plus its offset: [5 rBASE offs rIN].
StoreHitsBase ==
    [][Running("ST") /\ status' = "run" =>
          cells' = [cells EXCEPT ![reg(Instr.x) + Instr.y] = reg(Instr.z)]]_vars

\* Every program stops: without jumps that work there is no loop.
Terminates == <>(status # "run")
=============================================================================
