---------------------------- MODULE DispatchDoc ----------------------------
(***************************************************************************)
(* The dispatch machine as src/stubsupport/nccc_corelib.h:11-22 lists its  *)
(* operations: each line of that list is one disjunct below.  An operand   *)
(* written rX names a register, imm and offs are signed distances.         *)
(*                                                                         *)
(* Memory is a function from addresses to words; the registers are the     *)
(* cells from RegBase on, so that the address of a register is an          *)
(* ordinary word.  An instruction is a record [op, x, y, z].               *)
(***************************************************************************)
EXTENDS Integers, Sequences

CONSTANTS Depth,     \* NCCC_DISPATCH_STACK_DEPTH: the number of registers
          RegBase,   \* the address of register 0
          Modulus    \* words and addresses are the naturals below Modulus

VARIABLES program,   \* the instructions
          ip,        \* the position of the next one
          cells,     \* the memory that is mapped
          status     \* "run", "done", "abort" or "undef" (undefined behaviour)

vars == <<program, ip, cells, status>>

Words == 0..(Modulus - 1)

Instr == program[ip]
R(r) == cells[RegBase + r]
InFile(r) == r \in 0..(Depth - 1)

\* The register operands of an instruction.
RegisterOperands(i) ==
    CASE i.op \in {"REGADDR", "MOV"} -> {i.x, i.y}
      [] i.op \in {"ADD", "CALL"} -> {i.x, i.y, i.z}
      [] i.op = "LDC" -> {i.y}
      [] i.op \in {"LD", "ST"} -> {i.x, i.z}
      [] i.op = "JNZ" -> {i.x}
      [] OTHER -> {}

Fetched(op) == status = "run" /\ ip \in DOMAIN program /\ Instr.op = op
               /\ \A r \in RegisterOperands(Instr) : InFile(r)

Set(a, w) == cells' = [cells EXCEPT ![a] = w]
Go(n) == ip' = ip + n /\ UNCHANGED <<program, status>>

Return == Fetched("RETURN") /\ status' = "done" /\ UNCHANGED <<program, ip, cells>>

\* [1 rBASE rOUT]
RegAddr == Fetched("REGADDR") /\ Set(RegBase + Instr.y, RegBase + Instr.x) /\ Go(1)

\* [2 rIN1 rIN2 rOUT]
Add == Fetched("ADD") /\ Set(RegBase + Instr.z, (R(Instr.x) + R(Instr.y)) % Modulus) /\ Go(1)

\* [3 const rOUT]
LoadConst == Fetched("LDC") /\ Set(RegBase + Instr.y, Instr.x) /\ Go(1)

\* [4 rBASE offs rDEST]
Load == /\ Fetched("LD")
        /\ (R(Instr.x) + Instr.y) \in DOMAIN cells
        /\ Set(RegBase + Instr.z, cells[R(Instr.x) + Instr.y])
        /\ Go(1)

\* [5 rBASE offs rIN]
Store == /\ Fetched("ST")
         /\ (R(Instr.x) + Instr.y) \in DOMAIN cells
         /\ Set(R(Instr.x) + Instr.y, R(Instr.z))
         /\ Go(1)

\* [6 rFROM rTO]
Move == Fetched("MOV") /\ Set(RegBase + Instr.y, R(Instr.x)) /\ Go(1)

\* [7 rFUNC rINBUF rOUTBUF]: the function may write its output buffer, here one cell.
Call == /\ Fetched("CALL")
        /\ \/ UNCHANGED cells
           \/ /\ R(Instr.z) \in DOMAIN cells
              /\ \E w \in Words : Set(R(Instr.z), w)
        /\ Go(1)

\* [8 imm]
Jump == Fetched("JMP") /\ Go(Instr.x) /\ UNCHANGED cells

\* [9 rIN imm]
JumpNonZero == Fetched("JNZ") /\ Go(IF R(Instr.x) # 0 THEN Instr.y ELSE 1) /\ UNCHANGED cells

\* An operation that is not listed, or an operand that names no register, ends the
\* program, whatever it left in memory.
Bad == /\ status = "run" /\ ip \in DOMAIN program
       /\ Instr.op = "UNKNOWN" \/ \E r \in RegisterOperands(Instr) : ~InFile(r)
       /\ status' = "abort"
       /\ cells' \in [DOMAIN cells -> Words]
       /\ UNCHANGED <<program, ip>>

\* An access outside mapped memory, or running off the program: anything may follow, here
\* a machine that stops.
Undefined == /\ status = "run"
             /\ \/ ip \notin DOMAIN program
                \/ Fetched("LD") /\ (R(Instr.x) + Instr.y) \notin DOMAIN cells
                \/ Fetched("ST") /\ (R(Instr.x) + Instr.y) \notin DOMAIN cells
                \/ Fetched("CALL") /\ R(Instr.z) \notin DOMAIN cells
             /\ status' = "undef"
             /\ UNCHANGED <<program, ip, cells>>

Next == \/ Return \/ RegAddr \/ Add \/ LoadConst \/ Load \/ Store \/ Move \/ Call
        \/ Jump \/ JumpNonZero \/ Bad \/ Undefined

Spec == (ip = 1 /\ status = "run") /\ [][Next]_vars
=============================================================================
