------------------------- MODULE DispatchVM_proofs -------------------------
(***************************************************************************)
(* Proofs about DispatchVM: types, for every program; and for the programs *)
(* that keep clear of what the code does otherwise than listed, that the   *)
(* machine implements DispatchDoc and stops at bad registers, for every    *)
(* size of the register file, of the memory and of the words.              *)
(***************************************************************************)
EXTENDS DispatchVM, SequenceTheorems, TLAPS

\* A program without jumps, whose loads and stores name registers of the file, whose stores
\* store the register that holds their base, and whose constants go to mapped memory.
Plain(p) ==
    \A i \in DOMAIN p :
        /\ p[i].op \notin {"JMP", "JNZ"}
        /\ p[i].op \in {"LD", "ST"} => p[i].x \in 0..(Depth - 1) /\ p[i].z \in 0..(Depth - 1)
        /\ p[i].op = "ST" => p[i].x = p[i].z
        /\ p[i].op = "LDC" => RegAt(p[i].y) \in Mapped

IInv == TypeOK /\ program \in Programs

-----------------------------------------------------------------------------
\* The instruction at hand has the type of instructions.
LEMMA InstrType ==
  ASSUME IInv, ip \in DOMAIN program
  PROVE  /\ Instr \in [op : Operations, x : Int, y : Int, z : Int]
         /\ Instr.op = "LDC" => Instr.x \in Words
         /\ ip \in 1..Len(program) /\ Len(program) \in Nat
<1>1. program \in Seq([op : Operations, x : Int, y : Int, z : Int])
  BY ProgramAssumption DEF IInv
<1>2. ip \in 1..Len(program) /\ Len(program) \in Nat
  BY <1>1, LenProperties DEF IInv, TypeOK
<1> QED
  BY <1>1, <1>2, ElementOfSeq, ProgramAssumption DEF IInv, Instr, Words

\* Registers of the file are mapped cells, and their addresses are words.
LEMMA RegisterCells ==
  ASSUME NEW r \in Int, regcheck(r)
  PROVE  RegAt(r) \in Mapped /\ RegAt(r) \in Words
BY VMAssumption DEF regcheck, RegAt, Mapped, RegFile, Words

\* Every mapped cell holds a word, so sums of cells are words again.
LEMMA SumWord ==
  ASSUME NEW a \in Words, NEW b \in Words
  PROVE  Sum(a, b) \in Words
BY VMAssumption DEF Sum, Words

\* A program starts with its arguments in the first registers.
THEOREM InitIInv == Init => IInv
<1> SUFFICES ASSUME Init PROVE IInv
  OBVIOUS
<1>1. program \in Programs /\ ip = 1 /\ status = "run"
  BY DEF Init
<1>2. program \in Seq([op : Operations, x : Int, y : Int, z : Int])
  BY <1>1, ProgramAssumption
<1>3. DOMAIN program = 1..Len(program) /\ Len(program) \in Nat
  BY <1>2, LenProperties
<1>4. PICK p \in [RegFile -> Params \cup Garbage] :
         cells = [a \in Mapped |-> IF a \in RegFile THEN p[a] ELSE 0]
  BY DEF Init
<1>5. Params \cup Garbage \subseteq Words /\ 0 \in Words
  BY VMAssumption DEF Words
<1>6. cells \in [Mapped -> Words]
  BY <1>4, <1>5
<1> QED
  BY <1>1, <1>3, <1>6 DEF IInv, TypeOK

\* An instruction that writes a word into a mapped cell and goes on, or stops.
LEMMA CellStep ==
  ASSUME IInv, UNCHANGED program, cells' \in [Mapped -> Words],
         \/ ip \in DOMAIN program /\ Continue
         \/ UNCHANGED ip /\ status' \in {"run", "done", "abort", "undef"}
  PROVE  IInv'
<1>1. program \in Seq([op : Operations, x : Int, y : Int, z : Int])
  BY ProgramAssumption DEF IInv
<1>2. Len(program) \in Nat /\ DOMAIN program = 1..Len(program)
  BY <1>1, LenProperties
<1>3. CASE ip \in DOMAIN program /\ Continue
  <2>1. ip' \in 1..(Len(program) + 1) /\ UNCHANGED status
    BY <1>2, <1>3 DEF Continue
  <2> QED
    BY <2>1 DEF IInv, TypeOK
<1>4. CASE UNCHANGED ip /\ status' \in {"run", "done", "abort", "undef"}
  BY <1>4 DEF IInv, TypeOK
<1> QED
  BY <1>3, <1>4

\* Every step keeps the types.
THEOREM NextIInv == IInv /\ [Next]_vars => IInv'
<1> SUFFICES ASSUME IInv, [Next]_vars PROVE IInv'
  OBVIOUS
<1>1. cells \in [Mapped -> Words]
  BY DEF IInv, TypeOK
<1>2. CASE RETURN \/ FallThrough \/ BadRegister \/ Undefined \/ UNCHANGED vars
  <2>1. UNCHANGED <<program, ip, cells>> /\ status' \in {"run", "done", "abort", "undef"}
    BY <1>2 DEF RETURN, FallThrough, BadRegister, Undefined, Stop, vars, IInv, TypeOK
  <2> QED
    BY <1>1, <2>1, CellStep
<1>3. CASE REGADDR
  <2>1. ip \in DOMAIN program /\ Continue /\ regcheck(Instr.x) /\ regcheck(Instr.y)
        /\ cells' = [cells EXCEPT ![RegAt(Instr.y)] = RegAt(Instr.x)]
    BY <1>3 DEF REGADDR, Checked, Running
  <2>2. RegAt(Instr.x) \in Words
    BY <2>1, InstrType, RegisterCells
  <2>3. cells' \in [Mapped -> Words]
    BY <1>1, <2>1, <2>2
  <2> QED
    BY <2>1, <2>3, CellStep DEF Continue
<1>4. CASE ADD
  <2>1. ip \in DOMAIN program /\ Continue /\ regcheck(Instr.x) /\ regcheck(Instr.y)
        /\ cells' = [cells EXCEPT ![RegAt(Instr.z)] = Sum(reg(Instr.x), reg(Instr.y))]
    BY <1>4 DEF ADD, Checked, Running
  <2>2. reg(Instr.x) \in Words /\ reg(Instr.y) \in Words
    BY <1>1, <2>1, InstrType, RegisterCells DEF reg
  <2>3. cells' \in [Mapped -> Words]
    BY <1>1, <2>1, <2>2, SumWord
  <2> QED
    BY <2>1, <2>3, CellStep DEF Continue
<1>5. CASE MOV
  <2>1. ip \in DOMAIN program /\ Continue /\ regcheck(Instr.x)
        /\ cells' = [cells EXCEPT ![RegAt(Instr.y)] = reg(Instr.x)]
    BY <1>5 DEF MOV, Checked, Running
  <2>2. reg(Instr.x) \in Words
    BY <1>1, <2>1, InstrType, RegisterCells DEF reg
  <2>3. cells' \in [Mapped -> Words]
    BY <1>1, <2>1, <2>2
  <2> QED
    BY <2>1, <2>3, CellStep DEF Continue
<1>6. CASE CALL
  <2>1. ip \in DOMAIN program /\ Continue
    BY <1>6 DEF CALL, Checked, Running
  <2>2. cells' \in [Mapped -> Words]
    BY <1>1, <1>6 DEF CALL
  <2> QED
    BY <2>1, <2>2, CellStep DEF Continue
<1>7. CASE LDC
  <2>1. /\ ip \in DOMAIN program /\ Instr.op = "LDC"
        /\ cells' = [cells EXCEPT ![RegAt(Instr.y)] = Instr.x]
        /\ Continue \/ Stop("abort")
    BY <1>7 DEF LDC, Running
  <2>2. cells' \in [Mapped -> Words]
    BY <1>1, <2>1, InstrType
  <2> QED
    BY <2>1, <2>2, CellStep DEF Continue, Stop
<1>8. CASE LD
  <2>1. /\ ip \in DOMAIN program /\ Continue /\ LoadFrom \in Mapped
        /\ cells' = [cells EXCEPT ![RegAt(Instr.z)] = cells[LoadFrom]]
    BY <1>8 DEF LD, LoadMapped, Running
  <2>2. cells' \in [Mapped -> Words]
    BY <1>1, <2>1
  <2> QED
    BY <2>1, <2>2, CellStep DEF Continue
<1>9. CASE ST
  <2>1. /\ ip \in DOMAIN program /\ Continue /\ RegAt(Instr.z) \in Mapped
        /\ cells' = [cells EXCEPT ![StoreTo] = reg(Instr.z)]
    BY <1>9 DEF ST, StoreMapped, Running
  <2>2. cells' \in [Mapped -> Words]
    BY <1>1, <2>1 DEF reg
  <2> QED
    BY <2>1, <2>2, CellStep DEF Continue
<1> QED
  BY <1>2, <1>3, <1>4, <1>5, <1>6, <1>7, <1>8, <1>9 DEF Next, Halted

\* Types hold in every reachable state.
THEOREM Invariance == Spec => []IInv
BY InitIInv, NextIInv, PTL DEF Spec

\* Every cell keeps the width of a word, and ip stays in the program or just behind it.
THEOREM TypeCorrect == Spec => []TypeOK
<1>1. IInv => TypeOK
  BY DEF IInv
<1> QED
  BY <1>1, Invariance, PTL

-----------------------------------------------------------------------------
(* What the header lists.                                                  *)

\* The programs the statements below are about.
AllPlain == \A p \in Programs : Plain(p)

\* With a plain program an instruction is no jump, and its loads and stores name registers.
LEMMA InstrPlain ==
  ASSUME AllPlain, IInv, ip \in DOMAIN program
  PROVE  /\ Instr.op \notin {"JMP", "JNZ"}
         /\ Instr.op \in {"LD", "ST"} => regcheck(Instr.x) /\ regcheck(Instr.z)
         /\ Instr.op = "ST" => Instr.x = Instr.z
         /\ Instr.op = "LDC" => RegAt(Instr.y) \in Mapped
BY DEF AllPlain, Plain, IInv, Instr, regcheck

\* The two modules read registers alike, and the listed registers are those the code checks.
LEMMA SameReading ==
  /\ Doc!Instr = Instr
  /\ \A r : Doc!R(r) = reg(r) /\ (Doc!InFile(r) <=> regcheck(r))
BY DEF Doc!Instr, Instr, Doc!R, reg, RegAt, Doc!InFile, regcheck

\* The operations that stop, and those that leave memory as it is.
LEMMA StopSimulates ==
  ASSUME AllPlain, IInv, RETURN \/ FallThrough \/ BadRegister
  PROVE  Doc!Next
<1>1. cells \in [Mapped -> Words] /\ DOMAIN cells = Mapped
  BY DEF IInv, TypeOK
<1>2. CASE RETURN
  <2>1. Doc!Fetched("RETURN")
    BY <1>2, SameReading DEF RETURN, Running, Doc!Fetched, Doc!RegisterOperands
  <2> QED
    BY <1>2, <2>1 DEF RETURN, Stop, Doc!Return, Doc!Next
<1>3. CASE FallThrough
  <2>1. ip \in DOMAIN program /\ Instr.op = "UNKNOWN" /\ status = "run"
    BY <1>3, InstrPlain DEF FallThrough, Running
  <2> QED
    BY <1>1, <1>3, <2>1, SameReading DEF FallThrough, Stop, Doc!Bad, Doc!Next, Words, Doc!Words
<1>4. CASE BadRegister
  <2>1. /\ ip \in DOMAIN program /\ status = "run"
        /\ \E r \in Doc!RegisterOperands(Instr) : ~regcheck(r)
    BY <1>4 DEF BadRegister, Running, Doc!RegisterOperands
  <2> QED
    BY <1>1, <1>4, <2>1, SameReading
       DEF BadRegister, Stop, Doc!Bad, Doc!Next, Words, Doc!Words
<1> QED
  BY <1>2, <1>3, <1>4

\* An instruction with registers in the file is fetched in DispatchDoc as well.
LEMMA FetchedToo ==
  ASSUME NEW op, Running(op), \A r \in Doc!RegisterOperands(Instr) : regcheck(r)
  PROVE  Doc!Fetched(op)
BY SameReading DEF Running, Doc!Fetched

\* The operations on registers do what they are listed to do.
LEMMA RegisterSimulates ==
  ASSUME IInv, REGADDR \/ ADD \/ MOV \/ CALL
  PROVE  Doc!Next
<1>1. CASE REGADDR
  <2>1. Doc!Fetched("REGADDR")
    BY <1>1, FetchedToo DEF REGADDR, Checked, Running, Doc!RegisterOperands
  <2> QED
    BY <1>1, <2>1, SameReading
       DEF REGADDR, Continue, RegAt, Doc!RegAddr, Doc!Set, Doc!Go, Doc!Next
<1>2. CASE ADD
  <2>1. Doc!Fetched("ADD")
    BY <1>2, FetchedToo DEF ADD, Checked, Running, Doc!RegisterOperands
  <2> QED
    BY <1>2, <2>1, SameReading
       DEF ADD, Sum, Continue, RegAt, Doc!Add, Doc!Set, Doc!Go, Doc!Next
<1>3. CASE MOV
  <2>1. Doc!Fetched("MOV")
    BY <1>3, FetchedToo DEF MOV, Checked, Running, Doc!RegisterOperands
  <2> QED
    BY <1>3, <2>1, SameReading
       DEF MOV, Continue, RegAt, Doc!Move, Doc!Set, Doc!Go, Doc!Next
<1>4. CASE CALL
  <2>1. Doc!Fetched("CALL")
    BY <1>4, FetchedToo DEF CALL, Checked, Running, Doc!RegisterOperands
  <2>2. UNCHANGED cells \/ /\ Doc!R(Instr.z) \in DOMAIN cells
                           /\ \E w \in Words : cells' = [cells EXCEPT ![Doc!R(Instr.z)] = w]
    <3>1. CASE UNCHANGED cells
      BY <3>1
    <3>2. CASE reg(Instr.z) \in Mapped
      BY <1>4, <3>2, SameReading DEF CALL, IInv, TypeOK
    <3> QED
      BY <1>4, <3>1, <3>2 DEF CALL
  <2> QED
    BY <1>4, <2>1, <2>2, SameReading
       DEF CALL, Continue, Doc!Call, Doc!Set, Doc!Go, Doc!Next, Words, Doc!Words
<1> QED
  BY <1>1, <1>2, <1>3, <1>4

\* Constants, loads and stores do what they are listed to do.
LEMMA MemorySimulates ==
  ASSUME AllPlain, IInv, LDC \/ LD \/ ST
  PROVE  Doc!Next
<1>1. cells \in [Mapped -> Words] /\ DOMAIN cells = Mapped
  BY DEF IInv, TypeOK
<1>2. CASE LDC
  <2>1. /\ ip \in DOMAIN program /\ status = "run" /\ Instr.op = "LDC"
        /\ cells' = [cells EXCEPT ![RegAt(Instr.y)] = Instr.x]
        /\ Doc!RegisterOperands(Instr) = {Instr.y}
    BY <1>2 DEF LDC, Running, Doc!RegisterOperands
  <2>2. CASE regcheck(Instr.y)
    <3>1. Doc!Fetched("LDC")
      BY <1>2, <2>1, <2>2, FetchedToo DEF LDC
    <3>2. Continue
      BY <1>2, <2>2 DEF LDC
    <3> QED
      BY <2>1, <3>1, <3>2, SameReading
         DEF Continue, RegAt, Doc!LoadConst, Doc!Set, Doc!Go, Doc!Next
  <2>3. CASE ~regcheck(Instr.y)
    <3>1. Stop("abort")
      BY <1>2, <2>3 DEF LDC
    <3>2. cells' \in [Mapped -> Words]
      BY <1>1, <2>1, InstrType
    <3> QED
      BY <1>1, <2>1, <2>3, <3>1, <3>2, SameReading
         DEF Stop, Doc!Bad, Doc!Next, Words, Doc!Words
  <2> QED
    BY <2>2, <2>3
<1>3. CASE LD
  <2>1. /\ ip \in DOMAIN program /\ Instr.op = "LD" /\ Running("LD")
        /\ Doc!RegisterOperands(Instr) = {Instr.x, Instr.z}
    BY <1>3 DEF LD, Running, Doc!RegisterOperands
  <2>2. Doc!Fetched("LD")
    BY <2>1, InstrPlain, FetchedToo
  <2> QED
    BY <1>1, <1>3, <2>2, SameReading
       DEF LD, LoadMapped, LoadFrom, Continue, RegAt, Doc!Load, Doc!Set, Doc!Go, Doc!Next
<1>4. CASE ST
  <2>1. /\ ip \in DOMAIN program /\ Instr.op = "ST" /\ Running("ST")
        /\ Doc!RegisterOperands(Instr) = {Instr.x, Instr.z}
    BY <1>4 DEF ST, Running, Doc!RegisterOperands
  <2>2. Doc!Fetched("ST") /\ Instr.x = Instr.z
    BY <2>1, InstrPlain, FetchedToo
  <2> QED
    BY <1>1, <1>4, <2>2, SameReading
       DEF ST, StoreMapped, StoreTo, Continue, RegAt, Doc!Store, Doc!Set, Doc!Go, Doc!Next
<1> QED
  BY <1>2, <1>3, <1>4

\* What is undefined in the code is undefined as listed.
LEMMA UndefinedSimulates ==
  ASSUME AllPlain, IInv, Undefined
  PROVE  Doc!Next
<1>1. DOMAIN cells = Mapped /\ status = "run" /\ Stop("undef") /\ UNCHANGED cells
  BY DEF IInv, TypeOK, Undefined
<1>2. \/ ip \notin DOMAIN program
      \/ Doc!Fetched("LD") /\ (Doc!R(Instr.x) + Instr.y) \notin DOMAIN cells
      \/ Doc!Fetched("ST") /\ (Doc!R(Instr.x) + Instr.y) \notin DOMAIN cells
      \/ Doc!Fetched("CALL") /\ Doc!R(Instr.z) \notin DOMAIN cells
  <2>1. CASE Running("LDC") /\ RegAt(Instr.y) \notin Mapped
    BY <2>1, InstrPlain DEF Running
  <2>2. CASE Running("LD") /\ ~LoadMapped
    <3>1. ip \in DOMAIN program /\ Instr.op = "LD"
      BY <2>2 DEF Running
    <3>2. regcheck(Instr.x) /\ regcheck(Instr.z) /\ Instr.x \in Int /\ Instr.z \in Int
      BY <3>1, InstrPlain, InstrType
    <3>3. RegAt(Instr.x) \in Mapped /\ RegAt(Instr.z) \in Mapped
      BY <3>2, RegisterCells
    <3>4. LoadFrom \notin Mapped
      BY <2>2, <3>3 DEF LoadMapped
    <3>5. Doc!Fetched("LD")
      BY <2>2, <3>1, <3>2, FetchedToo DEF Doc!RegisterOperands
    <3> QED
      BY <1>1, <3>4, <3>5, SameReading DEF LoadFrom
  <2>3. CASE Running("ST") /\ ~StoreMapped
    <3>1. ip \in DOMAIN program /\ Instr.op = "ST"
      BY <2>3 DEF Running
    <3>2. regcheck(Instr.z) /\ Instr.x = Instr.z /\ Instr.z \in Int
      BY <3>1, InstrPlain, InstrType
    <3>3. RegAt(Instr.z) \in Mapped
      BY <3>2, RegisterCells
    <3>4. StoreTo \notin Mapped
      BY <2>3, <3>3 DEF StoreMapped
    <3>5. Doc!Fetched("ST")
      BY <2>3, <3>1, <3>2, FetchedToo DEF Doc!RegisterOperands
    <3> QED
      BY <1>1, <3>2, <3>4, <3>5, SameReading DEF StoreTo
  <2>4. CASE Checked("CALL", {Instr.x, Instr.y, Instr.z}) /\ reg(Instr.z) \notin Mapped
    <3>1. Doc!Fetched("CALL")
      BY <2>4, FetchedToo DEF Checked, Running, Doc!RegisterOperands
    <3> QED
      BY <1>1, <2>4, <3>1, SameReading
  <2>5. CASE (Running("JMP") \/ Running("JNZ")) /\ ~JnzReads
    BY <2>5, InstrPlain DEF Running
  <2> QED
    BY <2>1, <2>2, <2>3, <2>4, <2>5 DEF Undefined
<1> QED
  BY <1>1, <1>2, SameReading DEF Stop, Doc!Undefined, Doc!Next

\* Every step of a plain program is the listed one.
LEMMA StepSimulates == AllPlain /\ IInv /\ [Next]_vars => [Doc!Next]_(Doc!vars)
<1> SUFFICES ASSUME AllPlain, IInv, [Next]_vars PROVE [Doc!Next]_(Doc!vars)
  OBVIOUS
<1>1. UNCHANGED vars => UNCHANGED Doc!vars
  BY DEF vars, Doc!vars
<1> QED
  BY <1>1, StopSimulates, RegisterSimulates, MemorySimulates, UndefinedSimulates
     DEF Next, Halted

\* With programs that keep clear of jumps, of registers LD and ST do not check, and of the
\* base operand ST ignores, the switch executes what nccc_corelib.h lists.
THEOREM Implementation == AllPlain => (Spec => ImplementsDoc)
<1> SUFFICES ASSUME AllPlain PROVE Spec => ImplementsDoc
  OBVIOUS
<1>1. Init => ip = 1 /\ status = "run"
  BY DEF Init
<1>2. IInv /\ [Next]_vars => [Doc!Next]_(Doc!vars)
  BY StepSimulates
<1> QED
  BY <1>1, <1>2, Invariance, PTL DEF Spec, ImplementsDoc, Doc!Spec

\* A plain program is aborted only for an unknown operation or a register that is none.
THEOREM AbortCorrect == AllPlain => (Spec => []AbortJustified)
<1> SUFFICES ASSUME AllPlain PROVE Spec => []AbortJustified
  OBVIOUS
<1>1. Init => AbortJustified
  BY DEF Init, AbortJustified
<1>2. IInv /\ AbortJustified /\ [Next]_vars => AbortJustified'
  <2> SUFFICES ASSUME IInv, AbortJustified, [Next]_vars, status' = "abort"
               PROVE  (\/ Instr.op = "UNKNOWN"
                       \/ \E r \in Doc!RegisterOperands(Instr) : ~Doc!InFile(r))'
    BY DEF AbortJustified
  <2>1. UNCHANGED <<program, ip>>
    BY DEF Next, RETURN, REGADDR, ADD, LDC, LD, ST, MOV, CALL, FallThrough, BadRegister,
           Undefined, Halted, Checked, Running, Continue, Stop, vars
  <2>2. \/ Instr.op = "UNKNOWN"
        \/ \E r \in Doc!RegisterOperands(Instr) : ~regcheck(r)
    <3>1. CASE UNCHANGED vars
      BY <3>1, SameReading DEF AbortJustified, vars
    <3>2. CASE FallThrough
      BY <3>2, InstrPlain DEF FallThrough, Running
    <3>3. CASE BadRegister
      BY <3>3 DEF BadRegister, Running, Doc!RegisterOperands
    <3>4. CASE LDC
      BY <3>4 DEF LDC, Running, Continue, Doc!RegisterOperands
    <3>5. CASE RETURN \/ Undefined
      BY <3>5 DEF RETURN, Undefined, Stop
    <3>6. CASE REGADDR \/ ADD \/ LD \/ ST \/ MOV \/ CALL
      BY <3>6 DEF REGADDR, ADD, LD, ST, MOV, CALL, Checked, Running, Continue
    <3> QED
      BY <3>1, <3>2, <3>3, <3>4, <3>5, <3>6 DEF Next, Halted
  <2> QED
    BY <2>1, <2>2 DEF Instr, Doc!RegisterOperands, Doc!InFile, regcheck
<1> QED
  BY <1>1, <1>2, Invariance, PTL DEF Spec
=============================================================================
