---------------------------- MODULE MCDispatchVM ----------------------------
(***************************************************************************)
(* DispatchVM with two registers, at addresses 2 and 3 of eight, mapped    *)
(* cells below (0 and 1) and above (4) the register file, and address 5 to *)
(* 7 unmapped.  The programs are all the sequences of three instructions   *)
(* of a set followed by RETURN, and of two with the RETURN or without it.  *)
(***************************************************************************)
EXTENDS DispatchVM

I(op, x, y, z) == [op |-> op, x |-> x, y |-> y, z |-> z]

\* Operands in the file, one past its end, and -1.
CheckedOps ==
    {I("REGADDR", 0, 1, 0), I("REGADDR", 1, 0, 0), I("REGADDR", 0, 2, 0),
     I("ADD", 0, 1, 1), I("ADD", 1, 1, 0), I("ADD", 0, 2, 1),
     I("LDC", 7, 0, 0), I("LDC", 1, 1, 0), I("LDC", 0, 2, 0), I("LDC", 6, -1, 0),
     I("MOV", 0, 1, 0), I("MOV", 2, 0, 0),
     I("CALL", 0, 1, 1), I("CALL", 0, 1, 2),
     I("UNKNOWN", 0, 0, 0)}

GoodLoads == {I("LD", 0, 0, 1), I("LD", 1, 1, 0), I("LD", 0, -1, 0)}
GoodStores == {I("ST", 0, 0, 0), I("ST", 1, 1, 1)}
Stores == {I("ST", 0, 0, 1), I("ST", 1, 1, 0), I("ST", 1, 6, 0)}
Jumps == {I("JMP", 1, 0, 0), I("JMP", 2, 0, 0), I("JNZ", 0, 2, 0)}

Return == I("RETURN", 0, 0, 0)
Threes(S) == {<<i, j, k, Return>> : i, j, k \in S}
Twos(S) == {<<i, j, Return>> : i, j \in S} \cup {<<i, j>> : i, j \in S}

\* Programs that keep to what the code does as listed: no jumps, loads and stores with
\* registers in the file, and stores of the base register itself.
Listed == CheckedOps \cup GoodLoads \cup GoodStores
ListedPrograms == Threes(Listed) \cup Twos(Listed)
StorePrograms == Twos(Stores)
JumpPrograms == Twos(Jumps)

MCMemory == {0, 1, 4}
MCParams == {0, 1}
MCGarbage == {6}
=============================================================================
