---------------------------- MODULE NodeWorkers ----------------------------
(***************************************************************************)
(* The Node.js binding loaded in several environments of one process, as   *)
(* worker threads are: every environment has a stack of its own, but       *)
(* g_jmpbuf and calldepth (src/js/node/node-nccc/node-nccc.c:11) exist     *)
(* once, without a lock.  NodeBridge models one environment in full; this  *)
(* module keeps what touches the two shared variables.                     *)
(*                                                                         *)
(* A stack alternates between nccc_call_trampoline with its native code    *)
(* ("call") and nccc_cb_dispatcher with its callback ("cb"); an empty one  *)
(* is the environment's script.  Every access to a shared variable is a    *)
(* step of its own, so that another thread may come between.               *)
(***************************************************************************)
EXTENDS Integers, Sequences

CONSTANTS Envs,      \* the environments
          NoTarget,  \* g_jmpbuf has not been saved
          MaxStack   \* bound: frames of one environment

VARIABLES stack,      \* env -> its frames, outermost first
          pc,         \* env -> "run", or what it is about to do: "save" (setjmp), "load" and
                      \* "inc" (calldepth++), "dec" (calldepth--), "jump", "reset"; "lost"
          reg,        \* env -> the value of calldepth it has loaded
          calldepth,  \* shared
          g_jmpbuf,   \* shared: the environment and the frame that called setjmp
          jump        \* the last longjmp: who made it, and where it landed

vars == <<stack, pc, reg, calldepth, g_jmpbuf, jump>>

NoJump == [from |-> NoTarget, to |-> [env |-> NoTarget, frame |-> 0], live |-> TRUE]

Top(e) == IF stack[e] = <<>> THEN "script" ELSE stack[e][Len(stack[e])]
InJs(e) == pc[e] = "run" /\ Top(e) # "call"
InNative(e) == pc[e] = "run" /\ Top(e) = "call"
Room(e) == Len(stack[e]) < MaxStack
Pop(e) == SubSeq(stack[e], 1, Len(stack[e]) - 1)

Init == /\ stack = [e \in Envs |-> <<>>]
        /\ pc = [e \in Envs |-> "run"]
        /\ reg = [e \in Envs |-> 0]
        /\ calldepth = 0
        /\ g_jmpbuf = [env |-> NoTarget, frame |-> 0]
        /\ jump = NoJump

\* if(calldepth == 0)
Enter(e) == /\ InJs(e) /\ Room(e)
            /\ stack' = [stack EXCEPT ![e] = Append(@, "call")]
            /\ pc' = [pc EXCEPT ![e] = IF calldepth = 0 THEN "save" ELSE "load"]
            /\ UNCHANGED <<reg, calldepth, g_jmpbuf, jump>>

\* setjmp(g_jmpbuf)
Save(e) == /\ pc[e] = "save"
           /\ g_jmpbuf' = [env |-> e, frame |-> Len(stack[e])]
           /\ pc' = [pc EXCEPT ![e] = "load"]
           /\ UNCHANGED <<stack, reg, calldepth, jump>>

Load(e) == /\ pc[e] = "load"
           /\ reg' = [reg EXCEPT ![e] = calldepth]
           /\ pc' = [pc EXCEPT ![e] = "inc"]
           /\ UNCHANGED <<stack, calldepth, g_jmpbuf, jump>>

\* calldepth++, and native code runs.
Increment(e) == /\ pc[e] = "inc"
                /\ calldepth' = reg[e] + 1
                /\ pc' = [pc EXCEPT ![e] = "run"]
                /\ UNCHANGED <<stack, reg, g_jmpbuf, jump>>

\* Native code returns; calldepth--.
NativeReturn(e) == /\ InNative(e)
                   /\ reg' = [reg EXCEPT ![e] = calldepth]
                   /\ pc' = [pc EXCEPT ![e] = "dec"]
                   /\ UNCHANGED <<stack, calldepth, g_jmpbuf, jump>>

Decrement(e) == /\ pc[e] = "dec"
                /\ calldepth' = reg[e] - 1
                /\ stack' = [stack EXCEPT ![e] = Pop(e)]
                /\ pc' = [pc EXCEPT ![e] = "run"]
                /\ UNCHANGED <<reg, g_jmpbuf, jump>>

Dispatch(e) == /\ InNative(e) /\ Room(e)
               /\ stack' = [stack EXCEPT ![e] = Append(@, "cb")]
               /\ UNCHANGED <<pc, reg, calldepth, g_jmpbuf, jump>>

CbReturn(e) == /\ InJs(e) /\ stack[e] # <<>>
               /\ stack' = [stack EXCEPT ![e] = Pop(e)]
               /\ UNCHANGED <<pc, reg, calldepth, g_jmpbuf, jump>>

\* A callback throws: if(calldepth != 0)
Throw(e) == /\ InJs(e) /\ stack[e] # <<>> /\ calldepth # 0
            /\ pc' = [pc EXCEPT ![e] = "jump"]
            /\ UNCHANGED <<stack, reg, calldepth, g_jmpbuf, jump>>

\* longjmp(g_jmpbuf, 1).  What a thread does that has jumped into a frame of another one, or
\* into a frame that is gone, is undefined: the model stops it there.
Longjmp(e) ==
    LET to == g_jmpbuf
        live == to.env # NoTarget /\ to.frame <= Len(stack[to.env])
    IN /\ pc[e] = "jump"
       /\ jump' = [from |-> e, to |-> to, live |-> live]
       /\ IF to.env = e /\ live
            THEN /\ stack' = [stack EXCEPT ![e] = SubSeq(@, 1, to.frame)]
                 /\ pc' = [pc EXCEPT ![e] = "reset"]
            ELSE /\ pc' = [pc EXCEPT ![e] = "lost"]
                 /\ UNCHANGED stack
       /\ UNCHANGED <<reg, calldepth, g_jmpbuf>>

\* The trampoline sets calldepth to 0 and returns.
Reset(e) == /\ pc[e] = "reset"
            /\ calldepth' = 0
            /\ stack' = [stack EXCEPT ![e] = Pop(e)]
            /\ pc' = [pc EXCEPT ![e] = "run"]
            /\ UNCHANGED <<reg, g_jmpbuf, jump>>

\* With calldepth = 0 it rethrows the exception and returns to native code.
Rethrow(e) == /\ InJs(e) /\ stack[e] # <<>> /\ calldepth = 0
              /\ stack' = [stack EXCEPT ![e] = Pop(e)]
              /\ UNCHANGED <<pc, reg, calldepth, g_jmpbuf, jump>>

Next == \E e \in Envs : \/ Enter(e) \/ Save(e) \/ Load(e) \/ Increment(e)
                        \/ NativeReturn(e) \/ Decrement(e) \/ Dispatch(e) \/ CbReturn(e)
                        \/ Throw(e) \/ Longjmp(e) \/ Reset(e) \/ Rethrow(e)

Spec == Init /\ [][Next]_vars

-----------------------------------------------------------------------------
\* "Root call into native code, save buffer" and "Return back to depth == 0": an exception
\* returns to the outermost trampoline of the environment that threw it.
ReturnsToOwnRoot == jump # NoJump => /\ jump.to.env = jump.from
                                     /\ jump.to.frame = 1 /\ jump.live
=============================================================================
