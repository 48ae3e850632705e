------------------------ MODULE NodeWorkers_proofs ------------------------
(* What the two shared variables promise is kept as long as the binding is *)
(* loaded in one environment, however deep its calls are nested.           *)
EXTENDS NodeWorkers, SequenceTheorems, TLAPS

\* Calls and callbacks alternate, so the number of frames and calldepth determine each other,
\* but for the steps that are about to store the new depth; the buffer is that of the first
\* frame from the time it has called setjmp.
Alternates(s) == \A i \in 1..Len(s) : s[i] = IF i % 2 = 1 THEN "call" ELSE "cb"
DepthInv(n, at, loaded) ==
    \/ at = "run" /\ (n = 2 * calldepth \/ n = 2 * calldepth - 1)
    \/ at = "save" /\ n = 1 /\ calldepth = 0
    \/ at = "load" /\ n = 2 * calldepth + 1
    \/ at = "inc" /\ n = 2 * calldepth + 1 /\ loaded = calldepth
    \/ at = "dec" /\ n = 2 * calldepth - 1 /\ loaded = calldepth
    \/ at = "jump" /\ n = 2 * calldepth /\ n > 0
    \/ at = "reset" /\ n = 1
Steps == {"run", "save", "load", "inc", "dec", "jump", "reset"}
AloneInv(e) ==
    /\ stack \in [{e} -> Seq({"call", "cb"})]
    /\ pc \in [{e} -> Steps] /\ reg \in [{e} -> Nat] /\ calldepth \in Nat
    /\ Alternates(stack[e])
    /\ DepthInv(Len(stack[e]), pc[e], reg[e])
    /\ Len(stack[e]) > 0 /\ pc[e] # "save" => g_jmpbuf = [env |-> e, frame |-> 1]
    /\ jump # NoJump => jump = [from |-> e, to |-> [env |-> e, frame |-> 1], live |-> TRUE]

-----------------------------------------------------------------------------
\* The top of an alternating stack says whether its length is odd.
LEMMA TopOfAlternating ==
    ASSUME NEW s \in Seq({"call", "cb"}), Alternates(s)
    PROVE  /\ Len(s) \in Nat
           /\ s # <<>> => Len(s) > 0
           /\ Len(s) > 0 => s # <<>> /\ s[Len(s)] = IF Len(s) % 2 = 1 THEN "call" ELSE "cb"
<1>1. Len(s) \in Nat /\ (s # <<>> => Len(s) > 0) /\ (Len(s) > 0 => s # <<>>)
  BY EmptySeq
<1>2. Len(s) > 0 => Len(s) \in 1..Len(s)
  BY <1>1
<1> QED
  BY <1>1, <1>2 DEF Alternates

\* One more frame, of the other kind.
LEMMA PushAlternates ==
    ASSUME NEW s \in Seq({"call", "cb"}), Alternates(s), NEW f \in {"call", "cb"},
           f = IF (Len(s) + 1) % 2 = 1 THEN "call" ELSE "cb"
    PROVE  /\ Append(s, f) \in Seq({"call", "cb"}) /\ Len(Append(s, f)) = Len(s) + 1
           /\ Alternates(Append(s, f))
<1>1. /\ Append(s, f) \in Seq({"call", "cb"}) /\ Len(Append(s, f)) = Len(s) + 1
      /\ \A i \in 1..Len(s) : Append(s, f)[i] = s[i]
      /\ Append(s, f)[Len(s) + 1] = f
  BY AppendProperties
<1>2. Len(s) \in Nat
  OBVIOUS
<1>3. ASSUME NEW i \in 1..(Len(s) + 1)
      PROVE  Append(s, f)[i] = IF i % 2 = 1 THEN "call" ELSE "cb"
  <2>1. CASE i = Len(s) + 1
    BY <1>1, <2>1
  <2>2. CASE i # Len(s) + 1
    <3>1. i \in 1..Len(s)
      BY <1>2, <2>2
    <3> QED
      BY <1>1, <3>1 DEF Alternates
  <2> QED
    BY <2>1, <2>2
<1> QED
  BY <1>1, <1>3 DEF Alternates

\* A shorter stack alternates too.
LEMMA PrefixAlternates ==
    ASSUME NEW s \in Seq({"call", "cb"}), Alternates(s), NEW n \in 0..Len(s)
    PROVE  /\ SubSeq(s, 1, n) \in Seq({"call", "cb"}) /\ Len(SubSeq(s, 1, n)) = n
           /\ Alternates(SubSeq(s, 1, n))
<1>1. /\ SubSeq(s, 1, n) \in Seq({"call", "cb"}) /\ Len(SubSeq(s, 1, n)) = n
      /\ \A i \in 1..n : SubSeq(s, 1, n)[i] = s[i]
  BY LenProperties
<1>2. \A i \in 1..n : i \in 1..Len(s)
  BY LenProperties
<1> QED
  BY <1>1, <1>2 DEF Alternates

-----------------------------------------------------------------------------
\* One environment begins with an empty stack.
LEMMA AloneInit ==
    ASSUME NEW e, Envs = {e}, Init
    PROVE  AloneInv(e)
<1> USE DEF Init
<1>1. stack = [x \in {e} |-> <<>>] /\ stack[e] = <<>> /\ Len(stack[e]) = 0
  OBVIOUS
<1>2. stack \in [{e} -> Seq({"call", "cb"})] /\ Alternates(stack[e])
  BY <1>1 DEF Alternates
<1>3. pc = [x \in {e} |-> "run"] /\ reg = [x \in {e} |-> 0] /\ calldepth = 0 /\ jump = NoJump
  OBVIOUS
<1> QED
  BY <1>1, <1>2, <1>3 DEF AloneInv, DepthInv, Steps

\* The steps of one environment keep depth, frames and buffer in agreement.
LEMMA AloneStep ==
    ASSUME NEW e, Envs = {e}, e # NoTarget, AloneInv(e), [Next]_vars
    PROVE  AloneInv(e)'
<1> DEFINE s == stack[e]
           n == Len(stack[e])
<1>1. /\ stack \in [{e} -> Seq({"call", "cb"})] /\ pc \in [{e} -> Steps]
      /\ reg \in [{e} -> Nat] /\ calldepth \in Nat
      /\ s \in Seq({"call", "cb"}) /\ Alternates(s) /\ DepthInv(n, pc[e], reg[e])
      /\ n > 0 /\ pc[e] # "save" => g_jmpbuf = [env |-> e, frame |-> 1]
      /\ jump # NoJump => jump = [from |-> e, to |-> [env |-> e, frame |-> 1], live |-> TRUE]
  BY DEF AloneInv
<1> USE DEF Steps
<1>2. /\ n \in Nat /\ (s # <<>> => n > 0)
      /\ n > 0 => s # <<>> /\ s[n] = IF n % 2 = 1 THEN "call" ELSE "cb"
  BY <1>1, TopOfAlternating
<1> HIDE DEF s, n
<1>3. pc[e] = "run" /\ Top(e) # "call" => n = 2 * calldepth
  BY <1>1, <1>2 DEF Top, s, n, DepthInv
<1>4. pc[e] = "run" /\ Top(e) = "call" => n = 2 * calldepth - 1 /\ n > 0
  BY <1>1, <1>2 DEF Top, s, n, DepthInv
<1>5. CASE UNCHANGED vars
  BY <1>5 DEF vars, AloneInv, DepthInv, NoJump
<1>6. CASE Enter(e)
  <2>1. /\ n = 2 * calldepth /\ stack' = [stack EXCEPT ![e] = Append(s, "call")]
        /\ pc' = [pc EXCEPT ![e] = IF calldepth = 0 THEN "save" ELSE "load"]
        /\ UNCHANGED <<reg, calldepth, g_jmpbuf, jump>>
    BY <1>3, <1>6 DEF Enter, InJs, s
  <2>2. (n + 1) % 2 = 1
    BY <1>1, <2>1
  <2>3. /\ Append(s, "call") \in Seq({"call", "cb"}) /\ Len(Append(s, "call")) = n + 1
        /\ Alternates(Append(s, "call"))
    BY <1>1, <2>2, PushAlternates DEF n, s
  <2>4. stack'[e] = Append(s, "call") /\ stack' \in [{e} -> Seq({"call", "cb"})]
    BY <1>1, <2>1, <2>3
  <2>5. pc'[e] # "save" => calldepth # 0 /\ n > 0 /\ pc[e] # "save"
    BY <1>1, <1>6, <2>1 DEF Enter, InJs
  <2>6. pc'[e] = (IF calldepth = 0 THEN "save" ELSE "load") /\ pc' \in [{e} -> Steps]
    BY <1>1, <2>1
  <2>7. DepthInv(Len(stack[e]), pc[e], reg[e])'
    BY <1>1, <2>1, <2>3, <2>4, <2>6 DEF DepthInv
  <2> QED
    BY <1>1, <2>1, <2>3, <2>4, <2>5, <2>6, <2>7 DEF AloneInv, NoJump
<1>14. CASE Save(e)
  <2>1. /\ pc[e] = "save" /\ g_jmpbuf' = [env |-> e, frame |-> n]
        /\ pc' = [pc EXCEPT ![e] = "load"] /\ UNCHANGED <<stack, reg, calldepth, jump>>
    BY <1>14 DEF Save, n
  <2>2. n = 1 /\ calldepth = 0
    BY <1>1, <2>1 DEF DepthInv
  <2>3. pc'[e] = "load" /\ pc' \in [{e} -> Steps]
    BY <1>1, <2>1
  <2>4. DepthInv(Len(stack[e]), pc[e], reg[e])'
    BY <2>1, <2>2, <2>3 DEF DepthInv, n
  <2> QED
    BY <1>1, <2>1, <2>2, <2>3, <2>4 DEF AloneInv, NoJump, s, n
<1>15. CASE Load(e)
  <2>1. /\ pc[e] = "load" /\ reg' = [reg EXCEPT ![e] = calldepth]
        /\ pc' = [pc EXCEPT ![e] = "inc"] /\ UNCHANGED <<stack, calldepth, g_jmpbuf, jump>>
    BY <1>15 DEF Load
  <2>2. n = 2 * calldepth + 1
    BY <1>1, <2>1 DEF DepthInv
  <2>3. /\ pc'[e] = "inc" /\ pc' \in [{e} -> Steps]
        /\ reg'[e] = calldepth /\ reg' \in [{e} -> Nat]
    BY <1>1, <2>1
  <2>4. DepthInv(Len(stack[e]), pc[e], reg[e])'
    BY <2>1, <2>2, <2>3 DEF DepthInv, n
  <2> QED
    BY <1>1, <2>1, <2>3, <2>4 DEF AloneInv, NoJump, s, n
<1>7. CASE Increment(e)
  <2>1. /\ pc[e] = "inc" /\ calldepth' = reg[e] + 1 /\ pc' = [pc EXCEPT ![e] = "run"]
        /\ UNCHANGED <<stack, reg, g_jmpbuf, jump>>
    BY <1>7 DEF Increment
  <2>2. n = 2 * calldepth + 1 /\ reg[e] = calldepth
    BY <1>1, <2>1 DEF DepthInv
  <2>3. calldepth' = calldepth + 1 /\ pc'[e] = "run" /\ calldepth' \in Nat
    BY <1>1, <2>1, <2>2
  <2>4. pc' \in [{e} -> Steps]
    BY <1>1, <2>1
  <2>5. n = 2 * calldepth' - 1
    BY <1>1, <2>2, <2>3
  <2>6. DepthInv(Len(stack[e]), pc[e], reg[e])'
    BY <2>1, <2>3, <2>5 DEF DepthInv, n
  <2> QED
    BY <1>1, <2>1, <2>3, <2>4, <2>6 DEF AloneInv, NoJump, s, n
<1>8. CASE NativeReturn(e)
  <2>1. /\ pc[e] = "run" /\ n = 2 * calldepth - 1
        /\ reg' = [reg EXCEPT ![e] = calldepth] /\ pc' = [pc EXCEPT ![e] = "dec"]
        /\ UNCHANGED <<stack, calldepth, g_jmpbuf, jump>>
    BY <1>4, <1>8 DEF NativeReturn, InNative
  <2>2. pc'[e] = "dec" /\ reg'[e] = calldepth
    BY <1>1, <2>1
  <2>3. pc' \in [{e} -> Steps] /\ reg' \in [{e} -> Nat]
    BY <1>1, <2>1
  <2>4. DepthInv(Len(stack[e]), pc[e], reg[e])'
    BY <2>1, <2>2 DEF DepthInv, n
  <2> QED
    BY <1>1, <2>1, <2>3, <2>4 DEF AloneInv, NoJump, s, n
<1> DEFINE short == SubSeq(s, 1, n - 1)
<1>9. n > 0 => /\ short \in Seq({"call", "cb"}) /\ Len(short) = n - 1 /\ Alternates(short)
  <2>1. n > 0 => n - 1 \in 0..Len(s)
    BY <1>2 DEF n, s
  <2> QED
    BY <1>1, <2>1, PrefixAlternates
<1> HIDE DEF short
<1>10. CASE Decrement(e)
  <2>1. /\ pc[e] = "dec" /\ calldepth' = reg[e] - 1 /\ stack' = [stack EXCEPT ![e] = short]
        /\ pc' = [pc EXCEPT ![e] = "run"] /\ UNCHANGED <<reg, g_jmpbuf, jump>>
    BY <1>10 DEF Decrement, Pop, short, s, n
  <2>2. n = 2 * calldepth - 1 /\ reg[e] = calldepth /\ n > 0 /\ calldepth > 0
    BY <1>1, <1>2, <2>1 DEF DepthInv
  <2>3. stack'[e] = short /\ stack' \in [{e} -> Seq({"call", "cb"})]
    BY <1>1, <1>9, <2>1, <2>2
  <2>4. pc'[e] = "run" /\ pc' \in [{e} -> Steps]
    BY <1>1, <2>1
  <2>5. calldepth' \in Nat /\ n - 1 = 2 * calldepth'
    BY <1>1, <2>1, <2>2
  <2>6. DepthInv(Len(stack[e]), pc[e], reg[e])'
    BY <1>9, <2>2, <2>3, <2>4, <2>5 DEF DepthInv
  <2> QED
    BY <1>1, <1>9, <2>1, <2>2, <2>3, <2>4, <2>5, <2>6 DEF AloneInv, NoJump
<1>11. CASE Dispatch(e)
  <2>1. /\ pc[e] = "run" /\ n = 2 * calldepth - 1 /\ n > 0
        /\ stack' = [stack EXCEPT ![e] = Append(s, "cb")]
        /\ UNCHANGED <<pc, reg, calldepth, g_jmpbuf, jump>>
    BY <1>4, <1>11 DEF Dispatch, InNative, s
  <2>2. (n + 1) % 2 # 1
    BY <1>1, <2>1
  <2>3. /\ Append(s, "cb") \in Seq({"call", "cb"}) /\ Len(Append(s, "cb")) = n + 1
        /\ Alternates(Append(s, "cb"))
    BY <1>1, <2>2, PushAlternates DEF n, s
  <2>4. stack'[e] = Append(s, "cb") /\ stack' \in [{e} -> Seq({"call", "cb"})]
    BY <1>1, <2>1, <2>3
  <2>5. DepthInv(Len(stack[e]), pc[e], reg[e])'
    BY <1>1, <2>1, <2>3, <2>4 DEF DepthInv
  <2> QED
    BY <1>1, <2>1, <2>3, <2>4, <2>5 DEF AloneInv, NoJump
<1>12. CASE CbReturn(e) \/ Rethrow(e)
  <2>1. /\ pc[e] = "run" /\ n = 2 * calldepth /\ n > 0
        /\ stack' = [stack EXCEPT ![e] = short]
        /\ UNCHANGED <<pc, reg, calldepth, g_jmpbuf, jump>>
    BY <1>2, <1>3, <1>12 DEF CbReturn, Rethrow, InJs, Pop, short, s, n
  <2>2. stack'[e] = short /\ stack' \in [{e} -> Seq({"call", "cb"})]
    BY <1>1, <1>9, <2>1
  <2>3. DepthInv(Len(stack[e]), pc[e], reg[e])'
    BY <1>1, <1>9, <2>1, <2>2 DEF DepthInv
  <2> QED
    BY <1>1, <1>9, <2>1, <2>2, <2>3 DEF AloneInv, NoJump
<1>13. CASE Throw(e)
  <2>1. /\ pc[e] = "run" /\ n > 0 /\ n = 2 * calldepth
        /\ pc' = [pc EXCEPT ![e] = "jump"]
        /\ UNCHANGED <<stack, reg, calldepth, g_jmpbuf, jump>>
    BY <1>2, <1>3, <1>13 DEF Throw, InJs, s
  <2>2. pc'[e] = "jump" /\ pc' \in [{e} -> Steps]
    BY <1>1, <2>1
  <2>3. DepthInv(Len(stack[e]), pc[e], reg[e])'
    BY <2>1, <2>2 DEF DepthInv, n
  <2> QED
    BY <1>1, <2>1, <2>2, <2>3 DEF AloneInv, NoJump, s, n
<1>16. CASE Longjmp(e)
  <2>1. pc[e] = "jump" /\ n > 0 /\ g_jmpbuf = [env |-> e, frame |-> 1]
    BY <1>1, <1>16 DEF Longjmp, DepthInv
  <2>2. g_jmpbuf.env = e /\ g_jmpbuf.frame = 1 /\ 1 <= n
    BY <1>2, <2>1
  <2>3. /\ stack' = [stack EXCEPT ![e] = SubSeq(s, 1, 1)] /\ pc' = [pc EXCEPT ![e] = "reset"]
        /\ jump' = [from |-> e, to |-> [env |-> e, frame |-> 1], live |-> TRUE]
        /\ UNCHANGED <<reg, calldepth, g_jmpbuf>>
    <3> DEFINE live == g_jmpbuf.env # NoTarget /\ g_jmpbuf.frame <= Len(stack[g_jmpbuf.env])
    <3>1. live = TRUE
      BY <2>2 DEF n
    <3>2. /\ jump' = [from |-> e, to |-> g_jmpbuf, live |-> live]
          /\ IF g_jmpbuf.env = e /\ live
               THEN /\ stack' = [stack EXCEPT ![e] = SubSeq(@, 1, g_jmpbuf.frame)]
                    /\ pc' = [pc EXCEPT ![e] = "reset"]
               ELSE /\ pc' = [pc EXCEPT ![e] = "lost"]
                    /\ UNCHANGED stack
          /\ UNCHANGED <<reg, calldepth, g_jmpbuf>>
      BY <1>16 DEF Longjmp
    <3> HIDE DEF live
    <3> QED
      BY <2>1, <2>2, <3>1, <3>2 DEF s
  <2> DEFINE root == SubSeq(s, 1, 1)
  <2>4. root \in Seq({"call", "cb"}) /\ Len(root) = 1 /\ Alternates(root)
    <3>1. 1 \in 0..Len(s)
      BY <1>2, <2>1 DEF n, s
    <3> QED
      BY <1>1, <3>1, PrefixAlternates
  <2> HIDE DEF root
  <2>5. stack'[e] = root /\ stack' \in [{e} -> Seq({"call", "cb"})]
    BY <1>1, <2>3, <2>4 DEF root
  <2>6. pc'[e] = "reset" /\ pc' \in [{e} -> Steps]
    BY <1>1, <2>3
  <2>7. DepthInv(Len(stack[e]), pc[e], reg[e])'
    BY <2>4, <2>5, <2>6 DEF DepthInv
  <2>8. Alternates(stack[e])' /\ Len(stack'[e]) = 1
    BY <2>4, <2>5 DEF Alternates
  <2> HIDE DEF n
  <2> QED
    BY <1>1, <2>1, <2>3, <2>5, <2>6, <2>7, <2>8 DEF AloneInv
<1>17. CASE Reset(e)
  <2>1. /\ pc[e] = "reset" /\ calldepth' = 0 /\ stack' = [stack EXCEPT ![e] = short]
        /\ pc' = [pc EXCEPT ![e] = "run"] /\ UNCHANGED <<reg, g_jmpbuf, jump>>
    BY <1>17 DEF Reset, Pop, short, s, n
  <2>2. n = 1
    BY <1>1, <2>1 DEF DepthInv
  <2>3. stack'[e] = short /\ stack' \in [{e} -> Seq({"call", "cb"})]
    BY <1>1, <1>9, <2>1, <2>2
  <2>4. pc'[e] = "run" /\ pc' \in [{e} -> Steps]
    BY <1>1, <2>1
  <2>5. Len(short) = 0
    BY <1>9, <2>2
  <2>6. DepthInv(Len(stack[e]), pc[e], reg[e])'
    BY <2>1, <2>3, <2>4, <2>5 DEF DepthInv
  <2> QED
    BY <1>1, <1>9, <2>1, <2>2, <2>3, <2>4, <2>5, <2>6 DEF AloneInv, NoJump
<1> QED
  BY <1>5, <1>6, <1>7, <1>8, <1>10, <1>11, <1>12, <1>13, <1>14, <1>15,
     <1>16, <1>17 DEF Next

\* With one environment an exception always returns to its own outermost trampoline.
THEOREM AloneReturnsToOwnRoot ==
    ASSUME NEW e, Envs = {e}, e # NoTarget
    PROVE  Spec => []ReturnsToOwnRoot
<1>1. Init => AloneInv(e)
  BY AloneInit
<1>2. AloneInv(e) /\ [Next]_vars => AloneInv(e)'
  BY AloneStep
<1>3. AloneInv(e) => ReturnsToOwnRoot
  BY DEF AloneInv, ReturnsToOwnRoot
<1> QED
  BY <1>1, <1>2, <1>3, PTL DEF Spec
=============================================================================
