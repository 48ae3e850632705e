-------------------------- MODULE EventLoop_proofs --------------------------
(***************************************************************************)
(* Proofs about EventLoop: types, posting order and how often a timer      *)
(* fires, for every set of timers.                                         *)
(*                                                                         *)
(* The inductive invariant says that no timer is queued twice, nor queued  *)
(* while it runs; that what was posted before a waiting timer stands in    *)
(* front of it; and that the kind of a timer's entry tells how it was made *)
(* and how often it has fired.                                             *)
(***************************************************************************)
EXTENDS EventLoop, SequenceTheorems, TLAPS

EntryType == [timer : Timers, kind : {"once", "wrapper", "func"}]

\* No timer has two entries.
QueuedOnce == \A i, j \in 1..Len(queue) : queue[i].timer = queue[j].timer => i = j

\* The entry that runs is not in the queue any more.
RunningApart == /\ running.timer = None => running = Idle
                /\ running.timer \notin Waiting

\* Whoever was posted before a waiting timer and waits still stands in front of it.
InFront == \A i \in 1..Len(queue) :
              before[queue[i].timer] \subseteq {queue[j].timer : j \in 1..(i - 1)}

UseOf(e) == IF e.kind = "once" THEN "timeout" ELSE "interval"
CallsBefore(e) == IF e.kind = "func" THEN 1 ELSE 0

\* How a timer was made, and how often its function has been called.
Counted == /\ \A i \in 1..Len(queue) : /\ use[queue[i].timer] = UseOf(queue[i])
                                       /\ fired[queue[i].timer] = CallsBefore(queue[i])
           /\ running # Idle => /\ use[running.timer] = UseOf(running)
                                /\ fired[running.timer] = CallsBefore(running) + 1

\* fired is a history variable that TypeOK leaves out.
HistoryType == fired \in [Timers -> Nat]

IInv == TypeOK /\ HistoryType /\ QueuedOnce /\ RunningApart /\ InFront /\ Counted

-----------------------------------------------------------------------------
\* An entry at the end of the queue.
LEMMA Appended ==
  ASSUME NEW q \in Seq(EntryType), NEW e \in EntryType
  PROVE  LET r == Append(q, e) IN
         /\ r \in Seq(EntryType) /\ Len(r) = Len(q) + 1 /\ Len(q) \in Nat
         /\ \A i \in 1..Len(q) : r[i] = q[i]
         /\ r[Len(q) + 1] = e
BY AppendProperties, LenProperties

\* The timers that wait, by position.
LEMMA WaitingAt ==
  ASSUME queue \in Seq(EntryType)
  PROVE  /\ Waiting = {queue[i].timer : i \in 1..Len(queue)}
         /\ Len(queue) \in Nat /\ DOMAIN queue = 1..Len(queue)
         /\ \A i \in 1..Len(queue) : queue[i] \in EntryType
BY LenProperties, ElementOfSeq DEF Waiting

\* At the start nothing waits.
THEOREM InitIInv == Init => IInv
<1> SUFFICES ASSUME Init PROVE IInv
  OBVIOUS
<1>1. queue = <<>> /\ queue \in Seq(EntryType) /\ Len(queue) = 0
  BY EmptySeq DEF Init
<1>2. Waiting = {}
  BY <1>1, WaitingAt
<1>3. running = Idle /\ running.timer = None /\ running.kind = "once"
  BY DEF Init, Idle, Entry
<1>4. running \in [timer : Timers \cup {None}, kind : {"once", "wrapper", "func"}]
  BY <1>3 DEF Idle, Entry
<1>5. TypeOK
  BY <1>1, <1>2, <1>3, <1>4, LoopAssumption DEF Init, TypeOK, EntryType
<1> QED
  BY <1>1, <1>2, <1>3, <1>5
     DEF Init, IInv, HistoryType, QueuedOnce, RunningApart, InFront, Counted

\* A timer that does not wait is queued: it stands behind all that wait.
LEMMA Joined ==
  ASSUME IInv, NEW t \in Timers, t \notin Waiting, NEW e \in EntryType, e.timer = t,
         queue' = Append(queue, e), before' = [before EXCEPT ![t] = Waiting]
  PROVE  /\ queue' \in Seq(EntryType) /\ Len(queue') = Len(queue) + 1 /\ Len(queue) \in Nat
         /\ \A i \in 1..Len(queue) : /\ queue'[i] = queue[i] /\ queue[i] \in EntryType
                                     /\ queue[i].timer # t
         /\ queue'[Len(queue) + 1] = e
         /\ Waiting' = Waiting \cup {t}
         /\ before' \in [Timers -> SUBSET Timers]
         /\ QueuedOnce' /\ InFront'
<1>1. /\ queue \in Seq(EntryType) /\ Len(queue) \in Nat
      /\ Waiting = {queue[i].timer : i \in 1..Len(queue)}
      /\ \A i \in 1..Len(queue) : queue[i] \in EntryType
  BY WaitingAt DEF IInv, TypeOK, EntryType
<1>2. /\ queue' \in Seq(EntryType) /\ Len(queue') = Len(queue) + 1
      /\ \A i \in 1..Len(queue) : queue'[i] = queue[i]
      /\ queue'[Len(queue) + 1] = e
  BY <1>1, Appended
<1>3. \A i \in 1..Len(queue) : queue[i].timer # t /\ queue[i].timer \in Timers
  BY <1>1 DEF EntryType
<1>4. Waiting' = Waiting \cup {t}
  <2>1. Waiting' = {queue'[i].timer : i \in 1..Len(queue')}
    BY <1>2, LenProperties DEF Waiting
  <2> QED
    BY <1>1, <1>2, <2>1
<1>5. before' \in [Timers -> SUBSET Timers]
  <2>1. Waiting \subseteq Timers
    BY <1>1 DEF EntryType
  <2> QED
    BY <2>1 DEF IInv, TypeOK
<1>6. QueuedOnce'
  BY <1>1, <1>2, <1>3 DEF IInv, QueuedOnce
<1>7. InFront'
  <2> SUFFICES ASSUME NEW i \in 1..Len(queue')
               PROVE  before'[queue'[i].timer] \subseteq {queue'[j].timer : j \in 1..(i - 1)}
    BY DEF InFront
  <2>1. CASE i \in 1..Len(queue)
    <3>1. before'[queue[i].timer] = before[queue[i].timer]
      BY <1>3, <2>1 DEF IInv, TypeOK
    <3>2. before[queue[i].timer] \subseteq {queue[j].timer : j \in 1..(i - 1)}
      BY <2>1 DEF IInv, InFront
    <3>3. {queue[j].timer : j \in 1..(i - 1)} = {queue'[j].timer : j \in 1..(i - 1)}
      BY <1>1, <1>2, <2>1
    <3> QED
      BY <1>2, <2>1, <3>1, <3>2, <3>3
  <2>2. CASE i = Len(queue) + 1
    <3>1. before'[t] = Waiting
      BY DEF IInv, TypeOK
    <3>2. i - 1 = Len(queue) /\ queue'[i] = e
      BY <1>1, <1>2, <2>2
    <3>3. ASSUME NEW s \in Waiting
          PROVE  s \in {queue'[j].timer : j \in 1..(i - 1)}
      <4>1. PICK j \in 1..Len(queue) : s = queue[j].timer
        BY <1>1
      <4>2. j \in 1..(i - 1) /\ queue'[j] = queue[j]
        BY <1>2, <3>2, <4>1
      <4> QED
        BY <4>1, <4>2
    <3> QED
      BY <3>1, <3>2, <3>3
  <2>3. Len(queue) \in Nat /\ Len(queue') = Len(queue) + 1
    BY <1>1, <1>2
  <2>4. i \in 1..Len(queue) \/ i = Len(queue) + 1
    BY <2>3
  <2> QED
    BY <2>1, <2>2, <2>4
<1> QED
  BY <1>1, <1>2, <1>3, <1>4, <1>5, <1>6, <1>7

\* setTimeout and setInterval queue a timer that is free.
LEMMA PostStep ==
  ASSUME IInv, NEW t \in Timers, setTimeout(t) \/ setInterval(t)
  PROVE  IInv'
<1>1. PICK e \in EntryType :
         /\ e.timer = t /\ e.kind # "func"
         /\ use[t] = "free" /\ use' = [use EXCEPT ![t] = UseOf(e)]
         /\ queue' = Append(queue, e)
         /\ fired' = [fired EXCEPT ![t] = 0]
         /\ before' = [before EXCEPT ![t] = Waiting]
         /\ UNCHANGED <<running, phase>>
  <2>1. CASE setTimeout(t)
    <3>1. Entry(t, "once") \in EntryType /\ Entry(t, "once").timer = t
          /\ Entry(t, "once").kind = "once"
      BY DEF Entry, EntryType
    <3> QED
      BY <2>1, <3>1 DEF setTimeout, Post, Push, UseOf
  <2>2. CASE setInterval(t)
    <3>1. Entry(t, "wrapper") \in EntryType /\ Entry(t, "wrapper").timer = t
          /\ Entry(t, "wrapper").kind = "wrapper"
      BY DEF Entry, EntryType
    <3> QED
      BY <2>2, <3>1 DEF setInterval, Post, Push, UseOf
  <2> QED
    BY <2>1, <2>2
<1>2. t \notin Waiting /\ t # running.timer
  BY <1>1 DEF IInv, TypeOK
<1>3. /\ queue' \in Seq(EntryType) /\ Len(queue') = Len(queue) + 1 /\ Len(queue) \in Nat
      /\ \A i \in 1..Len(queue) : /\ queue'[i] = queue[i] /\ queue[i] \in EntryType
                                  /\ queue[i].timer # t
      /\ queue'[Len(queue) + 1] = e
      /\ Waiting' = Waiting \cup {t}
      /\ before' \in [Timers -> SUBSET Timers]
      /\ QueuedOnce' /\ InFront'
  BY <1>1, <1>2, Joined
<1>4. \A s \in Timers : /\ use'[s] = IF s = t THEN UseOf(e) ELSE use[s]
                        /\ fired'[s] = IF s = t THEN 0 ELSE fired[s]
  BY <1>1 DEF IInv, TypeOK, HistoryType
<1>5. TypeOK'
  <2>1. UseOf(e) \in {"timeout", "interval"}
    BY DEF UseOf
  <2>2. use' \in [Timers -> {"free", "timeout", "interval"}]
    BY <1>1, <2>1 DEF IInv, TypeOK
  <2>3. \A s \in Timers : use'[s] # "free" <=> s \in Waiting' \cup {running'.timer}
    <3>1. \A s \in Timers : use[s] # "free" <=> s \in Waiting \cup {running.timer}
      BY DEF IInv, TypeOK
    <3> QED
      BY <1>1, <1>3, <1>4, <2>1, <3>1
  <2> QED
    BY <1>1, <1>3, <2>2, <2>3 DEF IInv, TypeOK, EntryType
<1>6. HistoryType'
  BY <1>1 DEF IInv, HistoryType
<1>7. RunningApart'
  BY <1>1, <1>2, <1>3 DEF IInv, RunningApart, Idle, Entry
<1>8. Counted'
  <2>1. ASSUME NEW i \in 1..Len(queue')
        PROVE  /\ use'[queue'[i].timer] = UseOf(queue'[i])
               /\ fired'[queue'[i].timer] = CallsBefore(queue'[i])
    <3>1. CASE i \in 1..Len(queue)
      BY <1>3, <1>4, <3>1 DEF IInv, Counted, EntryType
    <3>2. CASE i = Len(queue) + 1
      BY <1>1, <1>3, <1>4, <3>2 DEF CallsBefore
    <3> QED
      BY <1>3, <3>1, <3>2
  <2>2. running # Idle => running.timer \in Timers
    BY DEF IInv, TypeOK, RunningApart
  <2> QED
    BY <1>1, <1>2, <1>4, <2>1, <2>2 DEF IInv, Counted, Idle, Entry
<1> QED
  BY <1>3, <1>5, <1>6, <1>7, <1>8 DEF IInv

\* The loop takes the entry at the front.
LEMMA ShiftStep ==
  ASSUME IInv, Shift
  PROVE  IInv'
<1> DEFINE e == queue[1]
           t == queue[1].timer
           n == Len(queue)
<1>1. /\ phase = "loop" /\ running = Idle /\ queue # <<>>
      /\ running' = e
      /\ queue' = [i \in 1..(n - 1) |-> IF i < 1 THEN queue[i] ELSE queue[i + 1]]
      /\ fired' = [fired EXCEPT ![t] = @ + 1]
      /\ before' = [s \in Timers |-> before[s] \ {t}]
      /\ UNCHANGED <<phase, use>>
  BY DEF Shift, LoopGoesOn, Shifted
<1>2. /\ queue \in Seq(EntryType) /\ n \in Nat \ {0}
      /\ Waiting = {queue[i].timer : i \in 1..n}
      /\ \A i \in 1..n : queue[i] \in EntryType
  BY <1>1, WaitingAt, EmptySeq DEF IInv, TypeOK, EntryType
<1>3. e \in EntryType /\ t \in Timers
  BY <1>2 DEF EntryType
<1>4. queue' \in Seq(EntryType) /\ Len(queue') = n - 1
      /\ \A i \in 1..(n - 1) : queue'[i] = queue[i + 1]
  <2>1. n - 1 \in Nat
    BY <1>2
  <2>2. \A i \in 1..(n - 1) : ~(i < 1) /\ i + 1 \in 1..n
    BY <1>2
  <2>3. queue' = [i \in 1..(n - 1) |-> queue[i + 1]]
    BY <1>1, <2>2
  <2>4. queue' \in [1..(n - 1) -> EntryType]
    BY <1>2, <2>2, <2>3
  <2>5. queue' \in Seq(EntryType)
    BY <2>1, <2>4, SeqDef
  <2>6. DOMAIN queue' = 1..Len(queue') /\ Len(queue') \in Nat /\ DOMAIN queue' = 1..(n - 1)
    BY <2>4, <2>5, LenProperties
  <2>7. Len(queue') = n - 1
    BY <2>1, <2>6
  <2> QED
    BY <2>3, <2>5, <2>7
<1>5. \A i \in 1..(n - 1) : queue[i + 1].timer # t
  <2>1. \A i \in 1..(n - 1) : i + 1 \in 1..n /\ 1 \in 1..n /\ i + 1 # 1
    BY <1>2
  <2> QED
    BY <2>1 DEF IInv, QueuedOnce
<1>6. Waiting' = Waiting \ {t}
  <2>1. Waiting' = {queue'[i].timer : i \in 1..(n - 1)}
    BY <1>4, LenProperties DEF Waiting
  <2>2. ASSUME NEW s PROVE s \in Waiting' => s \in Waiting /\ s # t
    <3>1. SUFFICES ASSUME NEW i \in 1..(n - 1), s = queue'[i].timer
                   PROVE  s \in Waiting /\ s # t
      BY <2>1
    <3>2. s = queue[i + 1].timer /\ i + 1 \in 1..n
      BY <1>2, <1>4, <3>1
    <3> QED
      BY <1>2, <1>5, <3>2
  <2>3. ASSUME NEW s PROVE (s \in Waiting /\ s # t) => s \in Waiting'
    <3>1. SUFFICES ASSUME NEW i \in 1..n, s = queue[i].timer, s # t
                   PROVE  s \in Waiting'
      BY <1>2
    <3>2. i # 1
      BY <3>1
    <3>3. i - 1 \in 1..(n - 1) /\ (i - 1) + 1 = i
      BY <1>2, <3>2
    <3>4. queue'[i - 1].timer = s
      BY <1>4, <3>1, <3>3
    <3> QED
      BY <2>1, <3>3, <3>4
  <2> QED
    BY <2>2, <2>3
<1>7. t # None /\ e # Idle /\ running.timer = None
  BY <1>1, <1>3, LoopAssumption DEF Idle, Entry
<1>8. TypeOK'
  <2>1. \A s \in Timers : use[s] # "free" <=> s \in Waiting \cup {None}
    BY <1>1, <1>7 DEF IInv, TypeOK
  <2>2. t \in Waiting
    BY <1>2
  <2>3. \A s \in Timers : use'[s] # "free" <=> s \in Waiting' \cup {running'.timer}
    BY <1>1, <1>6, <2>1, <2>2, LoopAssumption
  <2>4. before' \in [Timers -> SUBSET Timers]
    BY <1>1 DEF IInv, TypeOK
  <2>5. running' \in [timer : Timers \cup {None}, kind : {"once", "wrapper", "func"}]
    BY <1>1, <1>3 DEF EntryType
  <2> QED
    BY <1>1, <1>4, <2>3, <2>4, <2>5 DEF IInv, TypeOK, EntryType
<1>9. HistoryType'
  BY <1>1, <1>3 DEF IInv, HistoryType
<1>10. QueuedOnce'
  <2> SUFFICES ASSUME NEW i \in 1..(n - 1), NEW j \in 1..(n - 1),
                      queue'[i].timer = queue'[j].timer
               PROVE  i = j
    BY <1>4 DEF QueuedOnce
  <2>1. i + 1 \in 1..n /\ j + 1 \in 1..n /\ queue[i + 1].timer = queue[j + 1].timer
    BY <1>2, <1>4
  <2>2. i + 1 = j + 1
    BY <2>1 DEF IInv, QueuedOnce
  <2> QED
    BY <1>2, <2>2
<1>11. RunningApart'
  BY <1>1, <1>6, <1>7 DEF RunningApart
<1>12. InFront'
  <2> SUFFICES ASSUME NEW i \in 1..(n - 1), NEW s \in before'[queue'[i].timer]
               PROVE  s \in {queue'[j].timer : j \in 1..(i - 1)}
    BY <1>4 DEF InFront
  <2>1. i + 1 \in 1..n /\ queue'[i] = queue[i + 1] /\ queue[i + 1].timer \in Timers
    BY <1>2, <1>4 DEF EntryType
  <2>2. s \in before[queue[i + 1].timer] /\ s # t
    BY <1>1, <2>1
  <2>3. PICK j \in 1..((i + 1) - 1) : s = queue[j].timer
    BY <2>1, <2>2 DEF IInv, InFront
  <2>4. j # 1
    BY <2>2, <2>3
  <2>5. j - 1 \in 1..(i - 1) /\ j - 1 \in 1..(n - 1) /\ (j - 1) + 1 = j
    BY <1>2, <2>3, <2>4
  <2>6. queue'[j - 1].timer = s
    BY <1>4, <2>3, <2>5
  <2> QED
    BY <2>5, <2>6
<1>13. Counted'
  <2>1. \A s \in Timers : fired'[s] = IF s = t THEN fired[s] + 1 ELSE fired[s]
    BY <1>1 DEF IInv, HistoryType
  <2>2. \A i \in 1..n : /\ use[queue[i].timer] = UseOf(queue[i])
                        /\ fired[queue[i].timer] = CallsBefore(queue[i])
    BY DEF IInv, Counted
  <2>3. ASSUME NEW i \in 1..(n - 1)
        PROVE  /\ use'[queue'[i].timer] = UseOf(queue'[i])
               /\ fired'[queue'[i].timer] = CallsBefore(queue'[i])
    <3>1. i + 1 \in 1..n /\ queue'[i] = queue[i + 1] /\ queue[i + 1].timer \in Timers
      BY <1>2, <1>4 DEF EntryType
    <3> QED
      BY <1>1, <1>5, <2>1, <2>2, <3>1
  <2>4. 1 \in 1..n
    BY <1>2
  <2>5. use[t] = UseOf(e) /\ fired'[t] = CallsBefore(e) + 1
    BY <1>3, <2>1, <2>2, <2>4
  <2> QED
    BY <1>1, <1>4, <2>3, <2>5 DEF Counted
<1> QED
  BY <1>8, <1>9, <1>10, <1>11, <1>12, <1>13 DEF IInv

\* A handler ends; the one setInterval made first queues its function once more.
LEMMA HandlerReturnsStep ==
  ASSUME IInv, HandlerReturns
  PROVE  IInv'
<1> DEFINE t == running.timer
<1>1. /\ running # Idle /\ running' = Idle
      /\ UNCHANGED <<phase, fired>>
  BY DEF HandlerReturns
<1>2. /\ t \in Timers /\ t \notin Waiting /\ use[t] # "free"
      /\ Idle.timer = None /\ None \notin Timers
      /\ Idle \in [timer : Timers \cup {None}, kind : {"once", "wrapper", "func"}]
  BY <1>1, LoopAssumption DEF IInv, TypeOK, RunningApart, Idle, Entry
<1>3. /\ queue \in Seq(EntryType) /\ Len(queue) \in Nat
      /\ \A i \in 1..Len(queue) : queue[i] \in EntryType /\ queue[i].timer \in Waiting
  BY WaitingAt DEF IInv, TypeOK, EntryType
<1>4. CASE running.kind = "wrapper"
  <2> DEFINE e == Entry(t, "func")
  <2>1. e \in EntryType /\ e.timer = t /\ e.kind = "func"
    BY <1>2 DEF Entry, EntryType
  <2>2. AfterHandler(running) = Append(queue, e)
    BY <1>4 DEF AfterHandler, Push
  <2> HIDE DEF e
  <2>3. Len(Append(queue, e)) > Len(queue)
    BY <1>3, <2>1, Appended
  <2>4. /\ queue' = Append(queue, e)
        /\ use' = use
        /\ before' = [before EXCEPT ![t] = Waiting]
    BY <2>2, <2>3 DEF HandlerReturns
  <2>5. /\ queue' \in Seq(EntryType) /\ Len(queue') = Len(queue) + 1 /\ Len(queue) \in Nat
        /\ \A i \in 1..Len(queue) : /\ queue'[i] = queue[i] /\ queue[i] \in EntryType
                                    /\ queue[i].timer # t
        /\ queue'[Len(queue) + 1] = e
        /\ Waiting' = Waiting \cup {t}
        /\ before' \in [Timers -> SUBSET Timers]
        /\ QueuedOnce' /\ InFront'
    BY <1>2, <2>1, <2>4, Joined
  <2>6. TypeOK'
    BY <1>1, <1>2, <2>4, <2>5 DEF IInv, TypeOK, EntryType
  <2>7. HistoryType' /\ RunningApart'
    <3>1. None \notin Waiting'
      BY <1>2, <1>3, <2>5, WaitingAt DEF EntryType
    <3> QED
      BY <1>1, <1>2, <3>1 DEF IInv, HistoryType, RunningApart
  <2>8. Counted'
    <3>1. use[t] = "interval" /\ fired[t] = 1
      BY <1>1, <1>4 DEF IInv, Counted, UseOf, CallsBefore
    <3>2. ASSUME NEW i \in 1..Len(queue')
          PROVE  /\ use[queue'[i].timer] = UseOf(queue'[i])
                 /\ fired[queue'[i].timer] = CallsBefore(queue'[i])
      <4>1. CASE i \in 1..Len(queue)
        BY <2>5, <4>1 DEF IInv, Counted
      <4>2. CASE i = Len(queue) + 1
        BY <2>1, <2>5, <3>1, <4>2 DEF UseOf, CallsBefore
      <4> QED
        BY <2>5, <4>1, <4>2
    <3> QED
      BY <1>1, <2>4, <3>2 DEF Counted
  <2> QED
    BY <2>5, <2>6, <2>7, <2>8 DEF IInv
<1>5. CASE running.kind # "wrapper"
  <2>1. AfterHandler(running) = queue /\ ~(Len(queue) > Len(queue))
    BY <1>3, <1>5 DEF AfterHandler
  <2>2. /\ UNCHANGED <<queue, before>>
        /\ use' = [use EXCEPT ![t] = "free"]
    BY <2>1 DEF HandlerReturns
  <2>3. Waiting' = Waiting /\ QueuedOnce' /\ InFront'
    <3>1. Waiting' = Waiting
      BY <2>2 DEF Waiting
    <3> QED
      BY <2>2, <3>1 DEF IInv, QueuedOnce, InFront
  <2>4. \A s \in Timers : use'[s] = IF s = t THEN "free" ELSE use[s]
    BY <2>2 DEF IInv, TypeOK
  <2>5. TypeOK'
    <3>1. \A s \in Timers : use'[s] # "free" <=> s \in Waiting' \cup {running'.timer}
      BY <1>1, <1>2, <2>3, <2>4 DEF IInv, TypeOK
    <3> QED
      BY <1>1, <1>2, <2>2, <3>1 DEF IInv, TypeOK
  <2>6. HistoryType' /\ RunningApart'
    <3>1. None \notin Waiting'
      BY <1>2, <1>3, <2>3, WaitingAt DEF EntryType
    <3> QED
      BY <1>1, <1>2, <3>1 DEF IInv, HistoryType, RunningApart
  <2>7. Counted'
    <3>1. \A i \in 1..Len(queue) : queue[i].timer # t /\ queue[i].timer \in Timers
      BY <1>2, <1>3 DEF EntryType
    <3> QED
      BY <1>1, <2>2, <2>4, <3>1 DEF IInv, Counted
  <2> QED
    BY <2>3, <2>5, <2>6, <2>7 DEF IInv
<1> QED
  BY <1>4, <1>5

\* The phases of the program, and stuttering.
LEMMA PhaseStep ==
  ASSUME IInv, PolyfillEnds \/ PolyfillThrows \/ BootEnds \/ HandlerThrows \/ LoopEnds
               \/ UNCHANGED vars
  PROVE  IInv'
<1>1. /\ UNCHANGED <<queue, running, use, fired, before>>
      /\ phase' \in {"polyfill", "boot", "loop", "done", "fatal"}
  BY DEF PolyfillEnds, PolyfillThrows, BootEnds, HandlerThrows, LoopEnds, vars, IInv, TypeOK
<1>2. Waiting' = Waiting
  BY <1>1 DEF Waiting
<1>3. TypeOK' /\ HistoryType'
  BY <1>1, <1>2 DEF IInv, TypeOK, HistoryType
<1>4. QueuedOnce' /\ RunningApart' /\ InFront'
  BY <1>1, <1>2 DEF IInv, QueuedOnce, RunningApart, InFront
<1>5. Counted'
  BY <1>1 DEF IInv, Counted
<1> QED
  BY <1>3, <1>4, <1>5 DEF IInv

-----------------------------------------------------------------------------
\* Every step keeps the invariant.
THEOREM NextIInv == IInv /\ [Next]_vars => IInv'
BY PostStep, ShiftStep, HandlerReturnsStep, PhaseStep DEF Next, Over

\* The invariant holds in every reachable state.
THEOREM Invariance == Spec => []IInv
BY InitIInv, NextIInv, PTL DEF Spec

\* Types; a timer is in use exactly while it waits or runs.
THEOREM TypeCorrect == Spec => []TypeOK
<1>1. IInv => TypeOK
  BY DEF IInv
<1> QED
  BY <1>1, Invariance, PTL

\* A handler starts only when nothing that was posted before it waits any more.
THEOREM OrderCorrect == Spec => InPostingOrder
<1>1. IInv /\ [Next]_vars =>
         [running' # running /\ running' # Idle => before[running'.timer] = {}]_vars
  <2> SUFFICES ASSUME IInv, Next, running' # running, running' # Idle
               PROVE  before[running'.timer] = {}
    OBVIOUS
  <2>1. Shift
    BY DEF Next, setTimeout, setInterval, Post, PolyfillEnds, PolyfillThrows, BootEnds,
           HandlerReturns, HandlerThrows, LoopEnds, Over, vars
  <2>2. running' = queue[1] /\ queue # <<>>
    BY <2>1 DEF Shift, Shifted, LoopGoesOn
  <2>3. 1 \in 1..Len(queue)
    BY <2>2, EmptySeq DEF IInv, TypeOK
  <2>4. before[queue[1].timer] \subseteq {queue[j].timer : j \in 1..(1 - 1)}
    BY <2>3 DEF IInv, InFront
  <2> QED
    BY <2>2, <2>4
<1> QED
  BY <1>1, Invariance, PTL DEF Spec, InPostingOrder

\* setTimeout calls its function once, setInterval twice.
THEOREM CountCorrect == Spec => TimesFired
<1>1. IInv /\ [Next]_vars =>
         [\A t \in Timers :
             use[t] # "free" /\ use'[t] = "free"
                => fired'[t] = IF use[t] = "interval" THEN 2 ELSE 1]_vars
  <2> SUFFICES ASSUME IInv, Next, NEW t \in Timers, use[t] # "free", use'[t] = "free"
               PROVE  fired'[t] = IF use[t] = "interval" THEN 2 ELSE 1
    OBVIOUS
  <2>1. use' # use
    OBVIOUS
  <2>2. CASE \E s \in Timers : setTimeout(s) \/ setInterval(s)
    BY <2>2 DEF setTimeout, setInterval, Post, IInv, TypeOK
  <2>3. CASE HandlerReturns
    <3>1. /\ t = running.timer /\ running # Idle /\ UNCHANGED fired
          /\ ~(Len(AfterHandler(running)) > Len(queue))
      BY <2>1, <2>3 DEF HandlerReturns, IInv, TypeOK
    <3>2. running.kind # "wrapper"
      <4>1. SUFFICES ASSUME running.kind = "wrapper" PROVE FALSE
        OBVIOUS
      <4>2. AfterHandler(running) = Append(queue, Entry(t, "func"))
        BY <3>1, <4>1 DEF AfterHandler, Push
      <4>3. Entry(t, "func") \in EntryType /\ queue \in Seq(EntryType)
        BY DEF Entry, EntryType, IInv, TypeOK
      <4>4. Len(Append(queue, Entry(t, "func"))) = Len(queue) + 1 /\ Len(queue) \in Nat
        BY <4>3, Appended
      <4> QED
        BY <3>1, <4>2, <4>4
    <3>3. /\ use[t] = UseOf(running) /\ fired[t] = CallsBefore(running) + 1
          /\ running.kind \in {"once", "wrapper", "func"}
      BY <3>1 DEF IInv, Counted, TypeOK
    <3> QED
      BY <3>1, <3>2, <3>3 DEF UseOf, CallsBefore
  <2>4. CASE PolyfillEnds \/ PolyfillThrows \/ BootEnds \/ Shift \/ HandlerThrows \/ LoopEnds
             \/ Over
    BY <2>1, <2>4 DEF PolyfillEnds, PolyfillThrows, BootEnds, Shift, HandlerThrows, LoopEnds, Over, vars
  <2> QED
    BY <2>2, <2>3, <2>4 DEF Next
<1> QED
  BY <1>1, Invariance, PTL DEF Spec, TimesFired
=============================================================================
