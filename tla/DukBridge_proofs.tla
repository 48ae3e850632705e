-------------------------- MODULE DukBridge_proofs --------------------------
(***************************************************************************)
(* Proofs about DukBridge: every invariant the run checks, for every set   *)
(* of addresses, functions, closures, objects and errors and every bound   *)
(* on the stack.  That a context finds its own callback is proved for      *)
(* addresses with distinct property indices.                               *)
(*                                                                         *)
(* The inductive invariant adds the shape of the stack: JavaScript and     *)
(* native frames alternate, the outermost frame is the script or a         *)
(* destructor, and no object is being finalized twice.  From it follows    *)
(* that an error which leaves a callback always finds a JavaScript frame   *)
(* below the native caller, or that the caller is a destructor.            *)
(***************************************************************************)
EXTENDS DukBridge, SequenceTheorems, TLAPS

DukFrame == [kind : {"main", "call", "cb", "fin"},
             obj : Addrs \cup Closures \cup Wraps \cup {Free},
             outcount : Nat, room : Nat]

\* The frame at position i of a stack, and the one it sits on.
Fitted(s, i) ==
    /\ s[i].outcount = s[i].room
    /\ s[i].kind = "main" => i = 1
    /\ i = 1 => s[i].kind \in {"main", "fin"}
    /\ i > 1 => (IsJs(s[i]) <=> ~IsJs(s[i - 1]))
    /\ s[i].kind = "fin" => s[i].obj \in Wraps

\* No object has two destructors on the stack.
FinOnce(s) == \A i, j \in 1..Len(s) :
                 (s[i].kind = "fin" /\ s[j].kind = "fin" /\ s[i].obj = s[j].obj) => i = j

WellShaped(s) == /\ s \in Seq(DukFrame)
                 /\ Len(s) <= MaxStack
                 /\ \A i \in 1..Len(s) : Fitted(s, i)
                 /\ FinOnce(s)

\* The inductive invariant.
IInv == /\ WellShaped(stack)
        /\ TypeOK
        /\ OutWithinRoom
        /\ ErrorOnlyInJs

-----------------------------------------------------------------------------
(* Stacks.                                                                 *)

\* Pushing a frame leaves the others where they are.
LEMMA PushFrame ==
  ASSUME NEW s \in Seq(DukFrame), NEW f \in DukFrame
  PROVE  LET t == Append(s, f) IN
         /\ t \in Seq(DukFrame) /\ t # <<>>
         /\ Len(t) = Len(s) + 1 /\ DOMAIN t = 1..(Len(s) + 1) /\ DOMAIN s = 1..Len(s)
         /\ \A i \in 1..Len(s) : t[i] = s[i]
         /\ t[Len(s) + 1] = f
BY AppendProperties, LenProperties

\* Cutting the stack back to its first m frames keeps those.
LEMMA CutFrames ==
  ASSUME NEW s \in Seq(DukFrame), NEW m \in 0..Len(s)
  PROVE  LET t == SubSeq(s, 1, m) IN
         /\ t \in Seq(DukFrame) /\ Len(t) = m /\ DOMAIN t = 1..m
         /\ m = 0 <=> t = <<>>
         /\ \A i \in 1..m : t[i] = s[i]
<1> DEFINE t == SubSeq(s, 1, m)
<1>1. Len(s) \in Nat /\ m \in Nat
  BY LenProperties
<1>2. \A i \in 1..m : s[i] \in DukFrame
  BY <1>1, ElementOfSeq
<1>3. /\ t \in Seq(DukFrame)
      /\ Len(t) = IF 1 <= m THEN m - 1 + 1 ELSE 0
      /\ \A i \in 1..(m - 1 + 1) : t[i] = s[1 + i - 1]
  BY <1>1, <1>2, SubSeqProperties
<1>4. DOMAIN t = 1..Len(t)
  BY <1>3, LenProperties
<1> QED
  BY <1>1, <1>3, <1>4, EmptySeq

\* What is known of a stack that is not empty.
LEMMA TopFitted ==
  ASSUME NEW s, WellShaped(s), s # <<>>
  PROVE  /\ Len(s) \in Nat \ {0} /\ DOMAIN s = 1..Len(s)
         /\ s[Len(s)] \in DukFrame
         /\ Fitted(s, Len(s))
<1>1. s \in Seq(DukFrame)
  BY DEF WellShaped
<1>2. Len(s) \in Nat \ {0} /\ DOMAIN s = 1..Len(s)
  BY <1>1, EmptySeq, LenProperties
<1> QED
  BY <1>1, <1>2, ElementOfSeq DEF WellShaped

\* A frame may be pushed on the other side's frame, an object's destructor if it has none yet.
LEMMA PushShape ==
  ASSUME NEW s, WellShaped(s), NEW f \in DukFrame,
         Len(s) + 1 <= MaxStack,
         f.outcount = f.room, f.kind # "main",
         s = <<>> => f.kind = "fin",
         s # <<>> => (IsJs(f) <=> ~IsJs(s[Len(s)])),
         f.kind = "fin" => /\ f.obj \in Wraps
                           /\ \A i \in 1..Len(s) : ~(s[i].kind = "fin" /\ s[i].obj = f.obj)
  PROVE  WellShaped(Append(s, f))
<1> DEFINE t == Append(s, f)
<1>1. s \in Seq(DukFrame) /\ Len(s) \in Nat
  BY LenProperties DEF WellShaped
<1>2. /\ t \in Seq(DukFrame) /\ t # <<>> /\ Len(t) = Len(s) + 1
      /\ \A i \in 1..Len(s) : t[i] = s[i]
      /\ t[Len(s) + 1] = f
  BY <1>1, PushFrame
<1> HIDE DEF t
<1>3. ASSUME NEW i \in 1..Len(t)
      PROVE  Fitted(t, i)
  <2>1. CASE i \in 1..Len(s)
    <3>1. Fitted(s, i) /\ t[i] = s[i] /\ (i > 1 => t[i - 1] = s[i - 1])
      BY <1>1, <1>2, <2>1 DEF WellShaped
    <3> QED
      BY <3>1 DEF Fitted
  <2>2. CASE i = Len(s) + 1
    <3>1. t[i] = f /\ (i > 1 => t[i - 1] = s[Len(s)])
      BY <1>1, <1>2, <2>2
    <3>2. i = 1 <=> s = <<>>
      BY <1>1, <2>2, EmptySeq
    <3> QED
      BY <1>1, <2>2, <3>1, <3>2 DEF Fitted
  <2> QED
    BY <1>1, <1>2, <2>1, <2>2
<1>4. FinOnce(t)
  BY <1>1, <1>2 DEF FinOnce, WellShaped
<1> QED
  BY <1>1, <1>2, <1>3, <1>4 DEF WellShaped, t

\* What is left of a stack has its shape.
LEMMA CutShape ==
  ASSUME NEW s, WellShaped(s), NEW m \in 0..Len(s)
  PROVE  WellShaped(SubSeq(s, 1, m))
<1> DEFINE t == SubSeq(s, 1, m)
<1>1. s \in Seq(DukFrame) /\ Len(s) \in Nat
  BY LenProperties DEF WellShaped
<1>2. /\ t \in Seq(DukFrame) /\ Len(t) = m
      /\ \A i \in 1..m : t[i] = s[i]
  BY <1>1, CutFrames
<1> HIDE DEF t
<1>3. ASSUME NEW i \in 1..Len(t)
      PROVE  Fitted(t, i)
  <2>1. Fitted(s, i) /\ t[i] = s[i] /\ (i > 1 => t[i - 1] = s[i - 1])
    BY <1>1, <1>2 DEF WellShaped
  <2> QED
    BY <2>1 DEF Fitted
<1>4. FinOnce(t)
  BY <1>1, <1>2 DEF FinOnce, WellShaped
<1> QED
  BY <1>1, <1>2, <1>3, <1>4, DukAssumption DEF WellShaped, t

\* The conjuncts of TypeOK about the stack follow from its shape.
LEMMA ShapeTyped ==
  ASSUME NEW s, WellShaped(s)
  PROVE  /\ \A i \in DOMAIN s :
                /\ s[i].kind \in {"main", "call", "cb", "fin"}
                /\ s[i].kind = "main" => i = 1
                /\ s[i].kind = "cb" => i > 1 /\ ~IsJs(s[i - 1])
                /\ ~IsJs(s[i]) /\ i > 1 => IsJs(s[i - 1])
         /\ Len(s) <= MaxStack
<1>1. s \in Seq(DukFrame) /\ Len(s) \in Nat /\ DOMAIN s = 1..Len(s)
  BY LenProperties DEF WellShaped
<1>2. \A i \in 1..Len(s) : s[i] \in DukFrame /\ Fitted(s, i)
  BY <1>1, ElementOfSeq DEF WellShaped
<1> QED
  BY <1>1, <1>2 DEF WellShaped, Fitted, DukFrame, IsJs

-----------------------------------------------------------------------------
(* Steps that leave the stack alone.                                       *)

\* The script is loaded, nothing else has happened.
THEOREM InitIInv == Init => IInv
<1> SUFFICES ASSUME Init PROVE IInv
  OBVIOUS
<1> DEFINE f == F("main", Free, 0)
<1>1. f \in DukFrame /\ f.kind = "main" /\ f.outcount = f.room
  BY DEF F, DukFrame
<1>2. /\ stack = <<f>> /\ stack \in Seq(DukFrame) /\ Len(stack) = 1 /\ stack[1] = f
      /\ DOMAIN stack = 1..1
  BY <1>1 DEF Init
<1> HIDE DEF f
<1>3. \A i \in 1..Len(stack) : i = 1 /\ Fitted(stack, i)
  BY <1>1, <1>2 DEF Fitted
<1>4. WellShaped(stack)
  BY <1>2, <1>3, DukAssumption DEF WellShaped, FinOnce
<1>5. \A k, o : OnStack(k, o) => k = "main"
  BY <1>1, <1>2 DEF OnStack
<1>6. TypeOK
  <2>1. ctxs \in [Addrs -> [outs : OutCounts, fn : Fns] \cup {Free}]
    BY DEF Init
  <2>2. stash \in [Indices -> Fns \cup {Free}]
    BY DEF Init
  <2>3. calls \in [Closures -> {"none", "held", "dropped"}]
    BY DEF Init
  <2>4. /\ wraps \in [Wraps -> {"none", "live", "running", "lost"}]
        /\ \A w \in Wraps : wraps[w] # "running"
    BY DEF Init
  <2>5. \A w \in Wraps : ~OnStack("fin", w)
    BY <1>5
  <2>6. /\ out.wrote \in Nat /\ exc \in Excs \cup {NoExc}
        /\ status \in {"run", "exit", "fatal", "abort"}
        /\ destroying \in [Addrs -> Nat]
    BY DEF Init
  <2> QED
    BY <1>4, <2>1, <2>2, <2>3, <2>4, <2>5, <2>6, ShapeTyped DEF TypeOK
<1>7. OutWithinRoom /\ ErrorOnlyInJs
  BY DEF Init, OutWithinRoom, ErrorOnlyInJs
<1> QED
  BY <1>4, <1>6, <1>7 DEF IInv

\* What a step that leaves the stack alone must still show.
LEMMA SameStack ==
  ASSUME IInv, UNCHANGED stack, TypeOK', OutWithinRoom', ErrorOnlyInJs'
  PROVE  IInv'
BY DEF IInv

\* make_nccc_cb and the two halves of destroy_cb_ctx change contexts and the stash.
LEMMA ContextStep ==
  ASSUME IInv, make_nccc_cb \/ destroy_cb_ctx \/ DestroyEnds
  PROVE  IInv'
<1>1. UNCHANGED <<stack, exc, calls, wraps, out, status>>
  BY DEF make_nccc_cb, destroy_cb_ctx, DestroyEnds
<1>2. /\ ctxs' \in [Addrs -> [outs : OutCounts, fn : Fns] \cup {Free}]
      /\ stash' \in [Indices -> Fns \cup {Free}]
      /\ destroying' \in [Addrs -> Nat]
  <2>1. CASE make_nccc_cb
    <3>1. PICK a \in Addrs, f \in Fns, n \in OutCounts :
             /\ ctxs' = [ctxs EXCEPT ![a] = [outs |-> n, fn |-> f]]
             /\ stash' = [stash EXCEPT ![Index[a]] = f]
      BY <2>1 DEF make_nccc_cb
    <3>2. [outs |-> n, fn |-> f] \in [outs : OutCounts, fn : Fns]
      OBVIOUS
    <3>3. UNCHANGED destroying
      BY <2>1 DEF make_nccc_cb
    <3> QED
      BY <3>1, <3>2, <3>3 DEF IInv, TypeOK
  <2>2. CASE destroy_cb_ctx
    <3>1. Len(stack) \in Nat
      BY LenProperties DEF IInv, WellShaped
    <3>2. PICK a \in Addrs : /\ Remove("entry", a)
                             /\ destroying' = [destroying EXCEPT ![a] = Len(stack)]
      BY <2>2 DEF destroy_cb_ctx, DestroyOrder
    <3>3. UNCHANGED ctxs /\ stash' = [stash EXCEPT ![Index[a]] = Free]
      BY <3>2 DEF Remove
    <3> QED
      BY <3>1, <3>2, <3>3 DEF IInv, TypeOK
  <2>3. CASE DestroyEnds
    <3>1. PICK a \in Addrs : /\ Remove("context", a)
                             /\ destroying' = [destroying EXCEPT ![a] = 0]
      BY <2>3 DEF DestroyEnds, DestroyOrder
    <3>2. UNCHANGED stash /\ ctxs' = [ctxs EXCEPT ![a] = Free]
      BY <3>1 DEF Remove
    <3> QED
      BY <3>1, <3>2 DEF IInv, TypeOK
  <2> QED
    BY <2>1, <2>2, <2>3
<1>3. TypeOK'
  BY <1>1, <1>2 DEF IInv, TypeOK, OnStack, IsJs
<1>4. OutWithinRoom' /\ ErrorOnlyInJs'
  BY <1>1 DEF IInv, OutWithinRoom, ErrorOnlyInJs, InJs, Top, IsJs
<1> QED
  BY <1>1, <1>3, <1>4, SameStack

\* A native function is made, dropped or finalized.
LEMMA ClosureStep ==
  ASSUME IInv, make_nccc_call \/ DropClosure \/ do_free_nccc_call
  PROVE  IInv'
<1>1. UNCHANGED <<stack, exc, ctxs, stash, wraps, destroying, out, status>>
  BY DEF make_nccc_call, DropClosure, do_free_nccc_call
<1>2. calls' \in [Closures -> {"none", "held", "dropped"}]
  BY DEF IInv, TypeOK, make_nccc_call, DropClosure, do_free_nccc_call
<1>3. TypeOK'
  BY <1>1, <1>2 DEF IInv, TypeOK, OnStack, IsJs
<1>4. OutWithinRoom' /\ ErrorOnlyInJs'
  BY <1>1 DEF IInv, OutWithinRoom, ErrorOnlyInJs, InJs, Top, IsJs
<1> QED
  BY <1>1, <1>2, <1>3, <1>4, SameStack

\* wrap_pointer takes an object that is not being finalized.
LEMMA WrapStep ==
  ASSUME IInv, wrap_pointer
  PROVE  IInv'
<1>1. UNCHANGED <<stack, exc, ctxs, stash, calls, destroying, out, status>>
  BY DEF wrap_pointer
<1>2. /\ wraps' \in [Wraps -> {"none", "live", "running", "lost"}]
      /\ \A w \in Wraps : wraps'[w] = "running" <=> wraps[w] = "running"
  BY DEF IInv, TypeOK, wrap_pointer
<1>3. TypeOK'
  BY <1>1, <1>2 DEF IInv, TypeOK, OnStack, IsJs
<1>4. OutWithinRoom' /\ ErrorOnlyInJs'
  BY <1>1 DEF IInv, OutWithinRoom, ErrorOnlyInJs, InJs, Top, IsJs
<1> QED
  BY <1>1, <1>3, <1>4, SameStack

\* An error is thrown or caught, or the program ends.
LEMMA StatusStep ==
  ASSUME IInv, Throw \/ Catch \/ Uncaught \/ UnknownLetter \/ Exit \/ UNCHANGED vars
  PROVE  IInv'
<1>1. UNCHANGED <<stack, ctxs, stash, calls, wraps, destroying, out>>
  BY DEF Throw, Catch, Uncaught, UnknownLetter, Exit, vars
<1>2. exc' \in Excs \cup {NoExc} /\ status' \in {"run", "exit", "fatal", "abort"}
  BY DEF IInv, TypeOK, Throw, Catch, Uncaught, UnknownLetter, Exit, vars
<1>3. TypeOK'
  BY <1>1, <1>2 DEF IInv, TypeOK, OnStack, IsJs
<1>4. OutWithinRoom'
  BY <1>1 DEF IInv, OutWithinRoom
<1>5. ErrorOnlyInJs'
  BY DEF IInv, ErrorOnlyInJs, InJs, JsRuns, NoError, Top, IsJs, Throw, Catch, Uncaught, UnknownLetter,
         Exit, vars
<1> QED
  BY <1>1, <1>3, <1>4, <1>5, SameStack

-----------------------------------------------------------------------------
(* Steps that push a frame.                                                *)

\* The stack with one more frame.
LEMMA Pushed ==
  ASSUME IInv, NEW f \in DukFrame, stack' = Append(stack, f),
         Len(stack) < MaxStack, f.outcount = f.room, f.kind # "main",
         stack = <<>> => f.kind = "fin",
         stack # <<>> => (IsJs(f) <=> ~IsJs(Top)),
         f.kind = "fin" => f.obj \in Wraps /\ ~OnStack("fin", f.obj)
  PROVE  /\ WellShaped(stack')
         /\ \A k, o : OnStack(k, o)' <=> (OnStack(k, o) \/ (k = f.kind /\ o = f.obj))
<1>1. /\ WellShaped(stack) /\ stack \in Seq(DukFrame)
      /\ Len(stack) \in Nat /\ DOMAIN stack = 1..Len(stack)
  BY LenProperties DEF IInv, WellShaped
<1>2. Len(stack) + 1 <= MaxStack
  BY <1>1, DukAssumption
<1>3. f.kind = "fin" => \A i \in 1..Len(stack) :
                           ~(stack[i].kind = "fin" /\ stack[i].obj = f.obj)
  BY <1>1 DEF OnStack
<1>4. WellShaped(stack')
  BY <1>1, <1>2, <1>3, PushShape DEF Top
<1>5. /\ DOMAIN stack' = 1..(Len(stack) + 1)
      /\ \A i \in 1..Len(stack) : stack'[i] = stack[i]
      /\ stack'[Len(stack) + 1] = f
  BY <1>1, PushFrame
<1>6. \A k, o : OnStack(k, o)' <=> (OnStack(k, o) \/ (k = f.kind /\ o = f.obj))
  BY <1>1, <1>5 DEF OnStack
<1> QED
  BY <1>4, <1>6

\* The trampoline of a function JavaScript holds.
LEMMA CallStep ==
  ASSUME IInv, Call
  PROVE  IInv'
<1>1. PICK c \in Closures : calls[c] = "held" /\ stack' = Append(stack, F("call", c, 0))
  BY DEF Call
<1> DEFINE f == F("call", c, 0)
<1>2. f \in DukFrame /\ f.kind = "call" /\ f.obj = c /\ f.outcount = f.room /\ ~IsJs(f)
  BY DEF F, DukFrame, IsJs
<1>3. stack # <<>> /\ IsJs(Top) /\ exc = NoExc /\ Len(stack) < MaxStack
      /\ UNCHANGED <<exc, ctxs, stash, calls, wraps, destroying, out, status>>
  BY DEF Call, JsRuns, NoError, InJs
<1>4. stack' = Append(stack, f)
  BY <1>1
<1> HIDE DEF f
<1>5. /\ WellShaped(stack')
      /\ \A k, o : OnStack(k, o)' <=> (OnStack(k, o) \/ (k = "call" /\ o = c))
  BY <1>2, <1>3, <1>4, Pushed
<1>6. TypeOK'
  <2>1. \A w \in Wraps : OnStack("fin", w)' <=> OnStack("fin", w)
    BY <1>5
  <2> QED
    BY <1>3, <1>5, <2>1, ShapeTyped DEF IInv, TypeOK
<1>7. OutWithinRoom' /\ ErrorOnlyInJs'
  BY <1>3 DEF IInv, OutWithinRoom, ErrorOnlyInJs
<1> QED
  BY <1>5, <1>6, <1>7 DEF IInv

\* The finalizer of an object that was not finalized yet, on a JavaScript frame or on none.
LEMMA StartFinalizerStep ==
  ASSUME IInv, StartFinalizer
  PROVE  IInv'
<1>1. PICK w \in Wraps : /\ wraps[w] = "live"
                         /\ wraps' = [wraps EXCEPT ![w] = "running"]
                         /\ stack' = Append(stack, F("fin", w, 0))
  BY DEF StartFinalizer
<1> DEFINE f == F("fin", w, 0)
<1>2. f \in DukFrame /\ f.kind = "fin" /\ f.obj = w /\ f.outcount = f.room /\ ~IsJs(f)
  BY DEF F, DukFrame, IsJs
<1>3. /\ stack = <<>> \/ IsJs(Top)
      /\ exc = NoExc /\ Len(stack) < MaxStack
      /\ UNCHANGED <<exc, ctxs, stash, calls, destroying, out, status>>
  BY DEF IInv, ErrorOnlyInJs, StartFinalizer, NoError, InJs
<1>4. stack' = Append(stack, f)
  BY <1>1
<1> HIDE DEF f
<1>5. ~OnStack("fin", w)
  BY <1>1 DEF IInv, TypeOK
<1>6. /\ WellShaped(stack')
      /\ \A k, o : OnStack(k, o)' <=> (OnStack(k, o) \/ (k = "fin" /\ o = w))
  BY <1>2, <1>3, <1>4, <1>5, Pushed
<1>7. TypeOK'
  <2>1. \A v \in Wraps : OnStack("fin", v)' <=> (OnStack("fin", v) \/ v = w)
    BY <1>6
  <2>2. /\ wraps' \in [Wraps -> {"none", "live", "running", "lost"}]
        /\ \A v \in Wraps : wraps'[v] = IF v = w THEN "running" ELSE wraps[v]
    BY <1>1 DEF IInv, TypeOK
  <2>3. \A v \in Wraps : wraps'[v] = "running" <=> OnStack("fin", v)'
    BY <2>1, <2>2 DEF IInv, TypeOK
  <2> QED
    BY <1>3, <1>6, <2>2, <2>3, ShapeTyped DEF IInv, TypeOK
<1>8. OutWithinRoom' /\ ErrorOnlyInJs'
  BY <1>3 DEF IInv, OutWithinRoom, ErrorOnlyInJs
<1> QED
  BY <1>6, <1>7, <1>8 DEF IInv

\* A dispatcher, which captures the output count of its context, or aborts.
LEMMA DispatchStep ==
  ASSUME IInv, NEW a \in Addrs, Dispatch(a)
  PROVE  IInv'
<1>1. /\ stack # <<>> /\ ~IsJs(Top) /\ exc = NoExc /\ Len(stack) < MaxStack
      /\ ctxs[a] \in [outs : OutCounts, fn : Fns]
      /\ UNCHANGED <<exc, ctxs, stash, calls, wraps, destroying, out>>
  BY DEF IInv, TypeOK, ErrorOnlyInJs, Dispatch, InNative, InJs
<1>2. CASE stash[Index[a]] = Free
  <2>1. UNCHANGED stack /\ status' = "abort"
    BY <1>2 DEF Dispatch
  <2>2. TypeOK'
    BY <1>1, <2>1 DEF IInv, TypeOK, OnStack, IsJs
  <2>3. OutWithinRoom' /\ ErrorOnlyInJs'
    BY <1>1, <2>1 DEF IInv, OutWithinRoom, ErrorOnlyInJs
  <2> QED
    BY <2>1, <2>2, <2>3, SameStack
<1>3. CASE stash[Index[a]] # Free
  <2> DEFINE f == F("cb", a, ctxs[a].outs)
  <2>1. ctxs[a].outs \in Nat
    BY <1>1, DukAssumption
  <2>2. f \in DukFrame /\ f.kind = "cb" /\ f.outcount = f.room /\ IsJs(f)
    BY <2>1 DEF F, DukFrame, IsJs
  <2>3. stack' = Append(stack, f) /\ UNCHANGED status
    BY <1>3 DEF Dispatch
  <2> HIDE DEF f
  <2>4. /\ WellShaped(stack')
        /\ \A k, o : OnStack(k, o)' <=> (OnStack(k, o) \/ (k = "cb" /\ o = f.obj))
    BY <1>1, <2>2, <2>3, Pushed
  <2>5. TypeOK'
    <3>1. \A w \in Wraps : OnStack("fin", w)' <=> OnStack("fin", w)
      BY <2>4
    <3> QED
      BY <1>1, <2>3, <2>4, <3>1, ShapeTyped DEF IInv, TypeOK
  <2>6. OutWithinRoom' /\ ErrorOnlyInJs'
    BY <1>1 DEF IInv, OutWithinRoom, ErrorOnlyInJs
  <2> QED
    BY <2>4, <2>5, <2>6 DEF IInv
<1> QED
  BY <1>2, <1>3

-----------------------------------------------------------------------------
(* Steps that pop frames.                                                  *)

\* The stack without its last n frames.
LEMMA Popped ==
  ASSUME IInv, stack # <<>>, NEW n \in {1, 2}, n <= Len(stack), stack' = Cut(n)
  PROVE  /\ WellShaped(stack')
         /\ Len(stack') = Len(stack) - n
         /\ \A i \in 1..(Len(stack) - n) : stack'[i] = stack[i]
         /\ stack' = <<>> <=> Len(stack) = n
         /\ \A k, o : OnStack(k, o)' <=>
                      \E i \in 1..(Len(stack) - n) : stack[i].kind = k /\ stack[i].obj = o
         /\ \A k, o : OnStack(k, o)' => OnStack(k, o)
<1> DEFINE m == Len(stack) - n
           t == SubSeq(stack, 1, m)
<1>1. /\ WellShaped(stack) /\ stack \in Seq(DukFrame)
      /\ Len(stack) \in Nat /\ DOMAIN stack = 1..Len(stack)
  BY LenProperties DEF IInv, WellShaped
<1>2. m \in 0..Len(stack) /\ m < Len(stack) /\ stack' = t
  BY <1>1 DEF Cut
<1>3. WellShaped(t)
  BY <1>1, <1>2, CutShape
<1>4. /\ Len(t) = m /\ DOMAIN t = 1..m
      /\ m = 0 <=> t = <<>>
      /\ \A i \in 1..m : t[i] = stack[i]
  BY <1>1, <1>2, CutFrames
<1> HIDE DEF t
<1>5. \A k, o : OnStack(k, o)' <=>
                \E i \in 1..m : stack[i].kind = k /\ stack[i].obj = o
  BY <1>2, <1>4 DEF OnStack
<1>6. \A i \in 1..m : i \in DOMAIN stack
  BY <1>1, <1>2
<1>7. \A k, o : OnStack(k, o)' => OnStack(k, o)
  BY <1>5, <1>6 DEF OnStack
<1>8. m = 0 <=> Len(stack) = n
  <2>1. n \in Nat
    OBVIOUS
  <2> QED
    BY <1>1, <2>1
<1> QED
  BY <1>2, <1>3, <1>4, <1>5, <1>7, <1>8

\* A native function, a callback or the script returns; no error is in flight.
LEMMA ReturnStep ==
  ASSUME IInv, NativeReturn \/ CbReturn \/ MainReturn
  PROVE  IInv'
<1>1. /\ stack # <<>> /\ Top.kind \in {"call", "cb", "main"} /\ stack' = Cut(1)
      /\ exc = NoExc
      /\ UNCHANGED <<exc, ctxs, stash, calls, wraps, destroying, status>>
  BY DEF IInv, ErrorOnlyInJs, NativeReturn, CbReturn, MainReturn, JsRuns, NoError, InNative, InJs
<1>2. /\ Len(stack) \in Nat \ {0} /\ DOMAIN stack = 1..Len(stack)
      /\ Top \in DukFrame /\ Fitted(stack, Len(stack))
  BY <1>1, TopFitted DEF IInv, Top
<1>3. /\ WellShaped(stack')
      /\ \A k, o : OnStack(k, o)' <=>
                   \E i \in 1..(Len(stack) - 1) : stack[i].kind = k /\ stack[i].obj = o
      /\ \A k, o : OnStack(k, o)' => OnStack(k, o)
  <2>1. 1 \in {1, 2} /\ 1 <= Len(stack)
    BY <1>2
  <2> QED
    BY <1>1, <2>1, Popped
<1>4. \A w \in Wraps : OnStack("fin", w)' <=> OnStack("fin", w)
  <2>1. ASSUME NEW w \in Wraps, OnStack("fin", w)
        PROVE  OnStack("fin", w)'
    <3>1. PICK i \in 1..Len(stack) : stack[i].kind = "fin" /\ stack[i].obj = w
      BY <1>2, <2>1 DEF OnStack
    <3>2. i # Len(stack)
      BY <1>1, <3>1 DEF Top
    <3>3. Len(stack) \in Nat
      BY <1>2
    <3>4. i \in 1..(Len(stack) - 1)
      BY <3>2, <3>3
    <3> QED
      BY <1>3, <3>1, <3>4
  <2> QED
    BY <1>3, <2>1
<1>5. out'.wrote \in Nat /\ OutWithinRoom'
  <2>1. CASE CbReturn
    <3>1. Top.room \in Nat /\ Top.outcount = Top.room
      BY <1>2 DEF DukFrame, Fitted, Top
    <3>2. PICK isArray \in BOOLEAN :
             LET n == FilledCount(Top) IN
             out' = [room |-> Top.room, array |-> isArray,
                     wrote |-> IF isArray \/ n = 0 THEN n ELSE 1]
      BY <2>1 DEF CbReturn
    <3> QED
      BY <3>1, <3>2 DEF FilledCount, OutWithinRoom
  <2>2. CASE UNCHANGED out
    BY <2>2 DEF IInv, TypeOK, OutWithinRoom
  <2> QED
    BY <2>1, <2>2 DEF NativeReturn, MainReturn
<1>6. TypeOK'
  BY <1>1, <1>3, <1>4, <1>5, ShapeTyped DEF IInv, TypeOK
<1>7. ErrorOnlyInJs'
  BY <1>1, <1>3 DEF IInv, ErrorOnlyInJs
<1> QED
  BY <1>3, <1>5, <1>6, <1>7 DEF IInv

\* A destructor's frame is the only one of its object: without it, or when an error passes
\* over it, the object is not being finalized any more.
LEMMA FinGone ==
  ASSUME IInv, NEW p \in 1..Len(stack), stack[p].kind = "fin",
         NEW w \in Wraps
  PROVE  (\E i \in 1..(p - 1) : stack[i].kind = "fin" /\ stack[i].obj = w)
             => w # stack[p].obj
<1>1. Len(stack) \in Nat /\ FinOnce(stack)
  BY LenProperties DEF IInv, WellShaped
<1> QED
  BY <1>1 DEF FinOnce

\* The destructor returns and do_finalize frees the params.
LEMMA FinReturnStep ==
  ASSUME IInv, FinReturn
  PROVE  IInv'
<1>1. /\ stack # <<>> /\ Top.kind = "fin" /\ stack' = Cut(1)
      /\ exc = NoExc
      /\ wraps' = [wraps EXCEPT ![Top.obj] = "none"]
      /\ UNCHANGED <<exc, ctxs, stash, calls, destroying, out, status>>
  BY DEF IInv, ErrorOnlyInJs, FinReturn, InNative, InJs
<1>2. /\ Len(stack) \in Nat \ {0} /\ DOMAIN stack = 1..Len(stack)
      /\ Top.obj \in Wraps
  BY <1>1, TopFitted DEF IInv, Top, Fitted
<1>3. /\ WellShaped(stack')
      /\ \A k, o : OnStack(k, o)' <=>
                   \E i \in 1..(Len(stack) - 1) : stack[i].kind = k /\ stack[i].obj = o
      /\ \A k, o : OnStack(k, o)' => OnStack(k, o)
  <2>1. 1 \in {1, 2} /\ 1 <= Len(stack)
    BY <1>2
  <2> QED
    BY <1>1, <2>1, Popped
<1>4. ASSUME NEW w \in Wraps
      PROVE  OnStack("fin", w)' <=> (OnStack("fin", w) /\ w # Top.obj)
  <2>1. OnStack("fin", w)' => w # Top.obj
    BY <1>1, <1>2, <1>3, FinGone DEF Top
  <2>2. (OnStack("fin", w) /\ w # Top.obj) => OnStack("fin", w)'
    BY <1>2, <1>3 DEF OnStack, Top
  <2> QED
    BY <1>3, <2>1, <2>2
<1>5. /\ wraps' \in [Wraps -> {"none", "live", "running", "lost"}]
      /\ \A w \in Wraps : wraps'[w] = IF w = Top.obj THEN "none" ELSE wraps[w]
  BY <1>1, <1>2 DEF IInv, TypeOK
<1>6. \A w \in Wraps : wraps'[w] = "running" <=> OnStack("fin", w)'
  BY <1>4, <1>5 DEF IInv, TypeOK
<1>7. TypeOK'
  BY <1>1, <1>3, <1>5, <1>6, ShapeTyped DEF IInv, TypeOK
<1>8. OutWithinRoom' /\ ErrorOnlyInJs'
  BY <1>1, <1>3 DEF IInv, OutWithinRoom, ErrorOnlyInJs
<1> QED
  BY <1>3, <1>7, <1>8 DEF IInv

\* What lies below a callback: its native caller, and a JavaScript frame below that one
\* unless it is a destructor.
LEMMA BelowCallback ==
  ASSUME IInv, stack # <<>>, Top.kind = "cb"
  PROVE  /\ Len(stack) \in Nat /\ Len(stack) >= 2 /\ DOMAIN stack = 1..Len(stack)
         /\ stack[Len(stack) - 1].kind \in {"call", "fin"}
         /\ stack[Len(stack) - 1].kind = "fin" => stack[Len(stack) - 1].obj \in Wraps
         /\ stack[Len(stack) - 1].kind = "call" =>
               Len(stack) > 2 /\ IsJs(stack[Len(stack) - 2])
<1> DEFINE n == Len(stack)
<1>1. /\ n \in Nat \ {0} /\ DOMAIN stack = 1..n /\ Fitted(stack, n) /\ stack \in Seq(DukFrame)
  BY TopFitted DEF IInv, WellShaped
<1>2. n >= 2 /\ ~IsJs(stack[n - 1])
  BY <1>1 DEF Fitted, Top, IsJs
<1>3. n - 1 \in 1..n /\ Fitted(stack, n - 1) /\ stack[n - 1] \in DukFrame
  BY <1>1, <1>2, ElementOfSeq DEF IInv, WellShaped
<1>4. stack[n - 1].kind \in {"call", "fin"}
  BY <1>2, <1>3 DEF DukFrame, IsJs
<1>5. stack[n - 1].kind = "call" => n - 1 > 1 /\ IsJs(stack[n - 1 - 1])
  BY <1>1, <1>2, <1>3 DEF Fitted
<1>6. n - 1 - 1 = n - 2
  BY <1>1
<1>7. stack[n - 1].kind = "fin" => stack[n - 1].obj \in Wraps
  BY <1>3 DEF Fitted
<1> QED
  BY <1>1, <1>2, <1>4, <1>5, <1>6, <1>7

\* An error leaves a callback and takes the dispatcher and its caller with it.
LEMMA UnwindStep ==
  ASSUME IInv, Unwind
  PROVE  IInv'
<1> DEFINE n == Len(stack)
           caller == stack[n - 1]
<1>1. /\ stack # <<>> /\ Top.kind = "cb" /\ stack' = Cut(2)
      /\ exc' = IF caller.kind = "fin" THEN NoExc ELSE exc
      /\ wraps' = IF caller.kind = "fin" THEN [wraps EXCEPT ![caller.obj] = "lost"] ELSE wraps
      /\ UNCHANGED <<ctxs, stash, calls, destroying, out, status>>
  BY DEF Unwind, InJs, FramesSkipped, ErrorAfter
<1>2. /\ n \in Nat /\ n >= 2 /\ DOMAIN stack = 1..n
      /\ caller.kind \in {"call", "fin"}
      /\ caller.kind = "fin" => caller.obj \in Wraps
      /\ caller.kind = "call" => n > 2 /\ IsJs(stack[n - 2])
  BY <1>1, BelowCallback
<1>3. /\ WellShaped(stack') /\ Len(stack') = n - 2
      /\ \A i \in 1..(n - 2) : stack'[i] = stack[i]
      /\ stack' = <<>> <=> n = 2
      /\ \A k, o : OnStack(k, o)' <=>
                   \E i \in 1..(n - 2) : stack[i].kind = k /\ stack[i].obj = o
      /\ \A k, o : OnStack(k, o)' => OnStack(k, o)
  BY <1>1, <1>2, Popped
<1>4. ASSUME NEW w \in Wraps
      PROVE  OnStack("fin", w)' <=>
             (OnStack("fin", w) /\ ~(caller.kind = "fin" /\ w = caller.obj))
  <2>1. (OnStack("fin", w)' /\ caller.kind = "fin") => w # caller.obj
    <3>1. n - 1 \in 1..n /\ (n - 1) - 1 = n - 2
      BY <1>2
    <3>2. caller.kind = "fin" =>
            ((\E i \in 1..((n - 1) - 1) : stack[i].kind = "fin" /\ stack[i].obj = w)
                 => w # caller.obj)
      BY <3>1, FinGone
    <3> QED
      BY <1>3, <3>1, <3>2
  <2>2. (OnStack("fin", w) /\ ~(caller.kind = "fin" /\ w = caller.obj)) => OnStack("fin", w)'
    <3>1. SUFFICES ASSUME NEW i \in 1..n, stack[i].kind = "fin", stack[i].obj = w,
                          ~(caller.kind = "fin" /\ w = caller.obj)
                   PROVE  OnStack("fin", w)'
      BY <1>2 DEF OnStack
    <3>2. i # n /\ i # n - 1
      BY <1>1, <3>1 DEF Top
    <3>3. n \in Nat
      BY <1>2
    <3>4. i \in 1..(n - 2)
      BY <3>2, <3>3
    <3> QED
      BY <1>3, <3>1, <3>4
  <2> QED
    BY <1>3, <2>1, <2>2
<1>5. /\ wraps' \in [Wraps -> {"none", "live", "running", "lost"}]
      /\ \A w \in Wraps : wraps'[w] = IF caller.kind = "fin" /\ w = caller.obj THEN "lost"
                                                                              ELSE wraps[w]
  BY <1>1, <1>2 DEF IInv, TypeOK
<1>6. \A w \in Wraps : wraps'[w] = "running" <=> OnStack("fin", w)'
  BY <1>4, <1>5 DEF IInv, TypeOK
<1>7. TypeOK'
  BY <1>1, <1>3, <1>5, <1>6, ShapeTyped DEF IInv, TypeOK
<1>8. OutWithinRoom'
  BY <1>1, <1>3 DEF IInv, OutWithinRoom
<1>9. ErrorOnlyInJs'
  <2>1. CASE caller.kind = "fin"
    BY <1>1, <2>1 DEF ErrorOnlyInJs
  <2>2. CASE caller.kind = "call"
    <3>1. stack' # <<>> /\ stack'[Len(stack')] = stack[n - 2] /\ IsJs(stack[n - 2])
      BY <1>2, <1>3, <2>2
    <3>2. status' = "run" => InJs'
      BY <3>1 DEF InJs, Top, IsJs
    <3> QED
      BY <3>2 DEF ErrorOnlyInJs
  <2> QED
    BY <1>2, <2>1, <2>2
<1> QED
  BY <1>3, <1>7, <1>8, <1>9 DEF IInv

-----------------------------------------------------------------------------
(* The theorems.                                                           *)

\* Every step keeps the invariant.
THEOREM NextIInv == IInv /\ [Next]_vars => IInv'
<1> SUFFICES ASSUME IInv, [Next]_vars PROVE IInv'
  OBVIOUS
<1>1. CASE make_nccc_cb \/ destroy_cb_ctx \/ DestroyEnds
  BY <1>1, ContextStep
<1>2. CASE make_nccc_call \/ DropClosure \/ do_free_nccc_call
  BY <1>2, ClosureStep
<1>3. CASE wrap_pointer
  BY <1>3, WrapStep
<1>4. CASE Throw \/ Catch \/ Uncaught \/ UnknownLetter \/ Exit \/ UNCHANGED vars
  BY <1>4, StatusStep
<1>5. CASE Call
  BY <1>5, CallStep
<1>6. CASE StartFinalizer
  BY <1>6, StartFinalizerStep
<1>7. CASE \E a \in Addrs : Dispatch(a)
  BY <1>7, DispatchStep
<1>8. CASE NativeReturn \/ CbReturn \/ MainReturn
  BY <1>8, ReturnStep
<1>9. CASE FinReturn
  BY <1>9, FinReturnStep
<1>10. CASE Unwind
  BY <1>10, UnwindStep
<1> QED
  BY <1>1, <1>2, <1>3, <1>4, <1>5, <1>6, <1>7, <1>8, <1>9, <1>10 DEF Next, Halted

\* The inductive invariant holds in every reachable state.
THEOREM Invariance == Spec => []IInv
BY InitIInv, NextIInv, PTL DEF Spec

\* Types, the alternation of the two sides, and destructors running exactly while their
\* frames are on the stack.
THEOREM TypeCorrect == Spec => []TypeOK
<1>1. IInv => TypeOK
  BY DEF IInv
<1> QED
  BY <1>1, Invariance, PTL

\* What a dispatcher writes fits what its caller allotted.
THEOREM OutCorrect == Spec => []OutWithinRoom
<1>1. IInv => OutWithinRoom
  BY DEF IInv
<1> QED
  BY <1>1, Invariance, PTL

\* Native code never runs with an error in flight.
THEOREM ErrorsCorrect == Spec => []ErrorOnlyInJs
<1>1. IInv => ErrorOnlyInJs
  BY DEF IInv
<1> QED
  BY <1>1, Invariance, PTL

-----------------------------------------------------------------------------
(* The stash.                                                              *)

\* No two addresses agree in the 32 bits Duktape keeps of a property index.
IndexInjective == \A a, b \in Addrs : Index[a] = Index[b] => a = b

\* The addresses whose contexts are being destroyed are still taken.
DyingHeld == \A a \in Addrs : destroying[a] # 0 => ctxs[a] # Free

\* A context is made at a free address; its entry goes first, its memory last.
LEMMA CallbackStep ==
  ASSUME IndexInjective, IInv, RightCallback, DyingHeld, [Next]_vars
  PROVE  RightCallback' /\ DyingHeld'
<1>1. \A a \in Addrs : Index[a] \in Indices
  BY DEF Indices
<1>2. /\ ctxs \in [Addrs -> [outs : OutCounts, fn : Fns] \cup {Free}]
      /\ stash \in [Indices -> Fns \cup {Free}]
      /\ destroying \in [Addrs -> Nat]
  BY DEF IInv, TypeOK
<1>3. CASE make_nccc_cb
  <2>1. PICK a \in Addrs, f \in Fns, n \in OutCounts :
           /\ ctxs[a] = Free
           /\ ctxs' = [ctxs EXCEPT ![a] = [outs |-> n, fn |-> f]]
           /\ stash' = [stash EXCEPT ![Index[a]] = f]
    BY <1>3 DEF make_nccc_cb
  <2>2. [outs |-> n, fn |-> f] \in [outs : OutCounts, fn : Fns]
    OBVIOUS
  <2>3. [outs |-> n, fn |-> f] # Free
    BY <2>2, DukAssumption
  <2>4. /\ \A b \in Addrs : ctxs'[b] = IF b = a THEN [outs |-> n, fn |-> f] ELSE ctxs[b]
        /\ \A i \in Indices : stash'[i] = IF i = Index[a] THEN f ELSE stash[i]
    BY <1>2, <2>1
  <2>5. UNCHANGED destroying /\ destroying[a] = 0
    BY <1>3, <2>1 DEF make_nccc_cb, DyingHeld
  <2>6. ASSUME NEW b \in Addrs, ctxs'[b] # Free
        PROVE  stash'[Index[b]] = IF destroying'[b] # 0 THEN Free ELSE ctxs'[b].fn
    <3>1. CASE b = a
      BY <1>1, <2>4, <2>5, <3>1
    <3>2. CASE b # a
      <4>1. Index[b] # Index[a]
        BY <3>2 DEF IndexInjective
      <4> QED
        BY <1>1, <2>4, <2>5, <2>6, <3>2, <4>1 DEF RightCallback
    <3> QED
      BY <3>1, <3>2
  <2>7. ASSUME NEW i \in Indices, stash'[i] # Free
        PROVE  \E b \in Addrs : Index[b] = i /\ (ctxs'[b] # Free \/ destroying'[b] # 0)
    <3>1. CASE i = Index[a]
      BY <2>3, <2>4, <3>1
    <3>2. CASE i # Index[a]
      BY <2>3, <2>4, <2>5, <2>7, <3>2 DEF RightCallback
    <3> QED
      BY <3>1, <3>2
  <2>8. DyingHeld'
    BY <2>3, <2>4, <2>5 DEF DyingHeld
  <2> QED
    BY <2>6, <2>7, <2>8 DEF RightCallback
<1>4. CASE destroy_cb_ctx
  <2>1. PICK a \in Addrs : /\ ctxs[a] # Free
                           /\ stash' = [stash EXCEPT ![Index[a]] = Free]
                           /\ destroying' = [destroying EXCEPT ![a] = Len(stack)]
    BY <1>4 DEF destroy_cb_ctx, Remove, DestroyOrder
  <2>2. UNCHANGED ctxs
    BY <1>4 DEF destroy_cb_ctx, Remove, DestroyOrder
  <2>3. Len(stack) # 0
    <3>1. stack # <<>>
      BY <1>4 DEF destroy_cb_ctx, JsRuns, NoError, InJs
    <3> QED
      BY <3>1, TopFitted DEF IInv
  <2>4. /\ \A b \in Addrs : destroying'[b] = IF b = a THEN Len(stack) ELSE destroying[b]
        /\ \A i \in Indices : stash'[i] = IF i = Index[a] THEN Free ELSE stash[i]
    BY <1>2, <2>1
  <2>5. ASSUME NEW b \in Addrs, ctxs'[b] # Free
        PROVE  stash'[Index[b]] = IF destroying'[b] # 0 THEN Free ELSE ctxs'[b].fn
    <3>1. CASE b = a
      BY <1>1, <2>3, <2>4, <3>1
    <3>2. CASE b # a
      <4>1. Index[b] # Index[a]
        BY <3>2 DEF IndexInjective
      <4> QED
        BY <1>1, <2>2, <2>4, <2>5, <3>2, <4>1 DEF RightCallback
    <3> QED
      BY <3>1, <3>2
  <2>6. ASSUME NEW i \in Indices, stash'[i] # Free
        PROVE  \E b \in Addrs : Index[b] = i /\ (ctxs'[b] # Free \/ destroying'[b] # 0)
    <3>1. i # Index[a] /\ stash[i] # Free
      BY <2>4, <2>6
    <3> QED
      BY <2>2, <2>4, <3>1 DEF RightCallback
  <2>7. DyingHeld'
    BY <2>1, <2>2, <2>4 DEF DyingHeld
  <2> QED
    BY <2>5, <2>6, <2>7 DEF RightCallback
<1>5. CASE DestroyEnds
  <2>1. PICK a \in Addrs : /\ destroying[a] = Len(stack)
                           /\ ctxs' = [ctxs EXCEPT ![a] = Free]
                           /\ destroying' = [destroying EXCEPT ![a] = 0]
    BY <1>5 DEF DestroyEnds, Remove, DestroyOrder
  <2>2. UNCHANGED stash
    BY <1>5 DEF DestroyEnds, Remove, DestroyOrder
  <2>3. destroying[a] # 0 /\ ctxs[a] # Free
    <3>1. stack # <<>>
      BY <1>5 DEF DestroyEnds, NoError, InJs
    <3> QED
      BY <2>1, <3>1, TopFitted DEF IInv, DyingHeld
  <2>4. \A b \in Addrs : /\ destroying'[b] = IF b = a THEN 0 ELSE destroying[b]
                         /\ ctxs'[b] = IF b = a THEN Free ELSE ctxs[b]
    BY <1>2, <2>1
  <2>5. stash[Index[a]] = Free
    BY <2>3 DEF RightCallback
  <2>6. ASSUME NEW b \in Addrs, ctxs'[b] # Free
        PROVE  stash'[Index[b]] = IF destroying'[b] # 0 THEN Free ELSE ctxs'[b].fn
    <3>1. b # a
      BY <2>4, <2>6
    <3> QED
      BY <2>2, <2>4, <2>6, <3>1 DEF RightCallback
  <2>7. ASSUME NEW i \in Indices, stash'[i] # Free
        PROVE  \E b \in Addrs : Index[b] = i /\ (ctxs'[b] # Free \/ destroying'[b] # 0)
    <3>1. PICK b \in Addrs : Index[b] = i /\ (ctxs[b] # Free \/ destroying[b] # 0)
      BY <2>2, <2>7 DEF RightCallback
    <3>2. b # a
      BY <2>2, <2>5, <2>7, <3>1
    <3> QED
      BY <2>4, <3>1, <3>2
  <2>8. DyingHeld'
    BY <2>4 DEF DyingHeld
  <2> QED
    BY <2>6, <2>7, <2>8 DEF RightCallback
<1>6. CASE UNCHANGED <<ctxs, stash, destroying>>
  BY <1>6 DEF RightCallback, DyingHeld
<1> QED
  BY <1>3, <1>4, <1>5, <1>6 DEF Next, vars, make_nccc_call, wrap_pointer, DropClosure,
     do_free_nccc_call, Call, NativeReturn, StartFinalizer, FinReturn, Dispatch, CbReturn,
     Throw, Catch, Unwind, Uncaught, UnknownLetter, MainReturn, Exit, Halted

\* When addresses have distinct property indices, every live context finds its own
\* callback in the stash until its destruction begins, and no callback is retained for a
\* context that was destroyed.
THEOREM CallbackCorrect == IndexInjective => (Spec => []RightCallback)
<1> SUFFICES ASSUME IndexInjective PROVE Spec => []RightCallback
  OBVIOUS
<1>1. Init => RightCallback /\ DyingHeld
  BY DEF Init, RightCallback, DyingHeld, Indices
<1>2. IInv /\ RightCallback /\ DyingHeld /\ [Next]_vars => RightCallback' /\ DyingHeld'
  BY CallbackStep
<1> QED
  BY <1>1, <1>2, Invariance, PTL DEF Spec

-----------------------------------------------------------------------------
(* The implementation of AbsDuk.                                           *)

SideSet == {"js", "native", "final"}

\* The sides of a stack: as many as frames.
LEMMA SidesOf ==
  ASSUME NEW s \in Seq(DukFrame)
  PROVE  /\ Sides(s) \in Seq(SideSet) /\ Len(Sides(s)) = Len(s) /\ Len(s) \in Nat
         /\ \A i \in 1..Len(s) : Sides(s)[i] = SideOf(s[i])
<1>1. Len(s) \in Nat /\ DOMAIN s = 1..Len(s)
  BY LenProperties
<1>2. Sides(s) \in [1..Len(s) -> SideSet]
  BY <1>1 DEF Sides, SideOf, SideSet
<1>3. Sides(s) \in Seq(SideSet)
  BY <1>1, <1>2, SeqDef
<1>4. DOMAIN Sides(s) = 1..Len(Sides(s)) /\ Len(Sides(s)) \in Nat
  BY <1>3, LenProperties
<1>5. 1..Len(s) = 1..Len(Sides(s))
  BY <1>2, <1>4
<1>6. Len(Sides(s)) = Len(s)
  <2>1. \A a, b \in Nat : 1..a = 1..b => a = b
    OBVIOUS
  <2> QED
    BY <1>1, <1>4, <1>5, <2>1, Zenon
<1> QED
  BY <1>1, <1>3, <1>6 DEF Sides

\* The sides of a stack with one more frame.
LEMMA SidesPush ==
  ASSUME NEW s \in Seq(DukFrame), NEW f \in DukFrame
  PROVE  Sides(Append(s, f)) = Append(Sides(s), SideOf(f))
<1> DEFINE t == Append(s, f)
           u == Append(Sides(s), SideOf(f))
<1>1. /\ t \in Seq(DukFrame) /\ Len(t) = Len(s) + 1 /\ t[Len(s) + 1] = f
      /\ \A i \in 1..Len(s) : t[i] = s[i]
  BY PushFrame
<1>2. /\ Sides(s) \in Seq(SideSet) /\ Len(Sides(s)) = Len(s) /\ Len(s) \in Nat
      /\ \A i \in 1..Len(s) : Sides(s)[i] = SideOf(s[i])
  BY SidesOf
<1>3. SideOf(f) \in SideSet
  BY DEF SideOf, SideSet
<1>4. /\ u \in Seq(SideSet) /\ Len(u) = Len(s) + 1 /\ u[Len(s) + 1] = SideOf(f)
      /\ \A i \in 1..Len(s) : u[i] = Sides(s)[i]
  BY <1>2, <1>3, AppendProperties
<1>5. /\ Sides(t) \in Seq(SideSet) /\ Len(Sides(t)) = Len(t)
      /\ \A i \in 1..Len(t) : Sides(t)[i] = SideOf(t[i])
  BY <1>1, SidesOf
<1> HIDE DEF t, u
<1>6. ASSUME NEW i \in 1..Len(Sides(t)) PROVE Sides(t)[i] = u[i]
  <2>1. CASE i \in 1..Len(s)
    BY <1>1, <1>2, <1>4, <1>5, <2>1
  <2>2. CASE i = Len(s) + 1
    BY <1>1, <1>2, <1>4, <1>5, <2>2
  <2> QED
    BY <1>1, <1>2, <1>5, <2>1, <2>2
<1>7. Sides(t) = u
  BY <1>1, <1>4, <1>5, <1>6, SeqEqual
<1> QED
  BY <1>7 DEF t, u

\* The sides of a stack that is cut back.
LEMMA SidesCut ==
  ASSUME NEW s \in Seq(DukFrame), NEW m \in 0..Len(s)
  PROVE  Sides(SubSeq(s, 1, m)) = SubSeq(Sides(s), 1, m)
<1> DEFINE t == SubSeq(s, 1, m)
           u == SubSeq(Sides(s), 1, m)
<1>1. t \in Seq(DukFrame) /\ Len(t) = m /\ \A i \in 1..m : t[i] = s[i]
  BY CutFrames
<1>2. /\ Sides(s) \in Seq(SideSet) /\ Len(Sides(s)) = Len(s) /\ Len(s) \in Nat
      /\ \A i \in 1..Len(s) : Sides(s)[i] = SideOf(s[i])
  BY SidesOf
<1>3. m \in Nat /\ \A i \in 1..m : Sides(s)[i] \in SideSet
  BY <1>2, ElementOfSeq
<1>4. /\ u \in Seq(SideSet)
      /\ Len(u) = IF 1 <= m THEN m - 1 + 1 ELSE 0
      /\ \A i \in 1..(m - 1 + 1) : u[i] = Sides(s)[1 + i - 1]
  BY <1>3, SubSeqProperties
<1>5. /\ Sides(t) \in Seq(SideSet) /\ Len(Sides(t)) = Len(t)
      /\ \A i \in 1..Len(t) : Sides(t)[i] = SideOf(t[i])
  BY <1>1, SidesOf
<1> HIDE DEF t, u
<1>6. Len(Sides(t)) = Len(u) /\ \A i \in 1..Len(Sides(t)) : Sides(t)[i] = u[i]
  BY <1>1, <1>2, <1>3, <1>4, <1>5
<1>7. Sides(t) = u
  BY <1>4, <1>5, <1>6, SeqEqual
<1> QED
  BY <1>7 DEF t, u

\* What AbsDuk sees of a stack that is not empty.
LEMMA RunningSide ==
  ASSUME IInv, stack # <<>>
  PROVE  /\ stack \in Seq(DukFrame) /\ Len(stack) \in Nat \ {0}
         /\ Sides(stack) # <<>> /\ Len(Sides(stack)) = Len(stack)
         /\ \A i \in 1..Len(stack) : Sides(stack)[i] = SideOf(stack[i])
         /\ status = "run" => Abs!Running(SideOf(Top))
         /\ status = "run" /\ ~IsJs(Top) => Abs!Native
<1>1. stack \in Seq(DukFrame) /\ Len(stack) \in Nat \ {0}
  BY TopFitted DEF IInv, WellShaped
<1>2. /\ Len(Sides(stack)) = Len(stack) /\ Sides(stack) \in Seq(SideSet)
      /\ \A i \in 1..Len(stack) : Sides(stack)[i] = SideOf(stack[i])
  BY <1>1, SidesOf
<1>3. Sides(stack) # <<>>
  BY <1>1, <1>2, EmptySeq
<1>4. status = "run" => Abs!Running(SideOf(Top))
  BY <1>1, <1>2, <1>3 DEF Abs!Running, Top
<1>5. ~IsJs(Top) => SideOf(Top) \in {"native", "final"}
  BY DEF SideOf
<1> QED
  BY <1>1, <1>2, <1>3, <1>4, <1>5 DEF Abs!Native

\* Native code runs with no error in flight, and an empty stack has none.
LEMMA NoErrorBelow ==
  ASSUME IInv, status = "run", stack = <<>> \/ ~IsJs(Top)
  PROVE  exc = NoExc
BY DEF IInv, ErrorOnlyInJs, InJs

\* A frame pushed on the stack is a call.
LEMMA CallSides ==
  ASSUME IInv, Call \/ StartFinalizer \/ \E a \in Addrs : Dispatch(a), UNCHANGED status
  PROVE  Abs!Call
<1>1. PICK f \in DukFrame : /\ stack' = Append(stack, f)
                            /\ status = "run" /\ exc = NoExc /\ UNCHANGED <<exc, status>>
                            /\ \/ /\ stack # <<>> /\ IsJs(Top)
                                  /\ SideOf(f) \in {"native", "final"}
                               \/ stack = <<>> /\ SideOf(f) = "final"
                               \/ stack # <<>> /\ ~IsJs(Top) /\ SideOf(f) = "js"
  <2>1. CASE Call
    <3>1. PICK c \in Closures : stack' = Append(stack, F("call", c, 0))
      BY <2>1 DEF Call
    <3>2. F("call", c, 0) \in DukFrame /\ SideOf(F("call", c, 0)) = "native"
      BY DEF F, DukFrame, SideOf, IsJs
    <3> QED
      BY <2>1, <3>1, <3>2 DEF Call, JsRuns, NoError, InJs
  <2>2. CASE StartFinalizer
    <3>1. PICK w \in Wraps : stack' = Append(stack, F("fin", w, 0))
      BY <2>2 DEF StartFinalizer
    <3>2. F("fin", w, 0) \in DukFrame /\ SideOf(F("fin", w, 0)) = "final"
      BY DEF F, DukFrame, SideOf, IsJs
    <3>3. status = "run" /\ (stack = <<>> \/ IsJs(Top)) /\ exc = NoExc
      BY <2>2, NoErrorBelow DEF StartFinalizer, NoError, InJs
    <3> QED
      BY <2>2, <3>1, <3>2, <3>3 DEF StartFinalizer
  <2>3. CASE \E a \in Addrs : Dispatch(a)
    <3>1. PICK a \in Addrs : Dispatch(a)
      BY <2>3
    <3>2. /\ stack' = Append(stack, F("cb", a, ctxs[a].outs))
          /\ ctxs[a] \in [outs : OutCounts, fn : Fns] /\ UNCHANGED <<exc, status>>
          /\ status = "run" /\ stack # <<>> /\ ~IsJs(Top)
      BY <3>1 DEF IInv, TypeOK, Dispatch, InNative
    <3>3. F("cb", a, ctxs[a].outs) \in DukFrame /\ SideOf(F("cb", a, ctxs[a].outs)) = "js"
      BY <3>2, DukAssumption DEF F, DukFrame, SideOf, IsJs
    <3>4. exc = NoExc
      BY <3>2, NoErrorBelow
    <3> QED
      BY <3>2, <3>3, <3>4
  <2> QED
    BY <2>1, <2>2, <2>3
<1>2. stack \in Seq(DukFrame)
  BY DEF IInv, WellShaped
<1>3. Sides(stack') = Append(Sides(stack), SideOf(f))
  BY <1>1, <1>2, SidesPush
<1>4. CASE stack # <<>>
  <2>1. IsJs(Top) => Abs!Running("js")
    BY <1>1, <1>4, RunningSide DEF SideOf
  <2>2. ~IsJs(Top) => Abs!Native
    BY <1>1, <1>4, RunningSide
  <2> QED
    BY <1>1, <1>3, <1>4, <2>1, <2>2 DEF Abs!Call
<1>5. CASE stack = <<>>
  <2>1. Sides(stack) = <<>>
    BY <1>5 DEF Sides
  <2>2. \A e : Append(<<>>, e) = <<e>>
    OBVIOUS
  <2>3. Sides(stack') = <<"final">>
    BY <1>1, <1>3, <1>5, <2>1, <2>2, Zenon
  <2> QED
    BY <1>1, <1>5, <2>1, <2>3 DEF Abs!Call
<1> QED
  BY <1>4, <1>5

\* A frame popped is a return.
LEMMA ReturnSides ==
  ASSUME IInv, NativeReturn \/ FinReturn \/ CbReturn \/ MainReturn
  PROVE  Abs!Return
<1>1. /\ stack # <<>> /\ status = "run" /\ stack' = Cut(1) /\ exc = NoExc
      /\ UNCHANGED <<exc, status>>
  BY NoErrorBelow DEF NativeReturn, FinReturn, CbReturn, MainReturn, JsRuns, NoError, InNative, InJs
<1>2. /\ stack \in Seq(DukFrame) /\ Len(stack) \in Nat \ {0} /\ Len(Sides(stack)) = Len(stack)
      /\ Abs!Running("js") \/ Abs!Native
  BY <1>1, RunningSide DEF SideOf
<1>3. Len(stack) - 1 \in 0..Len(stack)
  BY <1>2
<1>4. Sides(stack') = SubSeq(Sides(stack), 1, Len(Sides(stack)) - 1)
  BY <1>1, <1>2, <1>3, SidesCut DEF Cut
<1> QED
  BY <1>1, <1>2, <1>4 DEF Abs!Return

\* The nearest JavaScript frame below a callback is just below its native caller.
LEMMA LandingBelow ==
  ASSUME IInv, stack # <<>>, Top.kind = "cb"
  PROVE  /\ Len(stack) \in Nat /\ Len(stack) >= 2
         /\ Abs!Landing = Len(stack) - 2
         /\ Abs!Skipped = {SideOf(stack[Len(stack) - 1])}
<1> DEFINE n == Len(stack)
<1>1. /\ stack \in Seq(DukFrame) /\ n \in Nat \ {0} /\ Len(Sides(stack)) = n
      /\ \A i \in 1..n : Sides(stack)[i] = SideOf(stack[i])
  BY RunningSide
<1>2. /\ n >= 2 /\ stack[n - 1].kind \in {"call", "fin"}
  BY BelowCallback
<1>3. \A i \in 1..n : Fitted(stack, i)
  BY DEF IInv, WellShaped
<1> HIDE DEF n
<1>4. ~IsJs(stack[n - 1])
  BY <1>2 DEF IsJs
<1>5. n - 2 > 0 => IsJs(stack[n - 2])
  <2>1. ASSUME n - 2 > 0 PROVE Fitted(stack, n - 1) /\ n - 1 > 1 /\ n - 1 - 1 = n - 2
    BY <1>1, <1>3, <2>1
  <2> QED
    BY <1>4, <2>1 DEF Fitted
<1> DEFINE P(m) == /\ m > 0 => Sides(stack)[m] = "js"
                   /\ \A i \in (m + 1)..(n - 1) : Sides(stack)[i] # "js"
<1>6. Sides(stack)[n - 1] = SideOf(stack[n - 1]) /\ Sides(stack)[n - 1] # "js"
  BY <1>1, <1>2, <1>4 DEF SideOf
<1>7. n - 2 > 0 => Sides(stack)[n - 2] = "js"
  BY <1>1, <1>2, <1>5 DEF SideOf
<1>8. (n - 1)..(n - 1) = {n - 1} /\ n - 2 \in 0..(n - 1) /\ n - 2 + 1 = n - 1
  BY <1>1, <1>2
<1>9. P(n - 2)
  BY <1>6, <1>7, <1>8
<1>10. ASSUME NEW m \in 0..(n - 1), P(m) PROVE m = n - 2
  <2>1. CASE m > n - 2
    <3>1. m = n - 1 /\ m > 0
      BY <1>1, <1>2, <2>1
    <3> QED
      BY <1>6, <1>10, <3>1
  <2>2. CASE m < n - 2
    <3>1. n - 2 \in (m + 1)..(n - 1) /\ n - 2 > 0
      BY <1>1, <1>2, <2>2
    <3> QED
      BY <1>7, <1>10, <3>1
  <2> QED
    BY <1>1, <1>2, <2>1, <2>2
<1>11. Abs!Landing = CHOOSE m \in 0..(n - 1) : P(m)
  BY <1>1 DEF Abs!Landing
<1>12. Abs!Landing = n - 2
  <2> HIDE DEF P
  <2> QED
    BY <1>8, <1>9, <1>10, <1>11
<1>13. Abs!Skipped = {Sides(stack)[i] : i \in (n - 1)..(n - 1)}
  BY <1>1, <1>8, <1>12 DEF Abs!Skipped
<1>14. Abs!Skipped = {SideOf(stack[n - 1])}
  BY <1>6, <1>8, <1>13
<1> QED
  BY <1>1, <1>2, <1>12, <1>14 DEF n

\* Duktape's jump over the dispatcher and its native caller is the unwinding of AbsDuk.
LEMMA UnwindSides ==
  ASSUME IInv, Unwind
  PROVE  Abs!Unwind
<1> DEFINE n == Len(stack)
           caller == stack[n - 1]
<1>1. /\ stack # <<>> /\ status = "run" /\ IsJs(Top) /\ Top.kind = "cb" /\ exc # NoExc
      /\ stack' = Cut(2) /\ exc' = IF caller.kind = "fin" THEN NoExc ELSE exc
      /\ status' = status
  BY DEF Unwind, InJs, FramesSkipped, ErrorAfter
<1>2. /\ stack \in Seq(DukFrame) /\ n \in Nat \ {0} /\ Len(Sides(stack)) = n
      /\ Abs!Running("js")
  BY <1>1, RunningSide DEF SideOf
<1>3. n >= 2 /\ Abs!Landing = n - 2 /\ Abs!Skipped = {SideOf(caller)}
  BY <1>1, LandingBelow
<1>4. caller.kind \in {"call", "fin"}
  BY <1>1, BelowCallback
<1>5. "final" \in Abs!Skipped <=> caller.kind = "fin"
  BY <1>3, <1>4 DEF SideOf, IsJs
<1>6. n - 2 \in 0..n
  BY <1>2, <1>3
<1>7. Sides(stack') = SubSeq(Sides(stack), 1, Abs!Landing)
  BY <1>1, <1>2, <1>3, <1>6, SidesCut DEF Cut
<1> QED
  BY <1>1, <1>2, <1>3, <1>5, <1>7 DEF Abs!Unwind

\* The process stops with an error only where the script has let it go.
LEMMA StopSides ==
  ASSUME IInv, Uncaught \/ UnknownLetter \/ Exit \/ \E a \in Addrs : Dispatch(a),
         status' # status
  PROVE  Abs!Stop
<1>1. UNCHANGED <<stack, exc>> /\ status = "run" /\ status' \in {"fatal", "abort", "exit"}
  BY DEF Uncaught, UnknownLetter, Exit, Dispatch, InJs, JsRuns, NoError, InNative
<1>2. UNCHANGED Sides(stack)
  BY <1>1 DEF Sides, SideOf, IsJs
<1>3. exc # NoExc => Sides(stack) = <<"js">>
  <2>1. SUFFICES ASSUME exc # NoExc PROVE Sides(stack) = <<"js">>
    OBVIOUS
  <2>2. stack # <<>> /\ Top.kind = "main"
    BY <1>1, <2>1, NoErrorBelow DEF Uncaught, UnknownLetter, Exit, Dispatch, InJs, JsRuns, NoError, InNative
  <2>3. /\ Len(stack) \in Nat \ {0} /\ Len(Sides(stack)) = Len(stack)
        /\ \A i \in 1..Len(stack) : Sides(stack)[i] = SideOf(stack[i])
    BY <2>2, RunningSide
  <2>4. Len(stack) = 1
    BY <2>2, TopFitted DEF IInv, Fitted, Top
  <2>5. Sides(stack)[1] = "js"
    BY <2>2, <2>3, <2>4 DEF SideOf, IsJs, Top
  <2>6. Sides(stack) \in Seq(SideSet)
    BY SidesOf DEF IInv, WellShaped
  <2> QED
    BY <2>3, <2>4, <2>5, <2>6
<1> QED
  BY <1>1, <1>2, <1>3 DEF Abs!Stop

\* Errors that are thrown and caught are so in AbsDuk.
LEMMA ThrowSides ==
  ASSUME IInv, Throw \/ Catch
  PROVE  Abs!Throw \/ Abs!Catch
<1>1. stack # <<>> /\ status = "run" /\ IsJs(Top) /\ UNCHANGED <<stack, status>>
  BY DEF Throw, Catch, JsRuns, NoError, InJs
<1>2. Abs!Running("js")
  BY <1>1, RunningSide DEF SideOf
<1>3. UNCHANGED Sides(stack)
  BY <1>1 DEF Sides, SideOf, IsJs
<1> QED
  BY <1>1, <1>2, <1>3 DEF Throw, Catch, JsRuns, NoError, Abs!Throw, Abs!Catch

\* Every step of DukBridge is one of AbsDuk or a stuttering step of it.
LEMMA StepSimulates == IInv /\ [Next]_vars => [Abs!Next]_(Abs!vars)
<1> SUFFICES ASSUME IInv, [Next]_vars PROVE [Abs!Next]_(Abs!vars)
  OBVIOUS
<1>1. CASE Call \/ StartFinalizer
  <2>1. UNCHANGED status
    BY <1>1 DEF Call, StartFinalizer
  <2> QED
    BY <1>1, <2>1, CallSides DEF Abs!Next
<1>2. CASE \E a \in Addrs : Dispatch(a)
  BY <1>2, CallSides, StopSides DEF Abs!Next
<1>3. CASE NativeReturn \/ FinReturn \/ CbReturn \/ MainReturn
  BY <1>3, ReturnSides DEF Abs!Next
<1>4. CASE Throw \/ Catch
  BY <1>4, ThrowSides DEF Abs!Next
<1>5. CASE Unwind
  BY <1>5, UnwindSides DEF Abs!Next
<1>6. CASE Uncaught \/ UnknownLetter \/ Exit
  <2>1. status' # status
    BY <1>6 DEF Uncaught, UnknownLetter, Exit, InJs, InNative, JsRuns, NoError
  <2> QED
    BY <1>6, <2>1, StopSides DEF Abs!Next
<1>7. CASE \/ make_nccc_cb \/ destroy_cb_ctx \/ DestroyEnds \/ make_nccc_call
           \/ wrap_pointer \/ DropClosure \/ do_free_nccc_call \/ Halted \/ UNCHANGED vars
  <2>1. UNCHANGED <<stack, exc, status>>
    BY <1>7 DEF make_nccc_cb, destroy_cb_ctx, DestroyEnds, make_nccc_call, wrap_pointer, DropClosure,
            do_free_nccc_call, Halted, vars
  <2>2. UNCHANGED <<Sides(stack), exc, status # "run">>
    BY <2>1 DEF Sides, SideOf, IsJs
  <2> QED
    BY <2>2 DEF Abs!vars
<1> QED
  BY <1>1, <1>2, <1>3, <1>4, <1>5, <1>6, <1>7 DEF Next

\* For every set of addresses, closures, objects and errors: an error comes out of the
\* innermost native call, in the JavaScript frame that made it, ends at a finalizer, or is
\* the end of the process because the script itself let it go.
THEOREM Implementation == Spec => ImplementsAbsDuk
<1>1. Init => Abs!Init
  <2> SUFFICES ASSUME Init PROVE Abs!Init
    OBVIOUS
  <2>1. stack = <<F("main", Free, 0)>> /\ IsJs(F("main", Free, 0))
    BY DEF Init, IsJs, F
  <2>2. Sides(stack) = <<"js">>
    BY <2>1 DEF Sides, SideOf
  <2> QED
    BY <2>2 DEF Init, Abs!Init
<1>2. IInv /\ [Next]_vars => [Abs!Next]_(Abs!vars)
  BY StepSimulates
<1> QED
  BY <1>1, <1>2, Invariance, PTL DEF Spec, ImplementsAbsDuk, Abs!Spec
=============================================================================
