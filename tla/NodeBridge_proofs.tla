------------------------- MODULE NodeBridge_proofs -------------------------
(***************************************************************************)
(* Proofs about NodeBridge: every invariant the runs check, the action     *)
(* property, and that NodeBridge implements AbsBridge, for every set of    *)
(* addresses, values and exceptions and every bound.                       *)
(*                                                                         *)
(* The call depth alone does not tell where the jump buffer points, nor    *)
(* the buffer what lies below it.  The inductive invariant adds the shape  *)
(* of the stack: JavaScript and native frames alternate, and only the      *)
(* outermost frame is a task or a destructor.  From it follows that the    *)
(* frame below the outermost trampoline is a JavaScript frame, and that    *)
(* with no trampoline on the stack a callback was called by a destructor.  *)
(***************************************************************************)
EXTENDS NodeBridge, FiniteSetTheorems, SequenceTheorems, TLAPS

-----------------------------------------------------------------------------
(* Facts about sequences of frames.                                        *)

\* The positions of the frames of one kind are a finite set, no larger than the stack.
LEMMA FramesFinite ==
  ASSUME NEW s \in Seq(Frame), NEW k
  PROVE  /\ IsFiniteSet(FramesIn(s, k))
         /\ Cardinality(FramesIn(s, k)) \in 0..Len(s)
<1>1. Len(s) \in Nat
  BY LenProperties
<1>2. IsFiniteSet(1..Len(s)) /\ Cardinality(1..Len(s)) = Len(s)
  BY <1>1, FS_Interval
<1>3. FramesIn(s, k) \in SUBSET (1..Len(s))
  BY DEF FramesIn
<1>4. IsFiniteSet(FramesIn(s, k)) /\ Cardinality(FramesIn(s, k)) <= Len(s)
  BY <1>2, <1>3, FS_Subset
<1>5. Cardinality(FramesIn(s, k)) \in Nat
  BY <1>4, FS_CardinalityType
<1> QED
  BY <1>1, <1>4, <1>5

\* Pushing a frame adds one to the frames of its kind.
LEMMA PushFrame ==
  ASSUME NEW s \in Seq(Frame), NEW f \in Frame
  PROVE  LET t == Append(s, f) IN
         /\ t \in Seq(Frame) /\ t # <<>> /\ Len(t) = Len(s) + 1
         /\ \A i \in 1..Len(s) : t[i] = s[i]
         /\ t[Len(s) + 1] = f
         /\ \A k : /\ FramesIn(t, k) = IF f.kind = k THEN FramesIn(s, k) \cup {Len(s) + 1}
                                                      ELSE FramesIn(s, k)
                   /\ Cardinality(FramesIn(t, k)) =
                         Cardinality(FramesIn(s, k)) + IF f.kind = k THEN 1 ELSE 0
<1> DEFINE t == Append(s, f)
<1>1. /\ t \in Seq(Frame) /\ t # <<>> /\ Len(t) = Len(s) + 1
      /\ \A i \in 1..Len(s) : t[i] = s[i]
      /\ t[Len(s) + 1] = f
  BY AppendProperties
<1>2. Len(s) \in Nat
  BY LenProperties
<1> HIDE DEF t
<1>3. ASSUME NEW k
      PROVE  /\ FramesIn(t, k) = IF f.kind = k THEN FramesIn(s, k) \cup {Len(s) + 1}
                                               ELSE FramesIn(s, k)
             /\ Cardinality(FramesIn(t, k)) =
                   Cardinality(FramesIn(s, k)) + IF f.kind = k THEN 1 ELSE 0
  <2>1. FramesIn(t, k) = IF f.kind = k THEN FramesIn(s, k) \cup {Len(s) + 1}
                                       ELSE FramesIn(s, k)
    BY <1>1, <1>2 DEF FramesIn
  <2>2. Len(s) + 1 \notin FramesIn(s, k)
    BY <1>2 DEF FramesIn
  <2>3. IsFiniteSet(FramesIn(s, k)) /\ Cardinality(FramesIn(s, k)) \in Nat
    BY <1>2, FramesFinite
  <2>4. Cardinality(FramesIn(s, k) \cup {Len(s) + 1}) = Cardinality(FramesIn(s, k)) + 1
    BY <2>2, <2>3, FS_AddElement
  <2> QED
    BY <2>1, <2>3, <2>4
<1> QED
  BY <1>1, <1>3 DEF t

\* Cutting the stack back to its first m frames keeps the frames at those positions.
LEMMA CutFrames ==
  ASSUME NEW s \in Seq(Frame), NEW m \in 0..Len(s)
  PROVE  LET t == SubSeq(s, 1, m) IN
         /\ t \in Seq(Frame) /\ Len(t) = m
         /\ m = 0 <=> t = <<>>
         /\ \A i \in 1..m : t[i] = s[i]
         /\ \A k : FramesIn(t, k) = {i \in FramesIn(s, k) : i <= m}
<1> DEFINE t == SubSeq(s, 1, m)
<1>1. Len(s) \in Nat /\ m \in Nat
  BY LenProperties
<1>2. \A i \in 1..m : s[i] \in Frame
  BY <1>1, ElementOfSeq
<1>3. /\ t \in Seq(Frame)
      /\ Len(t) = IF 1 <= m THEN m - 1 + 1 ELSE 0
      /\ \A i \in 1..(m - 1 + 1) : t[i] = s[1 + i - 1]
  BY <1>1, <1>2, SubSeqProperties
<1> QED
  BY <1>1, <1>3, EmptySeq DEF FramesIn

\* Popping the top frame takes one from the frames of its kind.
LEMMA PopFrame ==
  ASSUME NEW s \in Seq(Frame), s # <<>>
  PROVE  LET t == SubSeq(s, 1, Len(s) - 1) IN
         /\ t \in Seq(Frame) /\ Len(t) = Len(s) - 1 /\ Len(s) \in Nat \ {0}
         /\ \A i \in 1..(Len(s) - 1) : t[i] = s[i]
         /\ \A k : /\ FramesIn(t, k) = FramesIn(s, k) \ {Len(s)}
                   /\ Cardinality(FramesIn(t, k)) =
                         Cardinality(FramesIn(s, k)) - IF s[Len(s)].kind = k THEN 1 ELSE 0
<1> DEFINE t == SubSeq(s, 1, Len(s) - 1)
<1>1. Len(s) \in Nat \ {0}
  BY EmptySeq
<1>2. /\ t \in Seq(Frame) /\ Len(t) = Len(s) - 1
      /\ \A i \in 1..(Len(s) - 1) : t[i] = s[i]
      /\ \A k : FramesIn(t, k) = {i \in FramesIn(s, k) : i <= Len(s) - 1}
  <2>1. Len(s) - 1 \in 0..Len(s)
    BY <1>1
  <2> QED
    BY <2>1, CutFrames
<1> HIDE DEF t
<1>3. ASSUME NEW k
      PROVE  /\ FramesIn(t, k) = FramesIn(s, k) \ {Len(s)}
             /\ Cardinality(FramesIn(t, k)) =
                   Cardinality(FramesIn(s, k)) - IF s[Len(s)].kind = k THEN 1 ELSE 0
  <2>1. FramesIn(t, k) = FramesIn(s, k) \ {Len(s)}
    BY <1>1, <1>2 DEF FramesIn
  <2>2. Len(s) \in FramesIn(s, k) <=> s[Len(s)].kind = k
    BY <1>1 DEF FramesIn
  <2>3. IsFiniteSet(FramesIn(s, k)) /\ Cardinality(FramesIn(s, k)) \in Nat
    BY <1>1, FramesFinite
  <2>4. Cardinality(FramesIn(s, k) \ {Len(s)}) =
           IF Len(s) \in FramesIn(s, k) THEN Cardinality(FramesIn(s, k)) - 1
                                        ELSE Cardinality(FramesIn(s, k))
    BY <2>3, FS_RemoveElement
  <2> QED
    BY <2>1, <2>2, <2>3, <2>4
<1> QED
  BY <1>1, <1>2, <1>3 DEF t

-----------------------------------------------------------------------------
(* The inductive invariant.                                                *)

\* Only the outermost frame is a task or a destructor; JavaScript and native frames
\* alternate; a destructor's value is one of Wraps; a callback's captured output count
\* is what its caller allotted.
Shape ==
    /\ Len(stack) <= MaxStack
    /\ \A i \in 1..Len(stack) :
          /\ stack[i].kind \in {"task", "fin"} <=> i = 1
          /\ i > 1 => (IsJs(stack[i]) <=> ~IsJs(stack[i - 1]))
          /\ stack[i].kind = "fin" => stack[i].wrap \in Wraps
          /\ stack[i].outcount = stack[i].room

\* The invariants the runs check, and the shape of the stack.
IInv == /\ TypeOK
        /\ Shape
        /\ CallDepthMatches
        /\ LongjmpTargetLive
        /\ NoPendingIntoNative
        /\ DispatcherScopesOpen
        /\ OutWithinRoom
        /\ ParamsMatchFin

\* The invariant holds when the module is loaded: nothing is on the stack.
THEOREM InitIInv == Init => IInv
<1> SUFFICES ASSUME Init PROVE IInv
  OBVIOUS
<1> USE NodeAssumption
<1>1. stack = <<>> /\ stack \in Seq(Frame) /\ Len(stack) = 0
  BY EmptySeq DEF Init
<1>2. \A k : FramesOf(k) = {} /\ Cardinality(FramesOf(k)) = 0
  BY <1>1, FS_EmptySet DEF FramesOf, FramesIn
<1>3. TypeOK
  <2>1. out \in [room : Nat, wrote : Nat, array : BOOLEAN] /\ aborted \in BOOLEAN
    BY DEF Init
  <2>2. ctxs \in [Addrs -> OutCounts \cup {Free}]
    BY DEF Init
  <2>3. wraps \in [Wraps -> {"none", "live", "running"}]
    BY DEF Init
  <2> QED
    BY <1>1, <2>1, <2>2, <2>3 DEF Init, TypeOK
<1>4. Shape
  BY <1>1 DEF Shape
<1>5. CallDepthMatches /\ LongjmpTargetLive /\ DispatcherScopesOpen /\ ParamsMatchFin
  BY <1>2 DEF Init, CallDepthMatches, LongjmpTargetLive, DispatcherScopesOpen,
              ParamsMatchFin
<1>6. NoPendingIntoNative /\ OutWithinRoom
  BY DEF Init, NoPendingIntoNative, OutWithinRoom
<1> QED
  BY <1>3, <1>4, <1>5, <1>6 DEF IInv

\* What a step that leaves the stack, the two statics and the scopes alone must still show.
LEMMA SameStack ==
  ASSUME IInv, TypeOK', NoPendingIntoNative', OutWithinRoom', ParamsMatchFin',
         UNCHANGED <<stack, calldepth, jmpbuf, scopes>>
  PROVE  IInv'
BY DEF IInv, Shape, CallDepthMatches, LongjmpTargetLive, DispatcherScopesOpen, FramesOf,
       FramesIn, IsJs

\* make_nccc_cb only adds a context.
LEMMA MakeCbStep == ASSUME IInv, MakeCb PROVE IInv'
<1>1. TypeOK'
  BY DEF IInv, TypeOK, MakeCb
<1> QED
  BY <1>1, SameStack DEF IInv, MakeCb, NoPendingIntoNative, InNative, Top, OutWithinRoom,
                         ParamsMatchFin, FramesOf

\* nccc_destroy_cb_ctx only takes a context away.
LEMMA DestroyCbStep == ASSUME IInv, DestroyCb PROVE IInv'
<1>1. TypeOK'
  BY DEF IInv, TypeOK, DestroyCb
<1> QED
  BY <1>1, SameStack DEF IInv, DestroyCb, NoPendingIntoNative, InNative, Top,
                         OutWithinRoom, ParamsMatchFin, FramesOf

\* nccc_wrap_pointer makes a value that is live and not being finalized.
LEMMA WrapPointerStep == ASSUME IInv, WrapPointer PROVE IInv'
<1>1. TypeOK'
  BY DEF IInv, TypeOK, WrapPointer
<1>2. ParamsMatchFin'
  BY DEF IInv, TypeOK, WrapPointer, ParamsMatchFin, FramesOf
<1> QED
  BY <1>1, <1>2, SameStack DEF IInv, WrapPointer, NoPendingIntoNative, InNative, Top,
                               OutWithinRoom

\* A step of JavaScript that only touches the pending exception or aborts.
LEMMA ExceptionStep ==
  ASSUME IInv, JsThrow \/ JsCatch \/ BadValue \/ ReportUncaught \/ Halted
  PROVE  IInv'
<1>1. TypeOK'
  BY DEF IInv, TypeOK, JsThrow, JsCatch, BadValue, ReportUncaught, Halted, vars
<1>2. NoPendingIntoNative'
  BY DEF IInv, JsThrow, JsCatch, BadValue, ReportUncaught, Halted, vars,
         NoPendingIntoNative, InNative, InJs, Top, IsJs
<1>3. UNCHANGED <<stack, calldepth, jmpbuf, scopes, out, wraps>>
  BY DEF JsThrow, JsCatch, BadValue, ReportUncaught, Halted, vars
<1> QED
  BY <1>1, <1>2, <1>3, SameStack DEF IInv, OutWithinRoom, ParamsMatchFin, FramesOf

\* A dispatcher that finds an exception pending touches out or aborts.
LEMMA PendingDispatchStep ==
  ASSUME IInv, NEW c \in Addrs, PendingDispatch(c)
  PROVE  IInv'
<1> USE NodeAssumption
<1>1. ctxs[c] \in Nat
  BY DEF IInv, TypeOK, PendingDispatch
<1>2. TypeOK'
  <2>1. FirstCell(ctxs[c]) \in Nat
    BY <1>1 DEF FirstCell
  <2>2. ClearedOut(ctxs[c], ctxs[c]) \in [room : Nat, wrote : Nat, array : BOOLEAN]
    BY <1>1, <2>1 DEF ClearedOut
  <2>3. out' \in [room : Nat, wrote : Nat, array : BOOLEAN]
    BY <2>2 DEF IInv, TypeOK, PendingDispatch
  <2>4. aborted' \in BOOLEAN
    BY DEF IInv, TypeOK, PendingDispatch
  <2> QED
    BY <2>3, <2>4 DEF IInv, TypeOK, PendingDispatch
<1>3. OutWithinRoom'
  BY <1>1 DEF IInv, OutWithinRoom, PendingDispatch, ClearedOut, FirstCell
<1> QED
  BY <1>2, <1>3, SameStack DEF IInv, PendingDispatch, NoPendingIntoNative, InNative, Top,
                               ParamsMatchFin, FramesOf

-----------------------------------------------------------------------------
(* Steps that push a frame.                                                *)

\* What a step that leaves contexts and the abort flag alone must show to keep its types.
LEMMA TypeStep ==
  ASSUME TypeOK, UNCHANGED <<exc, ctxs, aborted>>,
         stack' \in Seq(Frame), calldepth' \in 0..MaxStack, jmpbuf' \in Nat, scopes' \in Nat,
         wraps' \in [Wraps -> {"none", "live", "running"}],
         out' \in [room : Nat, wrote : Nat, array : BOOLEAN]
  PROVE  TypeOK'
<1>1. exc' \in Excs \cup {NoExc}
  BY DEF TypeOK
<1>2. ctxs' \in [Addrs -> OutCounts \cup {Free}]
  BY DEF TypeOK
<1>3. aborted' \in BOOLEAN
  BY DEF TypeOK
<1> QED
  BY <1>1, <1>2, <1>3, Zenon DEF TypeOK

\* The frames the actions push are frames.
LEMMA FrameTypes ==
  /\ \A k \in Kinds : Plain(k) \in Frame
  /\ \A w \in Wraps : FinFrame(w) \in Frame
  /\ \A c \in Addrs : ctxs[c] \in Nat => CbFrame(c) \in Frame
BY DEF Frame, Kinds, Plain, FinFrame, CbFrame

\* A stack of the right shape keeps it when the other side is called.
LEMMA ShapePush ==
  ASSUME TypeOK, Shape, NEW f \in Frame, stack' = Append(stack, f),
         Len(stack) < MaxStack, f.outcount = f.room,
         \/ /\ stack = <<>> /\ f.kind \in {"task", "fin"}
            /\ f.kind = "fin" => f.wrap \in Wraps
         \/ /\ stack # <<>> /\ f.kind \notin {"task", "fin"}
            /\ IsJs(f) <=> ~IsJs(Top)
  PROVE  Shape'
<1>1. stack \in Seq(Frame)
  BY DEF TypeOK
<1>2. Len(stack) \in Nat /\ (stack # <<>> => Len(stack) > 0) /\ Len(<<>>) = 0
  BY <1>1, LenProperties, EmptySeq
<1>3. /\ Len(stack') = Len(stack) + 1
      /\ \A i \in 1..Len(stack) : stack'[i] = stack[i]
      /\ stack'[Len(stack) + 1] = f
  BY <1>1, PushFrame
<1>4. Len(stack') <= MaxStack
  BY <1>2, <1>3, NodeAssumption
<1>5. ASSUME NEW i \in 1..Len(stack')
      PROVE  /\ stack'[i].kind \in {"task", "fin"} <=> i = 1
             /\ i > 1 => (IsJs(stack'[i]) <=> ~IsJs(stack'[i - 1]))
             /\ stack'[i].kind = "fin" => stack'[i].wrap \in Wraps
             /\ stack'[i].outcount = stack'[i].room
  <2>1. CASE i \in 1..Len(stack)
    <3>1. stack'[i] = stack[i] /\ (i > 1 => stack'[i - 1] = stack[i - 1])
      BY <1>2, <1>3, <2>1
    <3> QED
      BY <2>1, <3>1 DEF Shape
  <2>2. CASE i = Len(stack) + 1
    <3>1. stack'[i] = f /\ (i > 1 => stack'[i - 1] = Top)
      BY <1>2, <1>3, <2>2 DEF Top
    <3>2. i = 1 <=> stack = <<>>
      BY <1>2, <2>2
    <3> QED
      BY <3>1, <3>2
  <2> QED
    BY <1>2, <1>3, <2>1, <2>2
<1> QED
  BY <1>4, <1>5 DEF Shape, IsJs

\* The event loop starts a task on an empty stack.
LEMMA StartTaskStep == ASSUME IInv, StartTask PROVE IInv'
<1> DEFINE f == Plain("task")
<1>1. /\ f \in Frame /\ f.kind = "task" /\ f.outcount = f.room
  BY FrameTypes DEF Kinds, Plain
<1>2. stack = <<>> /\ Len(stack) = 0
  BY EmptySeq DEF StartTask
<1>3. stack' = Append(stack, f)
  BY <1>2 DEF StartTask
<1> HIDE DEF f
<1>0. stack \in Seq(Frame)
  BY DEF IInv, TypeOK
<1>4. /\ stack' \in Seq(Frame) /\ Len(stack') = Len(stack) + 1
      /\ stack'[Len(stack) + 1] = f
      /\ \A k : /\ FramesIn(stack', k) = IF f.kind = k THEN FramesIn(stack, k) \cup {Len(stack) + 1}
                                                       ELSE FramesIn(stack, k)
                /\ Cardinality(FramesIn(stack', k)) =
                      Cardinality(FramesIn(stack, k)) + IF f.kind = k THEN 1 ELSE 0
  BY <1>1, <1>3, <1>0, PushFrame
<1>5. \A k : FramesIn(stack, k) = {} /\ Cardinality(FramesIn(stack, k)) = 0
  BY <1>2, FS_EmptySet DEF FramesIn
<1>6. Shape'
  BY <1>1, <1>2, <1>3, ShapePush DEF IInv, StartTask
<1>7. TypeOK'
  <2>1. UNCHANGED <<calldepth, jmpbuf, scopes, exc, ctxs, wraps, out, aborted>>
    BY DEF StartTask
  <2>2. /\ calldepth' \in 0..MaxStack /\ jmpbuf' \in Nat /\ scopes' \in Nat
        /\ wraps' \in [Wraps -> {"none", "live", "running"}]
        /\ out' \in [room : Nat, wrote : Nat, array : BOOLEAN]
    BY <2>1 DEF IInv, TypeOK
  <2> QED
    BY <1>4, <2>1, <2>2, TypeStep DEF IInv
<1>8. CallDepthMatches' /\ LongjmpTargetLive' /\ DispatcherScopesOpen'
  BY <1>1, <1>4, <1>5 DEF IInv, CallDepthMatches, LongjmpTargetLive, DispatcherScopesOpen,
                          FramesOf, StartTask
<1>9. ParamsMatchFin'
  BY <1>1, <1>4, <1>5 DEF IInv, ParamsMatchFin, FramesOf, StartTask
<1>10. NoPendingIntoNative' /\ OutWithinRoom'
  BY DEF IInv, NoPendingIntoNative, OutWithinRoom, StartTask
<1> QED
  BY <1>6, <1>7, <1>8, <1>9, <1>10 DEF IInv

\* do_finalize starts on an empty stack.
LEMMA StartFinalizerStep == ASSUME IInv, StartFinalizer PROVE IInv'
<1>w. PICK w \in Wraps : /\ wraps[w] = "live"
                         /\ wraps' = [wraps EXCEPT ![w] = "running"]
                         /\ stack' = <<FinFrame(w)>>
  BY DEF StartFinalizer
<1> DEFINE f == FinFrame(w)
<1>1. /\ f \in Frame /\ f.kind = "fin" /\ f.outcount = f.room /\ f.wrap = w
  BY FrameTypes DEF FinFrame
<1>2. stack = <<>> /\ Len(stack) = 0
  BY EmptySeq DEF StartFinalizer
<1>3. stack' = Append(stack, f)
  BY <1>2, <1>w
<1> HIDE DEF f
<1>0. stack \in Seq(Frame)
  BY DEF IInv, TypeOK
<1>4. /\ stack' \in Seq(Frame) /\ Len(stack') = Len(stack) + 1
      /\ stack'[Len(stack) + 1] = f
      /\ \A k : /\ FramesIn(stack', k) = IF f.kind = k THEN FramesIn(stack, k) \cup {Len(stack) + 1}
                                                       ELSE FramesIn(stack, k)
                /\ Cardinality(FramesIn(stack', k)) =
                      Cardinality(FramesIn(stack, k)) + IF f.kind = k THEN 1 ELSE 0
  BY <1>1, <1>3, <1>0, PushFrame
<1>5. \A k : FramesIn(stack, k) = {} /\ Cardinality(FramesIn(stack, k)) = 0
  BY <1>2, FS_EmptySet DEF FramesIn
<1>6. Shape'
  BY <1>1, <1>2, <1>3, ShapePush DEF IInv, StartFinalizer
<1>7. TypeOK'
  <2>1. wraps' \in [Wraps -> {"none", "live", "running"}]
    BY <1>w DEF IInv, TypeOK
  <2>2. UNCHANGED <<calldepth, jmpbuf, scopes, exc, ctxs, out, aborted>>
    BY DEF StartFinalizer
  <2>3. /\ calldepth' \in 0..MaxStack /\ jmpbuf' \in Nat /\ scopes' \in Nat
        /\ out' \in [room : Nat, wrote : Nat, array : BOOLEAN]
    BY <2>2 DEF IInv, TypeOK
  <2> QED
    BY <1>4, <2>1, <2>2, <2>3, TypeStep DEF IInv
<1>8. CallDepthMatches' /\ LongjmpTargetLive' /\ DispatcherScopesOpen'
  BY <1>1, <1>4, <1>5 DEF IInv, CallDepthMatches, LongjmpTargetLive, DispatcherScopesOpen,
                          FramesOf, StartFinalizer
<1>9. ParamsMatchFin'
  <2>1. FramesOf("fin")' = {1} /\ stack'[1].wrap = w
    BY <1>1, <1>2, <1>4, <1>5 DEF FramesOf
  <2>2. \A v \in Wraps : wraps[v] # "running"
    BY <1>5 DEF IInv, ParamsMatchFin, FramesOf
  <2> QED
    BY <1>w, <2>1, <2>2 DEF IInv, TypeOK, ParamsMatchFin
<1>10. NoPendingIntoNative' /\ OutWithinRoom'
  BY DEF IInv, NoPendingIntoNative, OutWithinRoom, StartFinalizer
<1> QED
  BY <1>6, <1>7, <1>8, <1>9, <1>10 DEF IInv

\* The trampoline counts itself and, as the outermost one, saves the jump buffer.
LEMMA JsCallStep == ASSUME IInv, JsCall PROVE IInv'
<1> DEFINE f == Plain("call")
<1>1. f \in Frame /\ f.kind = "call" /\ f.outcount = f.room
  BY FrameTypes DEF Kinds, Plain
<1>2. stack' = Append(stack, f)
  BY DEF JsCall
<1> HIDE DEF f
<1>3. stack \in Seq(Frame) /\ stack # <<>> /\ IsJs(Top) /\ Len(stack) < MaxStack
  BY DEF IInv, TypeOK, JsCall, InJs
<1>4. /\ stack' \in Seq(Frame) /\ Len(stack') = Len(stack) + 1
      /\ \A i \in 1..Len(stack) : stack'[i] = stack[i]
      /\ stack'[Len(stack) + 1] = f
      /\ \A k : /\ FramesIn(stack', k) = IF f.kind = k THEN FramesIn(stack, k) \cup {Len(stack) + 1}
                                                       ELSE FramesIn(stack, k)
                /\ Cardinality(FramesIn(stack', k)) =
                      Cardinality(FramesIn(stack, k)) + IF f.kind = k THEN 1 ELSE 0
  BY <1>1, <1>2, <1>3, PushFrame
<1>5. Len(stack) \in Nat
  BY <1>3, LenProperties
<1>6. Cardinality(FramesOf("call")) \in 0..Len(stack) /\ IsFiniteSet(FramesOf("call"))
  BY <1>3, FramesFinite DEF FramesOf
<1>7. /\ FramesOf("call")' = FramesOf("call") \cup {Len(stack) + 1}
      /\ Cardinality(FramesOf("call")') = Cardinality(FramesOf("call")) + 1
      /\ FramesOf("fin")' = FramesOf("fin") /\ FramesOf("cb")' = FramesOf("cb")
  BY <1>1, <1>4 DEF FramesOf
<1>8. Shape'
  <2>1. f.kind \notin {"task", "fin"} /\ ~IsJs(f)
    BY <1>1 DEF IsJs
  <2> QED
    BY <1>1, <1>2, <1>3, <2>1, ShapePush DEF IInv
<1>9. CallDepthMatches'
  BY <1>7 DEF IInv, CallDepthMatches, JsCall
<1>10. LongjmpTargetLive'
  <2>1. CASE calldepth = 0
    <3>1. FramesOf("call") = {}
      BY <1>6, <2>1, FS_EmptySet DEF IInv, CallDepthMatches
    <3>2. jmpbuf' = Len(stack) + 1
      BY <2>1 DEF JsCall, SavedJmpbuf
    <3> QED
      BY <1>5, <1>7, <3>1, <3>2 DEF LongjmpTargetLive
  <2>2. CASE calldepth # 0
    <3>1. jmpbuf' = jmpbuf
      BY <2>2 DEF JsCall, SavedJmpbuf
    <3>2. /\ jmpbuf \in FramesOf("call") /\ \A i \in FramesOf("call") : jmpbuf <= i
          /\ jmpbuf \in 1..Len(stack)
      BY <2>2 DEF IInv, LongjmpTargetLive, FramesOf, FramesIn
    <3>3. \A i \in FramesOf("call") \cup {Len(stack) + 1} : jmpbuf <= i
      BY <1>5, <3>2
    <3> QED
      BY <1>7, <3>1, <3>2, <3>3 DEF LongjmpTargetLive
  <2> QED
    BY <2>1, <2>2
<1>11. TypeOK'
  <2>1. UNCHANGED <<scopes, exc, ctxs, wraps, out, aborted>>
    BY DEF JsCall
  <2>2. calldepth' \in 0..MaxStack
    BY <1>3, <1>5, <1>6, NodeAssumption DEF IInv, CallDepthMatches, JsCall
  <2>3. jmpbuf' \in Nat
    BY <1>5 DEF IInv, TypeOK, JsCall, SavedJmpbuf
  <2>4. /\ scopes' \in Nat /\ wraps' \in [Wraps -> {"none", "live", "running"}]
        /\ out' \in [room : Nat, wrote : Nat, array : BOOLEAN]
    BY <2>1 DEF IInv, TypeOK
  <2> QED
    BY <1>4, <2>1, <2>2, <2>3, <2>4, TypeStep DEF IInv
<1>12. DispatcherScopesOpen' /\ OutWithinRoom'
  BY <1>7 DEF IInv, DispatcherScopesOpen, OutWithinRoom, JsCall
<1>13. ParamsMatchFin'
  BY <1>4, <1>7 DEF IInv, ParamsMatchFin, JsCall, FramesOf, FramesIn
<1>14. NoPendingIntoNative'
  BY DEF NoPendingIntoNative, JsCall
<1> QED
  BY <1>8, <1>9, <1>10, <1>11, <1>12, <1>13, <1>14 DEF IInv

\* The dispatcher opens a scope for the callback it calls.
LEMMA NativeDispatchStep ==
  ASSUME IInv, NEW c \in Addrs, NativeDispatch(c)
  PROVE  IInv'
<1> DEFINE f == CbFrame(c)
<1>1. f \in Frame /\ f.kind = "cb" /\ f.outcount = f.room
  <2>1. ctxs[c] \in Nat
    BY NodeAssumption DEF IInv, TypeOK, NativeDispatch
  <2> QED
    BY <2>1, FrameTypes DEF CbFrame
<1>2. stack' = Append(stack, f)
  BY DEF NativeDispatch
<1> HIDE DEF f
<1>3. stack \in Seq(Frame) /\ stack # <<>> /\ ~IsJs(Top) /\ Len(stack) < MaxStack
  BY DEF IInv, TypeOK, NativeDispatch, InNative
<1>4. /\ stack' \in Seq(Frame) /\ Len(stack') = Len(stack) + 1
      /\ \A i \in 1..Len(stack) : stack'[i] = stack[i]
      /\ stack'[Len(stack) + 1] = f
      /\ \A k : /\ FramesIn(stack', k) = IF f.kind = k THEN FramesIn(stack, k) \cup {Len(stack) + 1}
                                                       ELSE FramesIn(stack, k)
                /\ Cardinality(FramesIn(stack', k)) =
                      Cardinality(FramesIn(stack, k)) + IF f.kind = k THEN 1 ELSE 0
  BY <1>1, <1>2, <1>3, PushFrame
<1>5. /\ Cardinality(FramesOf("cb")') = Cardinality(FramesOf("cb")) + 1
      /\ FramesOf("fin")' = FramesOf("fin") /\ FramesOf("call")' = FramesOf("call")
  BY <1>1, <1>4 DEF FramesOf
<1>6. Cardinality(FramesOf("cb")) \in 0..Len(stack) /\ Len(stack) \in Nat
  BY <1>3, FramesFinite, LenProperties DEF FramesOf
<1>7. Shape'
  <2>1. f.kind \notin {"task", "fin"} /\ IsJs(f)
    BY <1>1 DEF IsJs
  <2> QED
    BY <1>1, <1>2, <1>3, <2>1, ShapePush DEF IInv
<1>8. TypeOK'
  <2>1. UNCHANGED <<calldepth, jmpbuf, exc, ctxs, wraps, out, aborted>>
    BY DEF NativeDispatch
  <2>2. /\ calldepth' \in 0..MaxStack /\ jmpbuf' \in Nat
        /\ wraps' \in [Wraps -> {"none", "live", "running"}]
        /\ out' \in [room : Nat, wrote : Nat, array : BOOLEAN]
    BY <2>1 DEF IInv, TypeOK
  <2>3. scopes' \in Nat
    BY DEF IInv, TypeOK, NativeDispatch
  <2> QED
    BY <1>4, <2>1, <2>2, <2>3, TypeStep DEF IInv
<1>9. CallDepthMatches' /\ LongjmpTargetLive' /\ OutWithinRoom'
  BY <1>5 DEF IInv, CallDepthMatches, LongjmpTargetLive, OutWithinRoom, NativeDispatch
<1>10. DispatcherScopesOpen'
  BY <1>5, <1>6 DEF IInv, TypeOK, DispatcherScopesOpen, NativeDispatch
<1>11. ParamsMatchFin'
  BY <1>4, <1>5 DEF IInv, ParamsMatchFin, NativeDispatch, FramesOf, FramesIn
<1>12. NoPendingIntoNative'
  BY DEF NoPendingIntoNative, NativeDispatch, RunsJs
<1> QED
  BY <1>7, <1>8, <1>9, <1>10, <1>11, <1>12 DEF IInv

-----------------------------------------------------------------------------
(* Steps that pop the top frame.                                           *)

\* A stack of the right shape keeps it when it is cut back.
LEMMA ShapeCut ==
  ASSUME TypeOK, Shape, NEW m \in 0..Len(stack), stack' = SubSeq(stack, 1, m)
  PROVE  Shape'
<1>1. stack \in Seq(Frame) /\ Len(stack) \in Nat
  BY LenProperties DEF TypeOK
<1>2. Len(stack') = m /\ \A i \in 1..m : stack'[i] = stack[i]
  BY <1>1, CutFrames
<1>3. Len(stack') <= MaxStack
  BY <1>1, <1>2, NodeAssumption DEF Shape
<1>4. ASSUME NEW i \in 1..Len(stack')
      PROVE  /\ stack'[i].kind \in {"task", "fin"} <=> i = 1
             /\ i > 1 => (IsJs(stack'[i]) <=> ~IsJs(stack'[i - 1]))
             /\ stack'[i].kind = "fin" => stack'[i].wrap \in Wraps
             /\ stack'[i].outcount = stack'[i].room
  <2>1. i \in 1..Len(stack) /\ stack'[i] = stack[i] /\ (i > 1 => stack'[i - 1] = stack[i - 1])
    BY <1>1, <1>2
  <2> QED
    BY <2>1 DEF Shape
<1> QED
  BY <1>3, <1>4 DEF Shape, IsJs

\* What the stack without its top frame looks like.
LEMMA Popped ==
  ASSUME TypeOK, Shape, stack # <<>>, stack' = Below
  PROVE  /\ stack' \in Seq(Frame) /\ Len(stack) \in Nat \ {0}
         /\ Len(stack') = Len(stack) - 1
         /\ \A i \in 1..(Len(stack) - 1) : stack'[i] = stack[i]
         /\ Shape'
         /\ \A k : Top.kind # k => /\ FramesOf(k)' = FramesOf(k)
                                   /\ \A i \in FramesOf(k) : stack'[i] = stack[i]
         /\ \A k : Top.kind = k =>
               /\ FramesOf(k)' = FramesOf(k) \ {Len(stack)}
               /\ Cardinality(FramesOf(k)') = Cardinality(FramesOf(k)) - 1
<1>1. stack \in Seq(Frame)
  BY DEF TypeOK
<1>2. /\ stack' \in Seq(Frame) /\ Len(stack') = Len(stack) - 1 /\ Len(stack) \in Nat \ {0}
      /\ \A i \in 1..(Len(stack) - 1) : stack'[i] = stack[i]
      /\ \A k : /\ FramesIn(stack', k) = FramesIn(stack, k) \ {Len(stack)}
                /\ Cardinality(FramesIn(stack', k)) =
                      Cardinality(FramesIn(stack, k)) - IF Top.kind = k THEN 1 ELSE 0
  BY <1>1, PopFrame DEF Below, Top
<1>3. Shape'
  <2>1. Len(stack) - 1 \in 0..Len(stack)
    BY <1>2
  <2> QED
    BY <2>1, ShapeCut DEF Below
<1>4. ASSUME NEW k, Top.kind # k
      PROVE  FramesOf(k)' = FramesOf(k) /\ \A i \in FramesOf(k) : stack'[i] = stack[i]
  <2>1. FramesIn(stack', k) = FramesIn(stack, k) \ {Len(stack)}
    BY <1>2
  <2>2. \A i \in FramesIn(stack, k) : i \in 1..(Len(stack) - 1)
    BY <1>2, <1>4 DEF FramesIn, Top
  <2> QED
    BY <1>2, <2>1, <2>2 DEF FramesOf
<1>5. ASSUME NEW k, Top.kind = k
      PROVE  /\ FramesOf(k)' = FramesOf(k) \ {Len(stack)}
             /\ Cardinality(FramesOf(k)') = Cardinality(FramesOf(k)) - 1
  BY <1>2, <1>5 DEF FramesOf
<1> QED
  BY <1>2, <1>3, <1>4, <1>5

\* A task is the outermost frame: once it is gone the stack is empty.
LEMMA OutermostTop ==
  ASSUME TypeOK, Shape, stack # <<>>, Top.kind \in {"task", "fin"}
  PROVE  Len(stack) = 1
<1>1. Len(stack) \in 1..Len(stack)
  BY EmptySeq DEF TypeOK
<1> QED
  BY <1>1 DEF Shape, Top

\* A task ends, with or without an exception.
LEMMA TaskStep == ASSUME IInv, TaskReturn \/ ThrowOutOfTask PROVE IInv'
<1>1. /\ stack # <<>> /\ Top.kind = "task" /\ stack' = Below
      /\ UNCHANGED <<calldepth, jmpbuf, scopes, exc, ctxs, wraps, out, aborted>>
  BY DEF TaskReturn, ThrowOutOfTask, InJs
<1>2. /\ stack' \in Seq(Frame) /\ Len(stack') = Len(stack) - 1 /\ Shape'
      /\ \A k \in {"call", "cb", "fin"} :
            FramesOf(k)' = FramesOf(k) /\ \A i \in FramesOf(k) : stack'[i] = stack[i]
  BY <1>1, Popped DEF IInv
<1>3. stack' = <<>>
  <2>1. Len(stack) = 1
    BY <1>1, OutermostTop DEF IInv
  <2>2. Len(stack') = 0
    BY <1>2, <2>1
  <2> QED
    BY <1>2, <2>2, EmptySeq
<1>4. /\ calldepth' \in 0..MaxStack /\ jmpbuf' \in Nat /\ scopes' \in Nat
      /\ wraps' \in [Wraps -> {"none", "live", "running"}]
      /\ out' \in [room : Nat, wrote : Nat, array : BOOLEAN]
  BY <1>1 DEF IInv, TypeOK
<1>5. TypeOK'
  BY <1>1, <1>2, <1>4, TypeStep DEF IInv
<1>6. CallDepthMatches' /\ LongjmpTargetLive' /\ DispatcherScopesOpen' /\ OutWithinRoom'
  BY <1>1, <1>2 DEF IInv, CallDepthMatches, LongjmpTargetLive, DispatcherScopesOpen,
                    OutWithinRoom
<1>7. ParamsMatchFin'
  BY <1>1, <1>2 DEF IInv, ParamsMatchFin
<1>8. NoPendingIntoNative'
  BY <1>3 DEF NoPendingIntoNative, InNative
<1> QED
  BY <1>2, <1>5, <1>6, <1>7, <1>8 DEF IInv

\* do_finalize frees the params and leaves an empty stack.
LEMMA FinReturnStep == ASSUME IInv, FinReturn PROVE IInv'
<1>1. /\ stack # <<>> /\ Top.kind = "fin" /\ stack' = Below
      /\ wraps' = [wraps EXCEPT ![Top.wrap] = "none"]
      /\ UNCHANGED <<calldepth, jmpbuf, scopes, exc, ctxs, out, aborted>>
  BY DEF FinReturn, InNative
<1>2. /\ stack' \in Seq(Frame) /\ Len(stack') = Len(stack) - 1 /\ Shape'
      /\ FramesOf("fin")' = FramesOf("fin") \ {Len(stack)}
      /\ \A k \in {"call", "cb"} : FramesOf(k)' = FramesOf(k)
  BY <1>1, Popped DEF IInv
<1>3. Len(stack) = 1 /\ stack' = <<>>
  <2>1. Len(stack) = 1
    BY <1>1, OutermostTop DEF IInv
  <2>2. Len(stack') = 0
    BY <1>2, <2>1
  <2> QED
    BY <1>2, <2>1, <2>2, EmptySeq
<1>4. Top.wrap \in Wraps
  BY <1>1, <1>3 DEF IInv, Shape, Top
<1>5. TypeOK'
  <2>1. wraps' \in [Wraps -> {"none", "live", "running"}]
    BY <1>1 DEF IInv, TypeOK
  <2>2. /\ calldepth' \in 0..MaxStack /\ jmpbuf' \in Nat /\ scopes' \in Nat
        /\ out' \in [room : Nat, wrote : Nat, array : BOOLEAN]
    BY <1>1 DEF IInv, TypeOK
  <2> QED
    BY <1>1, <1>2, <2>1, <2>2, TypeStep DEF IInv
<1>6. CallDepthMatches' /\ LongjmpTargetLive' /\ DispatcherScopesOpen' /\ OutWithinRoom'
  BY <1>1, <1>2 DEF IInv, CallDepthMatches, LongjmpTargetLive, DispatcherScopesOpen,
                    OutWithinRoom
<1>7. ParamsMatchFin'
  <2>1. FramesOf("fin") = {1} /\ FramesOf("fin")' = {}
    BY <1>1, <1>2, <1>3 DEF FramesOf, FramesIn, Top
  <2>2. \A v \in Wraps : wraps[v] = "running" <=> v = Top.wrap
    BY <1>3, <2>1 DEF IInv, ParamsMatchFin, Top
  <2>3. \A v \in Wraps : wraps'[v] # "running"
    BY <1>1, <1>4, <2>2 DEF IInv, TypeOK
  <2> QED
    BY <2>1, <2>3 DEF ParamsMatchFin
<1>8. NoPendingIntoNative'
  BY <1>3 DEF NoPendingIntoNative, InNative
<1> QED
  BY <1>2, <1>5, <1>6, <1>7, <1>8 DEF IInv

\* The trampoline takes itself off the count when its native function returned.
LEMMA NativeReturnStep == ASSUME IInv, NativeReturn PROVE IInv'
<1>1. /\ stack # <<>> /\ Top.kind = "call" /\ stack' = Below /\ calldepth' = calldepth - 1
      /\ UNCHANGED <<jmpbuf, scopes, exc, ctxs, wraps, out, aborted>>
  BY DEF NativeReturn, InNative
<1>2. /\ stack' \in Seq(Frame) /\ Len(stack) \in Nat \ {0} /\ Shape'
      /\ FramesOf("call")' = FramesOf("call") \ {Len(stack)}
      /\ Cardinality(FramesOf("call")') = Cardinality(FramesOf("call")) - 1
      /\ \A k \in {"cb", "fin"} :
            FramesOf(k)' = FramesOf(k) /\ \A i \in FramesOf(k) : stack'[i] = stack[i]
  BY <1>1, Popped DEF IInv
<1>3. exc = NoExc
  BY <1>1 DEF IInv, NoPendingIntoNative, NativeReturn
<1>4. Len(stack) \in FramesOf("call")
  BY <1>1, <1>2 DEF FramesOf, FramesIn, Top
<1>5. CallDepthMatches'
  BY <1>1, <1>2 DEF IInv, CallDepthMatches
<1>6. calldepth' \in 0..MaxStack /\ calldepth # 0
  <2>1. IsFiniteSet(FramesOf("call")) /\ Cardinality(FramesOf("call")) \in Nat
    <3>1. stack \in Seq(Frame)
      BY DEF IInv, TypeOK
    <3> QED
      BY <1>2, <3>1, FramesFinite DEF FramesOf
  <2>2. Cardinality(FramesOf("call")) # 0
    BY <1>4, <2>1, FS_EmptySet
  <2> QED
    BY <1>1, <2>1, <2>2, NodeAssumption DEF IInv, TypeOK, CallDepthMatches
<1>7. LongjmpTargetLive'
  <2> SUFFICES ASSUME calldepth' # 0
               PROVE  /\ jmpbuf \in FramesOf("call")'
                      /\ \A i \in FramesOf("call")' : jmpbuf <= i
    BY <1>1 DEF LongjmpTargetLive
  <2>1. jmpbuf \in FramesOf("call") /\ \A i \in FramesOf("call") : jmpbuf <= i
    BY <1>6 DEF IInv, LongjmpTargetLive
  <2>2. FramesOf("call")' # {}
    BY <1>5, FS_EmptySet DEF CallDepthMatches
  <2>3. PICK i \in FramesOf("call") : i # Len(stack)
    BY <1>2, <2>2
  <2>4. jmpbuf # Len(stack)
    BY <1>2, <2>1, <2>3 DEF FramesOf, FramesIn
  <2> QED
    BY <1>2, <2>1, <2>4
<1>8. TypeOK'
  <2>1. /\ jmpbuf' \in Nat /\ scopes' \in Nat
        /\ wraps' \in [Wraps -> {"none", "live", "running"}]
        /\ out' \in [room : Nat, wrote : Nat, array : BOOLEAN]
    BY <1>1 DEF IInv, TypeOK
  <2> QED
    BY <1>1, <1>2, <1>6, <2>1, TypeStep DEF IInv
<1>9. DispatcherScopesOpen' /\ OutWithinRoom' /\ NoPendingIntoNative'
  BY <1>1, <1>2, <1>3 DEF IInv, DispatcherScopesOpen, OutWithinRoom, NoPendingIntoNative
<1>10. ParamsMatchFin'
  BY <1>1, <1>2 DEF IInv, ParamsMatchFin
<1> QED
  BY <1>2, <1>5, <1>7, <1>8, <1>9, <1>10 DEF IInv

\* What the two ways a dispatcher returns to its native caller have in common.
LEMMA CbPopped ==
  ASSUME IInv, stack # <<>>, Top.kind = "cb", stack' = Below, scopes' = scopes - 1,
         UNCHANGED <<calldepth, jmpbuf, exc, ctxs, wraps, aborted>>,
         out' \in [room : Nat, wrote : Nat, array : BOOLEAN],
         OutWithinRoom', NoPendingIntoNative'
  PROVE  IInv'
<1>1. /\ stack' \in Seq(Frame) /\ Len(stack) \in Nat \ {0} /\ Shape'
      /\ FramesOf("cb")' = FramesOf("cb") \ {Len(stack)}
      /\ Cardinality(FramesOf("cb")') = Cardinality(FramesOf("cb")) - 1
      /\ \A k \in {"call", "fin"} :
            FramesOf(k)' = FramesOf(k) /\ \A i \in FramesOf(k) : stack'[i] = stack[i]
  BY Popped DEF IInv
<1>2. Cardinality(FramesOf("cb")') \in Nat
  BY <1>1, FramesFinite, LenProperties DEF FramesOf
<1>3. DispatcherScopesOpen' /\ scopes' \in Nat
  <2>1. Cardinality(FramesOf("cb")) \in Nat
    BY <1>1, FramesFinite DEF FramesOf, IInv, TypeOK
  <2> QED
    BY <1>1, <1>2, <2>1 DEF IInv, TypeOK, DispatcherScopesOpen
<1>4. TypeOK'
  <2>1. /\ calldepth' \in 0..MaxStack /\ jmpbuf' \in Nat
        /\ wraps' \in [Wraps -> {"none", "live", "running"}]
    BY DEF IInv, TypeOK
  <2> QED
    BY <1>1, <1>3, <2>1, TypeStep DEF IInv
<1>5. CallDepthMatches' /\ LongjmpTargetLive'
  BY <1>1 DEF IInv, CallDepthMatches, LongjmpTargetLive
<1>6. ParamsMatchFin'
  BY <1>1 DEF IInv, ParamsMatchFin
<1> QED
  BY <1>1, <1>3, <1>4, <1>5, <1>6 DEF IInv

\* The top of a typed stack is a frame.
LEMMA TopTyped ==
  ASSUME IInv, stack # <<>>
  PROVE  Top \in Frame /\ Top.outcount = Top.room /\ Top.room \in Nat
<1>1. stack \in Seq(Frame) /\ Len(stack) \in 1..Len(stack)
  BY EmptySeq DEF IInv, TypeOK
<1>2. Top \in Frame
  BY <1>1, ElementOfSeq DEF Top
<1> QED
  BY <1>1, <1>2 DEF IInv, Shape, Top, Frame

\* A callback returned: the dispatcher closes its scope.
LEMMA JsReturnStep == ASSUME IInv, JsReturn PROVE IInv'
<1>1. /\ stack # <<>> /\ Top.kind = "cb" /\ stack' = Below /\ scopes' = scopes - 1
      /\ exc = NoExc
      /\ UNCHANGED <<calldepth, jmpbuf, exc, ctxs, wraps, aborted>>
  BY DEF JsReturn, InJs
<1>2. PICK isArray \in BOOLEAN :
         out' = [room |-> Top.room,
                 wrote |-> IF isArray THEN FilledCount(Top) ELSE FirstCell(FilledCount(Top)),
                 array |-> isArray]
  BY DEF JsReturn
<1>3. Top.room \in Nat /\ FilledCount(Top) = Top.room /\ FirstCell(Top.room) \in 0..Top.room
  BY <1>1, TopTyped DEF FilledCount, FirstCell
<1>4. out' \in [room : Nat, wrote : Nat, array : BOOLEAN]
  BY <1>2, <1>3
<1>5. OutWithinRoom'
  BY <1>2, <1>3 DEF OutWithinRoom
<1>6. NoPendingIntoNative'
  BY <1>1 DEF NoPendingIntoNative
<1> QED
  BY <1>1, <1>4, <1>5, <1>6, CbPopped

\* A callback threw at depth 0: the dispatcher returns to the destructor.
LEMMA ThrowAtDepth0Step == ASSUME IInv, ThrowAtDepth0 PROVE IInv'
<1>1. /\ stack # <<>> /\ Top.kind = "cb" /\ stack' = Below /\ scopes' = scopes - 1
      /\ calldepth = 0
      /\ out' = ClearedOut(Top.room, FilledCount(Top))
      /\ UNCHANGED <<calldepth, jmpbuf, exc, ctxs, wraps, aborted>>
  BY DEF ThrowAtDepth0, InJs, Jumps
<1>2. /\ Top.room \in Nat
      /\ out' = [room |-> Top.room, wrote |-> FirstCell(Top.room), array |-> FALSE]
      /\ FirstCell(Top.room) \in 0..Top.room
  <2>1. Top.room \in Nat /\ FilledCount(Top) = Top.room
    BY <1>1, TopTyped DEF FilledCount
  <2>2. FirstCell(Top.room) \in 0..Top.room
    BY <2>1 DEF FirstCell
  <2> QED
    BY <1>1, <2>1, <2>2 DEF ClearedOut
<1>3. out' \in [room : Nat, wrote : Nat, array : BOOLEAN]
  <2>1. FirstCell(Top.room) \in Nat
    BY <1>2
  <2> QED
    BY <1>2, <2>1
<1>4. OutWithinRoom'
  BY <1>2 DEF OutWithinRoom
<1>5. NoPendingIntoNative'
  <2> SUFFICES ASSUME stack' # <<>>, ~IsJs(Top)'
               PROVE  (Top.kind = "fin")'
    BY DEF NoPendingIntoNative, InNative
  <2>1. /\ stack' \in Seq(Frame) /\ Len(stack) \in Nat \ {0} /\ Len(stack') = Len(stack) - 1
        /\ \A i \in 1..(Len(stack) - 1) : stack'[i] = stack[i]
        /\ FramesOf("call")' = FramesOf("call")
    BY <1>1, Popped DEF IInv
  <2>2. Len(stack') \in 1..Len(stack') /\ Len(stack') \in Nat
    BY <2>1, EmptySeq
  <2>3. Top' \in Frame
    BY <2>1, <2>2, ElementOfSeq DEF Top
  <2>4. FramesOf("call") = {}
    <3>1. stack \in Seq(Frame)
      BY DEF IInv, TypeOK
    <3> QED
      BY <1>1, <3>1, FramesFinite, FS_EmptySet DEF IInv, CallDepthMatches, FramesOf
  <2>5. Top'.kind # "call"
    BY <2>1, <2>2, <2>4 DEF FramesOf, FramesIn, Top
  <2> QED
    BY <2>3, <2>5 DEF Frame, Kinds, IsJs
<1> QED
  BY <1>1, <1>3, <1>4, <1>5, CbPopped

\* The jump: the frame below the outermost trampoline is the JavaScript frame that called
\* it, and no trampoline is left on the stack.
LEMMA JumpLanding ==
  ASSUME IInv, ThrowAndJump
  PROVE  /\ jmpbuf - 1 \in 1..(Len(stack) - 2) /\ Len(stack) \in Nat
         /\ stack' \in Seq(Frame) /\ Len(stack') = jmpbuf - 1
         /\ \A i \in 1..(jmpbuf - 1) : stack'[i] = stack[i]
         /\ \A k : FramesOf(k)' = {i \in FramesOf(k) : i <= jmpbuf - 1}
         /\ IsJs(stack[jmpbuf - 1])
         /\ \A i \in 1..(jmpbuf - 1) : stack[i].kind # "call"
<1>1. stack \in Seq(Frame) /\ Len(stack) \in Nat /\ stack[Len(stack)].kind = "cb"
  BY LenProperties DEF IInv, TypeOK, ThrowAndJump, Top
<1>2. /\ jmpbuf \in 1..Len(stack) /\ stack[jmpbuf].kind = "call"
      /\ \A i \in FramesOf("call") : jmpbuf <= i
  BY DEF IInv, LongjmpTargetLive, FramesOf, FramesIn, ThrowAndJump, Jumps
<1>3. jmpbuf > 1 /\ jmpbuf < Len(stack)
  <2>1. jmpbuf # Len(stack) /\ jmpbuf # 1
    BY <1>1, <1>2 DEF IInv, Shape
  <2> QED
    BY <1>1, <1>2, <2>1
<1>4. IsJs(stack[jmpbuf - 1])
  <2>1. ~IsJs(stack[jmpbuf])
    BY <1>2 DEF IsJs
  <2> QED
    BY <1>2, <1>3, <2>1 DEF IInv, Shape
<1>5. \A i \in 1..(jmpbuf - 1) : stack[i].kind # "call"
  BY <1>1, <1>2, <1>3 DEF FramesOf, FramesIn
<1>6. /\ stack' \in Seq(Frame) /\ Len(stack') = jmpbuf - 1
      /\ \A i \in 1..(jmpbuf - 1) : stack'[i] = stack[i]
      /\ \A k : FramesIn(stack', k) = {i \in FramesIn(stack, k) : i <= jmpbuf - 1}
  <2>1. jmpbuf - 1 \in 0..Len(stack)
    BY <1>1, <1>2
  <2>2. stack' = SubSeq(stack, 1, jmpbuf - 1)
    BY DEF ThrowAndJump
  <2> QED
    BY <1>1, <2>1, <2>2, CutFrames
<1> QED
  BY <1>1, <1>2, <1>3, <1>4, <1>5, <1>6 DEF FramesOf

\* A callback threw at another depth: the jump lands below the outermost trampoline.
LEMMA ThrowAndJumpStep == ASSUME IInv, ThrowAndJump PROVE IInv'
<1>1. /\ stack # <<>> /\ Top.kind = "cb" /\ calldepth' = 0 /\ scopes' = scopes - 1
      /\ UNCHANGED <<jmpbuf, exc, ctxs, wraps, out, aborted>>
  BY DEF ThrowAndJump, InJs, DepthAfterJump, ScopesAfterJump
<1>2. /\ jmpbuf - 1 \in 1..(Len(stack) - 2) /\ Len(stack) \in Nat
      /\ stack' \in Seq(Frame) /\ Len(stack') = jmpbuf - 1
      /\ \A i \in 1..(jmpbuf - 1) : stack'[i] = stack[i]
      /\ \A k : FramesOf(k)' = {i \in FramesOf(k) : i <= jmpbuf - 1}
      /\ IsJs(stack[jmpbuf - 1])
      /\ \A i \in 1..(jmpbuf - 1) : stack[i].kind # "call"
  BY JumpLanding
<1>3. Shape'
  <2>1. jmpbuf - 1 \in 0..Len(stack)
    BY <1>2
  <2> QED
    BY <2>1, ShapeCut DEF IInv, ThrowAndJump
<1>4. FramesOf("call")' = {}
  BY <1>2 DEF FramesOf, FramesIn
<1>5. CallDepthMatches' /\ LongjmpTargetLive'
  BY <1>1, <1>4, FS_EmptySet DEF CallDepthMatches, LongjmpTargetLive
<1>6. DispatcherScopesOpen' /\ scopes' \in Nat
  <2>1. IsFiniteSet(FramesOf("cb")) /\ Cardinality(FramesOf("cb")) \in Nat
    BY <1>2, FramesFinite DEF FramesOf, IInv, TypeOK
  <2>2. Len(stack) \in FramesOf("cb")
    BY <1>1, <1>2 DEF FramesOf, FramesIn, Top
  <2>3. /\ IsFiniteSet(FramesOf("cb") \ {Len(stack)})
        /\ Cardinality(FramesOf("cb") \ {Len(stack)}) = Cardinality(FramesOf("cb")) - 1
    BY <2>1, <2>2, FS_RemoveElement
  <2>4. FramesOf("cb")' \in SUBSET (FramesOf("cb") \ {Len(stack)})
    BY <1>2
  <2>5. Cardinality(FramesOf("cb")') <= Cardinality(FramesOf("cb")) - 1
    BY <2>3, <2>4, FS_Subset
  <2>6. Cardinality(FramesOf("cb")') \in Nat
    BY <2>3, <2>4, FS_Subset, FS_CardinalityType
  <2> QED
    BY <1>1, <2>1, <2>5, <2>6 DEF IInv, TypeOK, DispatcherScopesOpen
<1>7. TypeOK'
  <2>1. /\ calldepth' \in 0..MaxStack /\ jmpbuf' \in Nat
        /\ wraps' \in [Wraps -> {"none", "live", "running"}]
        /\ out' \in [room : Nat, wrote : Nat, array : BOOLEAN]
    BY <1>1, NodeAssumption DEF IInv, TypeOK
  <2> QED
    BY <1>1, <1>2, <1>6, <2>1, TypeStep DEF IInv
<1>8. ParamsMatchFin'
  <2>1. \A i \in FramesOf("fin") : i = 1
    BY DEF FramesOf, FramesIn, IInv, Shape
  <2>2. /\ FramesOf("fin")' = FramesOf("fin")
        /\ \A i \in FramesOf("fin") : stack'[i] = stack[i]
    <3>1. 1 \in 1..(jmpbuf - 1) /\ stack'[1] = stack[1] /\ jmpbuf \in Nat
      BY <1>2 DEF IInv, TypeOK
    <3>2. FramesOf("fin")' = {i \in FramesOf("fin") : i <= jmpbuf - 1}
      BY <1>2
    <3> QED
      BY <2>1, <3>1, <3>2
  <2> QED
    BY <1>1, <2>2 DEF IInv, ParamsMatchFin
<1>9. NoPendingIntoNative' /\ OutWithinRoom'
  <2>1. Top' = stack[jmpbuf - 1]
    BY <1>2 DEF Top
  <2>2. IsJs(Top)'
    BY <1>2, <2>1 DEF IsJs
  <2> QED
    BY <1>1, <2>2 DEF IInv, NoPendingIntoNative, InNative, OutWithinRoom
<1> QED
  BY <1>3, <1>5, <1>6, <1>7, <1>8, <1>9 DEF IInv

-----------------------------------------------------------------------------
(* The invariants.                                                         *)

\* A step that changes nothing.
LEMMA StutterStep == ASSUME IInv, UNCHANGED vars PROVE IInv'
<1>1. TypeOK'
  BY DEF IInv, TypeOK, vars
<1>2. NoPendingIntoNative' /\ OutWithinRoom' /\ ParamsMatchFin'
  BY DEF IInv, vars, NoPendingIntoNative, OutWithinRoom, ParamsMatchFin, InNative, Top, IsJs,
         FramesOf
<1> QED
  BY <1>1, <1>2, SameStack DEF vars

\* Every step keeps the invariant.
THEOREM NextIInv == IInv /\ [Next]_vars => IInv'
<1> SUFFICES ASSUME IInv, [Next]_vars PROVE IInv'
  OBVIOUS
<1>1. CASE StartTask
  BY <1>1, StartTaskStep
<1>2. CASE TaskReturn \/ ThrowOutOfTask
  BY <1>2, TaskStep
<1>3. CASE MakeCb
  BY <1>3, MakeCbStep
<1>4. CASE DestroyCb
  BY <1>4, DestroyCbStep
<1>5. CASE WrapPointer
  BY <1>5, WrapPointerStep
<1>6. CASE JsCall
  BY <1>6, JsCallStep
<1>7. CASE NativeReturn
  BY <1>7, NativeReturnStep
<1>8. CASE StartFinalizer
  BY <1>8, StartFinalizerStep
<1>9. CASE FinReturn
  BY <1>9, FinReturnStep
<1>10. CASE \E c \in Addrs : NativeDispatch(c)
  BY <1>10, NativeDispatchStep
<1>11. CASE \E c \in Addrs : PendingDispatch(c)
  BY <1>11, PendingDispatchStep
<1>12. CASE JsReturn
  BY <1>12, JsReturnStep
<1>13. CASE JsThrow \/ JsCatch \/ BadValue \/ ReportUncaught \/ Halted
  BY <1>13, ExceptionStep
<1>14. CASE ThrowAndJump
  BY <1>14, ThrowAndJumpStep
<1>15. CASE ThrowAtDepth0
  BY <1>15, ThrowAtDepth0Step
<1>16. CASE UNCHANGED vars
  BY <1>16, StutterStep
<1> QED
  BY <1>1, <1>2, <1>3, <1>4, <1>5, <1>6, <1>7, <1>8, <1>9, <1>10, <1>11, <1>12, <1>13,
     <1>14, <1>15, <1>16 DEF Next

\* The strengthened invariant holds in every reachable state.
THEOREM Invariance == Spec => []IInv
BY InitIInv, NextIInv, PTL DEF Spec

\* Every variable keeps its type; the depth never exceeds the bound on the stack.
THEOREM TypeCorrect == Spec => []TypeOK
<1>1. IInv => TypeOK
  BY DEF IInv
<1> QED
  BY <1>1, Invariance, PTL

\* calldepth is the number of trampolines on the stack, jumps included.
THEOREM CallDepthCorrect == Spec => []CallDepthMatches
<1>1. IInv => CallDepthMatches
  BY DEF IInv
<1> QED
  BY <1>1, Invariance, PTL

\* No longjmp into a trampoline that returned, nor into one that is not the outermost.
THEOREM JumpTargetCorrect == Spec => []LongjmpTargetLive
<1>1. IInv => LongjmpTargetLive
  BY DEF IInv
<1> QED
  BY <1>1, Invariance, PTL

\* Only a destructor gets control with an exception pending.
THEOREM PendingCorrect == Spec => []NoPendingIntoNative
<1>1. IInv => NoPendingIntoNative
  BY DEF IInv
<1> QED
  BY <1>1, Invariance, PTL

\* A dispatcher that is still running has not lost its handle scope, to a jump either.
THEOREM ScopesCorrect == Spec => []DispatcherScopesOpen
<1>1. IInv => DispatcherScopesOpen
  BY DEF IInv
<1> QED
  BY <1>1, Invariance, PTL

\* What a dispatcher writes fits what its caller allotted, whatever became of its context.
THEOREM OutCorrect == Spec => []OutWithinRoom
<1>1. IInv => OutWithinRoom
  BY DEF IInv
<1> QED
  BY <1>1, Invariance, PTL

\* No jump leaves a destructor half-way: its params are freed when it returns.
THEOREM ParamsCorrect == Spec => []ParamsMatchFin
<1>1. IInv => ParamsMatchFin
  BY DEF IInv
<1> QED
  BY <1>1, Invariance, PTL

-----------------------------------------------------------------------------
(* The action property and the implementation of AbsBridge.                *)

\* The sides of a stack: as many as frames, and pushing and cutting commute with them.
LEMMA SidesOf ==
  ASSUME NEW s \in Seq(Frame)
  PROVE  /\ Sides(s) \in Seq({"js", "native"}) /\ Len(Sides(s)) = Len(s)
         /\ \A i \in 1..Len(s) : Sides(s)[i] = SideOf(s[i])
<1>1. Len(s) \in Nat
  BY LenProperties
<1>2. Sides(s) \in [1..Len(s) -> {"js", "native"}]
  BY DEF Sides, SideOf
<1>3. Sides(s) \in Seq({"js", "native"})
  BY <1>1, <1>2, SeqDef
<1>4. DOMAIN Sides(s) = 1..Len(Sides(s)) /\ Len(Sides(s)) \in Nat
  BY <1>3, LenProperties
<1>5. 1..Len(s) = 1..Len(Sides(s))
  BY <1>2, <1>4
<1>6. Len(Sides(s)) = Len(s)
  BY <1>1, <1>4, <1>5
<1> QED
  BY <1>3, <1>6 DEF Sides

\* The sides of a stack with one more frame.
LEMMA SidesPush ==
  ASSUME NEW s \in Seq(Frame), NEW f \in Frame
  PROVE  Sides(Append(s, f)) = Append(Sides(s), SideOf(f))
<1> DEFINE t == Append(s, f)
           u == Append(Sides(s), SideOf(f))
<1>1. /\ t \in Seq(Frame) /\ Len(t) = Len(s) + 1 /\ t[Len(s) + 1] = f
      /\ \A i \in 1..Len(s) : t[i] = s[i]
  BY PushFrame
<1>2. /\ Sides(s) \in Seq({"js", "native"}) /\ Len(Sides(s)) = Len(s) /\ Len(s) \in Nat
      /\ \A i \in 1..Len(s) : Sides(s)[i] = SideOf(s[i])
  BY SidesOf, LenProperties
<1>3. SideOf(f) \in {"js", "native"}
  BY DEF SideOf
<1>4. /\ u \in Seq({"js", "native"}) /\ Len(u) = Len(s) + 1 /\ u[Len(s) + 1] = SideOf(f)
      /\ \A i \in 1..Len(s) : u[i] = Sides(s)[i]
  BY <1>2, <1>3, AppendProperties
<1>5. /\ Sides(t) \in Seq({"js", "native"}) /\ Len(Sides(t)) = Len(t)
      /\ \A i \in 1..Len(t) : Sides(t)[i] = SideOf(t[i])
  BY <1>1, SidesOf
<1> HIDE DEF t, u
<1>6. ASSUME NEW i \in 1..Len(Sides(t)) PROVE Sides(t)[i] = u[i]
  <2>1. CASE i \in 1..Len(s)
    BY <1>1, <1>2, <1>4, <1>5, <2>1
  <2>2. CASE i = Len(s) + 1
    BY <1>1, <1>2, <1>4, <1>5, <2>2
  <2> QED
    BY <1>1, <1>2, <1>5, <2>1, <2>2
<1>7. Sides(t) = u
  BY <1>1, <1>4, <1>5, <1>6, SeqEqual
<1> QED
  BY <1>7 DEF t, u

\* The sides of a stack that is cut back.
LEMMA SidesCut ==
  ASSUME NEW s \in Seq(Frame), NEW m \in 0..Len(s)
  PROVE  Sides(SubSeq(s, 1, m)) = SubSeq(Sides(s), 1, m)
<1> DEFINE t == SubSeq(s, 1, m)
           u == SubSeq(Sides(s), 1, m)
<1>1. t \in Seq(Frame) /\ Len(t) = m /\ \A i \in 1..m : t[i] = s[i]
  BY CutFrames
<1>2. /\ Sides(s) \in Seq({"js", "native"}) /\ Len(Sides(s)) = Len(s) /\ Len(s) \in Nat
      /\ \A i \in 1..Len(s) : Sides(s)[i] = SideOf(s[i])
  BY SidesOf, LenProperties
<1>3. m \in Nat /\ \A i \in 1..m : Sides(s)[i] \in {"js", "native"}
  BY <1>2, ElementOfSeq
<1>4. /\ u \in Seq({"js", "native"})
      /\ Len(u) = IF 1 <= m THEN m - 1 + 1 ELSE 0
      /\ \A i \in 1..(m - 1 + 1) : u[i] = Sides(s)[1 + i - 1]
  BY <1>3, SubSeqProperties
<1>5. /\ Sides(t) \in Seq({"js", "native"}) /\ Len(Sides(t)) = Len(t)
      /\ \A i \in 1..Len(t) : Sides(t)[i] = SideOf(t[i])
  BY <1>1, SidesOf
<1> HIDE DEF t, u
<1>6. Len(Sides(t)) = Len(u) /\ \A i \in 1..Len(Sides(t)) : Sides(t)[i] = u[i]
  BY <1>1, <1>2, <1>3, <1>4, <1>5
<1>7. Sides(t) = u
  BY <1>4, <1>5, <1>6, SeqEqual
<1> QED
  BY <1>7 DEF t, u

\* A stack of one frame, as AbsBridge starts it.
LEMMA StartSides ==
  ASSUME IInv, StartTask \/ StartFinalizer
  PROVE  Abs!Start
<1>1. stack = <<>> /\ exc = NoExc /\ exc' = exc
  BY DEF StartTask, StartFinalizer
<1>2. PICK f : stack' = <<f>>
  BY DEF StartTask, StartFinalizer
<1>3. Sides(stack) = <<>> /\ Sides(stack') = <<SideOf(f)>>
  BY <1>1, <1>2 DEF Sides
<1> QED
  BY <1>1, <1>3 DEF Abs!Start, Abs!Sides, SideOf

\* Which side AbsBridge sees running.
LEMMA RunningSide ==
  ASSUME IInv, stack # <<>>
  PROVE  /\ Sides(stack) # <<>> /\ Len(Sides(stack)) = Len(stack)
         /\ Len(stack) \in Nat \ {0}
         /\ Sides(stack)[1] = SideOf(stack[1])
         /\ Abs!Running(SideOf(Top))
<1>1. stack \in Seq(Frame) /\ Len(stack) \in Nat \ {0}
  BY EmptySeq DEF IInv, TypeOK
<1>2. /\ Len(Sides(stack)) = Len(stack) /\ Sides(stack) \in Seq({"js", "native"})
      /\ \A i \in 1..Len(stack) : Sides(stack)[i] = SideOf(stack[i])
  BY <1>1, SidesOf
<1>3. Sides(stack) # <<>>
  BY <1>1, <1>2, EmptySeq
<1> QED
  BY <1>1, <1>2, <1>3 DEF Abs!Running, Top

\* A frame pushed on the other side is a call.
LEMMA CallSides ==
  ASSUME IInv, JsCall \/ \E c \in Addrs : NativeDispatch(c)
  PROVE  Abs!Call
<1>1. PICK f \in Frame : /\ stack' = Append(stack, f) /\ stack # <<>>
                         /\ exc = NoExc /\ exc' = exc
                         /\ \/ IsJs(Top) /\ ~IsJs(f)
                            \/ ~IsJs(Top) /\ IsJs(f)
  <2>1. CASE JsCall
    <3>1. Plain("call") \in Frame /\ ~IsJs(Plain("call"))
      BY FrameTypes DEF Kinds, Plain, IsJs
    <3> QED
      BY <2>1, <3>1 DEF JsCall, InJs
  <2>2. ASSUME NEW c \in Addrs, NativeDispatch(c)
        PROVE  \E f \in Frame : /\ stack' = Append(stack, f) /\ stack # <<>>
                                /\ exc = NoExc /\ exc' = exc
                                /\ ~IsJs(Top) /\ IsJs(f)
    <3>1. ctxs[c] \in Nat
      BY <2>2, NodeAssumption DEF IInv, TypeOK, NativeDispatch
    <3>2. CbFrame(c) \in Frame /\ IsJs(CbFrame(c))
      BY <3>1, FrameTypes DEF CbFrame, IsJs
    <3> QED
      BY <2>2, <3>2 DEF NativeDispatch, InNative, RunsJs
  <2> QED
    BY <2>1, <2>2
<1>2. stack \in Seq(Frame)
  BY DEF IInv, TypeOK
<1>3. Sides(stack') = Append(Sides(stack), SideOf(f))
  BY <1>1, <1>2, SidesPush
<1>4. Sides(stack) # <<>> /\ Abs!Running(SideOf(Top))
  BY <1>1, RunningSide
<1> QED
  BY <1>1, <1>3, <1>4 DEF Abs!Call, SideOf

\* The sides of a stack without its top frame.
LEMMA BelowSides ==
  ASSUME IInv, stack # <<>>, stack' = Below
  PROVE  Sides(stack') = Abs!Below
<1>1. stack \in Seq(Frame) /\ Len(stack) \in Nat \ {0} /\ Len(Sides(stack)) = Len(stack)
  BY EmptySeq, RunningSide DEF IInv, TypeOK
<1>2. Len(stack) - 1 \in 0..Len(stack)
  BY <1>1
<1> QED
  BY <1>1, <1>2, SidesCut DEF Below, Abs!Below

\* A frame popped is a return.
LEMMA ReturnSides ==
  ASSUME IInv, TaskReturn \/ NativeReturn \/ JsReturn \/ FinReturn
  PROVE  Abs!Return
<1>1. stack # <<>> /\ stack' = Below /\ exc' = exc
  BY DEF TaskReturn, NativeReturn, JsReturn, FinReturn, InJs, InNative
<1>2. exc = NoExc \/ Top.kind = "fin"
  BY DEF TaskReturn, NativeReturn, JsReturn, FinReturn, IInv, NoPendingIntoNative
<1>3. Sides(stack') = Abs!Below
  BY <1>1, BelowSides
<1>4. Sides(stack) # <<>> /\ Len(Sides(stack)) = Len(stack) /\ Sides(stack)[1] = SideOf(stack[1])
  BY <1>1, RunningSide
<1>5. Top.kind = "fin" => Sides(stack) = <<"native">>
  <2> SUFFICES ASSUME Top.kind = "fin" PROVE Sides(stack) = <<"native">>
    OBVIOUS
  <2>1. Len(stack) = 1
    BY <1>1, OutermostTop DEF IInv
  <2>2. SideOf(stack[1]) = "native"
    BY <2>1 DEF Top, SideOf, IsJs
  <2> QED
    BY <2>1, <2>2 DEF Sides
<1> QED
  BY <1>1, <1>2, <1>3, <1>4, <1>5 DEF Abs!Return

\* A callback with no trampoline anywhere below it is the second frame, on a destructor,
\* or the frame itself is the task: it is the outermost JavaScript frame.
LEMMA NoCallBelow ==
  ASSUME IInv, NEW m \in 1..Len(stack), IsJs(stack[m]),
         \A i \in 1..m : stack[i].kind # "call"
  PROVE  m = Abs!RootJs
<1>1. stack \in Seq(Frame) /\ Len(stack) \in Nat /\ stack # <<>>
  BY LenProperties, EmptySeq DEF IInv, TypeOK
<1>2. \A i \in 1..m : stack[i] \in Frame
  BY <1>1, ElementOfSeq
<1>3. \A i \in 1..m : i > 1 => stack[i].kind = "cb"
  <2> SUFFICES ASSUME NEW i \in 1..m, i > 1 PROVE stack[i].kind = "cb"
    OBVIOUS
  <2>1. stack[i].kind \in Kinds
    BY <1>2 DEF Frame
  <2>2. stack[i].kind \notin {"task", "fin"}
    BY <1>1 DEF IInv, Shape
  <2> QED
    BY <2>1, <2>2 DEF Kinds
<1>4. m \in {1, 2}
  <2> SUFFICES ASSUME m > 2 PROVE FALSE
    BY <1>1
  <2>1. stack[2].kind = "cb" /\ stack[3].kind = "cb" /\ 3 \in 1..Len(stack)
    BY <1>1, <1>3
  <2>2. IsJs(stack[3]) <=> ~IsJs(stack[3 - 1])
    BY <2>1 DEF IInv, Shape
  <2>3. 3 - 1 = 2
    OBVIOUS
  <2> QED
    BY <2>1, <2>2, <2>3 DEF IsJs
<1>5. m = 2 => ~IsJs(stack[1])
  <2> SUFFICES ASSUME m = 2 PROVE ~IsJs(stack[1])
    OBVIOUS
  <2>1. IsJs(stack[2]) <=> ~IsJs(stack[2 - 1])
    BY <1>1 DEF IInv, Shape
  <2>2. 2 - 1 = 1
    OBVIOUS
  <2> QED
    BY <2>1, <2>2
<1>6. Sides(stack)[1] = SideOf(stack[1])
  BY <1>1, RunningSide
<1> QED
  BY <1>4, <1>5, <1>6 DEF Abs!RootJs, SideOf

\* The jump is the unwinding of AbsBridge.
LEMMA UnwindSides ==
  ASSUME IInv, ThrowAndJump \/ ThrowAtDepth0 \/ ThrowOutOfTask
  PROVE  Abs!Unwind
<1>1. stack # <<>> /\ IsJs(Top) /\ exc # NoExc /\ exc' = exc
  BY DEF ThrowAndJump, ThrowAtDepth0, ThrowOutOfTask, InJs
<1>2. Abs!Running("js") /\ Len(Sides(stack)) = Len(stack) /\ Len(stack) \in Nat \ {0}
  BY <1>1, RunningSide DEF SideOf
<1>3. CASE ThrowAndJump
  <2>1. /\ jmpbuf - 1 \in 1..(Len(stack) - 2)
        /\ IsJs(stack[jmpbuf - 1])
        /\ \A i \in 1..(jmpbuf - 1) : stack[i].kind # "call"
    BY <1>3, JumpLanding
  <2>2. jmpbuf - 1 \in 1..Len(stack) /\ jmpbuf - 1 \in 0..Len(stack)
    BY <1>2, <2>1
  <2>3. jmpbuf - 1 = Abs!RootJs
    BY <2>1, <2>2, NoCallBelow
  <2>4. Sides(stack') = SubSeq(Sides(stack), 1, jmpbuf - 1)
    BY <1>3, <2>2, SidesCut DEF ThrowAndJump, IInv, TypeOK
  <2>5. Len(Sides(stack)) > Abs!RootJs
    BY <1>2, <2>1, <2>3
  <2> QED
    BY <1>1, <1>2, <2>3, <2>4, <2>5 DEF Abs!Unwind
<1>4. CASE ThrowAtDepth0 \/ ThrowOutOfTask
  <2>1. \A i \in 1..Len(stack) : stack[i].kind # "call"
    <3>1. CASE ThrowAtDepth0
      <4>1. FramesOf("call") = {}
        BY <3>1, FramesFinite, FS_EmptySet
           DEF ThrowAtDepth0, Jumps, IInv, TypeOK, CallDepthMatches, FramesOf
      <4> QED
        BY <4>1 DEF FramesOf, FramesIn
    <3>2. CASE ThrowOutOfTask
      <4>1. Len(stack) = 1 /\ Top.kind = "task"
        BY <3>2, OutermostTop DEF ThrowOutOfTask, InJs, IInv
      <4> QED
        BY <4>1 DEF Top
    <3> QED
      BY <1>4, <3>1, <3>2
  <2>2. Len(stack) \in 1..Len(stack)
    BY <1>2
  <2>3. Len(stack) = Abs!RootJs
    BY <1>1, <2>1, <2>2, NoCallBelow DEF Top
  <2>4. Sides(stack') = Abs!Below
    BY <1>1, <1>4, BelowSides DEF ThrowAtDepth0, ThrowOutOfTask
  <2> QED
    BY <1>1, <1>2, <2>3, <2>4 DEF Abs!Unwind
<1> QED
  BY <1>3, <1>4

\* Throwing and catching change no side.
LEMMA ThrowSides ==
  ASSUME IInv, JsThrow \/ JsCatch
  PROVE  Abs!Throw \/ Abs!Catch
<1>1. stack # <<>> /\ IsJs(Top) /\ Sides(stack') = Sides(stack)
  BY DEF JsThrow, JsCatch, InJs, Sides, SideOf, IsJs
<1>2. Abs!Running("js")
  BY <1>1, RunningSide DEF SideOf
<1> QED
  BY <1>1, <1>2 DEF JsThrow, JsCatch, Abs!Throw, Abs!Catch

\* Node's report of an uncaught exception is AbsBridge's.
LEMMA ReportSides == ReportUncaught => Abs!Report
<1> SUFFICES ASSUME ReportUncaught PROVE Abs!Report
  OBVIOUS
<1>1. Sides(stack) = <<>> /\ Sides(stack') = Sides(stack)
  BY DEF ReportUncaught, Sides
<1> QED
  BY <1>1 DEF ReportUncaught, Abs!Report

\* Every step of NodeBridge is one of AbsBridge or a stuttering step of it.
LEMMA StepSimulates == IInv /\ [Next]_vars => [Abs!Next]_(Abs!vars)
<1> SUFFICES ASSUME IInv, [Next]_vars PROVE [Abs!Next]_(Abs!vars)
  OBVIOUS
<1>1. CASE StartTask \/ StartFinalizer
  BY <1>1, StartSides DEF Abs!Next
<1>2. CASE JsCall \/ \E c \in Addrs : NativeDispatch(c)
  BY <1>2, CallSides DEF Abs!Next
<1>3. CASE TaskReturn \/ NativeReturn \/ JsReturn \/ FinReturn
  BY <1>3, ReturnSides DEF Abs!Next
<1>4. CASE ThrowAndJump \/ ThrowAtDepth0 \/ ThrowOutOfTask
  BY <1>4, UnwindSides DEF Abs!Next
<1>5. CASE JsThrow \/ JsCatch
  BY <1>5, ThrowSides DEF Abs!Next
<1>6. CASE ReportUncaught
  BY <1>6, ReportSides DEF Abs!Next
<1>7. CASE \/ MakeCb \/ DestroyCb \/ WrapPointer \/ BadValue \/ Halted \/ UNCHANGED vars
           \/ \E c \in Addrs : PendingDispatch(c)
  <2>1. UNCHANGED <<stack, exc>>
    BY <1>7 DEF MakeCb, DestroyCb, WrapPointer, BadValue, Halted, PendingDispatch, vars
  <2>2. UNCHANGED <<Sides(stack), exc>>
    BY <2>1 DEF Sides, SideOf, IsJs
  <2> QED
    BY <2>2 DEF Abs!vars
<1> QED
  BY <1>1, <1>2, <1>3, <1>4, <1>5, <1>6, <1>7 DEF Next

\* The call depth and the jump buffer implement AbsBridge: an exception comes out in the
\* JavaScript frame of the outermost call into native code, unchanged.
THEOREM Implementation == Spec => ImplementsAbsBridge
<1>1. Init => Abs!Init
  <2> SUFFICES ASSUME Init PROVE Abs!Init
    OBVIOUS
  <2>1. Sides(stack) = <<>>
    BY DEF Init, Sides
  <2> QED
    BY <2>1 DEF Init, Abs!Init
<1>2. IInv /\ [Next]_vars => [Abs!Next]_(Abs!vars)
  BY StepSimulates
<1> QED
  BY <1>1, <1>2, Invariance, PTL DEF Spec, ImplementsAbsBridge, Abs!Spec
=============================================================================
