------------------------- MODULE EmitPathway_proofs -------------------------
(***************************************************************************)
(* Proofs about the write path of EmitPathway, for every set of paths and  *)
(* hashes, every registration of hooks and subscriptions, and every depth  *)
(* threshold.                                                              *)
(***************************************************************************)
EXTENDS EmitPathway, SequenceTheorems, TLAPS

(* What is inductive: the types and the agreement of the depth counter and *)
(* the context stack with the frames.  Neither is inductive alone: that    *)
(* leaving a level keeps the counter natural needs the agreement, and the  *)
(* agreement is about frames whose events the typing finds in the log.     *)
DepthInv == TypeOK /\ DepthAgrees

-----------------------------------------------------------------------------
(* Replacing the last element of a sequence keeps its type and length. *)
LEMMA ExceptLast ==
    ASSUME NEW S, NEW s \in Seq(S), s # <<>>, NEW x \in S
    PROVE  /\ [s EXCEPT ![Len(s)] = x] \in Seq(S)
           /\ Len([s EXCEPT ![Len(s)] = x]) = Len(s)
           /\ \A i \in 1..Len(s) :
                [s EXCEPT ![Len(s)] = x][i] = IF i = Len(s) THEN x ELSE s[i]
  BY EmptySeq, LenProperties, ExceptSeq

(* Dropping the last element of a sequence. *)
LEMMA DropLast ==
    ASSUME NEW S, NEW s \in Seq(S), s # <<>>
    PROVE  /\ SubSeq(s, 1, Len(s) - 1) \in Seq(S)
           /\ Len(SubSeq(s, 1, Len(s) - 1)) = Len(s) - 1
           /\ \A i \in 1..(Len(s) - 1) : SubSeq(s, 1, Len(s) - 1)[i] = s[i]
  <1>1. Len(s) \in Nat /\ Len(s) # 0
    BY EmptySeq, LenProperties
  <1>2. \A i \in 1..(Len(s) - 1) : s[i] \in S
    BY <1>1, ElementOfSeq
  <1> DEFINE n == Len(s) - 1
  <1>3. n \in Nat
    BY <1>1
  <1> HIDE DEF n
  <1>4. /\ SubSeq(s, 1, n) \in Seq(S)
        /\ Len(SubSeq(s, 1, n)) = IF 1 <= n THEN n - 1 + 1 ELSE 0
        /\ \A i \in 1..(n - 1 + 1) : SubSeq(s, 1, n)[i] = s[1 + i - 1]
    BY <1>2, <1>3, SubSeqProperties DEF n
  <1>5. Len(SubSeq(s, 1, n)) = n
    BY <1>3, <1>4
  <1>6. ASSUME NEW i \in 1..n PROVE SubSeq(s, 1, n)[i] = s[i]
    <2>1. i \in 1..(n - 1 + 1) /\ 1 + i - 1 = i
      BY <1>3
    <2> QED BY <1>4, <2>1
  <1> QED
    BY <1>4, <1>5, <1>6 DEF n

LEMMA EmptyStack ==
    ASSUME TypeOK
    PROVE  Len(stack) \in Nat /\ (stack = <<>> <=> Len(stack) = 0)
  BY EmptySeq, LenProperties DEF TypeOK

(* The running hook's frame is a typed frame of a logged event. *)
LEMMA TopTyped ==
    ASSUME TypeOK, stack # <<>>
    PROVE  /\ Len(stack) \in Nat \ {0}
           /\ Top \in Frames
           /\ Top.seq \in 1..Len(log)
           /\ log[Top.seq] \in Events
  <1>1. Len(stack) \in Nat \ {0}
    BY EmptySeq, LenProperties DEF TypeOK
  <1>2. Top \in Frames /\ Top.seq \in 1..Len(log)
    BY <1>1, ElementOfSeq DEF TypeOK, Top
  <1>3. log[Top.seq] \in Events
    BY <1>2, ElementOfSeq DEF TypeOK
  <1> QED
    BY <1>1, <1>2, <1>3

(* Counting a call changes no frame's event and no frame's hooks. *)
LEMMA CalledTyped ==
    ASSUME TypeOK
    PROVE  /\ Called \in Seq(Frames)
           /\ Len(Called) = Len(stack)
           /\ \A i \in 1..Len(stack) :
                Called[i].seq = stack[i].seq /\ Called[i].todo = stack[i].todo
           /\ Called = <<>> <=> stack = <<>>
  <1>1. CASE stack = <<>>
    BY <1>1 DEF Called, TypeOK
  <1>2. CASE stack # <<>>
    <2> DEFINE f == [Top EXCEPT !.calls = @ + 1]
    <2>1. f \in Frames /\ f.seq = Top.seq /\ f.todo = Top.todo
      BY <1>2, TopTyped DEF Frames
    <2>2. Called = [stack EXCEPT ![Len(stack)] = f]
      BY <1>2 DEF Called, Top
    <2> QED
      BY <1>2, <2>1, <2>2, ExceptLast, TopTyped, EmptySeq DEF TypeOK, Top
  <1> QED BY <1>1, <1>2

-----------------------------------------------------------------------------
(* A step that neither opens nor closes a dispatch: the frames are those   *)
(* of the same events, and the events keep what they announced.            *)
SameEvents ==
    /\ Len(log') = Len(log)
    /\ \A i \in 1..Len(log) :
           /\ log'[i].uri = log[i].uri
           /\ log'[i].hash = log[i].hash
           /\ log'[i].prev = log[i].prev
           /\ log'[i].level = log[i].level

SameFrames ==
    /\ Len(stack') = Len(stack)
    /\ \A i \in 1..Len(stack) : stack'[i].seq = stack[i].seq

LEMMA SameFramesDepth ==
    ASSUME DepthInv, stack' \in Seq(Frames), SameEvents, SameFrames,
           depth' = depth, Len(ctx') = Len(ctx)
    PROVE  DepthAgrees'
  <1>1. Len(stack) \in Nat /\ \A i \in 1..Len(stack) : stack[i].seq \in 1..Len(log)
    BY LenProperties DEF DepthInv, TypeOK
  <1>2. stack' = <<>> <=> stack = <<>>
    BY EmptySeq DEF SameFrames, DepthInv, TypeOK
  <1>3. \A i \in 1..Len(stack) :
          /\ FrameEvent(i)'.level = FrameEvent(i).level
          /\ FrameEvent(i)'.hash = FrameEvent(i).hash
    BY <1>1 DEF FrameEvent, SameEvents, SameFrames
  <1>4. \A i \in 1..Len(stack) : LevelBelow(i)' = LevelBelow(i)
    BY <1>1, <1>3 DEF LevelBelow
  <1>5. LevelsNest'
    BY <1>3, <1>4 DEF LevelsNest, DepthInv, DepthAgrees, SameFrames
  <1>6. stack # <<>> => Len(stack) \in 1..Len(stack)
    BY <1>1, EmptySeq DEF DepthInv, TypeOK
  <1> QED
    BY <1>2, <1>3, <1>5, <1>6 DEF DepthInv, DepthAgrees, SameFrames

(* A write that dispatches pushes one frame, for the event it appends. *)
LEMMA BeginDispatchTyped ==
    ASSUME TypeOK, NEW e \in Events, BeginDispatch(e)
    PROVE  /\ log' \in Seq(Events) /\ stack' \in Seq(Frames)
           /\ Len(log') = Len(log) + 1 /\ Len(stack') = Len(stack) + 1
           /\ \A i \in 1..Len(log) : log'[i] = log[i]
           /\ log'[Len(log) + 1] = e
           /\ \A i \in 1..Len(stack) :
                stack'[i].seq = stack[i].seq /\ stack'[i].todo = stack[i].todo
           /\ stack'[Len(stack) + 1].seq = Len(log) + 1
           /\ stack'[Len(stack) + 1].todo = Matching[e.uri]
           /\ \A i \in 1..Len(stack') : stack'[i].seq \in 1..Len(log')
  <1> DEFINE f == [seq |-> Len(log) + 1, todo |-> Matching[e.uri], calls |-> 0]
  <1>1. Len(log) \in Nat /\ Len(stack) \in Nat
    BY LenProperties DEF TypeOK
  <1>2. f \in Frames
    BY <1>1, EmitAssumption DEF Frames, Events
  <1>3. stack' = Append(Called, f) /\ log' = Append(log, e)
    BY DEF BeginDispatch
  <1> HIDE DEF f
  <1>4. /\ log' \in Seq(Events)
        /\ Len(log') = Len(log) + 1
        /\ \A i \in 1..Len(log) : log'[i] = log[i]
        /\ log'[Len(log) + 1] = e
    BY <1>3, AppendProperties DEF TypeOK
  <1>5. /\ stack' \in Seq(Frames)
        /\ Len(stack') = Len(Called) + 1
        /\ \A i \in 1..Len(Called) : stack'[i] = Called[i]
        /\ stack'[Len(Called) + 1] = f
    BY <1>2, <1>3, CalledTyped, AppendProperties
  <1>6. /\ Len(stack') = Len(stack) + 1
        /\ \A i \in 1..Len(stack) :
             stack'[i].seq = stack[i].seq /\ stack'[i].todo = stack[i].todo
        /\ stack'[Len(stack) + 1].seq = Len(log) + 1
        /\ stack'[Len(stack) + 1].todo = Matching[e.uri]
    BY <1>5, CalledTyped DEF f
  <1>7. ASSUME NEW i \in 1..Len(stack') PROVE stack'[i].seq \in 1..Len(log')
    <2>1. CASE i \in 1..Len(stack)
      <3>1. stack[i].seq \in 1..Len(log)
        BY <2>1 DEF TypeOK
      <3> QED BY <1>1, <1>4, <1>6, <2>1, <3>1
    <2>2. CASE i = Len(stack) + 1
      BY <1>1, <1>4, <1>6, <2>2
    <2> QED BY <1>1, <1>6, <2>1, <2>2
  <1> QED BY <1>4, <1>5, <1>6, <1>7

LEMMA BeginDispatchDepth ==
    ASSUME DepthInv, NEW e \in Events, BeginDispatch(e),
           e.level = depth + (IF e.hash = None THEN 0 ELSE 1),
           depth' = e.level, Len(ctx') = depth', depth' <= RefuseDepth
    PROVE  DepthAgrees'
  <1>0. TypeOK BY DEF DepthInv
  <1>1. Len(log) \in Nat /\ Len(stack) \in Nat
    BY LenProperties DEF DepthInv, TypeOK
  <1> PICK n \in Nat : n = Len(stack)
    BY <1>1
  <1> PICK m \in Nat : m = Len(log)
    BY <1>1
  <1>2. /\ Len(stack') = n + 1
        /\ \A i \in 1..n : stack'[i].seq = stack[i].seq /\ stack[i].seq \in 1..m
        /\ stack'[n + 1].seq = m + 1
        /\ \A i \in 1..m : log'[i] = log[i]
        /\ log'[m + 1] = e
    BY <1>0, BeginDispatchTyped DEF TypeOK
  <1>3. \A i \in 1..n : FrameEvent(i)' = FrameEvent(i)
    BY <1>2 DEF FrameEvent
  <1>4. FrameEvent(n + 1)' = e
    BY <1>2 DEF FrameEvent
  <1>5. LevelBelow(n + 1)' = depth
    <2>1. CASE n = 0
      <3>1. stack = <<>>
        BY <2>1, <1>0, EmptyStack
      <3>2. depth = 0
        BY <3>1 DEF DepthInv, DepthAgrees
      <3> QED BY <2>1, <3>2 DEF LevelBelow
    <2>2. CASE n # 0
      <3>1. stack # <<>> /\ n \in 1..n /\ n + 1 # 1 /\ n + 1 - 1 = n
        BY <1>0, <2>2, EmptyStack
      <3>2. FrameEvent(n).level = depth
        BY <3>1 DEF DepthInv, DepthAgrees
      <3> QED BY <1>3, <3>1, <3>2 DEF LevelBelow
    <2> QED BY <2>1, <2>2
  <1>6. \A i \in 1..n : LevelBelow(i)' = LevelBelow(i)
    BY <1>3 DEF LevelBelow
  <1>7. LevelsNest'
    <2> SUFFICES ASSUME NEW i \in 1..(n + 1)
                 PROVE  FrameEvent(i)'.level = LevelBelow(i)'
                            + (IF FrameEvent(i)'.hash = None THEN 0 ELSE 1)
      BY <1>2 DEF LevelsNest
    <2>1. CASE i \in 1..n
      BY <1>3, <1>6, <2>1 DEF DepthInv, DepthAgrees, LevelsNest
    <2>2. CASE i = n + 1
      BY <1>4, <1>5, <2>2
    <2> QED BY <2>1, <2>2
  <1>8. stack' # <<>>
    BY <1>2, EmptySeq
  <1>9. FrameEvent(Len(stack))' = e
    BY <1>2, <1>4 DEF FrameEvent
  <1> QED
    BY <1>7, <1>8, <1>9 DEF DepthAgrees

-----------------------------------------------------------------------------
(* A write that returns without dispatching. *)
LEMMA ReturnAtOnceDepth ==
    ASSUME DepthInv, NEW st \in {200, 503}, ReturnAtOnce(st),
           tree' \in [Paths -> Bindings], store' \subseteq Hashes
    PROVE  DepthInv'
  <1>0. TypeOK BY DEF DepthInv
  <1>1. TypeOK'
    <2>1. last' \in [status : {200, 207, 503}, seq : Nat]
      BY DEF ReturnAtOnce
    <2>2. stack' = Called /\ log' = log
      BY DEF ReturnAtOnce
    <2>3. /\ stack' \in Seq(Frames)
          /\ Len(stack') = Len(stack)
          /\ \A i \in 1..Len(stack) : stack'[i].seq = stack[i].seq
      BY <1>0, <2>2, CalledTyped
    <2>4. \A i \in 1..Len(stack') : stack'[i].seq \in 1..Len(log')
      <3>1. \A i \in 1..Len(stack) : stack[i].seq \in 1..Len(log)
        BY <1>0 DEF TypeOK
      <3>2. log' = log
        BY <2>2
      <3> QED BY <2>3, <3>1, <3>2
    <2> QED BY <2>3, <2>4, <1>0, <2>1, <2>2 DEF ReturnAtOnce, TypeOK
  <1>2. SameEvents /\ SameFrames
    BY <1>0, CalledTyped DEF ReturnAtOnce, SameEvents, SameFrames
  <1>3. stack' \in Seq(Frames)
    BY <1>1 DEF TypeOK
  <1> QED
    BY <1>1, <1>2, <1>3, SameFramesDepth DEF ReturnAtOnce, DepthInv

(* emit() and emit_hash(). *)
LEMMA BindDepth ==
    ASSUME DepthInv, NEW u \in Paths, NEW h \in Hashes, NEW put \in SUBSET Hashes,
           Bind(u, h, put)
    PROVE  DepthInv'
  <1>0. TypeOK BY DEF DepthInv
  <1>1. CASE depth >= RefuseDepth
    BY <1>1, ReturnAtOnceDepth DEF Bind, Refused, DepthInv, TypeOK
  <1>2. CASE ~(depth >= RefuseDepth)
    <2>0. store' = put /\ tree' = [tree EXCEPT ![u] = h]
      BY <1>2 DEF Bind, Refused
    <2>1. store' \subseteq Hashes /\ tree' \in [Paths -> Bindings]
      BY <1>0, <2>0 DEF TypeOK, Bindings
    <2>2. CASE tree[u] = h
      BY <1>2, <2>1, <2>2, ReturnAtOnceDepth DEF Bind, Refused
    <2>3. CASE tree[u] # h
      <3> DEFINE e == Event(u, h, depth + 1)
      <3>1. /\ BeginDispatch(e)
            /\ ctx' = Append(ctx, 0) /\ depth' = depth + 1
            /\ UNCHANGED <<index, tasks, last>>
        BY <1>2, <2>3 DEF Bind, Refused
      <3>2. e \in Events /\ e.level = depth + 1 /\ e.hash # None
        BY <1>0, EmitAssumption DEF Event, Events, TypeOK, Bindings
      <3> HIDE DEF e
      <3>3. ctx' \in Seq(Nat) /\ Len(ctx') = Len(ctx) + 1
        BY <1>0, <3>1, AppendProperties DEF TypeOK
      <3>4. TypeOK'
        BY <1>0, <2>1, <3>1, <3>2, <3>3, BeginDispatchTyped DEF TypeOK
      <3>5. depth + 1 <= RefuseDepth
        BY <1>0, <1>2, EmitAssumption DEF TypeOK
      <3>6. Len(ctx) = depth
        BY DEF DepthInv, DepthAgrees
      <3> QED
        BY <3>1, <3>2, <3>3, <3>4, <3>5, <3>6, BeginDispatchDepth DEF DepthInv
    <2> QED BY <2>2, <2>3
  <1> QED BY <1>1, <1>2

LEMMA DeleteDepth ==
    ASSUME DepthInv, NEW u \in Paths, Delete(u)
    PROVE  DepthInv'
  <1>0. TypeOK BY DEF DepthInv
  <1>1. store' \subseteq Hashes /\ tree' \in [Paths -> Bindings]
    BY <1>0 DEF Delete, TypeOK, Bindings
  <1>2. CASE tree[u] = None
    BY <1>1, <1>2, ReturnAtOnceDepth DEF Delete
  <1>3. CASE tree[u] # None
    <2> DEFINE e == Event(u, None, depth)
    <2>1. BeginDispatch(e) /\ UNCHANGED <<index, depth, ctx, tasks, last>>
      BY <1>3 DEF Delete
    <2>2. e \in Events /\ e.level = depth /\ e.hash = None
      BY <1>0 DEF Event, Events, TypeOK, Bindings
    <2> HIDE DEF e
    <2>3. TypeOK'
      BY <1>0, <1>1, <2>1, <2>2, BeginDispatchTyped DEF TypeOK
    <2>4. e.level = depth + 0 /\ Len(ctx') = depth' /\ depth' <= RefuseDepth
      BY <1>0, <2>1, <2>2 DEF DepthInv, DepthAgrees, TypeOK
    <2> QED
      BY <2>1, <2>2, <2>3, <2>4, BeginDispatchDepth DEF DepthInv
  <1> QED BY <1>2, <1>3

-----------------------------------------------------------------------------
(* A hook's return rewrites the running frame and its event's accounting. *)
LEMMA HookStep ==
    ASSUME DepthInv, stack # <<>>,
           NEW f \in Frames, f.seq = Top.seq,
           NEW e \in Events,
           e.uri = log[Top.seq].uri, e.hash = log[Top.seq].hash,
           e.prev = log[Top.seq].prev, e.level = log[Top.seq].level,
           stack' = [stack EXCEPT ![Len(stack)] = f],
           log' = [log EXCEPT ![Top.seq] = e],
           index' \subseteq Paths \X Hashes,
           ctx' \in Seq(Nat), Len(ctx') = Len(ctx),
           UNCHANGED <<store, tree, depth, tasks, last>>
    PROVE  DepthInv' /\ SameEvents
  <1>0. TypeOK BY DEF DepthInv
  <1>1. /\ stack' \in Seq(Frames) /\ Len(stack') = Len(stack)
        /\ \A i \in 1..Len(stack) :
               stack'[i] = IF i = Len(stack) THEN f ELSE stack[i]
    BY <1>0, ExceptLast DEF TypeOK
  <1>2. SameFrames
    BY <1>1 DEF SameFrames, Top
  <1>3. Top.seq \in 1..Len(log)
    BY <1>0, TopTyped
  <1>4. /\ log' \in Seq(Events) /\ Len(log') = Len(log)
        /\ \A i \in 1..Len(log) :
               log'[i] = IF i = Top.seq THEN e ELSE log[i]
    BY <1>0, <1>3, ExceptSeq, LenProperties DEF TypeOK
  <1>5. SameEvents
    BY <1>3, <1>4 DEF SameEvents
  <1>6. \A i \in 1..Len(stack') : stack'[i].seq \in 1..Len(log')
    <2>1. \A i \in 1..Len(stack) : stack[i].seq \in 1..Len(log)
      BY <1>0 DEF TypeOK
    <2>2. \A i \in 1..Len(stack) : stack'[i].seq = stack[i].seq
      BY <1>2 DEF SameFrames
    <2> QED BY <1>1, <1>4, <2>1, <2>2
  <1>7. TypeOK'
    BY <1>0, <1>1, <1>4, <1>6 DEF TypeOK
  <1> QED
    BY <1>1, <1>2, <1>5, <1>7, SameFramesDepth DEF DepthInv

LEMMA HookCompletesDepth ==
    ASSUME DepthInv, HookCompletes
    PROVE  DepthInv' /\ SameEvents
  <1>0. TypeOK /\ stack # <<>> /\ Top.todo # <<>>
    BY DEF DepthInv, HookCompletes
  <1> DEFINE k == Head(Top.todo)
             d == log[Top.seq]
             f == [Top EXCEPT !.todo = Tail(@), !.calls = 0]
             e == [d EXCEPT !.done = Append(@, k)]
  <1>1. /\ Top \in Frames /\ Top.seq \in 1..Len(log) /\ d \in Events
        /\ Len(stack) \in Nat \ {0}
    BY <1>0, TopTyped
  <1>2. Top.todo \in Seq(Hooks)
    BY <1>1 DEF Frames
  <1>3. k \in Hooks /\ Tail(Top.todo) \in Seq(Hooks)
    BY <1>0, <1>2, HeadTailProperties
  <1>4. f \in Frames /\ f.seq = Top.seq
    BY <1>1, <1>3 DEF Frames
  <1>5. Append(d.done, k) \in Seq(Hooks)
    BY <1>1, <1>3, AppendProperties DEF Events
  <1>6. /\ e \in Events /\ e.uri = d.uri /\ e.hash = d.hash
        /\ e.prev = d.prev /\ e.level = d.level
    BY <1>1, <1>5 DEF Events
  <1>7. /\ stack' = [stack EXCEPT ![Len(stack)] = f]
        /\ log' = [log EXCEPT ![Top.seq] = e]
        /\ UNCHANGED <<store, tree, depth, tasks, last>>
    <2>1. stack' = [stack EXCEPT ![Len(stack)] = f]
      BY DEF HookCompletes
    <2>2. log' = [log EXCEPT ![Top.seq] = e]
      BY DEF HookCompletes
    <2>3. UNCHANGED <<store, tree, depth, tasks, last>>
      BY DEF HookCompletes
    <2> QED BY <2>1, <2>2, <2>3
  <1>8. index' \subseteq Paths \X Hashes
    <2>1. index' = index \/ index' = Reindexed(d)
      BY DEF HookCompletes
    <2>2. Reindexed(d) \subseteq Paths \X Hashes
      <3>1. /\ index \subseteq Paths \X Hashes /\ d.uri \in Paths
            /\ d.hash = None \/ d.hash \in Hashes
        BY <1>0, <1>1 DEF TypeOK, Events, Bindings
      <3>2. (IF d.hash = None THEN {} ELSE {<<d.uri, d.hash>>})
                \subseteq Paths \X Hashes
        BY <3>1
      <3> HIDE DEF d
      <3> QED BY <3>1, <3>2 DEF Reindexed
    <2> QED BY <1>0, <2>1, <2>2 DEF TypeOK
  <1>9. ctx' \in Seq(Nat) /\ Len(ctx') = Len(ctx)
    <2>1. ctx' = ctx \/ (ctx # <<>> /\ ctx' = [ctx EXCEPT ![Len(ctx)] = Top.seq])
      BY DEF HookCompletes, Stamped
    <2>2. Top.seq \in Nat
      BY <1>1 DEF Frames
    <2>3. ctx \in Seq(Nat)
      BY <1>0 DEF TypeOK
    <2> HIDE DEF d
    <2> QED BY <2>1, <2>2, <2>3, ExceptLast
  <1> HIDE DEF f, e, k
  <1> QED
    BY <1>0, <1>4, <1>6, <1>7, <1>8, <1>9, HookStep

LEMMA HookHaltsDepth ==
    ASSUME DepthInv, HookHalts
    PROVE  DepthInv' /\ SameEvents
  <1>0. TypeOK /\ stack # <<>> /\ Top.todo # <<>>
    BY DEF DepthInv, HookHalts
  <1> DEFINE d == log[Top.seq]
             f == [Top EXCEPT !.todo = <<>>]
             e == [d EXCEPT !.halted = Head(Top.todo), !.skipped = Tail(Top.todo)]
  <1>1. /\ Top \in Frames /\ Top.seq \in 1..Len(log) /\ d \in Events
        /\ Len(stack) \in Nat \ {0}
    BY <1>0, TopTyped
  <1>2. Top.todo \in Seq(Hooks)
    BY <1>1 DEF Frames
  <1>3. Head(Top.todo) \in Hooks /\ Tail(Top.todo) \in Seq(Hooks)
    BY <1>0, <1>2, HeadTailProperties
  <1>4. f \in Frames /\ f.seq = Top.seq
    BY <1>1, EmptySeq DEF Frames
  <1>5. /\ e \in Events /\ e.uri = d.uri /\ e.hash = d.hash
        /\ e.prev = d.prev /\ e.level = d.level
    BY <1>1, <1>3 DEF Events
  <1>6. /\ stack' = [stack EXCEPT ![Len(stack)] = f]
        /\ log' = [log EXCEPT ![Top.seq] = e]
        /\ UNCHANGED <<store, tree, index, depth, ctx, tasks, last>>
    BY DEF HookHalts, AfterHalt, Top
  <1>7. index' \subseteq Paths \X Hashes /\ ctx' \in Seq(Nat) /\ Len(ctx') = Len(ctx)
    BY <1>0, <1>6 DEF TypeOK
  <1> HIDE DEF f, e
  <1> QED
    BY <1>0, <1>4, <1>5, <1>6, <1>7, HookStep

-----------------------------------------------------------------------------
(* Phase 2 appends typed tasks. *)
LEMMA ScheduledTyped ==
    ASSUME TypeOK, NEW j \in 1..Len(log)
    PROVE  Scheduled(j) \in Seq([sub : Subs, seq : Nat])
  <1> DEFINE ss == Subscribers[log[j].uri]
  <1>1. log[j] \in Events
    BY ElementOfSeq DEF TypeOK
  <1>2. ss \in Seq(Subs)
    BY <1>1, EmitAssumption DEF Events
  <1>3. j \in Nat /\ Len(ss) \in Nat
    BY <1>2, LenProperties DEF TypeOK
  <1>4. \A i \in 1..Len(ss) : [sub |-> ss[i], seq |-> j] \in [sub : Subs, seq : Nat]
    BY <1>2, <1>3, ElementOfSeq
  <1>5. [i \in 1..Len(ss) |-> [sub |-> ss[i], seq |-> j]]
            \in Seq([sub : Subs, seq : Nat])
    BY <1>3, <1>4, IsASeq
  <1> QED BY <1>5, EmptySeq DEF Scheduled

(* The write returns: its frame is popped and its level given back. *)
LEMMA FinishDispatchDepth ==
    ASSUME DepthInv, FinishDispatch
    PROVE  DepthInv'
  <1>0. TypeOK /\ stack # <<>>
    BY DEF DepthInv, FinishDispatch
  <1>1. /\ Top.seq \in 1..Len(log) /\ log[Top.seq] \in Events
        /\ Len(stack) \in Nat \ {0}
    BY <1>0, TopTyped
  <1> PICK n \in Nat \ {0} : n = Len(stack)
    BY <1>1
  <1> DEFINE e == log[Top.seq]
  <1>2. /\ stack' = SubSeq(stack, 1, Len(stack) - 1)
        /\ UNCHANGED <<store, tree, index, log>>
        /\ tasks' = tasks \o Scheduled(Top.seq)
        /\ LeaveLevel(e)
    BY DEF FinishDispatch
  <1>3. /\ stack' \in Seq(Frames) /\ Len(stack') = n - 1
        /\ \A i \in 1..(n - 1) : stack'[i] = stack[i]
    BY <1>0, <1>2, DropLast DEF TypeOK
  <1>4. e = FrameEvent(n)
    BY DEF FrameEvent, Top
  <1>5. /\ depth = e.level /\ Len(ctx) = depth /\ depth <= RefuseDepth
        /\ e.level = LevelBelow(n) + (IF e.hash = None THEN 0 ELSE 1)
    BY <1>0, <1>4 DEF DepthInv, DepthAgrees, LevelsNest
  <1>6. LevelBelow(n) \in Nat
    <2>1. CASE n = 1
      BY <2>1 DEF LevelBelow
    <2>2. CASE n # 1
      <3>1. n - 1 \in 1..Len(stack)
        BY <2>2
      <3>2. stack[n - 1].seq \in 1..Len(log)
        BY <1>0, <3>1 DEF TypeOK
      <3>3. FrameEvent(n - 1) \in Events
        BY <1>0, <3>2, ElementOfSeq DEF FrameEvent, TypeOK
      <3> QED BY <2>2, <3>3 DEF LevelBelow, Events
    <2> QED BY <2>1, <2>2
  <1>7. depth' = LevelBelow(n) /\ ctx' \in Seq(Nat) /\ Len(ctx') = depth'
    <2>1. CASE e.hash = None
      BY <1>0, <1>2, <1>5, <1>6, <2>1 DEF LeaveLevel, TypeOK
    <2>2. CASE e.hash # None
      <3>1. depth' = depth - 1 /\ ctx' = SubSeq(ctx, 1, Len(ctx) - 1)
        BY <1>2, <2>2 DEF LeaveLevel
      <3>2. depth = LevelBelow(n) + 1
        BY <1>5, <2>2
      <3>3. ctx \in Seq(Nat) /\ ctx # <<>>
        BY <1>0, <1>5, <1>6, <3>2, EmptySeq DEF TypeOK
      <3>4. ctx' \in Seq(Nat) /\ Len(ctx') = Len(ctx) - 1
        BY <3>1, <3>3, DropLast
      <3> QED BY <1>5, <1>6, <3>1, <3>2, <3>4
    <2> QED BY <2>1, <2>2
  <1>8. TypeOK'
    <2>1. last' \in [status : {200, 207, 503}, seq : Nat]
      <3>1. Top.seq \in Nat BY <1>1
      <3> QED BY <3>1 DEF FinishDispatch
    <2>2. tasks' \in Seq([sub : Subs, seq : Nat])
      BY <1>0, <1>1, <1>2, ScheduledTyped, ConcatProperties DEF TypeOK
    <2>3. \A i \in 1..Len(stack') : stack'[i].seq \in 1..Len(log')
      BY <1>0, <1>2, <1>3 DEF TypeOK
    <2>4. depth' \in Nat /\ ctx' \in Seq(Nat)
      BY <1>6, <1>7
    <2>5. stack' \in Seq(Frames)
      BY <1>3
    <2>6. /\ store' \subseteq Hashes /\ tree' \in [Paths -> Bindings]
          /\ index' \subseteq Paths \X Hashes /\ log' \in Seq(Events)
      BY <1>0, <1>2 DEF TypeOK
    <2> HIDE DEF e
    <2> QED BY <2>1, <2>2, <2>3, <2>4, <2>5, <2>6 DEF TypeOK
  <1>9. DepthAgrees'
    <2>1. \A i \in 1..(n - 1) : FrameEvent(i)' = FrameEvent(i)
      BY <1>2, <1>3 DEF FrameEvent
    <2>2. \A i \in 1..(n - 1) : LevelBelow(i)' = LevelBelow(i)
      BY <2>1 DEF LevelBelow
    <2>3. LevelsNest'
      BY <1>3, <2>1, <2>2 DEF DepthInv, DepthAgrees, LevelsNest
    <2>4. CASE n = 1
      <3>1. stack' = <<>>
        BY <1>3, <2>4, EmptySeq
      <3> QED BY <1>5, <1>6, <1>7, <2>3, <2>4, <3>1, EmitAssumption DEF DepthAgrees, LevelBelow
    <2>5. CASE n # 1
      <3>1. stack' # <<>> /\ n - 1 \in 1..(n - 1)
        BY <1>3, <2>5, EmptySeq
      <3>2. FrameEvent(n - 1)' = FrameEvent(n - 1)
        BY <2>1, <3>1
      <3>3. depth' = FrameEvent(n - 1).level
        BY <1>7, <2>5 DEF LevelBelow
      <3>4. depth' <= RefuseDepth
        BY <1>5, <1>6, <1>7, EmitAssumption
      <3>5. FrameEvent(Len(stack))' = FrameEvent(n - 1)
        BY <1>3, <3>2 DEF FrameEvent
      <3> QED BY <1>7, <2>3, <3>1, <3>3, <3>4, <3>5 DEF DepthAgrees
    <2> QED BY <2>4, <2>5
  <1> QED BY <1>8, <1>9 DEF DepthInv

-----------------------------------------------------------------------------
LEMMA DepthInit == Init => DepthInv
  <1> SUFFICES ASSUME Init PROVE DepthInv
    OBVIOUS
  <1>1. TypeOK
    BY EmptySeq, EmitAssumption DEF Init, TypeOK, Bindings
  <1>2. DepthAgrees
    BY EmptySeq, EmitAssumption DEF Init, DepthAgrees, LevelsNest
  <1> QED BY <1>1, <1>2 DEF DepthInv

LEMMA DepthStep == DepthInv /\ [Next]_vars => DepthInv'
  <1> SUFFICES ASSUME DepthInv, [Next]_vars PROVE DepthInv'
    OBVIOUS
  <1>0. TypeOK BY DEF DepthInv
  <1>1. ASSUME NEW u \in Paths, NEW h \in Hashes, Emit(u, h) PROVE DepthInv'
    <2>1. store \cup {h} \in SUBSET Hashes
      BY <1>0 DEF TypeOK
    <2> QED BY <1>1, <2>1, BindDepth DEF Emit
  <1>2. ASSUME NEW u \in Paths, NEW h \in Hashes, EmitHash(u, h) PROVE DepthInv'
    <2>1. store \in SUBSET Hashes
      BY <1>0 DEF TypeOK
    <2> QED BY <1>2, <2>1, BindDepth DEF EmitHash
  <1>3. ASSUME NEW u \in Paths, Delete(u) PROVE DepthInv'
    BY <1>3, DeleteDepth
  <1>4. ASSUME NEW h \in Hashes, PutContentOnly(h) PROVE DepthInv'
    <2>1. TypeOK'
      BY <1>0, <1>4 DEF PutContentOnly, TypeOK
    <2>2. SameEvents /\ SameFrames /\ stack' \in Seq(Frames)
      BY <1>0, <1>4 DEF PutContentOnly, SameEvents, SameFrames, TypeOK
    <2> QED BY <1>4, <2>1, <2>2, SameFramesDepth DEF PutContentOnly, DepthInv
  <1>5. CASE HookCompletes
    BY <1>5, HookCompletesDepth
  <1>6. CASE HookHalts
    BY <1>6, HookHaltsDepth
  <1>7. CASE FinishDispatch
    BY <1>7, FinishDispatchDepth
  <1>8. CASE UNCHANGED vars
    <2>1. TypeOK' BY <1>0, <1>8 DEF vars, TypeOK
    <2>2. SameEvents /\ SameFrames /\ stack' \in Seq(Frames)
      BY <1>0, <1>8 DEF vars, SameEvents, SameFrames, TypeOK
    <2> QED BY <1>8, <2>1, <2>2, SameFramesDepth DEF vars, DepthInv
  <1> QED
    BY <1>1, <1>2, <1>3, <1>4, <1>5, <1>6, <1>7, <1>8 DEF Next, Write, Cascade

(* The write path is type correct whatever its hooks do: every dispatch in *)
(* progress belongs to a committed event, and _cascade_depth is never      *)
(* negative.                                                               *)
THEOREM TypeCorrect == Spec => []TypeOK
  <1>1. DepthInv => TypeOK BY DEF DepthInv
  <1> QED BY <1>1, DepthInit, DepthStep, PTL DEF Spec

(* emit()'s try/finally: for every registration of hooks and every depth   *)
(* threshold, the counter and the context stack agree with the nesting of  *)
(* the dispatches in progress, and no cascade passes SYSTEM_REFUSE_DEPTH.  *)
THEOREM DepthCorrect == Spec => []DepthAgrees
  <1>1. DepthInv => DepthAgrees BY DEF DepthInv
  <1> QED BY <1>1, DepthInit, DepthStep, PTL DEF Spec

-----------------------------------------------------------------------------
LEMMA LoggedTyped ==
    ASSUME TypeOK, NEW j \in 1..Len(log)
    PROVE  log[j].uri \in Paths
  <1>1. log[j] \in Events
    BY ElementOfSeq DEF TypeOK
  <1> QED BY <1>1 DEF Events

(* The event chain.  A step that adds no event keeps it as long as the     *)
(* tree is left alone.                                                     *)
LEMMA SameEventsChain ==
    ASSUME TypeOK, EventChain, log' \in Seq(Events), SameEvents, tree' = tree
    PROVE  EventChain'
  <1>1. Len(log) \in Nat /\ DOMAIN log = 1..Len(log) /\ DOMAIN log' = 1..Len(log)
    BY LenProperties DEF TypeOK, SameEvents
  <1>2. ASSUME NEW p \in Paths PROVE EventsAt(p)' = EventsAt(p)
    BY <1>1 DEF EventsAt, SameEvents
  <1>3. ASSUME NEW p \in Paths, NEW j, NEW h, HashBefore(j, p, h)
        PROVE  HashBefore(j, p, h)'
    BY <1>1, <1>2, <1>3 DEF HashBefore, IsLatestBefore, SameEvents
  <1>4. ASSUME NEW j \in DOMAIN log'
        PROVE  HashBefore(j, log[j].uri, log[j].prev)' /\ log'[j].hash # log'[j].prev
    <2>1. /\ log'[j].uri = log[j].uri /\ log'[j].hash = log[j].hash
          /\ log'[j].prev = log[j].prev
      BY <1>1 DEF SameEvents
    <2>2. log[j].uri \in Paths
      BY <1>1, LoggedTyped DEF SameEvents
    <2>3. HashBefore(j, log[j].uri, log[j].prev) /\ log[j].hash # log[j].prev
      BY <1>1 DEF EventChain
    <2>4. PICK p, h : p \in Paths /\ p = log[j].uri /\ h = log[j].prev
      BY <2>2
    <2>5. HashBefore(j, p, h)'
      BY <1>3, <2>3, <2>4
    <2> QED BY <2>1, <2>3, <2>4, <2>5 DEF HashBefore
  <1>5. ASSUME NEW p \in Paths PROVE HashBefore(Len(log) + 1, p, tree[p])'
    <2>1. PICK n, h : n = Len(log) + 1 /\ h = tree[p]
      OBVIOUS
    <2>2. HashBefore(n, p, h)
      BY <2>1 DEF EventChain
    <2>3. HashBefore(n, p, h)'
      BY <1>3, <2>2
    <2> QED BY <2>1, <2>3 DEF SameEvents, HashBefore
  <1> QED
    BY <1>4, <1>5 DEF EventChain

(* A write that dispatches extends the chain of its path and no other. *)
LEMMA AppendChain ==
    ASSUME TypeOK, EventChain, NEW e \in Events, BeginDispatch(e),
           e.prev = tree[e.uri], e.hash # e.prev,
           tree' = [tree EXCEPT ![e.uri] = e.hash]
    PROVE  EventChain'
  <1>1. Len(log) \in Nat /\ DOMAIN log = 1..Len(log)
    BY LenProperties DEF TypeOK
  <1>2. PICK m \in Nat : m = Len(log)
    BY <1>1
  <1>3. /\ DOMAIN log' = 1..(m + 1) /\ Len(log') = m + 1
        /\ \A i \in 1..m : log'[i] = log[i]
        /\ log'[m + 1] = e
    BY <1>2, BeginDispatchTyped, LenProperties
  <1>4. e.uri \in Paths
    BY DEF Events
  <1>5. ASSUME NEW p \in Paths, p # e.uri PROVE EventsAt(p)' = EventsAt(p)
    BY <1>1, <1>2, <1>3, <1>5 DEF EventsAt
  <1>6. EventsAt(e.uri)' = EventsAt(e.uri) \cup {m + 1}
    BY <1>1, <1>2, <1>3 DEF EventsAt
  <1>7. ASSUME NEW p \in Paths, NEW j \in 1..(m + 1), NEW h, HashBefore(j, p, h)
        PROVE  HashBefore(j, p, h)'
    <2>1. \A i \in 1..m : i \in EventsAt(p)' <=> i \in EventsAt(p)
      BY <1>1, <1>2, <1>3 DEF EventsAt
    <2>2. EventsAt(p) \subseteq 1..m /\ EventsAt(p)' \subseteq 1..(m + 1)
      BY <1>1, <1>2, <1>3 DEF EventsAt
    <2>3. CASE \E i \in DOMAIN log : IsLatestBefore(i, j, p) /\ h = log[i].hash
      <3>1. PICK i \in 1..m : IsLatestBefore(i, j, p) /\ h = log[i].hash
        BY <1>1, <1>2, <2>3
      <3>2. IsLatestBefore(i, j, p)'
        BY <2>1, <2>2, <3>1 DEF IsLatestBefore
      <3> QED BY <1>3, <3>1, <3>2 DEF HashBefore
    <2>4. CASE (\A i \in EventsAt(p) : i >= j) /\ h = None
      <3>1. \A i \in EventsAt(p)' : i >= j
        BY <2>1, <2>2, <2>4
      <3> QED BY <2>4, <3>1 DEF HashBefore
    <2> QED BY <1>7, <2>3, <2>4 DEF HashBefore
  <1>8. ASSUME NEW p \in Paths, p # e.uri, NEW h, HashBefore(m + 1, p, h)
        PROVE  HashBefore(m + 2, p, h)'
    <2>1. EventsAt(p)' = EventsAt(p) /\ EventsAt(p) \subseteq 1..m
      BY <1>1, <1>2, <1>5, <1>8 DEF EventsAt
    <2>2. CASE \E i \in DOMAIN log : IsLatestBefore(i, m + 1, p) /\ h = log[i].hash
      <3>1. PICK i \in 1..m : IsLatestBefore(i, m + 1, p) /\ h = log[i].hash
        BY <1>1, <1>2, <2>2
      <3>2. IsLatestBefore(i, m + 2, p)'
        BY <2>1, <3>1 DEF IsLatestBefore
      <3> QED BY <1>3, <3>1, <3>2 DEF HashBefore
    <2>3. CASE (\A i \in EventsAt(p) : i >= m + 1) /\ h = None
      <3>1. \A i \in EventsAt(p)' : i >= m + 2
        BY <2>1, <2>3
      <3> QED BY <2>3, <3>1 DEF HashBefore
    <2> QED BY <1>8, <2>2, <2>3 DEF HashBefore
  <1>9. ASSUME NEW h, h = e.hash PROVE HashBefore(m + 2, e.uri, h)'
    <2>1. m + 1 \in EventsAt(e.uri)' /\ EventsAt(e.uri)' \subseteq 1..(m + 1)
      BY <1>3 DEF EventsAt
    <2>2. IsLatestBefore(m + 1, m + 2, e.uri)'
      BY <2>1 DEF IsLatestBefore
    <2> QED BY <1>3, <1>9, <2>2 DEF HashBefore
  <1>10. ASSUME NEW j \in DOMAIN log'
         PROVE  HashBefore(j, log[j].uri, log[j].prev)' /\ log'[j].hash # log'[j].prev
    <2>1. CASE j \in 1..m
      <3>1. /\ HashBefore(j, log[j].uri, log[j].prev)
            /\ log[j].hash # log[j].prev /\ log'[j] = log[j]
        BY <1>1, <1>2, <1>3, <2>1 DEF EventChain
      <3>2. log[j].uri \in Paths
        BY <1>2, <2>1, LoggedTyped
      <3>3. PICK p, h : p \in Paths /\ p = log[j].uri /\ h = log[j].prev
        BY <3>2
      <3>4. HashBefore(j, p, h)'
        BY <1>7, <2>1, <3>1, <3>3
      <3> QED BY <3>1, <3>3, <3>4 DEF HashBefore
    <2>2. CASE j = m + 1
      <3>1. PICK h : h = tree[e.uri]
        OBVIOUS
      <3>2. HashBefore(m + 1, e.uri, h)
        BY <1>2, <1>4, <3>1 DEF EventChain
      <3>3. HashBefore(m + 1, e.uri, h)'
        BY <1>4, <1>7, <3>2
      <3> QED BY <1>3, <2>2, <3>1, <3>3 DEF HashBefore
    <2> QED BY <1>3, <2>1, <2>2
  <1>11. ASSUME NEW p \in Paths PROVE HashBefore(Len(log) + 1, p, tree[p])'
    <2>1. PICK h : h = tree'[p]
      OBVIOUS
    <2>2. HashBefore(m + 2, p, h)'
      <3>1. CASE p = e.uri
        BY <1>9, <2>1, <3>1 DEF TypeOK
      <3>2. CASE p # e.uri
        <4>1. h = tree[p] /\ HashBefore(m + 1, p, h)
          BY <1>2, <2>1, <3>2 DEF TypeOK, EventChain
        <4> QED BY <1>8, <3>2, <4>1
      <3> QED BY <3>1, <3>2
    <2>3. Len(log') + 1 = m + 2
      BY <1>3
    <2> QED BY <2>1, <2>2, <2>3 DEF HashBefore, IsLatestBefore
  <1> QED
    BY <1>10, <1>11 DEF EventChain

LEMMA BindChain ==
    ASSUME DepthInv, DepthInv', EventChain, NEW u \in Paths, NEW h \in Hashes,
           NEW put, Bind(u, h, put)
    PROVE  EventChain'
  <1>0. TypeOK /\ log' \in Seq(Events) BY DEF DepthInv, TypeOK
  <1>1. CASE depth >= RefuseDepth
    <2>1. SameEvents /\ tree' = tree
      BY <1>1 DEF Bind, Refused, ReturnAtOnce, SameEvents
    <2> QED BY <1>0, <2>1, SameEventsChain
  <1>2. CASE ~(depth >= RefuseDepth) /\ tree[u] = h
    <2>1. log' = log /\ tree' = [tree EXCEPT ![u] = h]
      BY <1>2 DEF Bind, Refused, ReturnAtOnce
    <2>2. SameEvents /\ tree' = tree
      BY <1>0, <1>2, <2>1 DEF SameEvents, TypeOK
    <2> QED BY <1>0, <2>2, SameEventsChain
  <1>3. CASE ~(depth >= RefuseDepth) /\ tree[u] # h
    <2> DEFINE e == Event(u, h, depth + 1)
    <2>1. BeginDispatch(e) /\ tree' = [tree EXCEPT ![u] = h]
      BY <1>3 DEF Bind, Refused
    <2>2. e \in Events
      BY <1>0 DEF Event, Events, TypeOK, Bindings
    <2>3. e.uri = u /\ e.hash = h /\ e.prev = tree[u]
      BY DEF Event
    <2> HIDE DEF e
    <2> QED BY <1>0, <1>3, <2>1, <2>2, <2>3, AppendChain
  <1> QED BY <1>1, <1>2, <1>3

LEMMA DeleteChain ==
    ASSUME DepthInv, DepthInv', EventChain, NEW u \in Paths, Delete(u)
    PROVE  EventChain'
  <1>0. TypeOK /\ log' \in Seq(Events) BY DEF DepthInv, TypeOK
  <1>1. CASE tree[u] = None
    <2>1. log' = log /\ tree' = [tree EXCEPT ![u] = None]
      BY <1>1 DEF Delete, ReturnAtOnce
    <2>2. SameEvents /\ tree' = tree
      BY <1>0, <1>1, <2>1 DEF SameEvents, TypeOK
    <2> QED BY <1>0, <2>2, SameEventsChain
  <1>2. CASE tree[u] # None
    <2> DEFINE e == Event(u, None, depth)
    <2>1. BeginDispatch(e) /\ tree' = [tree EXCEPT ![u] = None]
      BY <1>2 DEF Delete
    <2>2. e \in Events
      BY <1>0 DEF Event, Events, TypeOK, Bindings
    <2>3. e.uri = u /\ e.hash = None /\ e.prev = tree[u]
      BY DEF Event
    <2> HIDE DEF e
    <2> QED BY <1>0, <1>2, <2>1, <2>2, <2>3, AppendChain
  <1> QED BY <1>1, <1>2

LEMMA ChainInit == Init => EventChain
  BY EmptySeq DEF Init, EventChain, HashBefore, EventsAt

LEMMA ChainStep ==
    DepthInv /\ EventChain /\ [Next]_vars => EventChain'
  <1> SUFFICES ASSUME DepthInv, EventChain, [Next]_vars PROVE EventChain'
    OBVIOUS
  <1>0. DepthInv' /\ TypeOK /\ log' \in Seq(Events)
    BY DepthStep DEF DepthInv, TypeOK
  <1>1. ASSUME NEW u \in Paths, NEW h \in Hashes, Emit(u, h) PROVE EventChain'
    BY <1>0, <1>1, BindChain DEF Emit
  <1>2. ASSUME NEW u \in Paths, NEW h \in Hashes, EmitHash(u, h) PROVE EventChain'
    BY <1>0, <1>2, BindChain DEF EmitHash
  <1>3. ASSUME NEW u \in Paths, Delete(u) PROVE EventChain'
    BY <1>0, <1>3, DeleteChain
  <1>4. ASSUME NEW h \in Hashes, PutContentOnly(h) PROVE EventChain'
    <2>1. SameEvents /\ tree' = tree
      BY <1>4 DEF PutContentOnly, SameEvents
    <2> QED BY <1>0, <2>1, SameEventsChain
  <1>5. CASE HookCompletes
    BY <1>0, <1>5, HookCompletesDepth, SameEventsChain DEF HookCompletes
  <1>6. CASE HookHalts
    BY <1>0, <1>6, HookHaltsDepth, SameEventsChain DEF HookHalts
  <1>7. CASE FinishDispatch
    <2>1. SameEvents /\ tree' = tree
      BY <1>7 DEF FinishDispatch, SameEvents
    <2> QED BY <1>0, <2>1, SameEventsChain
  <1>8. CASE UNCHANGED vars
    <2>1. SameEvents /\ tree' = tree
      BY <1>8 DEF vars, SameEvents
    <2> QED BY <1>0, <2>1, SameEventsChain
  <1> QED
    BY <1>1, <1>2, <1>3, <1>4, <1>5, <1>6, <1>7, <1>8 DEF Next, Write, Cascade

(* "Binding commits here, before cascade fires": for every registration of *)
(* hooks, re-entrant ones included, the events of a path form a chain that *)
(* ends at the tree's binding, and none announces an unchanged binding.    *)
THEOREM ChainCorrect == Spec => []EventChain
  <1> QED BY DepthInit, DepthStep, ChainInit, ChainStep, PTL DEF Spec

-----------------------------------------------------------------------------
(* The index.  A dispatch is pending while the index manager is among the  *)
(* hooks it has still to call.  By IndexUndisturbed whatever runs above a  *)
(* pending dispatch writes within ReachOf its path, so not the path        *)
(* itself: its binding stays that of the event, and its entries are those  *)
(* from before the event, or those of the event if the index manager is    *)
(* registered a second time.                                               *)
Pending(i) == \E m \in DOMAIN stack[i].todo : stack[i].todo[m] = IndexHook

ReachOf(p) == CHOOSE R \in SUBSET (Paths \ {p}) : Reaches(p, R)

EntriesAt(p) == {x \in index : x[1] = p}

Entry(p, h) == IF h = None THEN {} ELSE {<<p, h>>}

IsSuffix(t, s) ==
    \E d \in Nat : /\ Len(t) + d = Len(s)
                    /\ \A m \in 1..Len(t) : t[m] = s[m + d]

TodoIsSuffix ==
    \A i \in 1..Len(stack) : IsSuffix(stack[i].todo, Matching[FrameEvent(i).uri])

PendingIsAlone ==
    \A i, j \in 1..Len(stack) :
        i < j /\ Pending(i) => FrameEvent(j).uri \in ReachOf(FrameEvent(i).uri)

PendingIsBound ==
    \A i \in 1..Len(stack) : Pending(i) =>
        /\ tree[FrameEvent(i).uri] = FrameEvent(i).hash
        /\ \/ EntriesAt(FrameEvent(i).uri) = Entry(FrameEvent(i).uri, FrameEvent(i).prev)
           \/ EntriesAt(FrameEvent(i).uri) = Entry(FrameEvent(i).uri, FrameEvent(i).hash)

RestIsCurrent ==
    \A p \in Paths :
        \/ \E i \in 1..Len(stack) : Pending(i) /\ FrameEvent(i).uri = p
        \/ EntriesAt(p) = Entry(p, tree[p])

IndexInv == TodoIsSuffix /\ PendingIsAlone /\ PendingIsBound /\ RestIsCurrent

LEMMA ReachOfPath ==
    ASSUME IndexUndisturbed, NEW p \in Paths
    PROVE  ReachOf(p) \in SUBSET (Paths \ {p}) /\ Reaches(p, ReachOf(p))
  BY DEF IndexUndisturbed, ReachOf

LEMMA FrameTyped ==
    ASSUME TypeOK, NEW i \in 1..Len(stack)
    PROVE  FrameEvent(i) \in Events /\ stack[i].todo \in Seq(Hooks)
  <1>1. stack[i] \in Frames /\ stack[i].seq \in 1..Len(log)
    BY ElementOfSeq DEF TypeOK
  <1>2. log[stack[i].seq] \in Events
    BY <1>1, ElementOfSeq DEF TypeOK
  <1> QED BY <1>1, <1>2 DEF FrameEvent, Frames

(* The hook that runs is one of its path's, and one up to the index        *)
(* manager as long as that one is still to run.                            *)
LEMMA RunningHook ==
    ASSUME TypeOK, NEW i \in 1..Len(stack), stack[i].todo # <<>>,
           IsSuffix(stack[i].todo, Matching[FrameEvent(i).uri])
    PROVE  \E m \in DOMAIN Matching[FrameEvent(i).uri] :
               /\ Head(stack[i].todo) = Matching[FrameEvent(i).uri][m]
               /\ Pending(i) => m \in UpToIndex(FrameEvent(i).uri)
  <1> DEFINE p == FrameEvent(i).uri
             t == stack[i].todo
  <1>1. p \in Paths /\ t \in Seq(Hooks) /\ Matching[p] \in Seq(Hooks)
    BY FrameTyped, EmitAssumption DEF Events
  <1>2. PICK d \in Nat : Len(t) + d = Len(Matching[p]) /\ \A m \in 1..Len(t) : t[m] = Matching[p][m + d]
    BY DEF IsSuffix
  <1>3. Len(t) \in Nat \ {0} /\ Head(t) = t[1] /\ DOMAIN t = 1..Len(t)
    BY <1>1, EmptySeq, LenProperties, HeadTailProperties
  <1>4. /\ 1 + d \in DOMAIN Matching[p] /\ Head(t) = Matching[p][1 + d]
        /\ DOMAIN Matching[p] = 1..Len(Matching[p])
    BY <1>1, <1>2, <1>3, LenProperties
  <1>5. ASSUME Pending(i) PROVE 1 + d \in UpToIndex(p)
    <2>1. PICK m \in 1..Len(t) : t[m] = IndexHook
      BY <1>3, <1>5 DEF Pending
    <2>2. m + d \in (1 + d)..Len(Matching[p]) /\ Matching[p][m + d] = IndexHook
      BY <1>2, <1>3, <2>1
    <2> QED BY <1>4, <2>2 DEF UpToIndex
  <1> QED BY <1>4, <1>5

(* What a hook of the innermost dispatch writes is no pending path, and is *)
(* within the reach of every pending dispatch.                             *)
LEMMA WritesWithinReach ==
    ASSUME IndexUndisturbed, TypeOK, IndexInv, stack # <<>>, Top.todo # <<>>,
           NEW u \in HookWrites[Head(Top.todo)], NEW i \in 1..Len(stack), Pending(i)
    PROVE  u \in ReachOf(FrameEvent(i).uri) /\ u # FrameEvent(i).uri
  <1> DEFINE n == Len(stack)
             q == FrameEvent(n).uri
             p == FrameEvent(i).uri
  <1>1. n \in 1..n /\ Top = stack[n]
    BY TopTyped DEF Top
  <1>2. PICK m \in DOMAIN Matching[q] :
            Head(stack[n].todo) = Matching[q][m] /\ (Pending(n) => m \in UpToIndex(q))
    BY <1>1, RunningHook DEF IndexInv, TodoIsSuffix
  <1>3. p \in Paths /\ q \in Paths
    BY <1>1, FrameTyped DEF Events
  <1>4. ReachOf(p) \in SUBSET (Paths \ {p}) /\ Reaches(p, ReachOf(p))
    BY <1>3, ReachOfPath
  <1>5. CASE i = n
    BY <1>1, <1>2, <1>4, <1>5 DEF Reaches
  <1>6. CASE i # n
    <2>1. q \in ReachOf(p)
      BY <1>1, <1>6 DEF IndexInv, PendingIsAlone
    <2> QED BY <1>1, <1>2, <1>4, <2>1 DEF Reaches
  <1> QED BY <1>5, <1>6

(* A step that leaves every dispatch, what is pending, the tree and the    *)
(* index as they are.                                                      *)
LEMMA QuietIndex ==
    ASSUME TypeOK, IndexInv, SameEvents, SameFrames, UNCHANGED <<tree, index>>,
           TodoIsSuffix', \A i \in 1..Len(stack) : Pending(i)' = Pending(i)
    PROVE  IndexInv'
  <1>1. \A i \in 1..Len(stack) :
            /\ FrameEvent(i)'.uri = FrameEvent(i).uri
            /\ FrameEvent(i)'.hash = FrameEvent(i).hash
            /\ FrameEvent(i)'.prev = FrameEvent(i).prev
    BY DEF TypeOK, FrameEvent, SameEvents, SameFrames
  <1>2. Len(stack') = Len(stack)
    BY DEF SameFrames
  <1>3. PendingIsAlone'
    BY <1>1, <1>2 DEF IndexInv, PendingIsAlone
  <1>4. \A p : EntriesAt(p)' = EntriesAt(p)
    BY DEF EntriesAt
  <1>5. PendingIsBound'
    BY <1>1, <1>2, <1>4 DEF IndexInv, PendingIsBound
  <1>6. RestIsCurrent'
    BY <1>1, <1>2, <1>4 DEF IndexInv, RestIsCurrent
  <1> QED BY <1>3, <1>5, <1>6 DEF IndexInv

(* A write that returns at once, or a step that calls no hook. *)
LEMMA SameTodoIndex ==
    ASSUME TypeOK, IndexInv, SameEvents, SameFrames, UNCHANGED <<tree, index>>,
           \A i \in 1..Len(stack) : stack'[i].todo = stack[i].todo
    PROVE  IndexInv'
  <1>1. \A i \in 1..Len(stack) : FrameEvent(i)'.uri = FrameEvent(i).uri
    BY DEF TypeOK, FrameEvent, SameEvents, SameFrames
  <1>2. TodoIsSuffix'
    BY <1>1 DEF IndexInv, TodoIsSuffix, SameFrames
  <1>3. \A i \in 1..Len(stack) : Pending(i)' = Pending(i)
    BY DEF Pending
  <1> QED BY <1>2, <1>3, QuietIndex

(* A write that dispatches: its path was not pending, so its entries were  *)
(* those of the binding that the event names as the previous one.          *)
LEMMA PushIndex ==
    ASSUME IndexUndisturbed, TypeOK, IndexInv, NEW e \in Events, BeginDispatch(e),
           tree' = [tree EXCEPT ![e.uri] = e.hash], e.prev = tree[e.uri], index' = index,
           stack = <<>> \/ (Top.todo # <<>> /\ e.uri \in HookWrites[Head(Top.todo)])
    PROVE  IndexInv'
  <1> DEFINE u == e.uri
  <1> PICK n \in Nat : n = Len(stack)
    BY LenProperties DEF TypeOK
  <1>0. u \in Paths /\ Matching[u] \in Seq(Hooks)
    BY EmitAssumption DEF Events
  <1>1. /\ Len(stack') = n + 1
        /\ \A i \in 1..n : FrameEvent(i)' = FrameEvent(i) /\ stack'[i].todo = stack[i].todo
        /\ FrameEvent(n + 1)' = e /\ stack'[n + 1].todo = Matching[u]
    BY BeginDispatchTyped DEF FrameEvent, TypeOK
  <1>2. \A i \in 1..n : Pending(i)' = Pending(i)
    BY <1>1 DEF Pending
  <1>3. Pending(n + 1)'
    BY <1>0, <1>1, LenProperties DEF Pending, IndexUndisturbed, UpToIndex
  <1>4. \A i \in 1..n : Pending(i) =>
            u \in ReachOf(FrameEvent(i).uri) /\ u # FrameEvent(i).uri
    BY WritesWithinReach, EmptySeq DEF TypeOK
  <1>5. /\ \A p \in Paths : tree'[p] = IF p = u THEN e.hash ELSE tree[p]
        /\ \A p : EntriesAt(p)' = EntriesAt(p)
    BY <1>0 DEF EntriesAt, TypeOK
  <1>6. EntriesAt(u) = Entry(u, e.prev)
    BY <1>0, <1>4 DEF IndexInv, RestIsCurrent
  <1>7. TodoIsSuffix'
    <2>1. IsSuffix(Matching[u], Matching[u])
      <3>1. /\ Len(Matching[u]) + 0 = Len(Matching[u])
            /\ \A m \in 1..Len(Matching[u]) : Matching[u][m] = Matching[u][m + 0]
        BY <1>0, LenProperties
      <3> QED BY <3>1 DEF IsSuffix
    <2> QED BY <1>1, <2>1 DEF IndexInv, TodoIsSuffix
  <1>8. PendingIsAlone'
    BY <1>1, <1>2, <1>4 DEF IndexInv, PendingIsAlone
  <1>9. PendingIsBound'
    <2>1. ASSUME NEW i \in 1..n, Pending(i)
          PROVE  FrameEvent(i).uri \in Paths \ {u}
      BY <1>4, <2>1, FrameTyped DEF Events
    <2> QED BY <1>0, <1>1, <1>2, <1>5, <1>6, <2>1 DEF IndexInv, PendingIsBound
  <1>10. RestIsCurrent'
    BY <1>1, <1>2, <1>3, <1>5 DEF IndexInv, RestIsCurrent
  <1> QED BY <1>7, <1>8, <1>9, <1>10 DEF IndexInv

LEMMA BindIndex ==
    ASSUME IndexUndisturbed, TypeOK, IndexInv, NEW op, NEW u \in Paths, NEW h \in Hashes, NEW put,
           MayCall(op, u), Bind(u, h, put)
    PROVE  IndexInv'
  <1>1. CASE Refused \/ tree[u] = h
    <2>1. stack' = Called /\ UNCHANGED <<log, index>>
      BY <1>1 DEF Bind, ReturnAtOnce
    <2>2. tree' = tree
      BY <1>1 DEF Bind, TypeOK
    <2>3. SameEvents /\ SameFrames /\ \A i \in 1..Len(stack) : stack'[i].todo = stack[i].todo
      BY <2>1, CalledTyped DEF SameEvents, SameFrames
    <2> QED BY <2>1, <2>2, <2>3, SameTodoIndex
  <1>2. CASE ~Refused /\ tree[u] # h
    <2> DEFINE e == Event(u, h, depth + 1)
    <2>1. /\ BeginDispatch(e) /\ tree' = [tree EXCEPT ![u] = h] /\ index' = index
          /\ stack = <<>> \/ (Top.todo # <<>> /\ u \in HookWrites[Head(Top.todo)])
      BY <1>2 DEF Bind, MayCall
    <2>2. e \in Events /\ e.uri = u /\ e.hash = h /\ e.prev = tree[u]
      BY DEF Event, Events, TypeOK, Bindings
    <2> HIDE DEF e
    <2> QED BY <2>1, <2>2, PushIndex
  <1> QED BY <1>1, <1>2

LEMMA DeleteIndex ==
    ASSUME IndexUndisturbed, TypeOK, IndexInv, NEW u \in Paths, Delete(u)
    PROVE  IndexInv'
  <1>1. CASE tree[u] = None
    <2>1. stack' = Called /\ UNCHANGED <<log, index>> /\ tree' = tree
      BY <1>1 DEF Delete, ReturnAtOnce, TypeOK
    <2>2. SameEvents /\ SameFrames /\ \A i \in 1..Len(stack) : stack'[i].todo = stack[i].todo
      BY <2>1, CalledTyped DEF SameEvents, SameFrames
    <2> QED BY <2>1, <2>2, SameTodoIndex
  <1>2. CASE tree[u] # None
    <2> DEFINE e == Event(u, None, depth)
    <2>1. /\ BeginDispatch(e) /\ tree' = [tree EXCEPT ![u] = None] /\ index' = index
          /\ stack = <<>> \/ (Top.todo # <<>> /\ u \in HookWrites[Head(Top.todo)])
      BY <1>2 DEF Delete, MayCall
    <2>2. e \in Events /\ e.uri = u /\ e.hash = None /\ e.prev = tree[u]
      BY DEF Event, Events, TypeOK, Bindings
    <2> HIDE DEF e
    <2> QED BY <2>1, <2>2, PushIndex
  <1> QED BY <1>1, <1>2

-----------------------------------------------------------------------------
(* A hook returns: only its own frame loses a hook. *)
LEMMA CompletesFrames ==
    ASSUME DepthInv, HookCompletes
    PROVE  /\ SameEvents /\ SameFrames
           /\ \A i \in 1..(Len(stack) - 1) : stack'[i].todo = stack[i].todo
           /\ stack'[Len(stack)].todo = Tail(Top.todo)
  <1>0. TypeOK /\ stack # <<>> /\ Top.todo # <<>>
    BY DEF DepthInv, HookCompletes
  <1>1. SameEvents
    BY HookCompletesDepth
  <1>2. Len(stack) \in Nat \ {0} /\ Top \in Frames /\ Top = stack[Len(stack)]
    BY <1>0, TopTyped DEF Top
  <1>3. Top.todo \in Seq(Hooks) /\ Tail(Top.todo) \in Seq(Hooks)
    BY <1>0, <1>2, HeadTailProperties DEF Frames
  <1> DEFINE f == [Top EXCEPT !.todo = Tail(@), !.calls = 0]
  <1>4. f \in Frames /\ f.seq = Top.seq /\ f.todo = Tail(Top.todo)
    BY <1>2, <1>3 DEF Frames
  <1>5. stack' = [stack EXCEPT ![Len(stack)] = f]
    BY DEF HookCompletes
  <1> HIDE DEF f
  <1>6. /\ Len(stack') = Len(stack)
        /\ \A i \in 1..Len(stack) : stack'[i] = IF i = Len(stack) THEN f ELSE stack[i]
    BY <1>0, <1>4, <1>5, ExceptLast DEF TypeOK
  <1> QED BY <1>1, <1>2, <1>4, <1>6 DEF SameFrames

(* A hook halts: only its own frame loses its hooks. *)
LEMMA HaltsFrames ==
    ASSUME DepthInv, HookHalts
    PROVE  /\ SameEvents /\ SameFrames
           /\ \A i \in 1..(Len(stack) - 1) : stack'[i].todo = stack[i].todo
           /\ stack'[Len(stack)].todo = <<>>
  <1>0. TypeOK /\ stack # <<>>
    BY DEF DepthInv, HookHalts
  <1>1. SameEvents
    BY HookHaltsDepth
  <1>2. Len(stack) \in Nat \ {0} /\ Top \in Frames /\ Top = stack[Len(stack)]
    BY <1>0, TopTyped DEF Top
  <1> DEFINE f == [Top EXCEPT !.todo = <<>>]
  <1>4. f \in Frames /\ f.seq = Top.seq /\ f.todo = <<>>
    BY <1>2, EmptySeq DEF Frames
  <1>5. stack' = [stack EXCEPT ![Len(stack)] = f]
    BY DEF HookHalts, Top
  <1> HIDE DEF f
  <1>6. /\ Len(stack') = Len(stack)
        /\ \A i \in 1..Len(stack) : stack'[i] = IF i = Len(stack) THEN f ELSE stack[i]
    BY <1>0, <1>4, <1>5, ExceptLast DEF TypeOK
  <1> QED BY <1>1, <1>2, <1>4, <1>6 DEF SameFrames

(* What is left of a suffix after its head is a suffix. *)
LEMMA TailIsSuffix ==
    ASSUME NEW S, NEW t \in Seq(S), NEW s \in Seq(S), t # <<>>, IsSuffix(t, s)
    PROVE  IsSuffix(Tail(t), s) /\ IsSuffix(<<>>, s)
  <1>1. PICK d \in Nat : Len(t) + d = Len(s) /\ \A m \in 1..Len(t) : t[m] = s[m + d]
    BY DEF IsSuffix
  <1>2. /\ Len(Tail(t)) = Len(t) - 1 /\ Len(t) \in Nat \ {0} /\ Len(s) \in Nat
        /\ \A m \in 1..(Len(t) - 1) : Tail(t)[m] = t[m + 1]
    BY HeadTailProperties, LenProperties, EmptySeq
  <1>3. d + 1 \in Nat /\ Len(Tail(t)) + (d + 1) = Len(s)
    BY <1>1, <1>2
  <1>4. ASSUME NEW m \in 1..Len(Tail(t)) PROVE Tail(t)[m] = s[m + (d + 1)]
    <2>1. m + 1 \in 1..Len(t) /\ (m + 1) + d = m + (d + 1)
      BY <1>1, <1>2
    <2> QED BY <1>1, <1>2, <2>1
  <1>5. IsSuffix(Tail(t), s)
    BY <1>3, <1>4 DEF IsSuffix
  <1>6. IsSuffix(<<>>, s)
    BY <1>2, EmptySeq DEF IsSuffix
  <1> QED BY <1>5, <1>6

(* What holds of a frame before the hook it runs is gone. *)
LEMMA TopPending ==
    ASSUME IndexUndisturbed, TypeOK, IndexInv, stack # <<>>, Top.todo # <<>>
    PROVE  /\ Top.todo \in Seq(Hooks) /\ Top = stack[Len(stack)] /\ Len(stack) \in Nat \ {0}
           /\ Pending(Len(stack)) /\ Head(Top.todo) # IndexHook =>
                  \E m \in DOMAIN Tail(Top.todo) : Tail(Top.todo)[m] = IndexHook
           /\ \A m \in DOMAIN Tail(Top.todo) : Tail(Top.todo)[m] = IndexHook => Pending(Len(stack))
           /\ Head(Top.todo) = IndexHook => Pending(Len(stack))
           /\ Pending(Len(stack)) => Head(Top.todo) \notin MayHalt
           /\ IsSuffix(Tail(Top.todo), Matching[FrameEvent(Len(stack)).uri])
           /\ IsSuffix(<<>>, Matching[FrameEvent(Len(stack)).uri])
  <1> DEFINE n == Len(stack)
             t == stack[n].todo
             p == FrameEvent(n).uri
  <1>1. n \in Nat \ {0} /\ n \in 1..n /\ Top = stack[n]
    BY TopTyped DEF Top
  <1>2. p \in Paths /\ t \in Seq(Hooks) /\ Matching[p] \in Seq(Hooks) /\ t # <<>>
    BY <1>1, FrameTyped, EmitAssumption DEF Events
  <1>3. IsSuffix(t, Matching[p])
    BY <1>1 DEF IndexInv, TodoIsSuffix
  <1>4. /\ Len(Tail(t)) = Len(t) - 1 /\ Len(t) \in Nat \ {0} /\ Head(t) = t[1]
        /\ \A m \in 1..(Len(t) - 1) : Tail(t)[m] = t[m + 1]
        /\ DOMAIN t = 1..Len(t) /\ DOMAIN Tail(t) = 1..Len(Tail(t))
    BY <1>2, HeadTailProperties, LenProperties, EmptySeq
  <1>5. ASSUME Pending(n), Head(t) # IndexHook
        PROVE  \E m \in DOMAIN Tail(t) : Tail(t)[m] = IndexHook
    <2>1. PICK m \in 1..Len(t) : t[m] = IndexHook
      BY <1>4, <1>5 DEF Pending
    <2>2. m - 1 \in 1..(Len(t) - 1) /\ Tail(t)[m - 1] = t[m]
      BY <1>4, <1>5, <2>1
    <2> QED BY <1>4, <2>1, <2>2
  <1>6. ASSUME NEW m \in DOMAIN Tail(t), Tail(t)[m] = IndexHook
        PROVE  Pending(n)
    <2>1. m + 1 \in DOMAIN t /\ t[m + 1] = IndexHook
      BY <1>4, <1>6
    <2> QED BY <2>1 DEF Pending
  <1>7. Head(t) = IndexHook => Pending(n)
    BY <1>4 DEF Pending
  <1>8. Pending(n) => Head(t) \notin MayHalt
    BY <1>1, <1>2, <1>3, RunningHook DEF IndexUndisturbed
  <1> QED BY <1>1, <1>2, <1>3, <1>5, <1>6, <1>7, <1>8, TailIsSuffix

LEMMA HookHaltsIndex ==
    ASSUME IndexUndisturbed, DepthInv, IndexInv, HookHalts
    PROVE  IndexInv'
  <1>0. TypeOK /\ stack # <<>> /\ Top.todo # <<>>
    BY DEF DepthInv, HookHalts
  <1>1. \A i \in 1..Len(stack) : FrameEvent(i)'.uri = FrameEvent(i).uri
    BY <1>0, HaltsFrames DEF TypeOK, FrameEvent, SameEvents, SameFrames
  <1>2. TodoIsSuffix'
    BY <1>0, <1>1, HaltsFrames, TopPending DEF IndexInv, TodoIsSuffix, SameFrames
  <1>3. ~Pending(Len(stack)) /\ ~Pending(Len(stack))'
    <2>1. ~Pending(Len(stack))
      BY <1>0, TopPending DEF HookHalts
    <2> QED BY <2>1, HaltsFrames, EmptySeq DEF Pending, SameFrames
  <1>4. \A i \in 1..Len(stack) : Pending(i)' = Pending(i)
    BY <1>0, <1>3, HaltsFrames, TopTyped DEF Pending
  <1> QED BY <1>0, <1>2, <1>4, HaltsFrames, QuietIndex DEF HookHalts

(* The index manager runs: the entries of its event's path become those of *)
(* the event's hash.                                                       *)
LEMMA IndexRuns ==
    ASSUME IndexUndisturbed, DepthInv, IndexInv, HookCompletes, Head(Top.todo) = IndexHook
    PROVE  IndexInv'
  <1>0. TypeOK /\ stack # <<>> /\ Top.todo # <<>>
    BY DEF DepthInv, HookCompletes
  <1> PICK n \in Nat \ {0} : n = Len(stack)
    BY <1>0, TopTyped
  <1> DEFINE e == FrameEvent(n)
  <1>1. Pending(n) /\ n \in 1..n /\ e = log[Top.seq] /\ e \in Events
    <2>1. Pending(n) /\ n \in 1..n
      BY <1>0, TopPending
    <2>2. e \in Events
      BY <1>0, <2>1, FrameTyped
    <2>3. e = log[Top.seq]
      BY DEF FrameEvent, Top
    <2> QED BY <2>1, <2>2, <2>3
  <1>2. /\ Len(stack') = n
        /\ \A i \in 1..n : /\ FrameEvent(i)'.uri = FrameEvent(i).uri
                            /\ FrameEvent(i)'.hash = FrameEvent(i).hash
                            /\ FrameEvent(i)'.prev = FrameEvent(i).prev
    BY <1>0, CompletesFrames DEF TypeOK, FrameEvent, SameEvents, SameFrames
  <1>3. \A i \in 1..(n - 1) : Pending(i)' = Pending(i)
    BY CompletesFrames DEF Pending
  <1> PICK u \in Paths : u = e.uri
    BY <1>1 DEF Events
  <1>4. tree' = tree /\ index' = Reindexed(e)
    BY <1>1 DEF HookCompletes
  <1>5. \A i \in 1..(n - 1) : Pending(i) => FrameEvent(i).uri # u
    <2>1. ASSUME NEW i \in 1..(n - 1), Pending(i)
          PROVE  FrameEvent(i).uri # u
      <3>1. i \in 1..n /\ FrameEvent(i).uri \in Paths
        BY <1>0, FrameTyped DEF Events
      <3>2. u \in ReachOf(FrameEvent(i).uri)
        BY <1>1, <2>1, <3>1 DEF IndexInv, PendingIsAlone
      <3> QED BY <3>1, <3>2, ReachOfPath
    <2> QED BY <2>1
  <1>6. tree[u] = e.hash /\ (EntriesAt(u) = Entry(u, e.prev) \/ EntriesAt(u) = Entry(u, e.hash))
    BY <1>1 DEF IndexInv, PendingIsBound
  <1>7. EntriesAt(u)' = Entry(u, e.hash)
    <2> HIDE DEF e
    <2>1. EntriesAt(u)' = {x \in Reindexed(e) : x[1] = u}
      BY <1>4 DEF EntriesAt
    <2> QED BY <1>6, <2>1 DEF EntriesAt, Entry, Reindexed
  <1>8. \A p : p # u => EntriesAt(p)' = EntriesAt(p)
    <2> HIDE DEF e
    <2> QED BY <1>4 DEF EntriesAt, Reindexed
  <1>9. TodoIsSuffix'
    <2>1. ASSUME NEW i \in 1..n
          PROVE  IsSuffix(stack'[i].todo, Matching[FrameEvent(i).uri])
      <3>1. CASE i = n
        BY <1>0, <3>1, CompletesFrames, TopPending
      <3>2. CASE i # n
        BY <3>2, CompletesFrames DEF IndexInv, TodoIsSuffix
      <3> QED BY <3>1, <3>2
    <2> QED BY <1>2, <2>1 DEF TodoIsSuffix
  <1>10. PendingIsAlone'
    <2>1. ASSUME NEW i \in 1..n, NEW j \in 1..n, i < j, Pending(i)'
          PROVE  FrameEvent(j)'.uri \in ReachOf(FrameEvent(i)'.uri)
      BY <1>2, <1>3, <2>1 DEF IndexInv, PendingIsAlone
    <2> QED BY <1>2, <2>1 DEF PendingIsAlone
  <1>11. PendingIsBound'
    <2>1. ASSUME NEW i \in 1..n, Pending(i)'
          PROVE  /\ tree'[FrameEvent(i).uri] = FrameEvent(i).hash
                 /\ \/ EntriesAt(FrameEvent(i).uri)' = Entry(FrameEvent(i).uri, FrameEvent(i).prev)
                    \/ EntriesAt(FrameEvent(i).uri)' = Entry(FrameEvent(i).uri, FrameEvent(i).hash)
      <3>1. CASE i = n
        BY <1>2, <1>4, <1>6, <1>7, <3>1
      <3>2. CASE i # n
        <4>1. Pending(i) /\ FrameEvent(i).uri # u
          BY <1>3, <1>5, <2>1, <3>2
        <4> QED BY <1>2, <1>4, <1>8, <4>1 DEF IndexInv, PendingIsBound
      <3> QED BY <3>1, <3>2
    <2> QED BY <1>2, <2>1 DEF PendingIsBound
  <1>12. RestIsCurrent'
    <2>1. ASSUME NEW p \in Paths
          PROVE  (\E i \in 1..n : Pending(i)' /\ FrameEvent(i)'.uri = p) \/ EntriesAt(p)' = Entry(p, tree'[p])
      <3>1. CASE p = u
        BY <1>4, <1>6, <1>7, <3>1
      <3>2. CASE p # u
        BY <1>2, <1>3, <1>4, <1>8, <3>2 DEF IndexInv, RestIsCurrent
      <3> QED BY <3>1, <3>2
    <2> QED BY <1>2, <2>1 DEF RestIsCurrent
  <1> QED BY <1>9, <1>10, <1>11, <1>12 DEF IndexInv

LEMMA HookCompletesIndex ==
    ASSUME IndexUndisturbed, DepthInv, IndexInv, HookCompletes
    PROVE  IndexInv'
  <1>0. TypeOK /\ stack # <<>> /\ Top.todo # <<>>
    BY DEF DepthInv, HookCompletes
  <1>1. CASE Head(Top.todo) = IndexHook
    BY <1>1, IndexRuns
  <1>2. CASE Head(Top.todo) # IndexHook
    <2> PICK n \in Nat \ {0} : n = Len(stack)
      BY <1>0, TopTyped
    <2>1. \A i \in 1..n : FrameEvent(i)'.uri = FrameEvent(i).uri
      BY <1>0, CompletesFrames DEF TypeOK, FrameEvent, SameEvents, SameFrames
    <2>2. TodoIsSuffix'
      BY <1>0, <2>1, CompletesFrames, TopPending DEF IndexInv, TodoIsSuffix, SameFrames
    <2>3. Pending(n)' = Pending(n)
      <3>1. Pending(n) => \E m \in DOMAIN Tail(Top.todo) : Tail(Top.todo)[m] = IndexHook
        BY <1>0, <1>2, TopPending
      <3>2. (\E m \in DOMAIN Tail(Top.todo) : Tail(Top.todo)[m] = IndexHook) => Pending(n)
        BY <1>0, TopPending
      <3>3. stack'[n].todo = Tail(Top.todo)
        BY CompletesFrames
      <3> QED BY <3>1, <3>2, <3>3, Zenon DEF Pending
    <2>4. \A i \in 1..n : Pending(i)' = Pending(i)
      BY <2>3, CompletesFrames DEF Pending
    <2>5. UNCHANGED <<tree, index>>
      BY <1>2 DEF HookCompletes
    <2> QED BY <1>0, <2>2, <2>4, <2>5, CompletesFrames, QuietIndex
  <1> QED BY <1>1, <1>2

(* The write returns: nothing was pending in its frame. *)
LEMMA FinishDispatchIndex ==
    ASSUME TypeOK, IndexInv, FinishDispatch
    PROVE  IndexInv'
  <1>0. stack # <<>> /\ Top.todo = <<>> /\ UNCHANGED <<tree, index, log>>
    BY DEF FinishDispatch
  <1> PICK n \in Nat \ {0} : n = Len(stack)
    BY <1>0, TopTyped
  <1>1. Len(stack') = n - 1 /\ \A i \in 1..(n - 1) : stack'[i] = stack[i]
    BY <1>0, DropLast DEF FinishDispatch, TypeOK
  <1>2. ~Pending(n)
    BY <1>0, EmptySeq DEF Pending, Top
  <1>3. \A i \in 1..(n - 1) : FrameEvent(i)' = FrameEvent(i) /\ (Pending(i)' <=> Pending(i))
    BY <1>0, <1>1 DEF FrameEvent, Pending
  <1>4. \A p : EntriesAt(p)' = EntriesAt(p)
    BY <1>0 DEF EntriesAt
  <1>5. TodoIsSuffix'
    BY <1>1, <1>3 DEF IndexInv, TodoIsSuffix
  <1>6. PendingIsAlone'
    BY <1>1, <1>3 DEF IndexInv, PendingIsAlone
  <1>7. PendingIsBound'
    BY <1>0, <1>1, <1>3, <1>4 DEF IndexInv, PendingIsBound
  <1>8. RestIsCurrent'
    BY <1>0, <1>1, <1>2, <1>3, <1>4 DEF IndexInv, RestIsCurrent
  <1> QED BY <1>5, <1>6, <1>7, <1>8 DEF IndexInv

LEMMA IndexInit == Init => IndexInv
  BY EmptySeq DEF Init, IndexInv, TodoIsSuffix, PendingIsAlone, PendingIsBound, RestIsCurrent,
                  EntriesAt, Entry

LEMMA IndexStep ==
    ASSUME IndexUndisturbed
    PROVE  DepthInv /\ IndexInv /\ [Next]_vars => IndexInv'
  <1> SUFFICES ASSUME DepthInv, IndexInv, [Next]_vars PROVE IndexInv'
    OBVIOUS
  <1>0. TypeOK BY DEF DepthInv
  <1>1. ASSUME NEW u \in Paths, NEW h \in Hashes, Emit(u, h) PROVE IndexInv'
    BY <1>0, <1>1, BindIndex DEF Emit
  <1>2. ASSUME NEW u \in Paths, NEW h \in Hashes, EmitHash(u, h) PROVE IndexInv'
    BY <1>0, <1>2, BindIndex DEF EmitHash
  <1>3. ASSUME NEW u \in Paths, Delete(u) PROVE IndexInv'
    BY <1>0, <1>3, DeleteIndex
  <1>4. CASE (\E h \in Hashes : PutContentOnly(h)) \/ UNCHANGED vars
    <2>1. SameEvents /\ SameFrames /\ UNCHANGED <<stack, tree, index>>
      BY <1>4 DEF PutContentOnly, vars, SameEvents, SameFrames
    <2> QED BY <1>0, <2>1, SameTodoIndex
  <1>5. CASE HookCompletes
    BY <1>5, HookCompletesIndex
  <1>6. CASE HookHalts
    BY <1>6, HookHaltsIndex
  <1>7. CASE FinishDispatch
    BY <1>0, <1>7, FinishDispatchIndex
  <1> QED
    BY <1>1, <1>2, <1>3, <1>4, <1>5, <1>6, <1>7 DEF Next, Write, Cascade

LEMMA IndexInvCurrent ==
    ASSUME TypeOK, IndexInv
    PROVE  IndexSynchronous
  <1>1. DOMAIN stack = 1..Len(stack)
    BY LenProperties DEF TypeOK
  <1>2. ASSUME NEW p \in Paths \ Unindexed
        PROVE  EntriesAt(p) = Entry(p, tree[p])
    BY <1>1, <1>2 DEF IndexInv, RestIsCurrent, Unindexed, Pending
  <1> QED BY <1>2 DEF IndexSynchronous, EntriesAt, Entry

(* "Indexes are synchronous with writes": where the index manager is       *)
(* undisturbed, it has indexed exactly the bindings of every path that has *)
(* no dispatch on its way to it, however the hooks nest, halt and write.   *)
THEOREM IndexCorrect ==
    ASSUME IndexUndisturbed
    PROVE  Spec => []IndexSynchronous
  <1> QED BY DepthInit, DepthStep, IndexInit, IndexStep, IndexInvCurrent, PTL DEF Spec, DepthInv

-----------------------------------------------------------------------------
LEMMA StoredStep == TypeOK /\ BoundIsStored /\ [Next]_vars => BoundIsStored'
  <1> SUFFICES ASSUME TypeOK, BoundIsStored, [Next]_vars PROVE BoundIsStored'
    OBVIOUS
  <1>1. ASSUME NEW u \in Paths, NEW h \in Hashes, Emit(u, h) \/ EmitHash(u, h)
        PROVE  BoundIsStored'
    <2>1. CASE Refused
      BY <1>1, <2>1 DEF Emit, EmitHash, Bind, BoundIsStored
    <2>2. CASE ~Refused
      <3>1. /\ tree' = [tree EXCEPT ![u] = h]
            /\ store \subseteq store' /\ h \in store'
        BY <1>1, <2>2 DEF Emit, EmitHash, Bind
      <3> QED BY <3>1 DEF BoundIsStored, TypeOK
    <2> QED BY <2>1, <2>2
  <1>2. ASSUME NEW u \in Paths, Delete(u) PROVE BoundIsStored'
    BY <1>2 DEF Delete, BoundIsStored, TypeOK
  <1>3. CASE (\E h \in Hashes : PutContentOnly(h)) \/ UNCHANGED vars
    BY <1>3 DEF PutContentOnly, vars, BoundIsStored
  <1>4. CASE Cascade
    BY <1>4 DEF Cascade, HookCompletes, HookHalts, FinishDispatch, BoundIsStored
  <1> QED BY <1>1, <1>2, <1>3, <1>4 DEF Next, Write

(* The tree never binds a hash that the content store cannot resolve       *)
(* (emit(): the put comes before the binding; emit_hash() looks it up).    *)
THEOREM StoredCorrect == Spec => []BoundIsStored
  <1>1. Init => BoundIsStored
    BY DEF Init, BoundIsStored
  <1>2. DepthInv => TypeOK BY DEF DepthInv
  <1> QED BY <1>1, <1>2, DepthInit, DepthStep, StoredStep, PTL DEF Spec

=============================================================================
