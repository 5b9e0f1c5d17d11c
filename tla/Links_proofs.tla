---------------------------- MODULE Links_proofs ----------------------------
(***************************************************************************)
(* Proofs about the links to a remote peer: Connection, for any number of  *)
(* calls, with the proof that it implements the calls of module Calls, and *)
(* RemotePool, for any callers, timers and number of dials; and Dispatch,  *)
(* for any load, slots and policies.                                       *)
(*                                                                         *)
(* None of the properties of Connection is inductive alone.  That no       *)
(* response is missed and that no call waits on a dead reader both rest on *)
(* Awaited: as long as a reader is left to complete it, the open future of *)
(* a call in progress is registered.  That a call fails only on a          *)
(* connection that has ended rests on EndsAreKnown.                        *)
(***************************************************************************)
EXTENDS Connection, RemotePool, Dispatch, SequenceTheorems, FiniteSetTheorems, TLAPS

InProgress == {"lock", "send", "wait"}

(* A frame is written under the lock: before that there is no response. *)
Unsent == \A r \in Requests : st[r] \in {"new", "lock"} => r \notin wire /\ r \notin read

(* A future is made when the call begins, is done only by a response that  *)
(* was read, is cancelled only while its caller waits or afterwards, and   *)
(* leaves the table with its result.                                       *)
FuturesFollow ==
    \A r \in Requests :
        /\ st[r] = "new" <=> fut[r] = "none"
        /\ fut[r] = "done" => r \in read
        /\ fut[r] = "cancelled" => st[r] \in {"wait"} \cup Over
        /\ r \in pending => fut[r] \in {"open", "cancelled"}

(* What a live reader is to complete is registered. *)
Awaited ==
    reader \in {"running", "cancelling"} =>
        \A r \in Requests : st[r] \in InProgress /\ fut[r] = "open" => r \in pending

(* Nothing fails on a connection that is as it was at the start. *)
EndsAreKnown ==
    /\ \A r \in Requests : fut[r] = "error" => closed \/ torn
    /\ reader \in {"cancelling", "eof", "cancelled"} => closed

(* FailsFast, also of a call whose frame is being written. *)
NoneLeft ==
    reader \in {"eof", "cancelled"} =>
        \A r \in Requests : st[r] \in {"send", "wait"} => fut[r] # "open"

ConnInv ==
    /\ TypeOK /\ OneSender /\ NoStrayFutures /\ NoMissedResponse /\ TimeoutIsLocal
    /\ Unsent /\ FuturesFollow /\ Awaited /\ EndsAreKnown /\ NoneLeft

-----------------------------------------------------------------------------
(* Giving a place in the queue up leaves a queue. *)
LEMMA WithoutType ==
    ASSUME NEW s \in Seq(Requests), NEW r
    PROVE  Without(s, r) \in Seq(Requests)
  <1>1. CASE \E i \in DOMAIN s : s[i] = r
    <2> DEFINE i == CHOOSE k \in DOMAIN s : s[k] = r
               t == [j \in 1..(Len(s) - 1) |-> IF j < i THEN s[j] ELSE s[j + 1]]
    <2>1. i \in 1..Len(s) /\ Len(s) - 1 \in Nat
      BY <1>1
    <2>2. \A j \in 1..(Len(s) - 1) : t[j] \in Requests
      BY <2>1
    <2>3. t \in Seq(Requests)
      BY <2>1, <2>2, IsASeq
    <2> QED BY <1>1, <2>3 DEF Without
  <1> QED BY <1>1 DEF Without

(* The holder keeps the lock when another caller leaves the queue. *)
LEMMA WithoutHead ==
    ASSUME NEW s \in Seq(Requests), NEW r, s # <<>>, Head(s) # r
    PROVE  Without(s, r) # <<>> /\ Head(Without(s, r)) = Head(s)
  <1>1. CASE \E i \in DOMAIN s : s[i] = r
    <2> DEFINE i == CHOOSE k \in DOMAIN s : s[k] = r
               t == [j \in 1..(Len(s) - 1) |-> IF j < i THEN s[j] ELSE s[j + 1]]
    <2>1. i \in 1..Len(s) /\ s[i] = r /\ s[1] = Head(s)
      BY <1>1
    <2>2. 1 < i
      BY <2>1
    <2>3. Without(s, r) = t
      BY <1>1 DEF Without
    <2>4. t \in Seq(Requests)
      BY <2>3, WithoutType
    <2>5. 1 \in DOMAIN t /\ t[1] = s[1]
      BY <2>1, <2>2
    <2> HIDE DEF t
    <2>6. t # <<>> /\ Head(t) = t[1]
      BY <2>4, <2>5
    <2> QED BY <2>1, <2>3, <2>5, <2>6
  <1> QED BY <1>1 DEF Without

-----------------------------------------------------------------------------
LEMMA InitInv == Init => ConnInv
  <1> SUFFICES ASSUME Init PROVE ConnInv
    OBVIOUS
  <1>1. TypeOK
    <2>1. <<>> \in Seq(Requests) /\ 0 \in 0..MaxInbound
      BY ConnectionAssumption
    <2>2. [r \in Requests |-> "new"] \in [Requests -> {"new", "lock", "send", "wait"} \cup Over]
      OBVIOUS
    <2> QED BY <2>1, <2>2 DEF Init, TypeOK
  <1>2. OneSender /\ NoStrayFutures /\ NoMissedResponse /\ TimeoutIsLocal
    BY DEF Init, OneSender, NoStrayFutures, NoMissedResponse, TimeoutIsLocal
  <1>3. Unsent /\ FuturesFollow /\ Awaited /\ EndsAreKnown /\ NoneLeft
    BY DEF Init, Unsent, FuturesFollow, Awaited, EndsAreKnown, NoneLeft, InProgress
  <1> QED BY <1>1, <1>2, <1>3 DEF ConnInv

(* What execute() does up to the moment its caller waits, and its failures. *)
LEMMA CallerKeeps ==
    ASSUME ConnInv, NEW r \in Requests,
           Execute(r) \/ Writes(r) \/ Drained(r) \/ WriteFails(r)
    PROVE  ConnInv'
  <1> USE DEF ConnInv, TypeOK, NoStrayFutures, NoMissedResponse, TimeoutIsLocal, Unsent,
              FuturesFollow, Awaited, EndsAreKnown, NoneLeft, InProgress, Over
  <1>1. CASE Execute(r)
    <2>1. OneSender'
      BY <1>1 DEF Execute, OneSender, Holds
    <2>2. TypeOK'
      BY <1>1 DEF Execute, Registered
    <2>3. NoStrayFutures' /\ Awaited' /\ NoneLeft'
      BY <1>1 DEF Execute, Registered
    <2>4. NoMissedResponse' /\ TimeoutIsLocal' /\ Unsent' /\ FuturesFollow' /\ EndsAreKnown'
      BY <1>1 DEF Execute, Registered
    <2> QED BY <2>1, <2>2, <2>3, <2>4
  <1>2. CASE Writes(r)
    <2>1. OneSender'
      BY <1>2 DEF Writes, OneSender, Holds, Released
    <2>2. TypeOK'
      <3>1. Tail(lock) \in Seq(Requests)
        BY <1>2, HeadTailProperties DEF Writes, Holds
      <3>2. CASE Refuses
        BY <1>2, <3>1, <3>2 DEF Writes, Forgotten, Released
      <3>3. CASE ~Refuses
        BY <1>2, <3>3 DEF Writes
      <3> QED BY <3>2, <3>3
    <2>3. NoStrayFutures' /\ Awaited' /\ TimeoutIsLocal' /\ EndsAreKnown'
      BY <1>2 DEF Writes, Refuses, Forgotten
    <2>4. Unsent' /\ FuturesFollow'
      BY <1>2 DEF Writes, Refuses, Forgotten
    <2>5. NoMissedResponse' /\ NoneLeft'
      BY <1>2 DEF Writes, Refuses
    <2> QED BY <2>1, <2>2, <2>3, <2>4, <2>5
  <1>3. CASE Drained(r)
    <2>1. OneSender'
      BY <1>3 DEF Drained, OneSender, Holds, Released
    <2> QED BY <1>3, <2>1 DEF Drained, Released, OneSender, Holds
  <1>4. CASE WriteFails(r)
    <2>1. OneSender'
      BY <1>4 DEF WriteFails, OneSender, Holds, Released
    <2> QED BY <1>4, <2>1 DEF WriteFails, Forgotten, Released, OneSender, Holds
  <1> QED BY <1>1, <1>2, <1>3, <1>4

(* A deadline, the resumption of the caller, and its cancellation. *)
LEMMA WaiterKeeps ==
    ASSUME ConnInv, NEW r \in Requests, Deadline(r) \/ Resumes(r) \/ Cancelled(r)
    PROVE  ConnInv'
  <1> USE DEF ConnInv, TypeOK, NoStrayFutures, NoMissedResponse, TimeoutIsLocal, Unsent,
              FuturesFollow, Awaited, EndsAreKnown, NoneLeft, InProgress, Over
  <1>1. CASE Deadline(r)
    <2>1. OneSender'
      BY <1>1 DEF Deadline, OneSender, Holds
    <2> QED BY <1>1, <2>1 DEF Deadline
  <1>2. CASE Resumes(r)
    <2>1. OneSender'
      BY <1>2 DEF Resumes, OneSender, Holds
    <2>2. st' \in [Requests -> {"new", "lock", "send", "wait"} \cup Over] /\ pending' \subseteq Requests
      BY <1>2 DEF Resumes, Forgotten
    <2>3. st[r] = "wait" /\ st'[r] \in Over /\ \A q \in Requests \ {r} : st'[q] = st[q]
      BY <1>2 DEF Resumes
    <2>4. r \in pending' => FALSE
      BY <1>2 DEF Resumes, Forgotten
    <2> QED BY <1>2, <2>1, <2>2, <2>3, <2>4 DEF Resumes, Forgotten
  <1>3. CASE Cancelled(r)
    <2>1. lock' \in Seq(Requests)
      BY <1>3, WithoutType DEF Cancelled
    <2>2. OneSender'
      BY <1>3, WithoutHead DEF Cancelled, OneSender, Holds
    <2> QED BY <1>3, <2>1, <2>2 DEF Cancelled, Forgotten
  <1> QED BY <1>1, <1>2, <1>3

(* The finally block: nothing stays registered, and no call in progress is *)
(* left with an open future.                                               *)
LEMMA FailKeeps ==
    ASSUME ConnInv, NEW end, Fail(end), reader \in {"running", "cancelling"},
           UNCHANGED st
    PROVE  /\ fut' \in [Requests -> {"none", "open", "done", "cancelled", "error"}]
           /\ \A r \in Requests :
                 /\ fut'[r] \in {fut[r], "error"}
                 /\ fut'[r] # fut[r] => fut[r] = "open"
                 /\ st[r] \in InProgress => fut'[r] # "open"
  BY DEF ConnInv, TypeOK, Fail, Awaited, InProgress

(* What the reader task does, and close(). *)
LEMMA ReaderKeeps ==
    ASSUME ConnInv,
           \/ \E r \in Requests : ReadsResponse(r)
           \/ ReadsExecute \/ Served \/ EndOfStream \/ ReadFails \/ Close \/ ReaderCancelled
    PROVE  ConnInv'
  <1> USE DEF ConnInv, TypeOK, NoStrayFutures, NoMissedResponse, TimeoutIsLocal, Unsent,
              FuturesFollow, Awaited, EndsAreKnown, NoneLeft, InProgress, Over, OneSender, Holds
  <1>1. ASSUME NEW r \in Requests, ReadsResponse(r)
        PROVE  ConnInv'
    BY <1>1 DEF ReadsResponse, Demux, Completed
  <1>2. CASE ReadsExecute \/ Served
    BY <1>2, ConnectionAssumption DEF ReadsExecute, Served
  <1>3. CASE EndOfStream
    BY <1>3, FailKeeps DEF EndOfStream, Fail
  <1>4. CASE ReadFails
    BY <1>4, FailKeeps DEF ReadFails, Fail
  <1>5. CASE Close
    BY <1>5, ConnectionAssumption DEF Close
  <1>6. CASE ReaderCancelled
    BY <1>6, FailKeeps DEF ReaderCancelled, Fail
  <1> QED BY <1>1, <1>2, <1>3, <1>4, <1>5, <1>6

LEMMA StutterKeeps == ConnInv /\ UNCHANGED vars => ConnInv'
  BY DEF vars, ConnInv, TypeOK, NoStrayFutures, NoMissedResponse, TimeoutIsLocal, Unsent,
         FuturesFollow, Awaited, EndsAreKnown, NoneLeft, OneSender, Holds

LEMMA StepInv == ConnInv /\ [Next]_vars => ConnInv'
  BY CallerKeeps, WaiterKeeps, ReaderKeeps, StutterKeeps DEF Next, CallerStep

(* ConnInv holds throughout. *)
THEOREM InvCorrect == Spec => []ConnInv
  BY InitInv, StepInv, PTL DEF Spec
-----------------------------------------------------------------------------
(* The types of the futures, the lock and the tables (execute()). *)
THEOREM TypeCorrect == Spec => []TypeOK
  <1>1. ConnInv => TypeOK
    BY DEF ConnInv
  <1> QED BY <1>1, InvCorrect, PTL

(* FailsFast, for any number of calls: after an end of stream between two  *)
(* frames, and after close(), no call waits on a future that nothing will  *)
(* complete (execute(), _reader_loop()).                                   *)
THEOREM FailsFastCorrect == Spec => []FailsFast
  <1>1. ConnInv => FailsFast
    BY DEF ConnInv, NoneLeft, FailsFast
  <1> QED BY <1>1, InvCorrect, PTL

(* Only the holder of the write lock writes a frame (execute()). *)
THEOREM SenderCorrect == Spec => []OneSender
  <1>1. ConnInv => OneSender
    BY DEF ConnInv
  <1> QED BY <1>1, InvCorrect, PTL

(* No future outlives its call, no response that was read is missed, and a *)
(* late answer never ends the reader (execute(), _reader_loop()).          *)
THEOREM FuturesCorrect == Spec => [](NoStrayFutures /\ NoMissedResponse /\ TimeoutIsLocal)
  <1>1. ConnInv => NoStrayFutures /\ NoMissedResponse /\ TimeoutIsLocal
    BY DEF ConnInv
  <1> QED BY <1>1, InvCorrect, PTL

-----------------------------------------------------------------------------
(* The refinement.  An abstract call follows from the state of its caller  *)
(* and its future, so it moves only when one of them does.                 *)
TheCalls == [r \in Requests |-> CallOf(r)]

LEMMA RefineInit == Init => A!Init
  <1> SUFFICES ASSUME Init PROVE A!Init
    OBVIOUS
  <1>1. \A r \in Requests : CallOf(r) = "new"
    BY DEF Init, CallOf
  <1> QED BY <1>1 DEF Init, A!Init

(* What the abstract call of r is, from what its caller and future are. *)
LEMMA CallIs ==
    ASSUME ConnInv, NEW r \in Requests, st[r] \in InProgress
    PROVE  \/ fut[r] = "open" /\ CallOf(r) = "open"
           \/ fut[r] = "done" /\ CallOf(r) = "answered"
           \/ fut[r] = "cancelled" /\ CallOf(r) = "expired"
           \/ fut[r] = "error" /\ CallOf(r) = "lost"
  <1>1. fut[r] \in {"open", "done", "cancelled", "error"}
    BY DEF ConnInv, TypeOK, FuturesFollow, InProgress
  <1>2. st[r] # "new" /\ st[r] \notin Over
    BY DEF InProgress, Over
  <1> QED BY <1>1, <1>2 DEF CallOf

LEMMA CallStays ==
    ASSUME NEW q \in Requests, st'[q] = st[q], fut'[q] = fut[q]
    PROVE  CallOf(q)' = CallOf(q)
  BY DEF CallOf

(* A step of one call that leaves the rest of the connection alone. *)
LEMMA CallMoves ==
    ASSUME NEW r \in Requests, NEW from,
           \A q \in Requests \ {r} : CallOf(q)' = CallOf(q),
           CallOf(r) \in from, wire' \cup read' = wire \cup read, UNCHANGED <<closed, torn>>
    PROVE  A!Move(r, from, CallOf(r)')
  <1>1. TheCalls' = [TheCalls EXCEPT ![r] = CallOf(r)']
    BY DEF TheCalls
  <1> QED BY <1>1 DEF A!Move, TheCalls

LEMMA RefineCaller ==
    ASSUME ConnInv, NEW r \in Requests,
           Execute(r) \/ Writes(r) \/ Drained(r) \/ WriteFails(r) \/ Deadline(r)
             \/ Resumes(r) \/ Cancelled(r)
    PROVE  A!Next \/ UNCHANGED A!vars
  <1>1. \A q \in Requests \ {r} : CallOf(q)' = CallOf(q)
    <2>1. \A q \in Requests \ {r} : st'[q] = st[q] /\ fut'[q] = fut[q]
      BY DEF Execute, Writes, Drained, WriteFails, Deadline, Resumes, Cancelled, ConnInv, TypeOK
    <2> QED BY <2>1, CallStays
  <1>2. CASE Execute(r)
    <2>1. CallOf(r) = "new" /\ CallOf(r)' = "open"
      BY <1>2 DEF Execute, CallOf, Over, ConnInv, TypeOK
    <2>2. A!Begin(r)
      BY <1>1, <1>2, <2>1, CallMoves DEF A!Begin, Execute
    <2> QED BY <2>2 DEF A!Next
  <1>3. CASE Writes(r) /\ closed
    <2>1. st[r] = "lock" /\ CallOf(r)' = "failed"
      BY <1>3 DEF Writes, Refuses, CallOf, Over, ConnInv, TypeOK
    <2>2. CallOf(r) \in {"open", "answered", "lost"}
      BY <2>1, CallIs DEF InProgress, ConnInv, FuturesFollow, Over
    <2>3. A!Return(r)
      BY <1>1, <1>3, <2>1, <2>2, CallMoves DEF A!Return, A!Ended, Writes, Refuses
    <2> QED BY <2>3 DEF A!Next
  <1>4. CASE Writes(r) /\ ~closed
    <2>1. CallOf(r)' = CallOf(r)
      BY <1>4 DEF Writes, Refuses, CallOf, Over, ConnInv, TypeOK
    <2>2. TheCalls' = TheCalls
      BY <1>1, <2>1 DEF TheCalls
    <2>3. st[r] = "lock" /\ r \notin wire \cup read
      BY <1>4 DEF Writes, ConnInv, Unsent
    <2>4. CallOf(r) \in {"open", "lost"}
      BY <2>3, CallIs DEF InProgress, ConnInv, FuturesFollow, Over
    <2>5. A!Send(r)
      BY <1>4, <2>2, <2>3, <2>4 DEF A!Send, TheCalls, Writes, Refuses
    <2> QED BY <2>5 DEF A!Next
  <1>5. CASE Drained(r)
    <2>1. CallOf(r)' = CallOf(r)
      BY <1>5 DEF Drained, CallOf, Over, ConnInv, TypeOK
    <2>2. TheCalls' = TheCalls
      BY <1>1, <2>1 DEF TheCalls
    <2> QED BY <1>5, <2>2 DEF A!vars, TheCalls, Drained
  <1>6. CASE WriteFails(r)
    <2>1. st[r] = "send" /\ CallOf(r)' = "failed"
      BY <1>6 DEF WriteFails, CallOf, Over, ConnInv, TypeOK
    <2>2. CallOf(r) \in {"open", "answered", "lost"}
      BY <2>1, CallIs DEF InProgress, ConnInv, FuturesFollow, Over
    <2>3. A!Return(r)
      BY <1>1, <1>6, <2>1, <2>2, CallMoves DEF A!Return, A!Ended, WriteFails
    <2> QED BY <2>3 DEF A!Next
  <1>7. CASE Deadline(r)
    <2>1. CallOf(r) = "open" /\ CallOf(r)' = "expired"
      BY <1>7 DEF Deadline, CallOf, Over, ConnInv, TypeOK
    <2>2. A!Expire(r)
      BY <1>1, <1>7, <2>1, CallMoves DEF A!Expire, Deadline
    <2> QED BY <2>2 DEF A!Next
  <1>8. CASE Resumes(r)
    <2>1. st[r] = "wait" /\ fut[r] # "open"
      BY <1>8 DEF Resumes
    <2>2. \/ CallOf(r) = "answered" /\ CallOf(r)' = "ok"
          \/ CallOf(r) = "expired" /\ CallOf(r)' = "timeout"
          \/ CallOf(r) = "lost" /\ CallOf(r)' = "failed" /\ (closed \/ torn)
      <3>1. st'[r] = CASE fut[r] = "done" -> "ok"
                       [] fut[r] = "cancelled" -> "timeout"
                       [] OTHER -> "failed"
        BY <1>8 DEF Resumes, ConnInv, TypeOK
      <3>2. st'[r] \in Over => CallOf(r)' = st'[r]
        BY DEF CallOf
      <3>3. fut[r] = "error" => closed \/ torn
        BY DEF ConnInv, EndsAreKnown
      <3> QED BY <2>1, <3>1, <3>2, <3>3, CallIs DEF InProgress, Over
    <2>3. A!Return(r)
      BY <1>1, <1>8, <2>2, CallMoves DEF A!Return, A!Ended, Resumes
    <2> QED BY <2>3 DEF A!Next
  <1>9. CASE Cancelled(r)
    <2>1. st[r] \in InProgress /\ CallOf(r)' = "cancelled"
      BY <1>9 DEF Cancelled, CallOf, Over, ConnInv, TypeOK, InProgress
    <2>2. CallOf(r) \in A!Open
      BY <2>1, CallIs DEF A!Open
    <2>3. A!Return(r)
      BY <1>1, <1>9, <2>1, <2>2, CallMoves DEF A!Return, Cancelled
    <2> QED BY <2>3 DEF A!Next
  <1> QED BY <1>2, <1>3, <1>4, <1>5, <1>6, <1>7, <1>8, <1>9

(* The reader fails every call that waits for it, or a response completes  *)
(* the one call it answers.                                                *)
LEMMA RefineFail ==
    ASSUME ConnInv, NEW end, Fail(end), reader \in {"running", "cancelling"}, UNCHANGED st
    PROVE  TheCalls' = [r \in Requests |-> IF TheCalls[r] = "open" THEN "lost" ELSE TheCalls[r]]
  <1> SUFFICES ASSUME NEW r \in Requests
               PROVE  CallOf(r)' = IF CallOf(r) = "open" THEN "lost" ELSE CallOf(r)
    BY DEF TheCalls
  <1>1. CASE st[r] \in InProgress /\ fut[r] = "open"
    <2>1. fut'[r] = "error"
      BY <1>1 DEF Fail, ConnInv, Awaited
    <2> QED BY <1>1, <2>1 DEF CallOf, InProgress, Over
  <1>2. CASE st[r] \in InProgress /\ fut[r] # "open"
    <2>1. fut'[r] = fut[r]
      BY <1>2 DEF Fail
    <2> QED BY <1>2, <2>1, CallStays, CallIs
  <1>3. CASE st[r] \notin InProgress
    BY <1>3 DEF CallOf, ConnInv, TypeOK, InProgress, Over
  <1> QED BY <1>1, <1>2, <1>3

LEMMA RefineReader ==
    ASSUME ConnInv,
           \/ \E r \in Requests : ReadsResponse(r)
           \/ ReadsExecute \/ Served \/ EndOfStream \/ ReadFails \/ Close \/ ReaderCancelled
    PROVE  A!Next \/ UNCHANGED A!vars
  <1>1. ASSUME NEW r \in Requests, ReadsResponse(r)
        PROVE  A!Next \/ UNCHANGED A!vars
    <2>1. r \in wire /\ wire' \cup read' = wire \cup read /\ UNCHANGED <<st, closed, torn>>
      BY <1>1 DEF ReadsResponse, Demux, Completed
    <2>2. CASE r \in pending /\ fut[r] = "open"
      <3>1. fut' = [fut EXCEPT ![r] = "done"] /\ fut'[r] = "done"
        BY <1>1, <2>2 DEF ReadsResponse, Demux, Completed, ConnInv, TypeOK
      <3>2. \A q \in Requests \ {r} : CallOf(q)' = CallOf(q)
        BY <2>1, <3>1, CallStays DEF ConnInv, TypeOK
      <3>3. CallOf(r) = "open" /\ CallOf(r)' = "answered"
        BY <2>1, <2>2, <3>1 DEF CallOf, Over, ConnInv, NoStrayFutures
      <3>4. A!Answer(r)
        BY <2>1, <3>2, <3>3, CallMoves DEF A!Answer
      <3> QED BY <3>4 DEF A!Next
    <2>3. CASE ~(r \in pending /\ fut[r] = "open")
      <3>1. TheCalls' = TheCalls
        BY <1>1, <2>1, <2>3, CallStays DEF ReadsResponse, Demux, Completed, TheCalls
      <3> QED BY <2>1, <3>1 DEF A!vars, TheCalls
    <2> QED BY <2>2, <2>3
  <1>2. CASE ReadsExecute \/ Served
    <2>1. TheCalls' = TheCalls
      BY <1>2, CallStays DEF ReadsExecute, Served, TheCalls
    <2> QED BY <1>2, <2>1 DEF A!vars, TheCalls, ReadsExecute, Served
  <1>3. CASE EndOfStream
    <2>1. A!End
      BY <1>3, RefineFail DEF EndOfStream, A!End, TheCalls
    <2> QED BY <2>1 DEF A!Next
  <1>4. CASE ReadFails
    <2>1. A!End
      BY <1>4, RefineFail DEF ReadFails, A!End, TheCalls
    <2> QED BY <2>1 DEF A!Next
  <1>5. CASE Close
    <2>1. TheCalls' = TheCalls
      BY <1>5, CallStays DEF Close, TheCalls
    <2>2. A!End
      BY <1>5, <2>1 DEF Close, A!End, TheCalls
    <2> QED BY <2>2 DEF A!Next
  <1>6. CASE ReaderCancelled
    <2>1. closed
      BY <1>6 DEF ReaderCancelled, ConnInv, EndsAreKnown
    <2>2. A!End
      BY <1>6, <2>1, RefineFail DEF ReaderCancelled, A!End, TheCalls
    <2> QED BY <2>2 DEF A!Next
  <1> QED BY <1>1, <1>2, <1>3, <1>4, <1>5, <1>6

(* Connection implements Calls: whatever the order in which callers, the   *)
(* reader task, deadlines and the end of the connection come, each call    *)
(* has one outcome, sends at most once and never on a closed connection,   *)
(* is answered only for its own request and fails only where the           *)
(* connection has ended (execute(), _reader_loop(), close()).              *)
THEOREM ImplementsCalls == Spec => KeepsPromise
  <1>1. ConnInv /\ [Next]_vars => [A!Next]_(A!vars)
    <2> SUFFICES ASSUME ConnInv, [Next]_vars PROVE A!Next \/ UNCHANGED A!vars
      OBVIOUS
    <2>1. CASE Next
      BY <2>1, RefineCaller, RefineReader DEF Next, CallerStep
    <2>2. CASE UNCHANGED vars
      <3>1. TheCalls' = TheCalls
        BY <2>2, CallStays DEF vars, TheCalls
      <3> QED BY <2>2, <3>1 DEF vars, A!vars, TheCalls
    <2> QED BY <2>1, <2>2
  <1> QED BY <1>1, RefineInit, InvCorrect, PTL DEF Spec, KeepsPromise, A!Spec

-----------------------------------------------------------------------------
(* The pool of dialed connections *)

LEMMA HorizonIsNat == PoolAssumption => Horizon \in Nat
  <1>1. ASSUME NEW m \in Nat, NEW n \in Nat PROVE m * n \in Nat
    OBVIOUS
  <1>2. ASSUME PoolAssumption PROVE MaxMissed + 1 \in Nat /\ Interval + Grace \in Nat
    BY <1>2 DEF PoolAssumption
  <1> QED BY <1>1, <1>2 DEF Horizon

(* A caller of get_connection() that holds the lock: it sends on what is   *)
(* bound, or goes to dial.                                                 *)
LEMMA ReachTyped ==
    ASSUME PoolTypeOK, NEW c \in Callers, Reach(c)
    PROVE  call' \in [Callers -> [at : {"idle", "wait", "dial", "sent"}, ep : 0..dials]]
  BY DEF PoolTypeOK, Reach, Using

(* A loop that goes from its sleep to a ping. *)
LEMMA PingFields ==
    ASSUME PoolAssumption, NEW l \in Loops
    PROVE  LET k == [l EXCEPT !.at = "ping", !.timer = Grace] IN k \in Loops /\ k.ep = l.ep
  <1> DEFINE j == [l EXCEPT !.at = "ping"]
             k == [l EXCEPT !.at = "ping", !.timer = Grace]
  <1>1. j \in Loops /\ j.ep = l.ep
    BY DEF Loops
  <1>2. k = [j EXCEPT !.timer = Grace]
    OBVIOUS
  <1> HIDE DEF j, k
  <1>3. Grace \in 0..Grace BY DEF PoolAssumption
  <1>4. k \in Loops /\ k.ep = j.ep
    BY <1>1, <1>2, <1>3 DEF Loops
  <1> QED BY <1>1, <1>4 DEF k

(* remove_connection(), whatever else changes with it. *)
LEMMA EvictTyped ==
    ASSUME PoolAssumption, PoolTypeOK, Evict, dials' = dials
    PROVE  /\ bound' \in 0..dials /\ evicted' \subseteq 1..dials
           /\ ka' \in Loops \cup {None}
           /\ quiet' \in 0..Interval /\ silent' \in 0..Horizon
  BY HorizonIsNat DEF PoolAssumption, Evict, Unbind, PoolTypeOK

(* The steps of a caller keep every variable in its type. *)
LEMMA CallTyped ==
    ASSUME PoolAssumption, PoolTypeOK, NEW c \in Callers, CallStep(c)
    PROVE  PoolTypeOK'
  <1> USE HorizonIsNat DEF PoolAssumption
  <1>1. CASE Call(c)
    BY <1>1, ReachTyped DEF Call, PoolTypeOK, Loops, Escalations, Horizon, Using
  <1>2. CASE Acquire(c)
    BY <1>2, ReachTyped DEF Acquire, PoolTypeOK, Loops, Escalations, Horizon
  <1>3. CASE DialSucceeds(c)
    BY <1>3 DEF DialSucceeds, PoolTypeOK, Loops, Escalations, Statuses, Loop, Using, Horizon
  <1>4. CASE DialFails(c)
    BY <1>4 DEF DialFails, PoolTypeOK, Loops, Escalations, Idle, Horizon
  <1>5. CASE Answered(c)
    BY <1>5 DEF Answered, PoolTypeOK, Loops, Escalations, Idle, Horizon
  <1>6. CASE CallFails(c)
    <2>1. call' \in [Callers -> [at : {"idle", "wait", "dial", "sent"}, ep : 0..dials]]
      BY <1>6 DEF CallFails, PoolTypeOK, Idle
    <2>2. CASE Owns(c)
      <3>1. Evict /\ UNCHANGED <<dials, up, stop>>
        BY <1>6, <2>2 DEF CallFails
      <3>2. \/ Demote("suspect", "transport-error") /\ esc' = Armed(bound)
            \/ UNCHANGED <<status, conn, esc>>
        BY <1>6, <2>2 DEF CallFails, Owns
      <3>3. esc' \in Escalations \cup {None}
        BY <2>2, <3>2 DEF Armed, Escalations, Owns, PoolTypeOK
      <3>4. /\ status' \in Statuses
            /\ conn' \in {"none", "dialer", "responder", "closed"}
        BY <3>2 DEF Demote, Statuses, PoolTypeOK
      <3> QED BY <2>1, <3>1, <3>3, <3>4, EvictTyped DEF PoolTypeOK, Loops, Escalations, Horizon
    <2>3. CASE ~Owns(c)
      BY <1>6, <2>1, <2>3 DEF CallFails, PoolTypeOK, Loops, Escalations, Horizon
    <2> QED BY <2>2, <2>3
  <1> QED BY <1>1, <1>2, <1>3, <1>4, <1>5, <1>6 DEF CallStep

(* So do those of the keepalive loop and the escalator, and the clock. *)
LEMMA TimerTyped ==
    ASSUME PoolAssumption, PoolTypeOK, KeepaliveStep \/ Escalates \/ Tick
    PROVE  PoolTypeOK'
  <1>0. Horizon \in Nat BY HorizonIsNat
  <1> USE DEF PoolAssumption
  <1>1. CASE Wakes
    <2>1. esc' \in Escalations \cup {None}
      BY <1>1 DEF Wakes, Armed, Escalations, PoolTypeOK, Loops
    <2>2. ka' \in Loops \cup {None}
      <3>1. CASE bound # ka.ep
        BY <1>1, <3>1 DEF Wakes
      <3>2. CASE bound = ka.ep /\ Active
        BY <1>1, <3>2 DEF Wakes, Loop, PoolTypeOK, Loops
      <3>3. CASE bound = ka.ep /\ ~Active
        <4>1. ka' = [ka EXCEPT !.at = "ping", !.timer = Grace] /\ ka \in Loops /\ dials' = dials
          BY <1>1, <3>3 DEF Wakes, PoolTypeOK
        <4>2. ka' \in Loops BY <4>1, PingFields
        <4> QED BY <4>1, <4>2 DEF Loops
      <3> QED BY <3>1, <3>2, <3>3
    <2> QED BY <1>1, <2>1, <2>2 DEF Wakes, PoolTypeOK, Loops, Escalations, Horizon
  <1>2. CASE Pong
    BY <1>0, <1>2 DEF Pong, PoolTypeOK, Loops, Escalations, Loop, Horizon
  <1>3. CASE PingMissed
    <2>1. esc' \in Escalations \cup {None}
      BY <1>3 DEF PingMissed, Armed, Escalations, PoolTypeOK, Loops
    <2>2. ka' \in Loops \cup {None}
      BY <1>3 DEF PingMissed, Tolerated, Loop, PoolTypeOK, Loops
    <2>3. /\ status' \in Statuses
          /\ conn' \in {"none", "dialer", "responder", "closed"}
      BY <1>3 DEF PingMissed, Demote, Statuses, PoolTypeOK
    <2> QED BY <1>3, <2>1, <2>2, <2>3 DEF PingMissed, PoolTypeOK, Loops, Escalations, Horizon
  <1>4. CASE Escalates
    <2>1. CASE Owed
      <3>1. status' \in Statuses /\ conn' \in {"none", "dialer", "responder", "closed"}
        BY <1>4, <2>1 DEF Escalates, Demote, PoolTypeOK, Statuses
      <3> QED BY <1>4, <2>1, <3>1, EvictTyped DEF Escalates, PoolTypeOK, Loops, Escalations, Horizon
    <2>2. CASE ~Owed
      BY <1>4, <2>2 DEF Escalates, PoolTypeOK, Loops, Escalations, Horizon
    <2> QED BY <2>1, <2>2
  <1>5. CASE Tick
    <2>1. ka' \in Loops \cup {None}
      BY <1>5 DEF Tick, Settled, PoolTypeOK, Loops
    <2>2. esc' \in Escalations \cup {None}
      BY <1>5 DEF Tick, Settled, PoolTypeOK, Escalations
    <2>3. quiet' \in 0..Interval /\ silent' \in 0..Horizon
      BY <1>0, <1>5 DEF Tick, PoolTypeOK
    <2> QED BY <1>5, <2>1, <2>2, <2>3 DEF Tick, PoolTypeOK, Loops, Escalations, Horizon
  <1> QED BY <1>1, <1>2, <1>3, <1>4, <1>5 DEF KeepaliveStep

(* So does what happens from outside. *)
LEMMA OutsideTyped ==
    ASSUME PoolAssumption, PoolTypeOK,
           \/ Breaks \/ \E e \in up : Closes(e)
           \/ InboundConnects \/ InboundEnds \/ Release \/ ClosePeer
           \/ StopBegins \/ StopEnds
    PROVE  PoolTypeOK'
  <1>0. Horizon \in Nat BY HorizonIsNat
  <1> USE DEF PoolAssumption
  <1>1. CASE Breaks \/ \E e \in up : Closes(e)
    BY <1>0, <1>1 DEF Breaks, Closes, PoolTypeOK, Loops, Escalations, Horizon
  <1>2. CASE InboundConnects \/ InboundEnds
    <2>1. status' \in Statuses /\ conn' \in {"none", "dialer", "responder", "closed"}
      BY <1>2 DEF InboundConnects, InboundEnds, PoolTypeOK, Statuses
    <2> QED BY <1>2, <2>1 DEF InboundConnects, InboundEnds, PoolTypeOK, Loops, Escalations, Horizon
  <1>3. CASE Release
    <2>1. status' \in Statuses /\ conn' \in {"none", "dialer", "responder", "closed"}
      BY <1>3 DEF Release, Demote, PoolTypeOK, Statuses
    <2> QED BY <1>3, <2>1, EvictTyped DEF Release, PoolTypeOK, Loops, Escalations, Horizon
  <1>4. CASE ClosePeer
    BY <1>4, EvictTyped DEF ClosePeer, PoolTypeOK, Loops, Escalations, Horizon
  <1>5. CASE StopBegins
    <2>1. bound' \in 0..dials /\ silent' \in 0..Horizon /\ evicted' \subseteq 1..dials
      <3>1. dials' = dials /\ (Unbind \/ UNCHANGED <<bound, silent, evicted>>)
        BY <1>5 DEF StopBegins
      <3>2. CASE Unbind
        <4>1. bound \in 0..dials /\ evicted \subseteq 1..dials /\ dials \in Nat
          BY DEF PoolTypeOK
        <4>2. {bound} \ {0} \subseteq 1..dials
          BY <4>1
        <4>3. 0 \in 0..dials /\ 0 \in 0..Horizon
          BY <1>0, <4>1
        <4> QED BY <3>1, <3>2, <4>1, <4>2, <4>3 DEF Unbind
      <3> QED BY <3>1, <3>2 DEF PoolTypeOK
    <2>2. ka' = None /\ esc' = None /\ stop' \in {"no", "waiting", "done"}
      BY <1>5 DEF StopBegins
    <2> QED BY <1>5, <2>1, <2>2 DEF StopBegins, PoolTypeOK, Loops, Escalations, Horizon
  <1>6. CASE StopEnds
    BY <1>0, <1>6 DEF StopEnds, Unbind, PoolTypeOK, Loops, Escalations, Horizon
  <1> QED BY <1>1, <1>2, <1>3, <1>4, <1>5, <1>6

LEMMA PoolTypeInit == PoolAssumption /\ PoolInit => PoolTypeOK
  BY HorizonIsNat DEF PoolAssumption, PoolInit, PoolTypeOK, Idle, Statuses, Horizon

LEMMA PoolTypeStep == PoolAssumption /\ PoolTypeOK /\ [PoolNext]_poolVars => PoolTypeOK'
  <1>1. ASSUME PoolTypeOK, UNCHANGED poolVars PROVE PoolTypeOK'
    BY <1>1 DEF poolVars, PoolTypeOK, Loops, Escalations, Horizon
  <1> QED BY <1>1, CallTyped, TimerTyped, OutsideTyped DEF PoolNext

(* Every variable of the pool keeps its type: endpoints are ones that were *)
(* dialed, timers never run below zero, and the keepalive loop never       *)
(* counts max_missed misses and goes on.                                   *)
THEOREM PoolTypeCorrect == ASSUME PoolAssumption PROVE PoolSpec => []PoolTypeOK
  <1> QED BY PoolTypeInit, PoolTypeStep, PTL DEF PoolSpec

-----------------------------------------------------------------------------
LEMMA NoClobberStep == PoolTypeOK /\ [PoolNext]_poolVars => OwnBindingGoes
  <1> SUFFICES ASSUME PoolTypeOK, [PoolNext]_poolVars, NEW d \in Callers,
                      bound # 0, bound' = 0, call[d].at = "sent", call'[d].at = "idle"
               PROVE  call[d].ep = bound
    BY DEF OwnBindingGoes
  <1>1. call' # call BY DEF PoolTypeOK
  <1>2. PICK c \in Callers : CallFails(c)
    BY <1>1 DEF PoolNext, CallStep, poolVars, Call, Acquire, DialSucceeds, DialFails, Answered,
         KeepaliveStep, Wakes, Pong, PingMissed, Escalates, Tick, Breaks, Closes,
         InboundConnects, InboundEnds, Release, ClosePeer, StopBegins, StopEnds, PoolTypeOK
  <1>3. d = c BY <1>2 DEF CallFails, PoolTypeOK
  <1>4. Owns(c) BY <1>2 DEF CallFails
  <1> QED BY <1>3, <1>4 DEF Owns

(* The no-clobber guard of remove_connection(): a failed call takes the    *)
(* binding away only when the endpoint it failed on is the one bound.      *)
THEOREM NoClobberCorrect == ASSUME PoolAssumption PROVE PoolSpec => NoClobber
  <1> QED BY PoolTypeInit, PoolTypeStep, NoClobberStep, PTL DEF PoolSpec, NoClobber

-----------------------------------------------------------------------------
PoolInv == PoolTypeOK /\ OneDials /\ NoneLost

LEMMA PoolInvInit == PoolAssumption /\ PoolInit => PoolInv
  BY PoolTypeInit DEF PoolInv, PoolInit, OneDials, NoneLost, Idle

(* A caller that reaches the lock while nobody dials. *)
LEMMA ReachOneDials ==
    ASSUME PoolTypeOK, OneDials, ~Locked, NEW c \in Callers, Reach(c), UNCHANGED bound
    PROVE  OneDials'
  BY DEF PoolTypeOK, OneDials, Locked, Reach, Using

(* The binding goes, and its endpoint is among the evicted. *)
LEMMA UnbindKeeps ==
    ASSUME OneDials, NoneLost, Unbind, UNCHANGED <<dials, call>>
    PROVE  OneDials' /\ NoneLost'
  BY DEF OneDials, NoneLost, Unbind

LEMMA PoolInvStep == PoolAssumption /\ PoolInv /\ [PoolNext]_poolVars => PoolInv'
  <1> SUFFICES ASSUME PoolAssumption, PoolTypeOK, OneDials, NoneLost, [PoolNext]_poolVars
               PROVE  OneDials' /\ NoneLost'
    BY PoolTypeStep DEF PoolInv
  <1>1. CASE UNCHANGED <<dials, bound, evicted, call>>
    BY <1>1 DEF OneDials, NoneLost
  <1>2. ASSUME NEW c \in Callers, Call(c) \/ Acquire(c) PROVE OneDials' /\ NoneLost'
    <2>1. NoneLost' BY <1>2 DEF Call, Acquire, NoneLost
    <2>2. CASE Reach(c) /\ ~Locked
      BY <1>2, <2>1, <2>2, ReachOneDials DEF Call, Acquire
    <2>3. CASE ~(Reach(c) /\ ~Locked)
      BY <1>2, <2>1, <2>3 DEF Call, Acquire, OneDials, PoolTypeOK, Using
    <2> QED BY <2>2, <2>3
  <1>3. ASSUME NEW c \in Callers, DialSucceeds(c) PROVE OneDials' /\ NoneLost'
    <2>1. bound = 0 /\ \A d \in Callers : call'[d].at # "dial"
      BY <1>3 DEF DialSucceeds, OneDials, PoolTypeOK, Using
    <2> QED BY <1>3, <2>1 DEF DialSucceeds, OneDials, NoneLost, PoolTypeOK
  <1>4. ASSUME NEW c \in Callers, DialFails(c) \/ Answered(c) PROVE OneDials' /\ NoneLost'
    BY <1>4 DEF DialFails, Answered, OneDials, NoneLost, PoolTypeOK, Idle
  <1>5. ASSUME NEW c \in Callers, CallFails(c) PROVE OneDials' /\ NoneLost'
    <2>1. OneDials'
      <3>1. /\ bound = 0 => bound' = 0
            /\ \A d \in Callers : call'[d].at = "dial" => call[d].at = "dial"
        BY <1>5 DEF CallFails, Evict, Unbind, PoolTypeOK, Idle
      <3> QED BY <3>1 DEF OneDials
    <2>2. NoneLost'
      BY <1>5 DEF CallFails, Evict, Unbind, NoneLost
    <2> QED BY <2>1, <2>2
  <1>6. CASE Escalates
    BY <1>1, <1>6, UnbindKeeps DEF Escalates, Evict
  <1>7. CASE Release \/ ClosePeer \/ StopBegins \/ StopEnds
    BY <1>1, <1>7, UnbindKeeps DEF Release, ClosePeer, StopBegins, StopEnds, Evict
  <1> QED
    BY <1>1, <1>2, <1>3, <1>4, <1>5, <1>6, <1>7
    DEF PoolNext, CallStep, poolVars, KeepaliveStep, Wakes, Pong, PingMissed, Tick, Breaks, Closes,
        InboundConnects, InboundEnds

(* get_connection() looks at the binding again under the lock: no dial     *)
(* ever replaces a live binding, so no endpoint is lost without a close().  *)
THEOREM NoneLostCorrect == ASSUME PoolAssumption PROVE PoolSpec => [](OneDials /\ NoneLost)
  <1>1. PoolInv => OneDials /\ NoneLost BY DEF PoolInv
  <1> QED BY <1>1, PoolInvInit, PoolInvStep, PTL DEF PoolSpec

-----------------------------------------------------------------------------
OwedInv == PoolTypeOK /\ EscalationsFollow

LEMMA OwedStep ==
    ASSUME PoolAssumption, GraceIsShort
    PROVE  OwedInv /\ [PoolNext]_poolVars => OwedInv'
  <1> SUFFICES ASSUME PoolTypeOK, EscalationsFollow, [PoolNext]_poolVars, stop' = "no"
               PROVE  EscalationsFollow'
    BY PoolTypeStep DEF OwedInv, EscalationsFollow
  <1>0. stop = "no"
    BY DEF PoolNext, CallStep, poolVars, Call, Acquire, DialSucceeds, DialFails, Answered, CallFails,
         KeepaliveStep, Wakes, Pong, PingMissed, Escalates, Tick, Breaks, Closes,
         InboundConnects, InboundEnds, Release, ClosePeer, StopBegins, StopEnds, PoolTypeOK
  <1> USE <1>0 DEF PoolAssumption, GraceIsShort
  <1>1. CASE UNCHANGED <<bound, status, ka, esc, stop>>
    BY <1>1 DEF EscalationsFollow
  <1>2. ASSUME NEW c \in Callers, DialSucceeds(c) PROVE EscalationsFollow'
    BY <1>2 DEF DialSucceeds, EscalationsFollow, PoolTypeOK, Escalations, Loop
  <1>3. ASSUME NEW c \in Callers, CallFails(c) PROVE EscalationsFollow'
    <2>1. CASE Owns(c)
      <3>1. bound' = 0 /\ ka' = None
        BY <1>3, <2>1 DEF CallFails, Evict, Unbind, Owns
      <3>2. CASE c \in Dispatchers
        <4>1. esc' # None
          BY <1>3, <2>1, <3>2 DEF CallFails, Armed, PoolTypeOK, Escalations, Owns
        <4> QED BY <3>1, <4>1 DEF EscalationsFollow
      <3>3. CASE c \notin Dispatchers
        BY <1>3, <2>1, <3>1, <3>3 DEF CallFails, EscalationsFollow
      <3> QED BY <3>2, <3>3
    <2>2. CASE ~Owns(c)
      BY <1>1, <1>3, <2>2 DEF CallFails
    <2> QED BY <2>1, <2>2
  <1>4. CASE Wakes
    <2>1. ka # None /\ ka.ep = bound /\ ka.timer = 0 /\ (esc # None => esc.timer >= 0)
      BY <1>4 DEF Wakes, EscalationsFollow, PoolTypeOK, Escalations
    <2>2. esc # None => bound \in {0, esc.ep}
      BY <2>1 DEF EscalationsFollow, PoolTypeOK, Escalations, Loops, Escalations
    <2>3. ka'.ep = bound /\ UNCHANGED <<bound, status, esc>>
      <3>1. ka' = Loop(ka.ep) \/ ka' = [ka EXCEPT !.at = "ping", !.timer = Grace]
        BY <1>4, <2>1 DEF Wakes
      <3>2. ka \in Loops
        BY <1>4 DEF Wakes, PoolTypeOK
      <3>3. ka'.ep = ka.ep
        <4>1. Loop(ka.ep).ep = ka.ep BY DEF Loop
        <4>2. [ka EXCEPT !.at = "ping", !.timer = Grace].ep = ka.ep
          BY <3>2, PingFields
        <4> QED BY <3>1, <4>1, <4>2
      <3> QED BY <1>4, <2>1, <3>3 DEF Wakes
    <2> QED BY <2>2, <2>3 DEF EscalationsFollow
  <1>5. CASE Pong
    BY <1>5 DEF Pong, EscalationsFollow, PoolTypeOK, Escalations, Loops, Loop
  <1>6. CASE PingMissed
    <2>1. ka # None /\ ka.at = "ping" /\ ka.ep = bound /\ (esc # None => bound \in {0, esc.ep})
      BY <1>6 DEF PingMissed, EscalationsFollow
    <2>2. CASE Tolerated
      BY <1>6, <2>1, <2>2 DEF PingMissed, EscalationsFollow, PoolTypeOK, Escalations, Loops, Loop
    <2>3. CASE ~Tolerated
      BY <1>6, <2>1, <2>3 DEF PingMissed, EscalationsFollow, PoolTypeOK, Escalations, Loops, Armed
    <2> QED BY <2>2, <2>3
  <1>7. CASE Escalates
    BY <1>7 DEF Escalates, Owed, Evict, Unbind, Demote, EscalationsFollow, PoolTypeOK
  <1>8. CASE Tick
    <2>1. ka # None => /\ ka.timer \in Nat
                       /\ ka' # None /\ ka'.ep = ka.ep /\ ka'.at = ka.at /\ ka'.timer = ka.timer - 1
      BY <1>8 DEF Tick, PoolTypeOK, Loops, Settled
    <2>2. esc # None => /\ esc.timer \in Nat
                        /\ esc' # None /\ esc'.ep = esc.ep /\ esc'.timer = esc.timer - 1
      <3>1. esc # None => esc \in Escalations /\ esc' = [esc EXCEPT !.timer = @ - 1] /\ esc.timer > 0
        BY <1>8 DEF Tick, PoolTypeOK, Settled
      <3>2. esc # None => esc'.timer \in Nat
        BY <3>1 DEF Escalations
      <3> QED BY <3>1, <3>2 DEF Escalations
    <2>3. (ka = None => ka' = None) /\ (esc = None => esc' = None) /\ UNCHANGED <<bound, status, stop>>
      BY <1>8 DEF Tick
    <2> QED BY <2>1, <2>2, <2>3 DEF EscalationsFollow
  <1>9. CASE InboundConnects
    BY <1>9 DEF InboundConnects, EscalationsFollow
  <1>10. CASE Release \/ ClosePeer
    BY <1>10 DEF Release, ClosePeer, Evict, Unbind, Demote, EscalationsFollow, PoolTypeOK
  <1>11. CASE StopBegins \/ StopEnds
    BY <1>11 DEF StopBegins, StopEnds
  <1> QED
    BY <1>1, <1>2, <1>3, <1>4, <1>5, <1>6, <1>7, <1>8, <1>9, <1>10, <1>11
    DEF PoolNext, CallStep, poolVars, KeepaliveStep, Call, Acquire, DialFails, Answered, Breaks, Closes,
        InboundEnds

(* demote_on_transport_error(): "A peer that stops at suspect stays        *)
(* suspect forever".  Where timeout_ms is below interval_ms, as it is by   *)
(* default, an open episode always has an escalation pending that the      *)
(* binding of another endpoint does not stop.                              *)
THEOREM OwedCorrect ==
    ASSUME PoolAssumption, GraceIsShort
    PROVE  PoolSpec => []SuspectIsOwed
  <1>1. PoolInit => OwedInv
    BY PoolTypeInit DEF PoolInit, OwedInv, EscalationsFollow
  <1>2. OwedInv => SuspectIsOwed
    BY DEF OwedInv, EscalationsFollow, SuspectIsOwed
  <1> QED BY <1>1, <1>2, OwedStep, PTL DEF PoolSpec

-------------------------------------------------------------------------------
(***************************************************************************)
(* Dispatch.  A reply may say only what was done, so what a call's verdict *)
(* says is followed from the moment it is settled to the answer: a task in *)
(* a queue is of a call that has not run, a handler that runs was preserved*)
(* if its verdict says so, and the verdict gives what must be given.       *)
(***************************************************************************)
Requested == {Plain} \cup UNION {Load(p).asks : p \in Policies}
Given == {"none", "stored", "replicated"}
Verdicts == [refuse : BOOLEAN, applied : Given, committed : Given]
Replies == {"invalid", "unverified", "denied", "duplicate", "precondition", "accepted",
            "ok", "failed"}
CallRecords ==
    [from : Peers, at : Peers, parent : Nat, request : Requested,
     stage : {"sending", "sent", "rejecting", "queued", "handling", "nested", "replying",
              "background", "done"},
     waiting : BOOLEAN, ran : BOOLEAN, verdict : Verdicts \cup {Nothing}, kept : BOOLEAN, lost : BOOLEAN,
     reply : Replies \cup {Nothing}]

(* The level a request must have, now or as a promise. *)
Meets(v, want) == Rank(v.applied) >= Rank(want.level) \/ v.committed = want.level

(* A verdict which lets a request run gives it the level it must have. *)
Fair(r, v) == r.want # Nothing => (r.want.must => Meets(v, r.want))

(* What a call may say when it answers. *)
Says(k) ==
    k.reply # Nothing /\ k.verdict # Nothing =>
      /\ (k.verdict.applied # "none") => (k.kept /\ k.reply = "ok")
      /\ (k.reply = "precondition") => ~k.ran
      /\ (k.reply \in {"ok", "accepted"} /\ k.request.want # Nothing) =>
            (k.request.want.must /\ ~k.lost =>
                \/ Rank(k.verdict.applied) >= Rank(k.request.want.level)
                \/ k.verdict.committed = k.request.want.level)

(* A call that waits for its slot has not run; one whose handler runs was  *)
(* preserved if its verdict says so, and its answer is still open.         *)
CallOK(k) ==
    /\ k.stage \in {"sending", "sent", "queued"} => ~k.ran /\ k.reply = Nothing
    /\ k.stage \in {"handling", "nested"} =>
          /\ k.reply = Nothing /\ k.verdict \in Verdicts
          /\ k.verdict.applied # "none" => k.kept
          /\ ~k.lost => Fair(k.request, k.verdict)
    /\ Says(k)

CallsOK ==
    /\ policy \in Policies /\ linked \in BOOLEAN
    /\ calls \in Seq(CallRecords)
    /\ \A c \in Made : CallOK(calls[c])

(* Each task in a queue is of one call that waits there. *)
QueuesOK ==
    /\ queue \in [Peers -> Seq(Nat)]
    /\ \A p \in Peers : \A i \in 1 .. Len(queue[p]) :
          /\ queue[p][i] \in Made
          /\ calls[queue[p][i]].stage = "queued" /\ calls[queue[p][i]].at = p
          /\ \A j \in 1 .. Len(queue[p]) : queue[p][i] = queue[p][j] => i = j

DispatchInv == CallsOK /\ QueuesOK

LEMMA OtherIs == ASSUME DispatchAssumption, NEW p \in Peers PROVE Other(p) \in Peers
  <1>1. \E q \in Peers : q # p
    <2> SUFFICES ASSUME Peers = {p} PROVE FALSE
      OBVIOUS
    <2>1. Cardinality({p}) = 1
      BY FS_Singleton
    <2> QED BY <2>1 DEF DispatchAssumption
  <1> QED BY <1>1 DEF Other

LEMMA RequestIs ==
    ASSUME DispatchAssumption, Policies # {}, NEW r \in Requested
    PROVE  r.deliver \in BOOLEAN /\ (r.want # Nothing => r.want.must \in BOOLEAN)
  BY DEF DispatchAssumption, Requested

LEMMA ReconciledIs ==
    ASSUME DispatchAssumption, policy \in Policies, NEW want, want.must \in BOOLEAN
    PROVE  /\ Reconcile(want) \in Verdicts
           /\ Reconcile(want).committed \in {"none", want.level}
           /\ Rank(Reconcile(want).applied) >= Rank(want.level) => want.level \in Given
           /\ Reconcile(want).refuse => Reconcile(want).applied = "none"
           /\ want.must /\ ~Reconcile(want).refuse => Meets(Reconcile(want), want)
  <1>1. policy.most \in Given /\ policy.replicates \in BOOLEAN
    BY DEF DispatchAssumption, Given
  <1>2. Known(want.level) <=> want.level \in Given
    <2>1. Levels[1] = "none" /\ Levels[2] = "stored" /\ Levels[3] = "replicated"
      BY DEF Levels
    <2>2. 1 .. 3 = {1, 2, 3}
      OBVIOUS
    <2> QED BY <2>1, <2>2 DEF Known, Given
  <1>3. Rank(policy.most) \in 0 .. 2 /\ Rank(want.level) \in 0 .. 3 /\ (Rank(want.level) < 3 => want.level \in Given)
    BY <1>1 DEF Rank, Given
  <1> DEFINE v == Reconcile(want)
  <1>4. \/ /\ want.level \notin Given
           /\ v = Verdict(want.must, "none", "none")
        \/ /\ want.level = "replicated"
           /\ v = Verdict(FALSE, policy.most, "replicated")
        \/ /\ want.level \in Given /\ Rank(policy.most) >= Rank(want.level)
           /\ v = Verdict(FALSE, want.level, "none")
        \/ /\ want.level \in Given
           /\ v = IF want.must THEN Verdict(TRUE, "none", "none") ELSE Verdict(FALSE, policy.most, "none")
    BY <1>2 DEF Reconcile
  <1> HIDE DEF v
  <1>5. Rank("none") = 0
    BY DEF Rank
  <1>6. PICK refuse \in BOOLEAN, applied \in Given, committed \in Given :
          /\ v = [refuse |-> refuse, applied |-> applied, committed |-> committed]
          /\ committed \in {"none", want.level}
          /\ refuse => applied = "none"
          /\ want.must /\ ~refuse => Rank(applied) >= Rank(want.level) \/ committed = want.level
    <2>1. CASE want.level \notin Given /\ v = Verdict(want.must, "none", "none")
      <3>1. v = [refuse |-> want.must, applied |-> "none", committed |-> "none"]
        BY <2>1 DEF Verdict
      <3> QED BY <3>1 DEF Given
    <2>2. CASE want.level = "replicated" /\ v = Verdict(FALSE, policy.most, "replicated")
      <3>1. v = [refuse |-> FALSE, applied |-> policy.most, committed |-> want.level]
        BY <2>2 DEF Verdict
      <3> QED BY <1>1, <2>2, <3>1 DEF Given
    <2>3. CASE /\ want.level \in Given /\ Rank(policy.most) >= Rank(want.level)
               /\ v = Verdict(FALSE, want.level, "none")
      <3>1. v = [refuse |-> FALSE, applied |-> want.level, committed |-> "none"]
        BY <2>3 DEF Verdict
      <3>2. Rank(want.level) >= Rank(want.level)
        BY <1>3
      <3> QED BY <2>3, <3>1, <3>2 DEF Given
    <2>4. CASE want.must /\ v = Verdict(TRUE, "none", "none")
      BY <2>4 DEF Verdict, Given
    <2>5. CASE ~want.must /\ v = Verdict(FALSE, policy.most, "none")
      BY <1>1, <2>5 DEF Verdict, Given
    <2> QED BY <1>4, <2>1, <2>2, <2>3, <2>4, <2>5
  <1>7. v.refuse = refuse /\ v.applied = applied /\ v.committed = committed /\ v \in Verdicts
    BY <1>6 DEF Verdicts
  <1>8. Rank(applied) \in 0 .. 2
    BY DEF Given, Rank
  <1> QED BY <1>3, <1>6, <1>7, <1>8 DEF v, Meets

LEMMA VerdictIs ==
    ASSUME DispatchAssumption, policy \in Policies, NEW r \in Requested
    PROVE  /\ ReconcileForDispatch(r) \in Verdicts
           /\ ReconcileForDispatch(r).refuse \/ r.deliver => ReconcileForDispatch(r).applied = "none"
           /\ ~ReconcileForDispatch(r).refuse => Fair(r, ReconcileForDispatch(r))
  <1>1. r.deliver \in BOOLEAN /\ (r.want # Nothing => r.want.must \in BOOLEAN)
    BY RequestIs
  <1>2. CASE r.want = Nothing
    <2>1. ReconcileForDispatch(r) = Verdict(FALSE, "none", "none")
      BY <1>2 DEF ReconcileForDispatch
    <2> QED BY <1>2, <2>1 DEF Verdict, Verdicts, Given, Fair
  <1>3. CASE r.want # Nothing
    <2> DEFINE base == Reconcile(r.want)
               met == base.committed # "none" \/ Rank(base.applied) >= Rank(r.want.level)
    <2>1. /\ base \in Verdicts
          /\ base.committed \in {"none", r.want.level}
          /\ Rank(base.applied) >= Rank(r.want.level) => r.want.level \in Given
          /\ base.refuse => base.applied = "none"
          /\ r.want.must /\ ~base.refuse => Meets(base, r.want)
      BY <1>1, <1>3, ReconciledIs
    <2>2. ReconcileForDispatch(r) = IF ~r.deliver \/ base.refuse THEN base
                                    ELSE Verdict(FALSE, "none", IF met THEN r.want.level ELSE "none")
      BY <1>3 DEF ReconcileForDispatch
    <2> HIDE DEF base
    <2>3. r.want.must /\ ~base.refuse => met \/ r.want.level = "none"
      BY <2>1 DEF Meets, Verdicts
    <2>4. met => r.want.level \in Given
      BY <2>1 DEF Verdicts, Given
    <2>5. CASE ~r.deliver \/ base.refuse
      BY <1>1, <2>1, <2>2, <2>5 DEF Fair, Verdicts
    <2>6. CASE r.deliver /\ ~base.refuse
      BY <1>1, <2>2, <2>3, <2>4, <2>6 DEF Fair, Meets, Verdict, Verdicts, Given
    <2> QED BY <1>1, <2>1, <2>5, <2>6 DEF Verdicts
  <1> QED BY <1>2, <1>3

-----------------------------------------------------------------------------
(* What an answer leaves of its call. *)
LEMMA RepliedIs ==
    ASSUME CallsOK, NEW c \in Made, NEW answer \in Replies, NEW v \in Verdicts \cup {Nothing}
    PROVE  /\ Replied(c, answer, v) \in CallRecords
           /\ Replied(c, answer, v).stage = "replying" /\ Replied(c, answer, v).at = calls[c].at
           /\ Replied(c, answer, v).reply \in {answer, Nothing}
           /\ Replied(c, answer, v).verdict = v /\ Replied(c, answer, v).request = calls[c].request
           /\ Replied(c, answer, v).ran = calls[c].ran
           /\ Replied(c, answer, v).kept = calls[c].kept /\ Replied(c, answer, v).lost = calls[c].lost
  <1>1. PICK k \in CallRecords : k = calls[c]
    BY DEF CallsOK, Made
  <1>2. PICK q \in {answer, Nothing} :
          q = IF linked /\ (k.request.want # Nothing \/ k.request.deliver) THEN answer ELSE Nothing
    BY Zenon
  <1>3. PICK m : m = Replied(c, answer, v)
    OBVIOUS
  <1>4. m = [k EXCEPT !.stage = "replying", !.verdict = v, !.reply = q]
    BY <1>1, <1>2, <1>3 DEF Replied
  <1>5. v \in Verdicts \cup {Nothing} /\ q \in Replies \cup {Nothing}
    OBVIOUS
  <1>6. /\ m \in CallRecords
        /\ m.stage = "replying" /\ m.at = k.at /\ m.reply = q /\ m.verdict = v
        /\ m.request = k.request /\ m.ran = k.ran /\ m.kept = k.kept /\ m.lost = k.lost
    BY <1>4, <1>5 DEF CallRecords
  <1> QED BY <1>1, <1>3, <1>6

LEMMA OneCall ==
    ASSUME CallsOK, NEW c \in Made, NEW k \in CallRecords, CallOK(k), calls' = [calls EXCEPT ![c] = k],
           policy' = policy, linked' = linked
    PROVE  CallsOK' /\ Made' = Made /\ calls'[c] = k /\ \A d \in Made \ {c} : calls'[d] = calls[d]
  <1>1. calls' \in Seq(CallRecords) /\ Made' = Made
    BY DEF CallsOK, Made
  <1>2. calls'[c] = k /\ \A d \in Made \ {c} : calls'[d] = calls[d]
    BY DEF CallsOK, Made
  <1>3. \A d \in Made' : CallOK(calls'[d])
    BY <1>1, <1>2 DEF CallsOK
  <1> QED BY <1>1, <1>2, <1>3 DEF CallsOK

LEMMA AnotherCall ==
    ASSUME CallsOK, NEW k \in CallRecords, CallOK(k), calls' = Append(calls, k), policy' = policy, linked' = linked
    PROVE  CallsOK' /\ Made \subseteq Made' /\ \A d \in Made : calls'[d] = calls[d]
  <1>1. /\ calls' \in Seq(CallRecords) /\ Made' = Made \cup {Len(calls) + 1}
        /\ calls'[Len(calls) + 1] = k /\ \A d \in Made : calls'[d] = calls[d]
    BY DEF CallsOK, Made
  <1>2. \A d \in Made' : CallOK(calls'[d])
    BY <1>1 DEF CallsOK
  <1> QED BY <1>1, <1>2 DEF CallsOK

LEMMA NewCall ==
    ASSUME DispatchAssumption, NEW p \in Peers, NEW parent \in Nat, NEW r \in Requested
    PROVE  CallMade(p, parent, r) \in CallRecords /\ CallOK(CallMade(p, parent, r))
  BY OtherIs DEF CallMade, CallRecords, CallOK, Says

LEMMA QueuesStay ==
    ASSUME QueuesOK, queue' = queue, Made \subseteq Made',
           \A d \in Made : calls[d].stage = "queued" => calls'[d].stage = "queued" /\ calls'[d].at = calls[d].at
    PROVE  QueuesOK'
  BY DEF QueuesOK

(* A call that is not queued changes its stage. *)
LEMMA Moves ==
    ASSUME DispatchInv, NEW c \in Made, NEW k \in CallRecords, CallOK(k), calls' = [calls EXCEPT ![c] = k],
           calls[c].stage # "queued", UNCHANGED <<policy, linked, queue>>
    PROVE  DispatchInv'
  <1>1. CallsOK' /\ Made' = Made /\ calls'[c] = k /\ \A d \in Made \ {c} : calls'[d] = calls[d]
    BY OneCall DEF DispatchInv
  <1>2. QueuesOK'
    BY <1>1, QueuesStay DEF DispatchInv
  <1> QED BY <1>1, <1>2 DEF DispatchInv

-----------------------------------------------------------------------------
(* A call of which only the stage changes, to one that asks no more of it. *)
LEMMA StageOK ==
    ASSUME NEW k \in CallRecords, CallOK(k),
           NEW t \in {"sent", "rejecting", "handling", "nested", "background", "done"},
           t = "sent" => k.stage = "sending",
           t \in {"handling", "nested"} => k.stage \in {"handling", "nested"}
    PROVE  [k EXCEPT !.stage = t] \in CallRecords /\ CallOK([k EXCEPT !.stage = t])
  <1>1. PICK m : m = [k EXCEPT !.stage = t]
    OBVIOUS
  <1>2. /\ m \in CallRecords /\ m.stage = t /\ m.reply = k.reply /\ m.verdict = k.verdict /\ m.kept = k.kept
        /\ m.lost = k.lost /\ m.request = k.request /\ m.ran = k.ran
    BY <1>1 DEF CallRecords
  <1>3. CallOK(m)
    BY <1>2 DEF CallOK, Says
  <1> QED BY <1>1, <1>2, <1>3

LEMMA ReceiveStep == ASSUME DispatchInv, NEW c \in Made, Receive(c) PROVE DispatchInv'
  <1>0. CallsOK /\ QueuesOK /\ calls[c].stage = "sent" /\ CallOK(calls[c]) /\ UNCHANGED <<policy, linked>>
    BY DEF Receive, DispatchInv, CallsOK
  <1>1. CASE /\ calls' = [calls EXCEPT ![c].stage = "queued"]
             /\ queue' = [queue EXCEPT ![calls[c].at] = Append(@, c)]
    <2>1. PICK k \in CallRecords : k = calls[c]
      BY <1>0 DEF CallsOK, Made
    <2> DEFINE m == [k EXCEPT !.stage = "queued"]
    <2>2. calls' = [calls EXCEPT ![c] = m]
      BY <1>1, <2>1
    <2>3. m \in CallRecords /\ m.stage = "queued" /\ m.at = k.at /\ m.ran = k.ran /\ m.reply = k.reply
      BY DEF CallRecords
    <2> HIDE DEF m
    <2>4. CallOK(m)
      BY <1>0, <2>1, <2>3 DEF CallOK, Says
    <2>5. CallsOK' /\ Made' = Made /\ calls'[c] = m /\ \A d \in Made \ {c} : calls'[d] = calls[d]
      BY <1>0, <2>2, <2>3, <2>4, OneCall
    <2>6. k.at \in Peers /\ c \in Nat
      BY DEF CallRecords, Made
    <2>7. queue' = [queue EXCEPT ![k.at] = Append(queue[k.at], c)]
      BY <1>1, <2>1
    <2>8. QueuesOK'
      <3>1. queue' \in [Peers -> Seq(Nat)]
        BY <1>0, <2>6, <2>7 DEF QueuesOK
      <3>2. ASSUME NEW p \in Peers, NEW i \in 1 .. Len(queue'[p])
            PROVE  /\ queue'[p][i] \in Made' /\ calls'[queue'[p][i]].stage = "queued"
                   /\ calls'[queue'[p][i]].at = p
                   /\ \A j \in 1 .. Len(queue'[p]) : queue'[p][i] = queue'[p][j] => i = j
        <4>1. \A j \in 1 .. Len(queue[p]) : queue[p][j] \in Made \ {c}
          BY <1>0 DEF QueuesOK
        <4>2. CASE p # k.at
          <5>1. queue'[p] = queue[p]
            BY <1>0, <2>7, <4>2 DEF QueuesOK
          <5> QED BY <1>0, <2>5, <4>1, <5>1 DEF QueuesOK
        <4>3. CASE p = k.at
          <5>1. queue'[p] = Append(queue[p], c) /\ queue[p] \in Seq(Nat)
            BY <1>0, <2>6, <2>7, <4>3 DEF QueuesOK
          <5>2. /\ Len(queue'[p]) = Len(queue[p]) + 1 /\ queue'[p][Len(queue[p]) + 1] = c
                /\ \A j \in 1 .. Len(queue[p]) : queue'[p][j] = queue[p][j]
            BY <2>6, <5>1
          <5>3. \A j \in 1 .. Len(queue'[p]) : j \in 1 .. Len(queue[p]) \/ j = Len(queue[p]) + 1
            BY <5>1, <5>2
          <5>4. CASE i = Len(queue[p]) + 1
            BY <2>1, <2>3, <2>5, <4>1, <4>3, <5>2, <5>3, <5>4
          <5>5. CASE i \in 1 .. Len(queue[p])
            <6>1. queue'[p][i] = queue[p][i] /\ queue[p][i] \in Made \ {c}
              BY <4>1, <5>2, <5>5
            <6>2. calls'[queue[p][i]] = calls[queue[p][i]]
              BY <2>5, <6>1
            <6>3. calls[queue[p][i]].stage = "queued" /\ calls[queue[p][i]].at = p
              BY <1>0, <5>5 DEF QueuesOK
            <6>4. ASSUME NEW j \in 1 .. Len(queue'[p]), queue'[p][i] = queue'[p][j] PROVE i = j
              <7>1. j \in 1 .. Len(queue[p])
                BY <5>2, <5>3, <6>1, <6>4
              <7>2. queue[p][i] = queue[p][j]
                BY <5>2, <6>1, <6>4, <7>1
              <7> QED BY <1>0, <5>5, <7>1, <7>2 DEF QueuesOK
            <6> QED BY <2>5, <6>1, <6>2, <6>3, <6>4
          <5> QED BY <5>3, <5>4, <5>5
        <4> QED BY <4>2, <4>3
      <3> QED BY <3>1, <3>2 DEF QueuesOK
    <2> QED BY <2>5, <2>8 DEF DispatchInv
  <1>2. CASE calls' = [calls EXCEPT ![c].stage = "rejecting"] /\ UNCHANGED queue
    <2>1. PICK k \in CallRecords : k = calls[c]
      BY <1>0 DEF CallsOK, Made
    <2>2. PICK m \in CallRecords : m = [k EXCEPT !.stage = "rejecting"] /\ CallOK(m)
      BY <1>0, <2>1, StageOK
    <2>3. calls' = [calls EXCEPT ![c] = m]
      BY <1>2, <2>1, <2>2
    <2> QED BY <1>0, <1>2, <2>2, <2>3, Moves
  <1> QED BY <1>1, <1>2 DEF Receive

(* The task at the head of a queue gets its slot.                          *)
LEMMA SlotTaken ==
    ASSUME DispatchInv, NEW p \in Peers, queue[p] # << >>, NEW k \in CallRecords, CallOK(k),
           calls' = [calls EXCEPT ![Head(queue[p])] = k], queue' = [queue EXCEPT ![p] = Tail(queue[p])],
           UNCHANGED <<policy, linked>>
    PROVE  DispatchInv'
  <1> DEFINE c == Head(queue[p])
  <1>1. /\ queue[p] \in Seq(Nat) /\ Len(queue[p]) \in Nat /\ Len(queue[p]) > 0 /\ c = queue[p][1]
        /\ c \in Made /\ calls[c].at = p
    BY DEF DispatchInv, QueuesOK
  <1> HIDE DEF c
  <1>2. CallsOK' /\ Made' = Made /\ calls'[c] = k /\ \A d \in Made \ {c} : calls'[d] = calls[d]
    BY <1>1, OneCall DEF DispatchInv, c
  <1>3. queue' \in [Peers -> Seq(Nat)]
    BY <1>1 DEF DispatchInv, QueuesOK
  <1>4. ASSUME NEW q \in Peers, NEW i \in 1 .. Len(queue'[q])
        PROVE  /\ queue'[q][i] \in Made' /\ calls'[queue'[q][i]].stage = "queued"
               /\ calls'[queue'[q][i]].at = q
               /\ \A j \in 1 .. Len(queue'[q]) : queue'[q][i] = queue'[q][j] => i = j
    <2>1. CASE q # p
      <3>1. queue'[q] = queue[q]
        BY <2>1 DEF DispatchInv, QueuesOK
      <3>2. queue[q][i] # c
        BY <1>1, <1>4, <2>1, <3>1 DEF DispatchInv, QueuesOK
      <3> QED BY <1>2, <1>4, <3>1, <3>2 DEF DispatchInv, QueuesOK
    <2>2. CASE q = p
      <3>1. queue'[p] = Tail(queue[p])
        BY DEF DispatchInv, QueuesOK
      <3>2. /\ Len(queue'[p]) = Len(queue[p]) - 1
            /\ \A j \in 1 .. Len(queue'[p]) : queue'[p][j] = queue[p][j + 1] /\ j + 1 \in 1 .. Len(queue[p])
        <4>1. PICK t \in Seq(Nat) : t = queue[p] /\ Len(t) \in Nat /\ Len(t) > 0
          BY <1>1
        <4>2. Len(Tail(t)) = Len(t) - 1 /\ \A j \in 1 .. Len(t) - 1 : Tail(t)[j] = t[j + 1]
          BY <4>1
        <4>3. \A j \in 1 .. Len(t) - 1 : j + 1 \in 1 .. Len(t)
          BY <4>1
        <4> QED BY <3>1, <4>1, <4>2, <4>3
      <3>3. 1 \in 1 .. Len(queue[p])
        BY <1>1
      <3>4. queue[p][i + 1] # c
        <4>1. i + 1 \in 1 .. Len(queue[p]) /\ i + 1 # 1
          BY <1>4, <2>2, <3>2
        <4> QED BY <1>1, <3>3, <4>1 DEF DispatchInv, QueuesOK
      <3>5. ASSUME NEW j \in 1 .. Len(queue'[p]), queue'[p][i] = queue'[p][j] PROVE i = j
        <4>1. i + 1 = j + 1
          BY <1>4, <2>2, <3>2, <3>5 DEF DispatchInv, QueuesOK
        <4> QED BY <4>1
      <3> QED BY <1>2, <1>4, <2>2, <3>2, <3>4, <3>5 DEF DispatchInv, QueuesOK
    <2> QED BY <2>1, <2>2
  <1> QED BY <1>2, <1>3, <1>4 DEF DispatchInv, QueuesOK

(* An answer without a verdict says nothing.                               *)
LEMMA SaysNothing ==
    ASSUME CallsOK, NEW c \in Made, NEW answer \in Replies
    PROVE  Replied(c, answer, Nothing) \in CallRecords /\ CallOK(Replied(c, answer, Nothing))
  BY RepliedIs DEF CallOK, Says

LEMMA ExecuteStep == ASSUME DispatchAssumption, DispatchInv, NEW p \in Peers, HandleExecute(p) PROVE DispatchInv'
  <1>0. queue[p] # << >> /\ queue' = [queue EXCEPT ![p] = Tail(queue[p])] /\ UNCHANGED <<policy, linked>>
    BY DEF HandleExecute
  <1> SUFFICES \E k \in CallRecords : CallOK(k) /\ calls' = [calls EXCEPT ![Head(queue[p])] = k]
    BY <1>0, SlotTaken
  <1>1. PICK c \in Made : c = Head(queue[p]) /\ calls[c].stage = "queued"
    BY <1>0 DEF DispatchInv, QueuesOK
  <1>2. PICK k \in CallRecords : k = calls[c]
    BY DEF DispatchInv, CallsOK, Made
  <1>3. CallsOK /\ k.stage = "queued" /\ ~k.ran /\ k.reply = Nothing
    BY <1>1, <1>2 DEF DispatchInv, CallsOK, CallOK
  <1>4. PICK r \in Requested : r = k.request
    BY DEF CallRecords
  <1>5. PICK v \in Verdicts : v = ReconcileForDispatch(r)
    BY <1>3, VerdictIs DEF CallsOK
  <1>6. /\ v.refuse \/ r.deliver => v.applied = "none"
        /\ ~v.refuse => Fair(r, v)
    BY <1>3, <1>5, VerdictIs DEF CallsOK
  <1>7. \/ \/ calls' = [calls EXCEPT ![c] = Replied(c, "invalid", Nothing)]
           \/ calls' = [calls EXCEPT ![c] = Replied(c, "unverified", Nothing)]
           \/ calls' = [calls EXCEPT ![c] = Replied(c, "denied", Nothing)]
           \/ calls' = [calls EXCEPT ![c] = Replied(c, "duplicate", Nothing)]
        \/ calls' = [calls EXCEPT ![c].stage = "done"]
        \/ v.refuse /\ calls' = [calls EXCEPT ![c] = Replied(c, "precondition", v)]
        \/ ~v.refuse /\ r.deliver /\ calls' = [calls EXCEPT ![c] = AcceptsForLater(c, v)]
        \/ ~v.refuse /\ ~r.deliver /\ \E stored \in BOOLEAN : calls' = [calls EXCEPT ![c] = Runs(c, v, stored)]
    BY <1>1, <1>2, <1>4, <1>5 DEF HandleExecute, Misaddressed, Unverified, OutOfScope, Ungranted
  <1>8. CASE \E answer \in Replies : calls' = [calls EXCEPT ![c] = Replied(c, answer, Nothing)]
    BY <1>1, <1>3, <1>8, SaysNothing
  <1>9. CASE calls' = [calls EXCEPT ![c].stage = "done"]
    <2>1. PICK m : m = [k EXCEPT !.stage = "done"]
      OBVIOUS
    <2>2. calls' = [calls EXCEPT ![c] = m]
      BY <1>2, <1>9, <2>1
    <2>3. m \in CallRecords /\ m.stage = "done" /\ m.reply = k.reply
      BY <2>1 DEF CallRecords
    <2> QED BY <1>1, <1>3, <2>2, <2>3 DEF CallOK, Says
  <1>10. CASE v.refuse /\ calls' = [calls EXCEPT ![c] = Replied(c, "precondition", v)]
    <2>1. PICK m \in CallRecords :
             /\ m = Replied(c, "precondition", v) /\ m.stage = "replying" /\ m.verdict = v /\ m.ran = k.ran
             /\ m.reply \in {"precondition", Nothing}
      BY <1>2, <1>3, RepliedIs DEF Replies
    <2>2. CallOK(m)
      BY <1>3, <1>6, <1>10, <2>1 DEF CallOK, Says
    <2> QED BY <1>1, <1>10, <2>1, <2>2
  <1>11. CASE ~v.refuse /\ r.deliver /\ calls' = [calls EXCEPT ![c] = AcceptsForLater(c, v)]
    <2>1. PICK m \in CallRecords :
             /\ m = Replied(c, "accepted", v) /\ m.stage = "replying" /\ m.verdict = v /\ m.request = r
             /\ m.reply \in {"accepted", Nothing}
      BY <1>2, <1>3, <1>4, RepliedIs DEF Replies
    <2>2. CallOK(m)
      BY <1>6, <1>11, <2>1 DEF CallOK, Says, Fair, Meets
    <2> QED BY <1>1, <1>11, <2>1, <2>2 DEF AcceptsForLater
  <1>12. CASE ~v.refuse /\ ~r.deliver /\ \E stored \in BOOLEAN : calls' = [calls EXCEPT ![c] = Runs(c, v, stored)]
    <2>1. PICK stored \in BOOLEAN : calls' = [calls EXCEPT ![c] = Runs(c, v, stored)]
      BY <1>12
    <2>2. PICK keeps \in BOOLEAN : keeps = Keeps(r, v)
      BY Zenon DEF Keeps
    <2>3. keeps <=> v.applied # "none"
      BY <1>12, <2>2 DEF Keeps
    <2>4. PICK w : w = IF keeps /\ ~stored THEN Verdict(FALSE, "none", "none") ELSE v
      OBVIOUS
    <2>5. w \in Verdicts /\ (keeps /\ ~stored => w.applied = "none") /\ (~(keeps /\ ~stored) => w = v)
      BY <2>4 DEF Verdict, Verdicts, Given
    <2>6. PICK kept \in BOOLEAN, lost \in BOOLEAN : kept = (keeps /\ stored) /\ lost = (keeps /\ ~stored)
      BY Zenon
    <2>7. PICK m : m = [k EXCEPT !.stage = "handling", !.ran = TRUE, !.verdict = w, !.kept = kept, !.lost = lost]
      OBVIOUS
    <2>8. m = Runs(c, v, stored)
      BY <1>2, <1>4, <2>2, <2>4, <2>6, <2>7 DEF Runs
    <2>9. /\ m \in CallRecords /\ m.stage = "handling" /\ m.verdict = w /\ m.kept = kept /\ m.lost = lost
          /\ m.request = r /\ m.reply = k.reply
      BY <1>4, <2>5, <2>7 DEF CallRecords
    <2>10. CallOK(m)
      BY <1>3, <1>6, <1>12, <2>3, <2>5, <2>6, <2>9 DEF CallOK, Says
    <2> QED BY <1>1, <2>1, <2>8, <2>9, <2>10
  <1> QED BY <1>7, <1>8, <1>9, <1>10, <1>11, <1>12 DEF Replies

LEMMA ReturnsStep ==
    ASSUME DispatchInv, NEW c \in Made, NEW ok \in BOOLEAN, HandlerReturns(c, ok)
    PROVE  DispatchInv'
  <1>1. PICK k \in CallRecords : k = calls[c]
    BY DEF DispatchInv, CallsOK, Made
  <1>2. /\ CallsOK /\ k.stage = "handling" /\ k.verdict \in Verdicts
        /\ k.verdict.applied # "none" => k.kept
        /\ ~k.lost => Fair(k.request, k.verdict)
        /\ UNCHANGED <<policy, linked, queue, preserved>>
    BY <1>1 DEF HandlerReturns, DispatchInv, CallsOK, CallOK
  <1>3. PICK v : v = Honest(k.verdict, ok)
    OBVIOUS
  <1>4. v \in Verdicts /\ (ok => v = k.verdict) /\ (~ok => v.applied = "none")
    BY <1>2, <1>3 DEF Honest, Verdict, Verdicts, Given
  <1>5. PICK answer \in Replies : answer = IF ok THEN "ok" ELSE "failed"
    BY DEF Replies
  <1>6. calls' = [calls EXCEPT ![c] = Replied(c, answer, v)]
    BY <1>1, <1>3, <1>5 DEF HandlerReturns
  <1>7. PICK m \in CallRecords :
           /\ m = Replied(c, answer, v) /\ m.stage = "replying" /\ m.verdict = v /\ m.request = k.request
           /\ m.ran = k.ran /\ m.kept = k.kept /\ m.lost = k.lost /\ m.reply \in {answer, Nothing}
    BY <1>1, <1>2, <1>4, RepliedIs
  <1>8. CallOK(m)
    <2>1. CASE ok
      BY <1>2, <1>4, <1>5, <1>7, <2>1 DEF CallOK, Says, Fair, Meets
    <2>2. CASE ~ok
      BY <1>4, <1>5, <1>7, <2>2 DEF CallOK, Says
    <2> QED BY <2>1, <2>2
  <1> QED BY <1>1, <1>2, <1>6, <1>7, <1>8, Moves

LEMMA ReenterStep == ASSUME DispatchAssumption, DispatchInv, NEW c \in Made, Reenter(c) PROVE DispatchInv'
  <1>1. PICK k \in CallRecords : k = calls[c]
    BY DEF DispatchInv, CallsOK, Made
  <1>2. /\ CallsOK /\ k.stage = "handling" /\ CallOK(k)
        /\ UNCHANGED <<policy, linked, queue, preserved>>
    BY <1>1 DEF Reenter, DispatchInv, CallsOK
  <1>3. PICK m \in CallRecords : m = [k EXCEPT !.stage = "nested"] /\ CallOK(m)
    BY <1>2, StageOK
  <1>4. PICK n \in CallRecords : n = CallMade(k.at, c, Plain) /\ CallOK(n)
    <2>1. k.at \in Peers /\ c \in Nat /\ Plain \in Requested
      BY DEF CallRecords, Made, Requested
    <2> QED BY <2>1, NewCall
  <1>5. PICK s : s = [calls EXCEPT ![c] = m]
    OBVIOUS
  <1>6. calls' = Append(s, n)
    BY <1>1, <1>3, <1>4, <1>5 DEF Reenter
  <1>7. /\ s \in Seq(CallRecords) /\ Len(s) = Len(calls) /\ s[c] = m
        /\ \A d \in Made \ {c} : s[d] = calls[d]
    BY <1>2, <1>5 DEF CallsOK, Made
  <1>8. /\ calls' \in Seq(CallRecords) /\ Made' = Made \cup {Len(calls) + 1}
        /\ calls'[Len(calls) + 1] = n /\ calls'[c] = m /\ \A d \in Made \ {c} : calls'[d] = calls[d]
    BY <1>2, <1>6, <1>7 DEF CallsOK, Made
  <1>9. CallsOK'
    BY <1>2, <1>3, <1>4, <1>8 DEF CallsOK
  <1>10. QueuesOK'
    BY <1>1, <1>2, <1>8, QueuesStay DEF DispatchInv
  <1> QED BY <1>9, <1>10 DEF DispatchInv

LEMMA StageStep ==
    ASSUME DispatchInv, NEW c \in Made,
           HandlerResumes(c) \/ ProcessAsyncDelivery(c) \/ CallWritten(c) \/ ReplyLost(c)
    PROVE  DispatchInv'
  <1>1. PICK k \in CallRecords : k = calls[c]
    BY DEF DispatchInv, CallsOK, Made
  <1>2. PICK t \in {"sent", "handling", "done"} :
          /\ calls' = [calls EXCEPT ![c].stage = t]
          /\ t = "sent" => k.stage = "sending"
          /\ t = "handling" => k.stage = "nested"
          /\ k.stage # "queued"
          /\ UNCHANGED <<policy, linked, queue, preserved>>
    BY <1>1 DEF HandlerResumes, ProcessAsyncDelivery, CallWritten, ReplyLost
  <1>3. CallOK(k)
    BY <1>1 DEF DispatchInv, CallsOK
  <1>4. PICK m \in CallRecords : m = [k EXCEPT !.stage = t] /\ CallOK(m)
    BY <1>2, <1>3, StageOK
  <1>5. calls' = [calls EXCEPT ![c] = m]
    BY <1>1, <1>2, <1>4
  <1> QED BY <1>1, <1>2, <1>4, <1>5, Moves

(* An answer that is written starts what it promised to run.               *)
LEMMA WrittenStep == ASSUME DispatchInv, NEW c \in Made, ReplyWritten(c) PROVE DispatchInv'
  <1>1. PICK k \in CallRecords : k = calls[c]
    BY DEF DispatchInv, CallsOK, Made
  <1>2. CallOK(k) /\ k.stage # "queued" /\ UNCHANGED <<policy, linked, queue>>
    BY <1>1 DEF ReplyWritten, DispatchInv, CallsOK
  <1>3. PICK t \in {"background", "done"} : t = IF k.reply = "accepted" THEN "background" ELSE "done"
    OBVIOUS
  <1>4. PICK ran \in BOOLEAN : ran = (k.ran \/ k.reply = "accepted")
    BY Zenon
  <1>5. PICK m : m = [k EXCEPT !.stage = t, !.ran = ran, !.waiting = FALSE]
    OBVIOUS
  <1>6. calls' = [calls EXCEPT ![c] = m]
    BY <1>1, <1>3, <1>4, <1>5 DEF ReplyWritten
  <1>7. /\ m \in CallRecords /\ m.stage = t /\ m.reply = k.reply /\ m.verdict = k.verdict /\ m.kept = k.kept
        /\ m.lost = k.lost /\ m.request = k.request /\ m.ran = ran
    BY <1>5 DEF CallRecords
  <1>8. k.reply = "precondition" => ran = k.ran
    BY <1>1, <1>4 DEF CallRecords
  <1>9. CallOK(m)
    BY <1>2, <1>7, <1>8 DEF CallOK, Says
  <1> QED BY <1>1, <1>2, <1>6, <1>7, <1>9, Moves

(* Giving up the wait touches neither what a call says nor where it is.    *)
LEMMA WaitOver ==
    ASSUME NEW k \in CallRecords, CallOK(k)
    PROVE  /\ [k EXCEPT !.waiting = FALSE] \in CallRecords /\ CallOK([k EXCEPT !.waiting = FALSE])
           /\ [k EXCEPT !.waiting = FALSE].stage = k.stage /\ [k EXCEPT !.waiting = FALSE].at = k.at
  <1>1. PICK m : m = [k EXCEPT !.waiting = FALSE]
    OBVIOUS
  <1>2. /\ m \in CallRecords /\ m.stage = k.stage /\ m.reply = k.reply /\ m.verdict = k.verdict
        /\ m.kept = k.kept /\ m.lost = k.lost /\ m.request = k.request /\ m.ran = k.ran /\ m.at = k.at
    BY <1>1 DEF CallRecords
  <1>3. CallOK(m)
    BY <1>2 DEF CallOK, Says
  <1> QED BY <1>1, <1>2, <1>3

LEMMA DeadlineStep == ASSUME DispatchInv, NEW c \in Made, CallDeadline(c) PROVE DispatchInv'
  <1>1. PICK k \in CallRecords : k = calls[c]
    BY DEF DispatchInv, CallsOK, Made
  <1>2. CallOK(k)
    BY <1>1 DEF DispatchInv, CallsOK
  <1>3. PICK m \in CallRecords :
          m = [k EXCEPT !.waiting = FALSE] /\ CallOK(m) /\ m.stage = k.stage /\ m.at = k.at
    BY <1>2, WaitOver
  <1>4. calls' = [calls EXCEPT ![c] = m] /\ UNCHANGED <<policy, linked, queue>>
    BY <1>1, <1>3 DEF CallDeadline
  <1>5. CallsOK' /\ Made' = Made /\ calls'[c] = m /\ \A d \in Made \ {c} : calls'[d] = calls[d]
    BY <1>3, <1>4, OneCall DEF DispatchInv
  <1>6. QueuesOK'
    BY <1>1, <1>3, <1>4, <1>5, QueuesStay DEF DispatchInv
  <1> QED BY <1>5, <1>6 DEF DispatchInv

LEMMA AllCalls ==
    ASSUME CallsOK, calls' \in [Made -> CallRecords], \A d \in Made : CallOK(calls'[d]),
           policy' = policy, linked' \in BOOLEAN
    PROVE  CallsOK' /\ Made' = Made
  <1>1. Len(calls) \in Nat
    BY DEF CallsOK
  <1>2. calls' \in Seq(CallRecords) /\ Len(calls') = Len(calls)
    BY <1>1 DEF Made
  <1> QED BY <1>2 DEF CallsOK, Made

LEMMA EndStep == ASSUME DispatchInv, ConnectionEnds PROVE DispatchInv'
  <1>1. /\ calls' = [c \in Made |-> [calls[c] EXCEPT !.waiting = FALSE]]
        /\ linked' = FALSE /\ policy' = policy /\ queue' = queue
    BY DEF ConnectionEnds
  <1>2. ASSUME NEW d \in Made
        PROVE  calls'[d] \in CallRecords /\ CallOK(calls'[d])
               /\ calls'[d].stage = calls[d].stage /\ calls'[d].at = calls[d].at
    <2>1. calls[d] \in CallRecords /\ CallOK(calls[d])
      BY DEF DispatchInv, CallsOK, Made
    <2> QED BY <1>1, <2>1, WaitOver
  <1>3. calls' \in [Made -> CallRecords]
    BY <1>1, <1>2
  <1>4. CallsOK' /\ Made' = Made
    BY <1>1, <1>2, <1>3, AllCalls DEF DispatchInv
  <1>5. QueuesOK'
    BY <1>1, <1>2, <1>4, QueuesStay DEF DispatchInv
  <1> QED BY <1>4, <1>5 DEF DispatchInv

LEMMA CancelStep == ASSUME DispatchInv, CancelRemaining PROVE DispatchInv'
  <1>1. /\ calls' = [c \in Made |->
                       IF calls[c].stage \in {"queued", "handling", "nested", "replying"}
                       THEN [calls[c] EXCEPT !.stage = "done"] ELSE calls[c]]
        /\ queue' = [p \in Peers |-> << >>] /\ UNCHANGED <<policy, linked>>
    BY DEF CancelRemaining
  <1>2. ASSUME NEW d \in Made PROVE calls'[d] \in CallRecords /\ CallOK(calls'[d])
    <2>1. calls[d] \in CallRecords /\ CallOK(calls[d])
      BY DEF DispatchInv, CallsOK, Made
    <2>2. calls'[d] = [calls[d] EXCEPT !.stage = "done"] \/ calls'[d] = calls[d]
      BY <1>1
    <2> QED BY <2>1, <2>2, StageOK
  <1>3. calls' \in [Made -> CallRecords]
    BY <1>1, <1>2
  <1>4. linked' \in BOOLEAN /\ CallsOK
    BY <1>1 DEF DispatchInv, CallsOK
  <1>5. CallsOK'
    BY <1>1, <1>2, <1>3, <1>4, AllCalls
  <1>6. QueuesOK'
    BY <1>1 DEF QueuesOK
  <1> QED BY <1>5, <1>6 DEF DispatchInv

LEMMA SendStep ==
    ASSUME DispatchAssumption, DispatchInv, NEW p \in Peers, NEW r \in Load(policy).asks, Send(p, r)
    PROVE  DispatchInv'
  <1>1. r \in Requested /\ 0 \in Nat
    BY DEF Requested, DispatchInv, CallsOK
  <1>2. calls' = Append(calls, CallMade(p, 0, r)) /\ UNCHANGED <<policy, linked, queue>>
    BY DEF Send
  <1>3. CallsOK' /\ Made \subseteq Made' /\ \A d \in Made : calls'[d] = calls[d]
    BY <1>1, <1>2, NewCall, AnotherCall DEF DispatchInv
  <1>4. QueuesOK'
    BY <1>2, <1>3, QueuesStay DEF DispatchInv
  <1> QED BY <1>3, <1>4 DEF DispatchInv

(* What a call says of durability stays so through every exchange.         *)
THEOREM DispatchInvCorrect == ASSUME DispatchAssumption PROVE DispatchSpec => []DispatchInv
  <1>1. DispatchInit => DispatchInv
    <2> SUFFICES ASSUME DispatchInit PROVE DispatchInv
      OBVIOUS
    <2>1. calls = << >> /\ Made = {}
      BY DEF DispatchInit, Made
    <2> QED BY <2>1 DEF DispatchInit, DispatchInv, CallsOK, QueuesOK
  <1>2. DispatchInv /\ [DispatchNext]_dispatchVars => DispatchInv'
    <2> SUFFICES ASSUME DispatchInv, [DispatchNext]_dispatchVars PROVE DispatchInv'
      OBVIOUS
    <2>1. CASE UNCHANGED dispatchVars
      BY <2>1 DEF dispatchVars, DispatchInv, CallsOK, QueuesOK, Made
    <2>2. ASSUME NEW p \in Peers, NEW r \in Load(policy).asks, Send(p, r) PROVE DispatchInv'
      BY <2>2, SendStep
    <2>3. ASSUME NEW c \in Made, Receive(c) PROVE DispatchInv'
      BY <2>3, ReceiveStep
    <2>4. ASSUME NEW c \in Made, Reenter(c) PROVE DispatchInv'
      BY <2>4, ReenterStep
    <2>5. ASSUME NEW c \in Made,
                 HandlerResumes(c) \/ ProcessAsyncDelivery(c) \/ CallWritten(c) \/ ReplyLost(c)
          PROVE  DispatchInv'
      BY <2>5, StageStep
    <2>6. ASSUME NEW c \in Made, CallDeadline(c) PROVE DispatchInv'
      BY <2>6, DeadlineStep
    <2>7. ASSUME NEW c \in Made, NEW ok \in BOOLEAN, HandlerReturns(c, ok) PROVE DispatchInv'
      BY <2>7, ReturnsStep
    <2>8. ASSUME NEW p \in Peers, HandleExecute(p) PROVE DispatchInv'
      BY <2>8, ExecuteStep
    <2>9. CASE ConnectionEnds
      BY <2>9, EndStep
    <2>10. CASE CancelRemaining
      BY <2>10, CancelStep
    <2>11. ASSUME NEW c \in Made, ReplyWritten(c) PROVE DispatchInv'
      BY <2>11, WrittenStep
    <2> QED BY <2>1, <2>2, <2>3, <2>4, <2>5, <2>6, <2>7, <2>8, <2>9, <2>10, <2>11 DEF DispatchNext
  <1> QED BY <1>1, <1>2, PTL DEF DispatchSpec

(* A reply that tells of durability tells what is so (durability.py), for  *)
(* any load, slots and policies: what it calls applied was preserved by    *)
(* this call, and a must-have request that succeeded got its level.        *)
THEOREM DurabilityCorrect == ASSUME DispatchAssumption PROVE DispatchSpec => []DurabilityIsHonest
  <1>1. DispatchInv => DurabilityIsHonest
    BY DEF DispatchInv, CallsOK, CallOK, Says, DurabilityIsHonest
  <1> QED BY <1>1, DispatchInvCorrect, PTL
=============================================================================
