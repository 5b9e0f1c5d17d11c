----------------------------- MODULE Connection -----------------------------
(***************************************************************************)
(* A dialed connection after its handshake: the multiplexing of            *)
(* Connection.execute(), _reader_loop() and close() of peer/connection.py. *)
(*                                                                         *)
(* Each request registers a future, takes the write lock, writes its frame *)
(* and waits for the future.  One reader task completes the futures.  An   *)
(* action is what one task does between two suspensions of the event loop. *)
(***************************************************************************)
EXTENDS Naturals, Sequences, FiniteSets

CONSTANTS
    Requests,   \* request ids, one per call of execute()
    MaxInbound  \* bound: inbound EXECUTEs served at a time

ASSUME ConnectionAssumption == MaxInbound \in Nat

VARIABLES
    st,       \* request -> where its caller is
    fut,      \* request -> the state of its future
    pending,  \* _pending: the requests whose future is registered
    lock,     \* the write lock: its holder, then its waiters in order
    wire,     \* frames written that the remote has not answered
    read,     \* requests whose response was read
    reader,   \* the reader task
    closed,   \* _closed
    torn,     \* the transport failed or a frame was broken
    serving   \* inbound EXECUTEs being served

vars == <<st, fut, pending, lock, wire, read, reader, closed, torn, serving>>

Over == {"ok", "timeout", "failed", "cancelled"}

Init ==
    /\ st = [r \in Requests |-> "new"]
    /\ fut = [r \in Requests |-> "none"]
    /\ pending = {} /\ lock = <<>> /\ wire = {} /\ read = {}
    /\ reader = "running" /\ closed = FALSE /\ torn = FALSE /\ serving = 0

-----------------------------------------------------------------------------
Registered(r) == pending \cup {r}

(* execute() up to the write lock.  The reader task is not restarted. *)
Execute(r) ==
    /\ st[r] = "new"
    /\ st' = [st EXCEPT ![r] = "lock"]
    /\ fut' = [fut EXCEPT ![r] = "open"]
    /\ pending' = Registered(r)
    /\ lock' = Append(lock, r)
    /\ UNCHANGED <<wire, read, reader, closed, torn, serving>>

(* Mutant: the connection is not looked at under the lock. *)
RefusesMutant == FALSE

Refuses == closed

(* The except clauses of execute(). *)
Forgotten(r) == pending \ {r}

Holds(r) == lock # <<>> /\ r = Head(lock)

(* Mutant: the lock is not released. *)
ReleasedMutant == lock

(* The end of the `async with' on the write lock. *)
Released == Tail(lock)

(* The lock is held: refuse on a closed connection, else write the frame   *)
(* and wait for the transport to take it.                                  *)
Writes(r) ==
    /\ st[r] = "lock" /\ Holds(r)
    /\ IF Refuses
       THEN /\ st' = [st EXCEPT ![r] = "failed"]
            /\ pending' = Forgotten(r)
            /\ lock' = Released
            /\ UNCHANGED wire
       ELSE /\ st' = [st EXCEPT ![r] = "send"]
            /\ wire' = wire \cup {r}
            /\ UNCHANGED <<pending, lock>>
    /\ UNCHANGED <<fut, read, reader, closed, torn, serving>>

(* drain() returns: the lock is released. *)
Drained(r) ==
    /\ st[r] = "send"
    /\ st' = [st EXCEPT ![r] = "wait"]
    /\ lock' = Released
    /\ UNCHANGED <<fut, pending, wire, read, reader, closed, torn, serving>>

(* drain() raises: the connection was lost. *)
WriteFails(r) ==
    /\ st[r] = "send" /\ (torn \/ closed)
    /\ st' = [st EXCEPT ![r] = "failed"]
    /\ pending' = Forgotten(r)
    /\ lock' = Released
    /\ UNCHANGED <<fut, wire, read, reader, closed, torn, serving>>

(* The deadline of wait_for() cancels the future; the caller has not run   *)
(* yet.                                                                    *)
Deadline(r) ==
    /\ st[r] = "wait" /\ fut[r] = "open"
    /\ fut' = [fut EXCEPT ![r] = "cancelled"]
    /\ UNCHANGED <<st, pending, lock, wire, read, reader, closed, torn, serving>>

(* The caller resumes: its result, or the exception and the clean-up. *)
Resumes(r) ==
    /\ st[r] = "wait" /\ fut[r] # "open"
    /\ st' = [st EXCEPT ![r] = CASE fut[r] = "done" -> "ok"
                                 [] fut[r] = "cancelled" -> "timeout"
                                 [] OTHER -> "failed"]
    /\ pending' = IF fut[r] = "done" THEN pending ELSE Forgotten(r)
    /\ UNCHANGED <<fut, lock, wire, read, reader, closed, torn, serving>>

(* Lock.acquire() or the `async with' gives the place of r in the queue up. *)
Without(s, r) ==
    IF \E i \in DOMAIN s : s[i] = r
    THEN LET i == CHOOSE k \in DOMAIN s : s[k] = r
         IN [j \in 1..(Len(s) - 1) |-> IF j < i THEN s[j] ELSE s[j + 1]]
    ELSE s

(* The caller is cancelled from outside, as by the timeout of a ping. *)
Cancelled(r) ==
    /\ st[r] \in {"lock", "send", "wait"}
    /\ st' = [st EXCEPT ![r] = "cancelled"]
    /\ fut' = [fut EXCEPT ![r] = IF @ = "open" THEN "cancelled" ELSE @]
    /\ pending' = Forgotten(r)
    /\ lock' = Without(lock, r)
    /\ UNCHANGED <<wire, read, reader, closed, torn, serving>>

-----------------------------------------------------------------------------
(* A response in hand: pop its future, and complete it unless it is done.  *)
(* A response nobody waits for is dropped.                                 *)
Completed(r) ==
    /\ pending' = pending \ {r}
    /\ fut' = IF r \in pending /\ fut[r] = "open"
              THEN [fut EXCEPT ![r] = "done"] ELSE fut
    /\ UNCHANGED <<reader, closed>>

(* The finally block of _reader_loop(): every registered future fails. *)
Fail(end) ==
    /\ reader' = end
    /\ fut' = [r \in Requests |->
           IF r \in pending /\ fut[r] = "open" THEN "error" ELSE fut[r]]
    /\ pending' = {}

(* Mutant: set_result() without a look at done() raises and ends the loop. *)
DemuxMutant(r) ==
    IF r \in pending /\ fut[r] # "open"
    THEN Fail("error") /\ UNCHANGED closed
    ELSE Completed(r)

Demux(r) == Completed(r)

ReadsResponse(r) ==
    /\ reader = "running" /\ r \in wire
    /\ wire' = wire \ {r} /\ read' = read \cup {r}
    /\ Demux(r)
    /\ UNCHANGED <<st, lock, torn, serving>>

(* An inbound EXECUTE is served by a task of its own. *)
ReadsExecute ==
    /\ reader = "running" /\ serving < MaxInbound
    /\ serving' = serving + 1
    /\ UNCHANGED <<st, fut, pending, lock, wire, read, reader, closed, torn>>

Served ==
    /\ serving > 0
    /\ serving' = serving - 1
    /\ UNCHANGED <<st, fut, pending, lock, wire, read, reader, closed, torn>>

(* The stream ends between two frames: the connection is marked closed. *)
EndOfStream ==
    /\ reader = "running"
    /\ Fail("eof")
    /\ closed' = TRUE /\ torn' = TRUE
    /\ UNCHANGED <<st, lock, wire, read, serving>>

(* recv_envelope() raises anything else: a frame cut short by the end of   *)
(* the stream, one that does not decode, a reset.                          *)
ReadFails ==
    /\ reader = "running"
    /\ Fail("error")
    /\ torn' = TRUE
    /\ UNCHANGED <<st, lock, wire, read, closed, serving>>

(* close(): the reader is cancelled, it has not run yet. *)
Close ==
    /\ closed' = TRUE
    /\ reader' = IF reader = "running" THEN "cancelling" ELSE reader
    /\ serving' = 0
    /\ UNCHANGED <<st, fut, pending, lock, wire, read, torn>>

ReaderCancelled ==
    /\ reader = "cancelling"
    /\ Fail("cancelled")
    /\ UNCHANGED <<st, lock, wire, read, closed, torn, serving>>

-----------------------------------------------------------------------------
CallerStep(r) == Writes(r) \/ Deadline(r) \/ Resumes(r)

Next ==
    \/ \E r \in Requests : \/ Execute(r) \/ CallerStep(r) \/ Drained(r)
                           \/ WriteFails(r) \/ Cancelled(r) \/ ReadsResponse(r)
    \/ ReadsExecute \/ Served \/ EndOfStream \/ ReadFails \/ Close \/ ReaderCancelled

Spec == Init /\ [][Next]_vars

(* The tasks of this peer run, and deadlines expire.  That a write ends is *)
(* up to the remote: send() and drain() are outside wait_for().            *)
Fairness ==
    /\ \A r \in Requests : WF_vars(CallerStep(r))
    /\ WF_vars(ReaderCancelled)

FairSpec == Spec /\ Fairness

-----------------------------------------------------------------------------
(* Where the call of r is, as its caller sees it. *)
CallOf(r) ==
    IF st[r] = "new" \/ st[r] \in Over THEN st[r]
    ELSE CASE fut[r] = "open" -> "open"
           [] fut[r] = "done" -> "answered"
           [] fut[r] = "cancelled" -> "expired"
           [] OTHER -> "lost"

A == INSTANCE Calls WITH
        call <- [r \in Requests |-> CallOf(r)],
        asked <- wire \cup read, closed <- closed, broken <- torn

(* The multiplexed connection keeps what module Calls promises: whatever   *)
(* the order in which callers, reader task and deadlines run, each call    *)
(* has one outcome of its own.                                             *)
KeepsPromise == A!Spec

(* Every variable has its type. *)
TypeOK ==
    /\ st \in [Requests -> {"new", "lock", "send", "wait"} \cup Over]
    /\ fut \in [Requests -> {"none", "open", "done", "cancelled", "error"}]
    /\ pending \subseteq Requests /\ wire \subseteq Requests /\ read \subseteq Requests
    /\ lock \in Seq(Requests)
    /\ reader \in {"running", "cancelling", "eof", "error", "cancelled"}
    /\ closed \in BOOLEAN /\ torn \in BOOLEAN /\ serving \in 0..MaxInbound

(* "frame bytes don't interleave under concurrent writers": only the       *)
(* holder of the lock writes, whoever is cancelled while it waits.         *)
OneSender == \A r \in Requests : st[r] = "send" => Holds(r)

(* "pop the pending entry so a late-arriving response is logged as         *)
(* unmatched": no future outlives its call, whichever way the call ends.   *)
NoStrayFutures == \A r \in pending : st[r] \in {"lock", "send", "wait"}

(* "register the pending Future BEFORE sending": a response that was read  *)
(* is never missed by the call it answers.                                 *)
NoMissedResponse ==
    \A r \in read : st[r] \in {"send", "wait"} => fut[r] # "open"

(* A response that comes as its caller times out does not take the other   *)
(* calls down with it: the reader ends with an error only if the transport *)
(* or a frame is broken.                                                   *)
TimeoutIsLocal == reader = "error" => torn

(* "Mark it closed so the next execute() fails fast at the write-lock      *)
(* check instead of waiting out its full request timeout on a Future       *)
(* nothing will ever complete": after an end of stream between frames, and *)
(* after close(), no call waits on a future that nothing will complete.    *)
FailsFast ==
    reader \in {"eof", "cancelled"} =>
        \A r \in Requests : st[r] = "wait" => fut[r] # "open"

(* The same comment, of "EOF mid-frame or between frames": the reader is   *)
(* gone, however it ended.                                                 *)
FailsFastAlways ==
    reader \in {"eof", "error", "cancelled"} =>
        \A r \in Requests : st[r] = "wait" => fut[r] # "open"

(* Every call ends, whatever is answered, lost, cancelled or closed, if no *)
(* write goes on for ever: that one call's write is the only thing that    *)
(* can keep a call waiting, its own or one queued behind it.               *)
EveryCallEnds ==
    (\A r \in Requests : []<>(st[r] # "send"))
        => []<>(\A r \in Requests : st[r] \in Over \cup {"new"})
=============================================================================
