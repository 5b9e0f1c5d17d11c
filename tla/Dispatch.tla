------------------------------ MODULE Dispatch ------------------------------
(***************************************************************************)
(* Inbound dispatch (entity_core/peer/peer.py): two peers on one           *)
(* connection, each serving the other's EXECUTE requests with a bounded    *)
(* number of handler tasks (_run_handler_task), where a handler may call   *)
(* back over the same connection (ReentryChannel) and holds its slot while *)
(* it waits, as it does while it writes its answer; and the durability     *)
(* contract of a request (protocol/durability.py), settled before the      *)
(* handler runs.                                                           *)
(*                                                                         *)
(* Every frame, a request or an answer, is written whole to a transport    *)
(* that takes it when it will: no deadline runs meanwhile.                 *)
(*                                                                         *)
(* Authorization is an outcome here: a request is refused or not.  What    *)
(* the checks decide is the subject of module Capability.                  *)
(***************************************************************************)
EXTENDS Integers, Sequences, FiniteSets

CONSTANTS Peers,      \* the two ends of the connection
          Slots,      \* the inbound semaphore's size
          MaxCalls,   \* the number of calls made
          Load(_),    \* under a policy, [asks, sends, calls]: what programs
                      \* ask, as [id, want, deliver], and how many calls
                      \* programs, and programs and handlers together, make
          Plain,      \* the request a handler makes of the other side
          Policies,   \* the durability policies a peer may have
          Nothing

(* A connection has two ends, a peer has one of the levels, and a request  *)
(* names a level, known or not, or none.                                   *)
DispatchAssumption ==
    /\ Cardinality(Peers) = 2
    /\ \A p \in Policies : /\ p.most \in {"none", "stored", "replicated"}
                           /\ p.replicates \in BOOLEAN
    /\ \A p \in Policies : \A r \in Load(p).asks \cup {Plain} :
          r.deliver \in BOOLEAN /\ (r.want # Nothing => r.want.must \in BOOLEAN)

VARIABLES policy,     \* the durability policy of both peers
          linked,     \* the connection is up
          calls,      \* every call made, in the order they were made
          queue,      \* at each peer, the handler tasks waiting for a slot
          preserved   \* at each peer, the request ids under system/inbox/

dispatchVars == <<policy, linked, calls, queue, preserved>>

Other(p) == CHOOSE q \in Peers : q # p
Made == 1 .. Len(calls)

DispatchInit ==
    /\ policy \in Policies
    /\ linked = TRUE
    /\ calls = <<>>
    /\ queue = [p \in Peers |-> <<>>]
    /\ preserved = [p \in Peers |-> {}]

---------------------------------------------------------------------------
(* The durability contract *)

Levels == <<"none", "stored", "replicated">>
Rank(level) == IF level = "none" THEN 0 ELSE IF level = "stored" THEN 1
               ELSE IF level = "replicated" THEN 2 ELSE 3
Known(level) == \E i \in 1 .. 3 : Levels[i] = level

Verdict(refuse, applied, committed) ==
    [refuse |-> refuse, applied |-> applied, committed |-> committed]

(* What the peer can give now, what it refuses, what it only promises. *)
Reconcile(want) ==
    IF ~Known(want.level) THEN Verdict(want.must, "none", "none")
    ELSE IF want.level = "replicated" /\ policy.replicates
    THEN Verdict(FALSE, policy.most, "replicated")
    ELSE IF want.level # "replicated" /\ Rank(policy.most) >= Rank(want.level)
    THEN Verdict(FALSE, want.level, "none")
    ELSE IF want.must THEN Verdict(TRUE, "none", "none")
    ELSE Verdict(FALSE, policy.most, "none")

(* With an asynchronous delivery nothing is in place when the 202 is sent: *)
(* a level that could be met becomes a promise.                            *)
ReconcileForDispatch(r) ==
    IF r.want = Nothing THEN Verdict(FALSE, "none", "none")
    ELSE LET base == Reconcile(r.want)
             met == base.committed # "none" \/ Rank(base.applied) >= Rank(r.want.level)
         IN  IF ~r.deliver \/ base.refuse THEN base
             ELSE Verdict(FALSE, "none", IF met THEN r.want.level ELSE "none")

(* An operation that failed reports nothing as preserved. *)
HonestMutant(v, ok) == v
Honest(v, ok) == IF ok THEN v ELSE Verdict(v.refuse, "none", v.committed)

---------------------------------------------------------------------------
(* Calls *)

CallMade(from, parent, r) ==
    [from |-> from, at |-> Other(from), parent |-> parent, request |-> r,
     stage |-> "sending",   \* sending, sent, rejecting, queued, handling,
                            \* nested, replying, background, done
     waiting |-> TRUE,      \* the caller waits for the answer
     ran |-> FALSE,         \* the handler was started
     verdict |-> Nothing,
     kept |-> FALSE,        \* preserved before it ran, or
     lost |-> FALSE,        \* to be preserved and not
     reply |-> Nothing]

Holding(p) ==
    {c \in Made : calls[c].at = p /\ calls[c].stage \in {"handling", "nested", "replying"}}

(* The reader of p reads on unless it is writing an answer itself. *)
Reads(p) == ~\E c \in Made : calls[c].at = p /\ calls[c].stage = "rejecting"

(* The task of c is about to write its answer, its slot in hand.  The      *)
(* answer is kept where it says something of durability or of a delivery.  *)
Replied(c, status, v) ==
    LET r == calls[c].request
    IN  [calls[c] EXCEPT !.stage = "replying", !.verdict = v,
             !.reply = IF linked /\ (r.want # Nothing \/ r.deliver) THEN status ELSE Nothing]

(* A program at one end calls the other. *)
Send(p, r) ==
    /\ linked /\ Len(calls) < Load(policy).calls
    /\ Cardinality({c \in Made : calls[c].parent = 0}) < Load(policy).sends
    /\ calls' = Append(calls, CallMade(p, 0, r))
    /\ UNCHANGED <<policy, linked, queue, preserved>>

(* The transport takes the request. *)
CallWritten(c) ==
    /\ linked /\ calls[c].stage = "sending"
    /\ calls' = [calls EXCEPT ![c].stage = "sent"]
    /\ UNCHANGED <<policy, linked, queue, preserved>>

(* The reader loop spawns a handler task per request and reads on; a frame *)
(* it cannot process it answers with an error itself.                      *)
Receive(c) ==
    /\ linked /\ calls[c].stage = "sent" /\ Reads(calls[c].at)
    /\ \/ /\ calls' = [calls EXCEPT ![c].stage = "queued"]
          /\ queue' = [queue EXCEPT ![calls[c].at] = Append(@, c)]
       \/ /\ calls' = [calls EXCEPT ![c].stage = "rejecting"]
          /\ UNCHANGED queue
    /\ UNCHANGED <<policy, linked, preserved>>

(* What a task may answer before the handler is reached: the request is    *)
(* not for this peer or its bounds are used up; its author or capability   *)
(* does not verify; the capability does not cover the handler or the       *)
(* resource; the delivery token or the handler's own grant is missing.     *)
Misaddressed(c) == Replied(c, "invalid", Nothing)
Unverified(c) == Replied(c, "unverified", Nothing)
OutOfScope(c) == Replied(c, "denied", Nothing)
Ungranted(c) == Replied(c, "denied", Nothing)

(* A request to be preserved whose id is preserved already is refused; one *)
(* whose must-have level cannot be given is refused; one with a delivery   *)
(* is answered 202 and run in the background; the others are preserved, if *)
(* they are to be, and run in this task.  When the preserving write fails  *)
(* the claim is dropped and the handler runs all the same.                 *)
Keeps(r, v) == ~r.deliver /\ ~v.refuse /\ v.applied # "none"
Duplicate(c, v) == Keeps(calls[c].request, v) /\ calls[c].request.id \in preserved[calls[c].at]
AcceptsForLater(c, v) == Replied(c, "accepted", v)
Runs(c, v, stored) ==
    LET keeps == Keeps(calls[c].request, v)
    IN  [calls[c] EXCEPT !.stage = "handling", !.ran = TRUE,
                         !.verdict = IF keeps /\ ~stored THEN Verdict(FALSE, "none", "none") ELSE v,
                         !.kept = keeps /\ stored, !.lost = keeps /\ ~stored]

(* The task gets its slot and runs to its first await.  An exception       *)
(* outside the handler ends it without an answer.                          *)
HandleExecute(p) ==
    /\ queue[p] # <<>> /\ Cardinality(Holding(p)) < Slots
    /\ queue' = [queue EXCEPT ![p] = Tail(@)]
    /\ LET c == Head(queue[p])
           r == calls[c].request
           v == ReconcileForDispatch(r)
       IN  \/ /\ \/ calls' = [calls EXCEPT ![c] = Misaddressed(c)]
                 \/ calls' = [calls EXCEPT ![c] = Unverified(c)]
                 \/ calls' = [calls EXCEPT ![c] = OutOfScope(c)]
                 \/ calls' = [calls EXCEPT ![c] = Ungranted(c)]
                 \/ calls' = [calls EXCEPT ![c].stage = "done"]
              /\ UNCHANGED preserved
           \/ /\ Duplicate(c, v)
              /\ calls' = [calls EXCEPT ![c] = Replied(c, "duplicate", Nothing)]
              /\ UNCHANGED preserved
           \/ /\ v.refuse
              /\ calls' = [calls EXCEPT ![c] = Replied(c, "precondition", v)]
              /\ UNCHANGED preserved
           \/ /\ ~v.refuse /\ r.deliver
              /\ calls' = [calls EXCEPT ![c] = AcceptsForLater(c, v)]
              /\ UNCHANGED preserved
           \/ /\ ~v.refuse /\ ~r.deliver /\ ~Duplicate(c, v)
              /\ \E stored \in BOOLEAN :
                    /\ stored \/ Keeps(r, v)
                    /\ calls' = [calls EXCEPT ![c] = Runs(c, v, stored)]
                    /\ preserved' = [preserved EXCEPT ![p] =
                                        IF stored /\ Keeps(r, v) THEN @ \cup {r.id} ELSE @]
    /\ UNCHANGED <<policy, linked>>

(* The handler ends, well or not, and its task goes on to the answer. *)
HandlerReturns(c, ok) ==
    /\ calls[c].stage = "handling"
    /\ calls' = [calls EXCEPT ![c] = Replied(c, IF ok THEN "ok" ELSE "failed", Honest(@.verdict, ok))]
    /\ UNCHANGED <<policy, linked, queue, preserved>>

(* The answer is written: the slot is free, and a request answered 202 has *)
(* a task that runs it.  The reader at the other end hands the answer to   *)
(* the caller, if the caller still waits; a late one is dropped.           *)
ReplyWritten(c) ==
    /\ linked /\ calls[c].stage \in {"replying", "rejecting"} /\ Reads(calls[c].from)
    /\ LET later == calls[c].reply = "accepted"
       IN  calls' = [calls EXCEPT ![c].stage = IF later THEN "background" ELSE "done",
                                  ![c].ran = @ \/ later, ![c].waiting = FALSE]
    /\ UNCHANGED <<policy, linked, queue, preserved>>

(* The connection is down: the write fails. *)
ReplyLost(c) ==
    /\ ~linked /\ calls[c].stage \in {"replying", "rejecting"}
    /\ calls' = [calls EXCEPT ![c].stage = "done"]
    /\ UNCHANGED <<policy, linked, queue, preserved>>

(* The handler calls the other side over the connection it serves, keeping *)
(* its slot.  On a connection that is down the write fails or is lost.     *)
Reenter(c) ==
    /\ calls[c].stage = "handling" /\ Len(calls) < Load(policy).calls
    /\ calls' = Append([calls EXCEPT ![c].stage = "nested"], CallMade(calls[c].at, c, Plain))
    /\ UNCHANGED <<policy, linked, queue, preserved>>

(* Its future is resolved, failed or given up: the handler goes on. *)
HandlerResumes(c) ==
    /\ calls[c].stage = "nested"
    /\ ~\E d \in Made : calls[d].parent = c /\ calls[d].waiting
    /\ calls' = [calls EXCEPT ![c].stage = "handling"]
    /\ UNCHANGED <<policy, linked, queue, preserved>>

(* A caller that has written its request stops waiting when its deadline   *)
(* passes, whatever holds the answer up; the write to a connection that is *)
(* down fails.                                                             *)
GivesUpMutant(c) ==
    calls[c].waiting /\ (calls[c].stage # "sending" \/ ~linked) /\ calls[c].parent = 0
GivesUp(c) == calls[c].waiting /\ (calls[c].stage # "sending" \/ ~linked)

CallDeadline(c) ==
    /\ GivesUp(c)
    /\ calls' = [calls EXCEPT ![c].waiting = FALSE]
    /\ UNCHANGED <<policy, linked, queue, preserved>>

(* The result of a request answered 202 goes to the inbox it names; one    *)
(* whose handler raised goes nowhere.                                      *)
ProcessAsyncDelivery(c) ==
    /\ calls[c].stage = "background"
    /\ calls' = [calls EXCEPT ![c].stage = "done"]
    /\ UNCHANGED <<policy, linked, queue, preserved>>

(* The connection ends: every pending answer is failed at both ends.       *)
(* Handlers run on; what they answer is lost.                              *)
ConnectionEnds ==
    /\ linked
    /\ linked' = FALSE
    /\ calls' = [c \in Made |-> [calls[c] EXCEPT !.waiting = FALSE]]
    /\ UNCHANGED <<policy, queue, preserved>>

(* Five seconds after the end the handlers still running are cancelled, in *)
(* the queue, in a handler or at the answer.                               *)
CancelRemaining ==
    /\ ~linked
    /\ calls' = [c \in Made |->
                    IF calls[c].stage \in {"queued", "handling", "nested", "replying"}
                    THEN [calls[c] EXCEPT !.stage = "done"] ELSE calls[c]]
    /\ queue' = [p \in Peers |-> <<>>]
    /\ UNCHANGED <<policy, linked, preserved>>

DispatchNext ==
    \/ \E p \in Peers, r \in Load(policy).asks : Send(p, r)
    \/ \E c \in Made :
          \/ CallWritten(c) \/ Receive(c) \/ Reenter(c) \/ HandlerResumes(c)
          \/ CallDeadline(c) \/ ReplyWritten(c) \/ ReplyLost(c)
          \/ \E ok \in BOOLEAN : HandlerReturns(c, ok)
          \/ ProcessAsyncDelivery(c)
    \/ \E p \in Peers : HandleExecute(p)
    \/ ConnectionEnds
    \/ CancelRemaining

(* The event loop runs every ready task; deadlines are timers; a handler   *)
(* that is not waiting ends.  That a write ends is up to the other side.   *)
Proceeds(c) ==
    c \in Made /\ (\/ Receive(c) \/ HandlerResumes(c) \/ CallDeadline(c) \/ ReplyLost(c)
                    \/ \E ok \in BOOLEAN : HandlerReturns(c, ok)
                    \/ ProcessAsyncDelivery(c))

DispatchFairness ==
    /\ \A p \in Peers : WF_dispatchVars(HandleExecute(p))
    /\ \A c \in 1 .. MaxCalls : WF_dispatchVars(Proceeds(c))
    /\ WF_dispatchVars(CancelRemaining)

DispatchSpec == DispatchInit /\ [][DispatchNext]_dispatchVars

DispatchFairSpec == DispatchSpec /\ DispatchFairness

---------------------------------------------------------------------------
(* What a reply says of durability is so: a level reported as applied was  *)
(* preserved by this very call before it answered, a refusal means the     *)
(* handler did not run, and a must-have request that succeeded got its     *)
(* level, now or as a promise, unless the preserving write itself failed   *)
(* (durability.py "applied MUST report only what is physically in place at *)
(* response time", and its reply rows).                                    *)
DurabilityIsHonest ==
    \A c \in Made :
        LET k == calls[c]
        IN  k.reply # Nothing /\ k.verdict # Nothing =>
              /\ (k.verdict.applied # "none") => (k.kept /\ k.reply = "ok")
              /\ (k.reply = "precondition") => ~k.ran
              /\ (k.reply \in {"ok", "accepted"} /\ k.request.want # Nothing) =>
                    (k.request.want.must /\ ~k.lost =>
                        \/ Rank(k.verdict.applied) >= Rank(k.request.want.level)
                        \/ k.verdict.committed = k.request.want.level)

(* The transport of a connection that is up takes every frame at last. *)
Writing(c) == c \in Made /\ linked /\ calls[c].stage \in {"sending", "replying", "rejecting"}
WritesEnd == \A c \in 1 .. MaxCalls : []<>~Writing(c)

(* No pattern of handlers calling each other's peer keeps a slot for ever: *)
(* whatever the load, all slots are free again, although two peers whose   *)
(* slots are all held by handlers waiting for each other make no progress  *)
(* until a deadline passes (REENTRY_REQUEST_TIMEOUT_SECONDS).  That needs  *)
(* the transport to take what is written: a slot is held over the write of *)
(* the answer and of a nested request, which no deadline bounds.           *)
SlotsComeBack == WritesEnd => []<>(\A p \in Peers : queue[p] = <<>> /\ Holding(p) = {})
=============================================================================
