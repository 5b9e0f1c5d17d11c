----------------------------- MODULE RemotePool -----------------------------
(***************************************************************************)
(* Outbound connections and the liveness of a remote peer:                 *)
(* RemoteConnectionPool of peer/remote.py, the status writes of            *)
(* peer/liveness.py, the dispatch and relay callers of peer/peer.py, and   *)
(* the release and close operations of the network handler.                *)
(*                                                                         *)
(* One remote peer is modelled: the pool keeps a binding, a keepalive loop *)
(* and an escalation per peer.  An action is what one task does between    *)
(* two suspensions of the event loop.  Time is counted in ticks; a tick    *)
(* passes only when no task is due.                                        *)
(***************************************************************************)
EXTENDS Integers, FiniteSets

CONSTANTS
    Dispatchers,  \* callers of _remote_execute()
    Relays,       \* callers of _relay_deliver_inner()
    None,
    Interval,     \* KeepaliveConfig.interval_ms, in ticks
    Grace,        \* KeepaliveConfig.timeout_ms, in ticks
    MaxMissed,    \* KeepaliveConfig.max_missed
    Happens,      \* what may happen besides calls: "inbound", "release",
                  \* "close", "stop"
    MaxDials      \* bound: successful dials in one behaviour

Callers == Dispatchers \cup Relays

(* What the constants are assumed to be. *)
PoolAssumption ==
    /\ Dispatchers \cap Relays = {}
    /\ Interval \in Nat \ {0} /\ Grace \in Nat \ {0} /\ MaxMissed \in Nat \ {0}
    /\ MaxDials \in Nat
    /\ None \notin [ep : Nat, timer : Nat]
    /\ None \notin [ep : Nat, at : {"sleep", "ping"}, timer : Nat, missed : Nat]

VARIABLES
    dials,    \* endpoints made so far; an endpoint is named by its number
    bound,    \* _connections: the endpoint bound to the peer, or 0
    up,       \* the endpoints whose remote answers
    evicted,  \* the endpoints taken out of the pool
    call,     \* caller -> [at, ep]: where it is, on which endpoint
    status,   \* system/peer/status: [is, reason]
    conn,     \* system/connection: who wrote it active, or "closed"
    ka,       \* the keepalive loop: [ep, at, timer, missed], or None
    esc,      \* the pending escalation: [ep, timer], or None
    quiet,    \* ticks since _last_activity, at most Interval
    silent,   \* ticks since the bound endpoint stopped answering
    stop      \* close_all(): "no", "waiting" or "done"

poolVars == <<dials, bound, up, evicted, call, status, conn, ka, esc, quiet, silent, stop>>

Idle == [at |-> "idle", ep |-> 0]
Using(e) == [at |-> "sent", ep |-> e]

Locked == \E c \in Callers : call[c].at = "dial"

PoolInit ==
    /\ dials = 0 /\ bound = 0 /\ up = {} /\ evicted = {}
    /\ call = [c \in Callers |-> Idle]
    /\ status = [is |-> "none", reason |-> None]
    /\ conn = "none"
    /\ ka = None /\ esc = None
    /\ quiet = Interval /\ silent = 0
    /\ stop = "no"

-----------------------------------------------------------------------------
(* get_connection() from the point where the lock is held: the binding, or *)
(* a dial.                                                                 *)
Reach(c) ==
    call' = [call EXCEPT ![c] =
        IF bound # 0 THEN Using(bound) ELSE [at |-> "dial", ep |-> 0]]

(* A call begins: the binding if there is one, else the lock.  None begins *)
(* on a peer that has stopped.                                             *)
Call(c) ==
    /\ call[c] = Idle /\ stop # "done"
    /\ IF bound # 0 THEN call' = [call EXCEPT ![c] = Using(bound)]
       ELSE IF Locked THEN call' = [call EXCEPT ![c] = [at |-> "wait", ep |-> 0]]
       ELSE Reach(c)
    /\ UNCHANGED <<dials, bound, up, evicted, status, conn, ka, esc, quiet, silent, stop>>

Acquire(c) ==
    /\ call[c].at = "wait" /\ ~Locked
    /\ Reach(c)
    /\ UNCHANGED <<dials, bound, up, evicted, status, conn, ka, esc, quiet, silent, stop>>

(* The loop _start_keepalive() creates; one that runs already is cancelled. *)
Loop(e) == [ep |-> e, at |-> "sleep", timer |-> Interval, missed |-> 0]

(* A dial succeeds: bind, write `connected', start the keepalive loop, and *)
(* send on the new endpoint.                                               *)
DialSucceeds(c) ==
    /\ call[c].at = "dial" /\ dials < MaxDials
    /\ dials' = dials + 1
    /\ bound' = dials' /\ up' = up \cup {dials'}
    /\ status' = [is |-> "connected", reason |-> None]
    /\ conn' = "dialer"
    /\ ka' = Loop(dials') /\ quiet' = 0 /\ silent' = 0
    /\ call' = [call EXCEPT ![c] = Using(dials')]
    /\ UNCHANGED <<evicted, esc, stop>>

(* No profile connects: the call answers 502. *)
DialFails(c) ==
    /\ call[c].at = "dial"
    /\ call' = [call EXCEPT ![c] = Idle]
    /\ UNCHANGED <<dials, bound, up, evicted, status, conn, ka, esc, quiet, silent, stop>>

(* The response arrives; a dispatch calls note_activity(). *)
Answered(c) ==
    /\ call[c].at = "sent" /\ call[c].ep \in up
    /\ call' = [call EXCEPT ![c] = Idle]
    /\ quiet' = IF c \in Dispatchers THEN 0 ELSE quiet
    /\ UNCHANGED <<dials, bound, up, evicted, status, conn, ka, esc, silent, stop>>

-----------------------------------------------------------------------------
(* The binding goes, and close() of its endpoint is scheduled. *)
Unbind ==
    /\ bound' = 0 /\ silent' = 0
    /\ evicted' = evicted \cup ({bound} \ {0})

(* remove_connection(): nothing if nothing is bound; else the binding, its *)
(* keepalive loop and its _last_activity go.                               *)
Evict ==
    /\ Unbind
    /\ ka' = IF bound = 0 THEN ka ELSE None
    /\ quiet' = IF bound = 0 THEN quiet ELSE Interval

(* _write_demotion() *)
Demote(is, reason) ==
    /\ status' = [is |-> is, reason |-> reason]
    /\ conn' = IF conn = "none" THEN "none" ELSE "closed"

(* Mutant: an escalation is cancelled with its connection. *)
ArmedMutant(e) == None

(* _schedule_escalation(): one at a time. *)
Armed(e) == IF esc = None THEN [ep |-> e, timer |-> Grace] ELSE esc

(* Mutant: any failure evicts, whatever is bound now. *)
OwnsMutant(c) == bound # 0

(* The no-clobber guard: the endpoint that failed is still the one bound. *)
Owns(c) == bound # 0 /\ call[c].ep = bound

(* A call fails: an error, a closed connection or the request timeout.     *)
(* demote_on_transport_error() for a dispatch; a relay only evicts.        *)
CallFails(c) ==
    /\ call[c].at = "sent"
    /\ call' = [call EXCEPT ![c] = Idle]
    /\ IF Owns(c)
       THEN /\ Evict
            /\ IF c \in Dispatchers
               THEN Demote("suspect", "transport-error") /\ esc' = Armed(call[c].ep)
               ELSE UNCHANGED <<status, conn, esc>>
       ELSE UNCHANGED <<bound, evicted, status, conn, ka, esc, quiet, silent>>
    /\ UNCHANGED <<dials, up, stop>>

(* The remote of the bound endpoint stops answering. *)
Breaks ==
    /\ bound \in up
    /\ up' = up \ {bound}
    /\ UNCHANGED <<dials, bound, evicted, call, status, conn, ka, esc, quiet, silent, stop>>

(* The scheduled close() of an evicted endpoint runs. *)
Closes(e) ==
    /\ e \in up \ {bound}
    /\ up' = up \ {e}
    /\ UNCHANGED <<dials, bound, evicted, call, status, conn, ka, esc, quiet, silent, stop>>

-----------------------------------------------------------------------------
(* Adaptive suppression: something was exchanged in the last interval. *)
Active == quiet < Interval

(* _keepalive_loop() wakes: it ends if its endpoint is not the one bound,  *)
(* sleeps on if there was traffic, else pings.                             *)
Wakes ==
    /\ ka # None /\ ka.at = "sleep" /\ ka.timer = 0
    /\ IF bound # ka.ep THEN ka' = None /\ esc' = Armed(ka.ep)
       ELSE /\ ka' = IF Active THEN Loop(ka.ep)
                     ELSE [ka EXCEPT !.at = "ping", !.timer = Grace]
            /\ UNCHANGED esc
    /\ UNCHANGED <<dials, bound, up, evicted, call, status, conn, quiet, silent, stop>>

Pong ==
    /\ ka # None /\ ka.at = "ping" /\ ka.ep \in up
    /\ ka' = Loop(ka.ep)
    /\ quiet' = 0
    /\ UNCHANGED <<dials, bound, up, evicted, call, status, conn, esc, silent, stop>>

Tolerated == ka.missed + 1 < MaxMissed

(* The ping fails or times out: after MaxMissed in a row, `suspect' and    *)
(* the escalation, and the loop ends.                                      *)
PingMissed ==
    /\ ka # None /\ ka.at = "ping"
    /\ ka.ep \notin up \/ ka.timer = 0
    /\ IF Tolerated
       THEN /\ ka' = [Loop(ka.ep) EXCEPT !.missed = ka.missed + 1]
            /\ UNCHANGED <<status, conn, esc>>
       ELSE /\ ka' = None
            /\ Demote("suspect", "keepalive-miss")
            /\ esc' = Armed(ka.ep)
    /\ UNCHANGED <<dials, bound, up, evicted, call, quiet, silent, stop>>

(* What _escalate_after_grace() looks at once the grace period is over:    *)
(* no other endpoint is bound, and the peer is still suspect.              *)
Owed == bound \in {0, esc.ep} /\ status.is = "suspect"

Escalates ==
    /\ esc # None /\ esc.timer = 0
    /\ esc' = None
    /\ IF Owed
       THEN /\ Demote("disconnected", status.reason)
            /\ Evict
       ELSE UNCHANGED <<status, conn, bound, silent, evicted, ka, quiet>>
    /\ UNCHANGED <<dials, up, call, stop>>

-----------------------------------------------------------------------------
(* The remote dials this peer: the responder writes `connected' too. *)
InboundConnects ==
    /\ "inbound" \in Happens /\ stop = "no"
    /\ status' = [is |-> "connected", reason |-> None]
    /\ conn' = "responder"
    /\ UNCHANGED <<dials, bound, up, evicted, call, ka, esc, quiet, silent, stop>>

(* The accepted connection ends: its own system/connection is closed. *)
InboundEnds ==
    /\ conn = "responder"
    /\ conn' = "closed"
    /\ UNCHANGED <<dials, bound, up, evicted, call, status, ka, esc, quiet, silent, stop>>

(* release-peer with reason `shutdown'. *)
Release ==
    /\ "release" \in Happens /\ stop = "no"
    /\ Evict
    /\ Demote("disconnected", "local-release")
    /\ UNCHANGED <<dials, up, call, esc, stop>>

(* The close operation: the binding goes, the status stays. *)
ClosePeer ==
    /\ "close" \in Happens /\ stop = "no"
    /\ Evict
    /\ conn' = IF conn = "none" THEN "none" ELSE "closed"
    /\ UNCHANGED <<dials, up, call, status, esc, stop>>

(* close_all(): the loops and escalations are cancelled, then waited for,  *)
(* and the lock is taken; with nothing to wait for it runs on at once.     *)
StopBegins ==
    /\ "stop" \in Happens /\ stop = "no"
    /\ ka' = None /\ esc' = None
    /\ IF ka = None /\ esc = None /\ ~Locked
       THEN stop' = "done" /\ Unbind
       ELSE stop' = "waiting" /\ UNCHANGED <<bound, silent, evicted>>
    /\ UNCHANGED <<dials, up, call, status, conn, quiet>>

StopEnds ==
    /\ stop = "waiting" /\ ~Locked
    /\ stop' = "done" /\ Unbind
    /\ UNCHANGED <<dials, up, call, status, conn, ka, esc, quiet>>

-----------------------------------------------------------------------------
(* Nothing is due: no timer has run out, no lock or close is waiting. *)
Settled ==
    /\ ka # None => ka.timer > 0
    /\ esc # None => esc.timer > 0
    /\ ~Locked => \A c \in Callers : call[c].at # "wait"
    /\ up \subseteq {bound}

(* The bound on what is remembered of `silent': past every promise. *)
Horizon == (MaxMissed + 1) * (Interval + Grace)

Tick ==
    /\ Settled
    /\ ka' = IF ka = None THEN None ELSE [ka EXCEPT !.timer = @ - 1]
    /\ esc' = IF esc = None THEN None ELSE [esc EXCEPT !.timer = @ - 1]
    /\ quiet' = IF quiet < Interval THEN quiet + 1 ELSE quiet
    /\ silent' = IF bound = 0 \/ bound \in up THEN 0
                 ELSE IF silent < Horizon THEN silent + 1 ELSE silent
    /\ UNCHANGED <<dials, bound, up, evicted, call, status, conn, stop>>

KeepaliveStep == Wakes \/ Pong \/ PingMissed

CallStep(c) ==
    Call(c) \/ Acquire(c) \/ DialSucceeds(c) \/ DialFails(c) \/ Answered(c) \/ CallFails(c)

PoolNext ==
    \/ \E c \in Callers : CallStep(c)
    \/ KeepaliveStep \/ Escalates \/ Tick
    \/ Breaks \/ \E e \in up : Closes(e)
    \/ InboundConnects \/ InboundEnds \/ Release \/ ClosePeer
    \/ StopBegins \/ StopEnds

PoolSpec == PoolInit /\ [][PoolNext]_poolVars

(* Tasks that are due run, and time passes: calls that keep starting and   *)
(* failing take time, and so do not stop the clock for ever.               *)
PoolFairness ==
    /\ WF_poolVars(KeepaliveStep) /\ WF_poolVars(Escalates) /\ SF_poolVars(Tick)
    /\ WF_poolVars(\E e \in up : Closes(e))
    /\ \A c \in Callers : WF_poolVars(Acquire(c))

PoolFairSpec == PoolSpec /\ PoolFairness

-----------------------------------------------------------------------------
(* Every variable has its type: endpoints are ones that were dialed, and   *)
(* the keepalive loop never counts MaxMissed misses and goes on.           *)
Loops == [ ep : 1..dials, at : {"sleep", "ping"}, timer : 0..Interval \cup 0..Grace,
           missed : 0..(MaxMissed - 1) ]
Escalations == [ep : 1..dials, timer : 0..Grace]
Statuses == [ is : {"none", "connected", "suspect", "disconnected"},
              reason : {None, "transport-error", "keepalive-miss", "local-release"} ]

PoolTypeOK ==
    /\ dials \in 0..MaxDials /\ bound \in 0..dials
    /\ up \subseteq 1..dials /\ evicted \subseteq 1..dials
    /\ call \in [Callers -> [at : {"idle", "wait", "dial", "sent"}, ep : 0..dials]]
    /\ status \in Statuses
    /\ conn \in {"none", "dialer", "responder", "closed"}
    /\ ka \in Loops \cup {None}
    /\ esc \in Escalations \cup {None}
    /\ quiet \in 0..Interval /\ silent \in 0..Horizon
    /\ stop \in {"no", "waiting", "done"}

(* get_connection() checks the binding again under the lock: no dial       *)
(* replaces a live binding, so every endpoint but the bound one was        *)
(* evicted, and closed.                                                    *)
NoneLost == \A e \in 1..dials : e = bound \/ e \in evicted

(* The second look: at most one caller dials, and only while nothing is    *)
(* bound.                                                                  *)
OneDials ==
    \A c, d \in Callers :
        call[c].at = "dial" => bound = 0 /\ (call[d].at = "dial" => c = d)

(* The no-clobber guard of remove_connection(): a binding goes at the      *)
(* dispatch seam only because a call on that very endpoint failed, never   *)
(* because of a late failure on one that was replaced.                     *)
OwnBindingGoes ==
    \A c \in Callers :
        (bound # 0 /\ bound' = 0 /\ call[c].at = "sent" /\ call'[c].at = "idle")
            => call[c].ep = bound
NoClobber == [][OwnBindingGoes]_poolVars

(* demote_on_transport_error(): "A peer that stops at suspect stays        *)
(* suspect forever".  An open episode has an escalation pending that will  *)
(* not be stopped by the binding of another endpoint.                      *)
SuspectIsOwed ==
    (status.is = "suspect" /\ stop = "no") => esc # None /\ bound \in {0, esc.ep}

(* What SuspectIsOwed rests on: the keepalive loop watches the endpoint    *)
(* that is bound, and the escalation of a replaced one is over before that *)
(* loop first pings.                                                       *)
EscalationsFollow ==
    stop = "no" =>
        /\ ka # None => ka.ep = bound
        /\ status.is = "suspect" => esc # None
        /\ (esc # None /\ bound \notin {0, esc.ep}) =>
               /\ status.is # "suspect"
               /\ ka # None => ka.at = "sleep" /\ esc.timer < ka.timer

(* timeout_ms is below interval_ms, as it is by default. *)
GraceIsShort == Grace < Interval

(* A suspect peer does not stay suspect. *)
Settles == (status.is = "suspect") ~> (status.is # "suspect" \/ stop # "no")

=============================================================================
