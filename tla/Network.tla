------------------------------ MODULE Network ------------------------------
(***************************************************************************)
(* The network handler's maintained peer (entity_handlers/network.py): the *)
(* maintain session, the continuations and subscriptions that make a lost  *)
(* connection come back, the backoff timer and its derived pacing, and the *)
(* operations that race each other while they wait for the connection      *)
(* pool.                                                                   *)
(*                                                                         *)
(* One remote peer.  An operation runs to its one await (ensure_connected) *)
(* and from there to its end; the subscriptions it makes are local calls   *)
(* that do not suspend.  Status events reach the on-disconnect inbox one   *)
(* by one (module Subscription).  Continuation advances are the subject of *)
(* module Continuation; here the standing continuation is there or not.    *)
(***************************************************************************)
EXTENDS Clock, Integers, FiniteSets

CONSTANTS MaxSessions, \* sessions made,
          MaxFlows,    \* operations in progress,
          MaxEvents,   \* status events not yet delivered and
          MaxNetworkNow, \* the clock are bounded
          Backoff      \* the request's backoff: [strategy, min, max, elapsed]

Session == [since : Int \cup {Nothing}, graph : BOOLEAN, released : BOOLEAN, dropped : BOOLEAN]

NetworkAssumption ==
    /\ MaxSessions \in Nat /\ MaxEvents \in Nat \ {0}
    /\ Nothing \notin Session
    /\ Nothing \notin Int /\ Backoff.elapsed \in Int \cup {Nothing}

VARIABLES reachable,   \* the remote can be dialed
          conn,        \* the pool holds a connection to it
          status,      \* system/peer/status: [is, since]
          current,     \* the session in the table, or 0
          sessions,    \* all sessions made: [since, graph, released, dropped]
          timer,       \* by session: when its retry task fires, if it has one
          flows,       \* operations waiting for the pool
          wired,       \* the standing continuations are bound
          subs,        \* lifecycle subscriptions, by the session that made them
          events       \* status events on their way to on-disconnect

networkVars == <<reachable, conn, status, current, sessions, timer, flows, wired, subs,
          events, now>>

Ids == 1 .. MaxSessions
Made == {s \in Ids : sessions[s] # Nothing}
Spare == CHOOSE s \in Ids \ Made : TRUE

NetworkInit ==
    /\ reachable \in BOOLEAN
    /\ conn = FALSE /\ status = [is |-> "none", since |-> Nothing]
    /\ current = 0 /\ sessions = [s \in Ids |-> Nothing]
    /\ timer = [s \in Ids |-> {}]
    /\ flows = {} /\ wired = FALSE /\ subs = {} /\ events = 0
    /\ now = 0

Least(a, b) == IF a <= b THEN a ELSE b

---------------------------------------------------------------------------
(* Pacing: derived from the start of the episode, never counted *)

(* The k-th delay of a backoff. *)
DelayMs(b, k) ==
    LET max == IF b.max < b.min THEN b.min ELSE b.max
        doubled[i \in 0 .. k] ==
            IF i <= 1 THEN b.min
            ELSE IF doubled[i - 1] >= max THEN doubled[i - 1] ELSE 2 * doubled[i - 1]
    IN  IF k <= 0 THEN 0
        ELSE CASE b.strategy = "constant" -> Least(b.min, max)
               [] b.strategy = "linear" -> Least(b.min * k, max)
               [] OTHER -> Least(doubled[k], max)

(* How many retries have fired after `elapsed`, and when the next is due   *)
(* counted from the start: delay by delay until one repeats, and from      *)
(* there by division.                                                      *)
Pacing(b, elapsed) ==
    LET walk[k \in 1 .. elapsed + 2] ==
            LET delay == DelayMs(b, k)
                before == IF k = 1 THEN [attempt |-> 0, cum |-> 0, prev |-> 0, next |-> Nothing]
                          ELSE walk[k - 1]
                extra == (elapsed - before.cum) \div delay
            IN  IF before.next # Nothing THEN before
                ELSE IF delay = 0 THEN [before EXCEPT !.next = before.cum]
                ELSE IF k > 1 /\ delay = before.prev
                THEN [before EXCEPT !.attempt = @ + extra, !.cum = @ + extra * delay,
                                    !.next = before.cum + extra * delay + delay]
                ELSE IF before.cum + delay > elapsed THEN [before EXCEPT !.next = before.cum + delay]
                ELSE [attempt |-> k, cum |-> before.cum + delay, prev |-> delay, next |-> Nothing]
    IN  walk[elapsed + 2]

Exhausted(since) == Backoff.elapsed # Nothing /\ now - since >= Backoff.elapsed
DeriveRetryState(since) ==
    IF Exhausted(since) THEN {} ELSE {since + Pacing(Backoff, now - since).next}

---------------------------------------------------------------------------
(* Operations *)

Flow(op, s, existed, task) == [op |-> op, sess |-> s, existed |-> existed, task |-> task]

(* The session's retry task is cancelled, waiting or already at work. *)
CancelRetry(s, fs) == {f \in fs : f.task # s}

(* The tree's episode wins; without one the session opens its own. *)
FailingSince(s) ==
    IF status.since # Nothing THEN status.since
    ELSE IF sessions[s].since # Nothing THEN sessions[s].since ELSE now

(* The timer is replaced; a bound that is reached leaves none. *)
ArmBackoffRetry(s) ==
    /\ sessions' = [sessions EXCEPT ![s].since = FailingSince(s)]
    /\ timer' = [timer EXCEPT ![s] = DeriveRetryState(FailingSince(s))]

(* maintain-peer, and the same by the backoff continuation: the session is *)
(* found or made, then the pool is asked.                                  *)
Begin(op, task, fs) ==
    IF current # 0
    THEN /\ flows' = fs \cup {Flow(op, current, TRUE, task)}
         /\ UNCHANGED <<current, sessions>>
    ELSE /\ Made # Ids
         /\ flows' = fs \cup {Flow(op, Spare, FALSE, task)}
         /\ current' = Spare
         /\ sessions' = [sessions EXCEPT ![Spare] =
                            [since |-> Nothing, graph |-> FALSE, released |-> FALSE, dropped |-> FALSE]]

MaintainPeer ==
    /\ Cardinality(flows) < MaxFlows
    /\ Begin("maintain", 0, flows)
    /\ UNCHANGED <<reachable, conn, status, timer, wired, subs, events, now>>

(* A status write is an event to whoever subscribed. *)
Notify(was, is) == IF was # is /\ subs # {} /\ events < MaxEvents THEN events + 1 ELSE events

(* ensure_connected came back with a connection, which the establish path  *)
(* recorded.  maintain-peer completes the graph of the session it holds.   *)
Connected(f) ==
    LET up == [is |-> "connected", since |-> Nothing]
        installs == f.op = "maintain" /\ ~sessions[f.sess].graph
    IN  /\ f \in flows /\ (conn \/ reachable)
        /\ flows' = flows \ {f}
        /\ conn' = TRUE
        /\ status' = IF conn THEN status ELSE up
        /\ events' = IF conn THEN events ELSE Notify(status, up)
        /\ sessions' = [sessions EXCEPT ![f.sess].since = Nothing, ![f.sess].graph = @ \/ installs]
        /\ wired' = (wired \/ installs)
        /\ subs' = IF installs THEN subs \cup {f.sess} ELSE subs
        /\ UNCHANGED <<reachable, current, timer, now>>

(* It did not: a session that existed keeps trying; a call that made its   *)
(* own drops the one it finds in the table; a reconnect goes on, by its    *)
(* continuation's on_error, to the backoff continuation at once.           *)
RearmsMutant(f) == f.op = "maintain" /\ f.existed
Rearms(f) == f.existed \/ f.op = "reconnect"

(* The session in the table, whoever made it, is taken out of it and its   *)
(* retry cancelled.                                                        *)
DropSession(fs) ==
    /\ current' = 0
    /\ timer' = IF current # 0 THEN [timer EXCEPT ![current] = {}] ELSE timer
    /\ flows' = IF current # 0 THEN CancelRetry(current, fs) ELSE fs

ConnectFails(f) ==
    /\ f \in flows /\ ~conn /\ ~reachable
    /\ IF Rearms(f)
       THEN /\ ArmBackoffRetry(f.sess)
            /\ flows' = CancelRetry(f.sess, flows \ {f}) \cup
                  IF f.op = "reconnect" /\ wired /\ current # 0
                  THEN {Flow("maintain", current, TRUE, 0)} ELSE {}
            /\ UNCHANGED current
       ELSE IF f.op = "maintain" /\ ~f.existed
       THEN /\ DropSession(flows \ {f})
            /\ sessions' = IF current # 0 THEN [sessions EXCEPT ![current].dropped = TRUE] ELSE sessions
       ELSE /\ flows' = flows \ {f}
            /\ UNCHANGED <<current, timer, sessions>>
    /\ UNCHANGED <<reachable, conn, status, wired, subs, events, now>>

(* The retry task wakes up, and advances the backoff continuation if its   *)
(* session is still the one in the table.                                  *)
TimerFires(s) ==
    /\ \E at \in timer[s] : at <= now
    /\ Cardinality(flows) < MaxFlows
    /\ timer' = [timer EXCEPT ![s] = {}]
    /\ flows' = IF current = s /\ wired THEN flows \cup {Flow("maintain", s, TRUE, s)} ELSE flows
    /\ UNCHANGED <<reachable, conn, status, current, sessions, wired, subs, events, now>>

(* A status event advances the on-disconnect continuation: reconnect. *)
Reconnect ==
    /\ events > 0 /\ Cardinality(flows) < MaxFlows
    /\ events' = events - 1
    /\ flows' = IF wired /\ current # 0 /\ status.is # "connected"
                THEN flows \cup {Flow("reconnect", current, TRUE, 0)} ELSE flows
    /\ UNCHANGED <<reachable, conn, status, current, sessions, timer, wired, subs, now>>

(* release-peer with reason shutdown. *)
ReleasePeer ==
    /\ DropSession(flows)
    /\ wired' = FALSE
    /\ subs' = IF current # 0 /\ sessions[current].graph THEN subs \ {current} ELSE subs
    /\ conn' = FALSE
    /\ status' = [is |-> "released", since |-> Nothing]
    /\ events' = IF subs' # {} THEN Notify(status, status') ELSE events
    /\ sessions' = IF current # 0 THEN [sessions EXCEPT ![current].released = TRUE] ELSE sessions
    /\ UNCHANGED <<reachable, now>>

(* close evicts the connection and says nothing of it in the status. *)
CloseConnection ==
    /\ conn
    /\ conn' = FALSE
    /\ UNCHANGED <<reachable, status, current, sessions, timer, flows, wired, subs, events, now>>

---------------------------------------------------------------------------
(* Surroundings *)

(* The connection is lost; the demotion dates the episode. *)
Lost ==
    /\ conn
    /\ conn' = FALSE
    /\ status' = [is |-> "disconnected", since |-> now]
    /\ events' = Notify(status, status')
    /\ UNCHANGED <<reachable, current, sessions, timer, flows, wired, subs, now>>

ReachabilityChanges ==
    /\ reachable' = ~reachable
    /\ UNCHANGED <<conn, status, current, sessions, timer, flows, wired, subs, events, now>>

(* Time passes no timer by. *)
NetworkTick ==
    /\ now < MaxNetworkNow
    /\ \A s \in Ids : \A at \in timer[s] : at > now
    /\ now' = now + 1
    /\ UNCHANGED <<reachable, conn, status, current, sessions, timer, flows, wired, subs, events>>

NetworkNext ==
    \/ MaintainPeer \/ Reconnect \/ ReleasePeer \/ CloseConnection
    \/ \E f \in flows : Connected(f) \/ ConnectFails(f)
    \/ \E s \in Ids : TimerFires(s)
    \/ Lost \/ ReachabilityChanges \/ NetworkTick

NetworkSpec == NetworkInit /\ [][NetworkNext]_networkVars

---------------------------------------------------------------------------
(* Something is under way that ends in another attempt on behalf of a      *)
(* session: a timer, an operation or an event not yet delivered; or the    *)
(* bound of the request, counted from the episode's start, is reached.     *)
Trying(s, since) ==
    \/ timer[s] # {}
    \/ \E f \in flows : f.sess = s
    \/ events > 0
    \/ Exhausted(since)

(* The retry loop never dies silently: a session with its graph keeps      *)
(* trying while its peer is down, until a release or another call's failed *)
(* first connect takes it out of the table                                 *)
(* (_install_backoff_continuation's docstring tells how an earlier form    *)
(* stopped after two dials).                                               *)
KeepsTrying ==
    \A s \in Made :
        (/\ sessions[s].graph /\ ~sessions[s].released /\ ~sessions[s].dropped
         /\ wired /\ status.is = "disconnected" /\ ~conn) => Trying(s, status.since)


=============================================================================
