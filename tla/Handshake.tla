----------------------------- MODULE Handshake -----------------------------
(***************************************************************************)
(* The accepting side of the connect handshake (entity_core/handlers/      *)
(* connect.py, Peer._handle_connect) over several connections of one       *)
(* remote peer: the phases of a connection, the capability minted for the  *)
(* remote or reused from its session entity (peer/session_entity.py), what *)
(* an established connection leaves behind (its reentry channel and the    *)
(* system/connection record, peer/liveness.py) and takes away when it      *)
(* ends, and the reciprocal grant (peer/reciprocal.py).                    *)
(*                                                                         *)
(* Keys, nonces and signatures are an outcome: an authenticate verifies or *)
(* it is refused.  A hash is the value it is the hash of.  A connection    *)
(* ends in two steps: before the second its handlers get a few seconds to  *)
(* finish and its writer is closed, while other connections go on.         *)
(***************************************************************************)
EXTENDS Clock, Integers, Sequences, FiniteSets

CONSTANTS Conns,       \* the connections the remote may open
          Grants,      \* what a policy entry may grant
          Formats,     \* the hash formats a hello may settle on
          MaxHandshakeNow, \* clock and
          MaxPolicies  \* policy changes are bounded

HandshakeAssumption == Nothing \notin Conns /\ Nothing \notin Nat

VARIABLES policy,      \* the policy entries for the remote: its own, default
          changes,     \* how often they changed
          session,     \* the session entity: minted capability and expiry
          conns,       \* the connections
          channel,     \* the reentry channel registered for the remote
          record       \* the system/connection record

handshakeVars == <<policy, changes, session, conns, channel, record, now>>

Entries == {"own", "default"}

HandshakeInit ==
    /\ policy = [e \in Entries |-> Nothing]
    /\ changes = 0
    /\ session = [minted |-> Nothing, until |-> Nothing]
    /\ conns = [c \in Conns |->
                  [phase |-> "awaiting_hello", format |-> Nothing, established |-> Nothing,
                   rendezvous |-> FALSE, granted |-> FALSE, waiting |-> FALSE]]
    /\ channel = Nothing /\ record = Nothing
    /\ now = 0

Alive(c) == conns[c].phase \notin {"closing", "closed"}

(* The grants for the remote: the connect floor (here Nothing more) and    *)
(* the first policy entry that exists.                                     *)
GetGrantsForPeer == IF policy["own"] # Nothing THEN policy["own"] ELSE policy["default"]

---------------------------------------------------------------------------
(* The handshake.  A step that is not the one the phase calls for, and one *)
(* that does not verify, is answered with an error and changes nothing.    *)

Hello(c, f, rdv) ==
    /\ conns[c].phase = "awaiting_hello"
    /\ conns' = [conns EXCEPT ![c].phase = "awaiting_authenticate", ![c].format = f,
                              ![c].rendezvous = rdv]
    /\ UNCHANGED <<policy, changes, session, channel, record, now>>

(* The capability the session entity holds is handed out again if it says  *)
(* what a new one would say and does not expire.                           *)
Reusable(f) ==
    /\ session.minted # Nothing
    /\ session.until = Nothing \/ session.until > now + 1
    /\ session.minted.grants = GetGrantsForPeer /\ session.minted.format = f

(* A verified authenticate: the capability is chosen, a new one replaces   *)
(* the session's, and the answer is on its way.                            *)
Verifies(c) == conns[c].phase = "awaiting_authenticate"
Authenticate(c) ==
    /\ Verifies(c)
    /\ session' = IF Reusable(conns[c].format) THEN session
                  ELSE [minted |-> [grants |-> GetGrantsForPeer, format |-> conns[c].format],
                        until |-> Nothing]
    /\ conns' = [conns EXCEPT ![c].phase = "complete"]
    /\ UNCHANGED <<policy, changes, channel, record, now>>

RegisterInboundReentry(c) == channel' = c
WriteConnectionStatus(at) == record' = [status |-> "active", at |-> at]

(* The answer was sent: the session exists, the channel and the record are *)
(* this connection's.  If the send fails instead the connection ends.      *)
Establish(c) ==
    /\ conns[c].phase = "complete" /\ conns[c].established = Nothing
    /\ conns' = [conns EXCEPT ![c].established = now]
    /\ RegisterInboundReentry(c)
    /\ WriteConnectionStatus(now)
    /\ UNCHANGED <<policy, changes, session, now>>

UnregisterInboundReentry(c) == IF channel = c THEN Nothing ELSE channel

(* The record is closed if it is still the one this connection wrote; two  *)
(* connections of one instant wrote the same one.                          *)
MarkConnectionClosedMutant(c) ==
    IF conns[c].established # Nothing /\ record.status = "active"
    THEN [record EXCEPT !.status = "closed"] ELSE record
MarkConnectionClosed(c) ==
    IF conns[c].established # Nothing /\ record = [status |-> "active", at |-> conns[c].established]
    THEN [record EXCEPT !.status = "closed"] ELSE record

(* The stream ended: the waiters are woken and the channel is dropped ...  *)
CloseBegins(c) ==
    /\ Alive(c)
    /\ conns' = [conns EXCEPT ![c].phase = "closing", ![c].waiting = FALSE]
    /\ channel' = UnregisterInboundReentry(c)
    /\ UNCHANGED <<policy, changes, session, record, now>>

(* ... and when the handlers are done and the writer is closed, the record *)
(* says so.                                                                *)
CloseEnds(c) ==
    /\ conns[c].phase = "closing"
    /\ conns' = [conns EXCEPT ![c].phase = "closed"]
    /\ record' = MarkConnectionClosed(c)
    /\ UNCHANGED <<policy, changes, session, channel, now>>

---------------------------------------------------------------------------
(* The other direction *)

(* This peer dials the remote: the session entity now also holds what the  *)
(* remote granted, and takes its expiry.                                   *)
PersistHeld(until) ==
    /\ session' = [session EXCEPT !.until = until]
    /\ UNCHANGED <<policy, changes, conns, channel, record, now>>

(* The dialer of a rendezvous connection sends its reciprocal grant, which *)
(* the acceptor installs on the connection it came by.                     *)
AcceptReciprocalGrant(c) ==
    /\ Alive(c) /\ conns[c].rendezvous
    /\ conns[c].established # Nothing /\ ~conns[c].granted
    /\ conns' = [conns EXCEPT ![c].granted = TRUE, ![c].waiting = FALSE]
    /\ UNCHANGED <<policy, changes, session, channel, record, now>>

(* The acceptor originates over the registered channel: at once with a     *)
(* grant, after a wait on a rendezvous connection, and not otherwise.      *)
Originate ==
    /\ channel # Nothing
    /\ ~conns[channel].granted /\ conns[channel].rendezvous
    /\ conns' = [conns EXCEPT ![channel].waiting = TRUE]
    /\ UNCHANGED <<policy, changes, session, channel, record, now>>

GrantWaitEnds(c) ==
    /\ conns[c].waiting
    /\ conns' = [conns EXCEPT ![c].waiting = FALSE]
    /\ UNCHANGED <<policy, changes, session, channel, record, now>>

---------------------------------------------------------------------------
SetPolicy(e, g) ==
    /\ changes < MaxPolicies
    /\ policy' = [policy EXCEPT ![e] = g]
    /\ changes' = changes + 1
    /\ UNCHANGED <<session, conns, channel, record, now>>

HandshakeTick ==
    /\ now < MaxHandshakeNow
    /\ now' = now + 1
    /\ UNCHANGED <<policy, changes, session, conns, channel, record>>

HandshakeNext ==
    \/ \E c \in Conns :
          \/ \E f \in Formats, rdv \in BOOLEAN : Hello(c, f, rdv)
          \/ Authenticate(c) \/ Establish(c) \/ CloseBegins(c) \/ CloseEnds(c)
          \/ AcceptReciprocalGrant(c) \/ GrantWaitEnds(c)
    \/ Originate
    \/ \E u \in 1 .. MaxHandshakeNow + 1 : PersistHeld(u)
    \/ \E e \in Entries, g \in Grants \cup {Nothing} : SetPolicy(e, g)
    \/ HandshakeTick

HandshakeSpec == HandshakeInit /\ [][HandshakeNext]_handshakeVars

---------------------------------------------------------------------------
Established == {c \in Conns : conns[c].established # Nothing}
Newest ==
    {c \in Established : \A d \in Established : conns[d].established <= conns[c].established}

(* "a re-handshake's fresh `active` is never clobbered": however the ends  *)
(* of older connections trail behind, the record and the channel are those *)
(* of a newest connection.  The record is active until that one is closed, *)
(* and the channel is there until that one ends.  (Of connections that     *)
(* were established in the same millisecond each counts as newest: their   *)
(* records are one entity, which the first of them to end closes.)         *)
FollowsNewest ==
    Established # {} =>
        /\ \E c \in Newest :
              record = [status |-> IF conns[c].phase = "closed" THEN "closed" ELSE "active",
                        at |-> conns[c].established]
        /\ \E c \in Newest : channel = IF Alive(c) THEN c ELSE Nothing

=============================================================================
