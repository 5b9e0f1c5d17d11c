----------------------------- MODULE MCRequests -----------------------------
(* What a request meets on its way: the handshake of its connection, the   *)
(* sub-dispatches of its handler, relays, the continuations that wait for  *)
(* it, and the sessions that keep its peer connected.  They share no state *)
(* here but the clock, so a run takes one of them, `part`, and the others  *)
(* stand still in one of their initial states.                             *)
EXTENDS Continuation, SubDispatch, Relay, Handshake, Network, TLC

CONSTANTS p1, p2, c1, c2, g1,   \* peers, connections, a grant
          r1, r2, m1            \* relays, a message

VARIABLE part

relayState     == <<table, up, ops, store, delivered, got, cursor, complete>>
handshakeState == <<policy, changes, session, conns, channel, record>>
networkState   == <<reachable, conn, status, current, sessions, timer, flows, wired, subs, events>>

all == <<vars, subDispatchVars, relayState, handshakeState, networkState, now, part>>

(***************************************************************************)
(* Joins of two slots, local, remote and with on_error; forwards; chains   *)
(* that feed themselves.                                                   *)
(***************************************************************************)
Standing(kind, n, waiting, target, onError, note, errors, calls) ==
    [kind |-> kind, remaining |-> n, policy |-> waiting, target |-> target, onError |-> onError,
     notification |-> note, errors |-> errors, calls |-> calls]
LocalJoins  == {Standing("join", n, p, "local", FALSE, FALSE, FALSE, 4) :
                   n \in {Forever, 1, 2}, p \in {"none", "abandon", "fire-partial"}}
RemoteJoins == {Standing("join", 2, p, "remote", FALSE, FALSE, FALSE, 3) : p \in {"none", "abandon", "fire-partial"}}
ErrorJoins  == {Standing("join", 1, "abandon", "local", TRUE, FALSE, TRUE, 2)}
Forwards    == {Standing("forward", n, "none", t, e, note, TRUE, 2) :
                   n \in {Forever, 1, 2}, t \in {"local", "remote"}, e, note \in BOOLEAN}
Runaways    == {Standing("forward", n, "none", "looping", FALSE, FALSE, FALSE, 6) : n \in {Forever, 2}}
AllStanding == LocalJoins \cup RemoteJoins \cup ErrorJoins \cup Forwards \cup Runaways

(***************************************************************************)
(* Two peers; a handler with another below its path, and a credential one  *)
(* of them has for the other.                                              *)
(***************************************************************************)
A  == <<"a">>
AB == <<"a", "b">>
BothPeers  == {p1, p2}
BothPaths  == {A, AB}
Bindings   == (p1 :> {A}) @@ (p2 :> {A, AB})
Grantable == {[handlers |-> {A, AB}, peers |-> BothPeers], [handlers |-> {AB}, peers |-> {p1}]}
OwnScope   == [p \in BothPeers |-> [handlers |-> {A, AB}, peers |-> {p}]]
Holdings   == [p \in BothPeers |-> [q \in BothPeers |-> IF q = p1 THEN {A} ELSE {A, AB}]]
Credential == {[minter |-> p2, grantee |-> p1, handlers |-> {AB}]}

(***************************************************************************)
(* Two relays, one message with a deadline; a table that leads to the      *)
(* destination, and one with a loop until one of its routes expires.       *)
(***************************************************************************)
Route(exact, via, metric, expires) ==
    [exact |-> exact, via |-> via, metric |-> metric, expires |-> expires]
RouteTables ==
    {(r1 :> {Route(TRUE, Nothing, 0, Nothing)}) @@ (r2 :> {Route(FALSE, r1, 0, 1), Route(TRUE, Nothing, 1, Nothing)}),
     (r1 :> {Route(FALSE, r2, 0, Nothing)}) @@ (r2 :> {Route(FALSE, r1, 0, 1)})}
Requested == {[ttl |-> 2, route |-> <<>>], [ttl |-> 2, route |-> <<r2>>]}
Deadlines == m1 :> 1

(***************************************************************************)
(* A peer maintained twice over, released, lost and found again.           *)
(***************************************************************************)
Linear == [strategy |-> "linear", min |-> 1, max |-> 2, elapsed |-> 3]

ASSUME /\ ContinuationAssumption /\ SubDispatchAssumption
       /\ RelayAssumption /\ HandshakeAssumption /\ NetworkAssumption

-----------------------------------------------------------------------------
(* The parts that are not taken: a join without deliveries, one table, a   *)
(* reachable peer.                                                         *)
ContinuationIdle == Init /\ \E f \in ErrorJoins : Install(f)
RelayIdle        == RelayInit /\ table = CHOOSE t \in Tables : TRUE
NetworkIdle      == NetworkInit /\ reachable

RequestsInit ==
    \/ /\ part = "continuation" /\ Init
       /\ SubDispatchInit /\ RelayIdle /\ HandshakeInit /\ NetworkIdle
    \/ /\ part = "subdispatch" /\ SubDispatchInit
       /\ ContinuationIdle /\ RelayIdle /\ HandshakeInit /\ NetworkIdle
    \/ /\ part = "relay" /\ RelayInit
       /\ ContinuationIdle /\ SubDispatchInit /\ HandshakeInit /\ NetworkIdle
    \/ /\ part = "handshake" /\ HandshakeInit
       /\ ContinuationIdle /\ SubDispatchInit /\ RelayIdle /\ NetworkIdle
    \/ /\ part = "network" /\ NetworkInit
       /\ ContinuationIdle /\ SubDispatchInit /\ RelayIdle /\ HandshakeInit

RequestsNext ==
    \/ /\ part = "continuation" /\ Next
       /\ UNCHANGED <<subDispatchVars, relayState, handshakeState, networkState, now, part>>
    \/ /\ part = "subdispatch" /\ SubDispatchNext
       /\ UNCHANGED <<vars, relayState, handshakeState, networkState, now, part>>
    \/ /\ part = "relay" /\ RelayNext
       /\ UNCHANGED <<vars, subDispatchVars, handshakeState, networkState, part>>
    \/ /\ part = "handshake" /\ HandshakeNext
       /\ UNCHANGED <<vars, subDispatchVars, relayState, networkState, part>>
    \/ /\ part = "network" /\ NetworkNext
       /\ UNCHANGED <<vars, subDispatchVars, relayState, handshakeState, part>>

RequestsSpec == RequestsInit /\ [][RequestsNext]_all

(* The two connections may be exchanged. *)
Symmetry == Permutations(Conns)

=============================================================================
