----------------------------- MODULE Signaling -----------------------------
(***************************************************************************)
(* The rendezvous of two peers (entity_handlers/signaling): both derive    *)
(* the same key, both pick nodes of the pool they know, the initiator      *)
(* leaves a connect request in the key's bucket at its nodes, the          *)
(* responder polls its own nodes and answers what it finds there.  A node  *)
(* is a bounded mailbox: it adds, never evicts, and reaps by age only.      *)
(*                                                                         *)
(* The two peers may hold different versions of the pool advertisement.    *)
(* Digests are any assignment of distinct weights.  A third peer leaves    *)
(* requests and unreadable blobs in the same bucket.  The initiator's own  *)
(* polls change nothing (collect is not destructive); the property says    *)
(* what one of them would find.  A bucket keeps its blobs in the order of  *)
(* their deposit; who reads one reads all of it, so here it is a set.      *)
(***************************************************************************)
EXTENDS Integers, FiniteSets

CONSTANTS Initiator, Responder, Stranger,    \* peer ids: integers, so ordered
          Endpoints,     \* nodes
          Views,         \* pools a peer may know: sets of [endpoint, priority]
          Modes,         \* key modes in use
          Fanout,        \* SKEW_FANOUT
          MaxBlobs, MaxKeys, Ttl,            \* bounds of a node
          OpsPerWindow, RateWindow,          \* rate limit per source and key
          MaxNonce, MaxNoise, MaxClock,
          Unset

(* All nodes are of one priority, and a peer tries its first two or more:  *)
(* see select_top() for why two.                                           *)
SignalingAssumption ==
    /\ Initiator \in Int /\ Responder \in Int
    /\ Initiator # Responder /\ Stranger \notin {Initiator, Responder}
    /\ Modes \subseteq {"pair", "tag", "lobby"}
    /\ IsFiniteSet(Endpoints) /\ Fanout \in Nat \ {0, 1} /\ Ttl \in Nat
    /\ \A pool \in Views : /\ IsFiniteSet(pool)
                             /\ \A m \in pool : /\ m = [endpoint |-> m.endpoint, priority |-> m.priority]
                                                /\ m.endpoint \in Endpoints /\ m.priority \in Int
    /\ \A v, w \in Views : \A m \in v, o \in w : m.priority = o.priority

Parties == {Initiator, Responder, Stranger}

VARIABLES keyMode,     \* how the two derive their key
          view,        \* the pool each of the two knows
          weight,      \* rank of every endpoint's digest for this key
          buckets,     \* node -> key -> blobs deposited: [msg, at]
          counters,    \* node -> source -> window start and count
          lastNonce,   \* nonces used so far
          asking,      \* the initiator's request at every node, with its time
          unanswered,  \* requests the responder collected and still answers
          round,       \* its last round at a node: "none", "open", "done",
                       \* or "stale", begun before the current request
          noise,       \* what the stranger left so far
          clock

signalingVars == <<keyMode, view, weight, buckets, counters, lastNonce, noise, asking, unanswered, round, clock>>

---------------------------------------------------------------------------
(* Keys *)

Derive(m, input) == <<m, input>>
PairKey(p, q) == Derive("pair", IF p <= q THEN <<p, q>> ELSE <<q, p>>)
TagKey(label) == Derive("tag", label)
LobbyKey(constant) == Derive("lobby", constant)

KeyOf(p) ==
    CASE keyMode = "pair"  -> IF p = Initiator THEN PairKey(p, Responder) ELSE PairKey(p, Initiator)
      [] keyMode = "tag"   -> TagKey("label")
      [] keyMode = "lobby" -> LobbyKey("default")

Keys == {Derive("pair", <<p, q>>) : p, q \in {Initiator, Responder}}
            \cup {TagKey("label"), LobbyKey("default"), Derive("tag", "other")}

---------------------------------------------------------------------------
(* Which nodes: the lowest tier present, heaviest first. *)

LowestTier(pool) == {m \in pool : \A o \in pool : m.priority <= o.priority}

\* The place of m among them; weights are distinct.
Ranked(pool, m) ==
    Cardinality({o \in LowestTier(pool) : weight[o.endpoint] >= weight[m.endpoint]})

SelectTop(p) ==
    {m.endpoint : m \in {o \in LowestTier(view[p]) : Ranked(view[p], o) <= Fanout}}

---------------------------------------------------------------------------
(* A node *)

SignalingInit ==
    /\ keyMode \in Modes
    /\ view \in [{Initiator, Responder} -> Views]
    /\ Cardinality((view[Initiator] \ view[Responder]) \cup (view[Responder] \ view[Initiator])) <= 1
    /\ weight \in {w \in [Endpoints -> 1 .. Cardinality(Endpoints)] :
                      \A e, f \in Endpoints : w[e] = w[f] => e = f}
    /\ buckets = [n \in Endpoints |-> [k \in Keys |-> {}]]
    /\ counters = [n \in Endpoints |-> [p \in Parties |-> Unset]]
    /\ lastNonce = 0 /\ noise = 0 /\ clock = 0
    /\ asking = [n \in Endpoints |-> Unset]
    /\ unanswered = [n \in Endpoints |-> {}]
    /\ round = [n \in Endpoints |-> "none"]

(* TTL is the only reaper, and an operation reaps its own key only. *)
Reaped(n, k) == {b \in buckets[n][k] : b.at > clock - Ttl}

(* A fixed window per source and key; the limiter's state outlives it. *)
Allow(n, p) ==
    LET c == counters[n][p]
        w == IF c = Unset \/ clock - c.start >= RateWindow THEN [start |-> clock, count |-> 0] ELSE c
    IN  [ok |-> w.count < OpsPerWindow,
         counter |-> IF w.count < OpsPerWindow THEN [w EXCEPT !.count = @ + 1] ELSE c]

CountOp(n, p) == counters' = [counters EXCEPT ![n][p] = Allow(n, p).counter]

(* A bucket that was not touched since its blobs expired still counts. *)
NodeFull(n, k) ==
    Reaped(n, k) = {} /\ Cardinality({o \in Keys \ {k} : buckets[n][o] # {}}) >= MaxKeys

Duplicate(n, k, msg) == \E b \in Reaped(n, k) : b.msg = msg

OfferOk(n, p, k, msg) ==
    /\ Allow(n, p).ok
    /\ ~NodeFull(n, k)
    /\ Duplicate(n, k, msg) \/ Cardinality(Reaped(n, k)) < MaxBlobs

(* offer: a repeated message is there already and keeps its age.  (All     *)
(* messages of the model fit a node's max_blob_bytes.)                     *)
Offer(n, p, k, msg) ==
    /\ CountOp(n, p)
    /\ buckets' = [buckets EXCEPT ![n][k] =
            IF ~Allow(n, p).ok THEN @
            ELSE IF OfferOk(n, p, k, msg) /\ ~Duplicate(n, k, msg)
                 THEN Reaped(n, k) \cup {[msg |-> msg, at |-> clock]}
                 ELSE Reaped(n, k)]

(* collect removes nothing but what expired. *)
Collect(n, p, k) ==
    /\ CountOp(n, p)
    /\ buckets' = [buckets EXCEPT ![n][k] = IF Allow(n, p).ok THEN Reaped(n, k) ELSE @]

Messages(n, p, k) == IF Allow(n, p).ok THEN {b.msg : b \in Reaped(n, k)} ELSE {}

---------------------------------------------------------------------------
(* Reading a bucket *)

Request(p, x) == [type |-> "request", peer |-> p, nonce |-> x]
Response(p, x) == [type |-> "response", peer |-> p, nonce |-> x]
Blob == [type |-> "unknown", peer |-> Stranger, nonce |-> 0]

FindResponse(ms, mine, me) ==
    {m \in ms : m.type = "response" /\ m.nonce = mine /\ m.peer # me}

(* Everyone's request but one's own; what cannot be read is skipped. *)
FindRequestsMutant(ms, me) ==
    {m \in ms : m.type = "request" /\ m.peer # me /\ \A o \in ms : m.nonce <= o.nonce}
FindRequests(ms, me) == {m \in ms : m.type = "request" /\ m.peer # me}

---------------------------------------------------------------------------
(* The peers *)

(* initiate at one node: a fresh nonce, and a refusal leaves nothing. *)
Initiate(n) ==
    LET k == KeyOf(Initiator)  msg == Request(Initiator, lastNonce + 1)
    IN  /\ n \in SelectTop(Initiator) /\ lastNonce < MaxNonce
        /\ lastNonce' = lastNonce + 1
        /\ Offer(n, Initiator, k, msg)
        /\ asking' = [asking EXCEPT ![n] = IF OfferOk(n, Initiator, k, msg)
                                           THEN [nonce |-> lastNonce + 1, at |-> clock] ELSE Unset]
        /\ round' = [round EXCEPT ![n] = IF @ \in {"open", "stale"} THEN "stale" ELSE "none"]
        /\ UNCHANGED <<keyMode, view, weight, noise, unanswered, clock>>

(* The responder goes through its nodes one at a time: it collects at one  *)
(* and answers what it found there.                                        *)
Poll(n) ==
    LET k == KeyOf(Responder)
    IN  /\ n \in SelectTop(Responder) /\ \A o \in Endpoints : unanswered[o] = {}
        /\ Collect(n, Responder, k)
        /\ unanswered' = [unanswered EXCEPT ![n] = FindRequests(Messages(n, Responder, k), Responder)]
        /\ round' = [round EXCEPT ![n] = IF ~Allow(n, Responder).ok THEN "none"
                                         ELSE IF unanswered'[n] = {} THEN "done" ELSE "open"]
        /\ UNCHANGED <<keyMode, view, weight, lastNonce, noise, asking, clock>>

(* respond: one offer per request; a refused one makes the round fail. *)
Respond(n, r) ==
    LET k == KeyOf(Responder)  msg == Response(Responder, r.nonce)
    IN  /\ r \in unanswered[n]
        /\ Offer(n, Responder, k, msg)
        /\ unanswered' = [unanswered EXCEPT ![n] = @ \ {r}]
        /\ round' = [round EXCEPT ![n] =
                IF ~OfferOk(n, Responder, k, msg) THEN "stale"
                ELSE IF unanswered'[n] # {} THEN @ ELSE IF @ = "open" THEN "done" ELSE "none"]
        /\ UNCHANGED <<keyMode, view, weight, lastNonce, noise, asking, clock>>

Noise(n, msg) ==
    /\ noise < MaxNoise /\ noise' = noise + 1
    /\ Offer(n, Stranger, KeyOf(Initiator), msg)
    /\ UNCHANGED <<keyMode, view, weight, lastNonce, asking, unanswered, round, clock>>

OtherKey(n) ==
    /\ noise < MaxNoise /\ noise' = noise + 1
    /\ Offer(n, Stranger, Derive("tag", "other"), Blob)
    /\ UNCHANGED <<keyMode, view, weight, lastNonce, asking, unanswered, round, clock>>

ClockTicks ==
    /\ clock < MaxClock
    /\ clock' = clock + 1
    /\ UNCHANGED <<keyMode, view, weight, buckets, counters, lastNonce, noise, asking, unanswered, round>>

SignalingNext ==
    \/ \E n \in SelectTop(Initiator) \cup SelectTop(Responder) :
        \/ Initiate(n) \/ Poll(n) \/ OtherKey(n)
        \/ \E r \in unanswered[n] : Respond(n, r)
        \/ \E m \in {Request(Stranger, 0), Blob} : Noise(n, m)
    \/ ClockTicks

SignalingSpec == SignalingInit /\ [][SignalingNext]_signalingVars

---------------------------------------------------------------------------
(* Two peers that each do their part meet: once the initiator's requests   *)
(* are accepted at every node it chooses and the responder has since       *)
(* polled and answered at every node it chooses, a response to the         *)
(* initiator's own nonce lies in a bucket the initiator polls, for as long *)
(* as its request is fresh (select_top's "the two peers' choice sets       *)
(* intersect whenever their pools differ by at most one member").          *)
Meet ==
    (/\ \A n \in SelectTop(Initiator) : asking[n] # Unset /\ clock < asking[n].at + Ttl
     /\ \A n \in SelectTop(Responder) : round[n] = "done"
     /\ view[Initiator] # {} /\ view[Responder] # {})
        => \E n \in SelectTop(Initiator) :
              FindResponse({b.msg : b \in Reaped(n, KeyOf(Initiator))}, asking[n].nonce, Initiator) # {}
=============================================================================
