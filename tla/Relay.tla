------------------------------- MODULE Relay -------------------------------
(***************************************************************************)
(* Relays (entity_handlers/relay.py, route.py): forward requests passed    *)
(* from relay to relay towards a destination, the store a message falls    *)
(* back to when the next hop is away, direct puts with their bounds, and   *)
(* the destination polling a relay's store with a cursor.                  *)
(*                                                                         *)
(* A stored entry is addressed by its hash; `rank` is where that hash      *)
(* falls in the order of the paths, any unused one.                        *)
(***************************************************************************)
EXTENDS Clock, Integers, Sequences, FiniteSets

CONSTANTS Relays, Dest,
          Msgs,          \* messages
          DeadlineOf,    \* the deadline their senders set, or Nothing
          Tables,        \* the routing tables the relays may have
          Sends,         \* what is sent: [ttl, route]
          Retention,     \* relay_store_retention and
          Capacity,      \* max_storage_bytes, in entries
          Limits,        \* poll limits
          MaxOps, MaxEntries, MaxRelayNow

(* Requests name relays; the destination is none of them. *)
RelayAssumption == Sends \subseteq [ttl : Int, route : Seq(Relays)] /\ Dest \notin Relays

VARIABLES table,         \* system/route entries of every relay
          up,            \* who can be reached
          ops,           \* forward requests, in the order they were received
          store,         \* stored entries: [at, msg, rank, expires]
          delivered,     \* messages sent on to the destination
          got,           \* messages the destination collected by polling
          cursor,        \* its cursor at every relay, and whether the last
          complete       \* poll there said that there is no more

relayVars == <<table, up, ops, store, delivered, got, cursor, complete, now>>

Ranks == 1 .. MaxEntries

RelayInit ==
    /\ table \in Tables
    /\ up = [p \in Relays \cup {Dest} |-> TRUE]
    /\ ops = <<>> /\ store = {} /\ delivered = {} /\ got = {}
    /\ cursor = [r \in Relays |-> 0] /\ complete = [r \in Relays |-> FALSE]
    /\ now = 0

---------------------------------------------------------------------------
(* Routing *)

Better(a, b) == \/ a.exact /\ ~b.exact
                \/ a.exact = b.exact /\ a.metric <= b.metric

(* The best live entry: an exact match before the default, then the lower  *)
(* metric.                                                                 *)
ResolveFromTable(r) ==
    LET live == {e \in table[r] : e.expires = Nothing \/ e.expires > now}
    IN  IF live = {} THEN Nothing
        ELSE LET best == CHOOSE e \in live : \A f \in live : Better(e, f)
             IN  IF best.via = Nothing THEN Dest ELSE best.via

NextHop(o) == IF o.route # <<>> THEN Head(o.route) ELSE ResolveFromTable(o.at)

---------------------------------------------------------------------------
(* The store *)

Unexpired(e) == e.expires = Nothing \/ e.expires > now
At(r) == {e \in store : e.at = r}

(* The deadline that is kept: the sender's, and at most the retention. *)
ClampExpiry(deadline) ==
    IF Retention = Nothing THEN deadline
    ELSE IF deadline = Nothing \/ deadline > now + Retention THEN now + Retention
    ELSE deadline

(* Entries with the same content have the same path: storing again what is *)
(* there changes nothing.                                                  *)
Stored(r, msg, deadline, put) ==
    LET e(k) == [at |-> r, msg |-> msg, put |-> put, expires |-> ClampExpiry(deadline), rank |-> k]
    IN  IF \E k \in Ranks : e(k) \in store THEN store' = store /\ UNCHANGED complete
        ELSE /\ Cardinality(store) < MaxEntries
             /\ \E k \in Ranks : /\ \A f \in store : f.rank # k
                                 /\ store' = store \cup {e(k)}
             /\ complete' = [complete EXCEPT ![r] = FALSE]

(* A put is refused when it is late or would exceed the relay's capacity;  *)
(* one that is already there is not.                                       *)
HandlePut(r, msg) ==
    LET there == \E e \in At(r) : /\ e.msg = msg /\ e.put
                                  /\ e.expires = ClampExpiry(DeadlineOf[msg])
    IN  /\ DeadlineOf[msg] # Nothing => DeadlineOf[msg] > now
        /\ there \/ Cardinality({e \in At(r) : Unexpired(e)}) < Capacity
        /\ Stored(r, msg, DeadlineOf[msg], TRUE)
        /\ UNCHANGED <<table, up, ops, delivered, got, cursor, now>>

(* Entries above the cursor, in path order, as many as asked for. *)
HandlePoll(r, limit) ==
    LET ahead == {e \in At(r) : Unexpired(e) /\ e.rank > cursor[r]}
        page == {e \in ahead : Cardinality({f \in ahead : f.rank <= e.rank}) <= limit}
    IN  /\ got' = got \cup {e.msg : e \in page}
        /\ cursor' = [cursor EXCEPT ![r] =
                        IF page = {} THEN @ ELSE CHOOSE k \in Ranks :
                            (\E e \in page : e.rank = k) /\ \A e \in page : e.rank <= k]
        /\ complete' = [complete EXCEPT ![r] = page = ahead]
        /\ UNCHANGED <<table, up, ops, store, delivered, now>>

---------------------------------------------------------------------------
(* Forwarding *)

Op(msg, at, ttl, route, deadline, parent) ==
    [msg |-> msg, at |-> at, ttl |-> ttl, route |-> route, deadline |-> deadline,
     parent |-> parent, stage |-> "new", next |-> Nothing]

SendForward(msg, r, s) ==
    /\ Len(ops) < MaxOps /\ up[r]
    /\ ops' = Append(ops, Op(msg, r, s.ttl, s.route, DeadlineOf[msg], 0))
    /\ UNCHANGED <<table, up, store, delivered, got, cursor, complete, now>>

Answer(i, how) == [ops EXCEPT ![i].stage = how]

(* What a relay passes on: a hop less, the rest of the route, and the      *)
(* sender's deadline as it came.                                           *)
PassedOn(i) == Op(ops[i].msg, NextHop(ops[i]), ops[i].ttl - 1,
                  IF ops[i].route # <<>> THEN Tail(ops[i].route) ELSE <<>>, ops[i].deadline, i)

(* The inner message goes to a live session of the destination as one raw  *)
(* frame; nothing comes back that says it was handled.                     *)
RelaySend(msg) == up[Dest] /\ delivered' = delivered \cup {msg}

DeliverTerminal(i) ==
    /\ RelaySend(ops[i].msg)
    /\ ops' = Answer(i, "forwarded")
    /\ UNCHANGED <<store, complete>>

(* The relay's own decision on a request: refuse it, hand it to the        *)
(* destination, pass it on, or store it when the next hop is away.         *)
HandleForward(i) ==
    LET o == ops[i]  next == NextHop(o)
    IN  /\ o.stage = "new"
        /\ \/ /\ o.ttl <= 0 \/ next = Nothing
              /\ ops' = Answer(i, "refused")
              /\ UNCHANGED <<store, delivered, complete>>
           \/ o.ttl > 0 /\ next = Dest /\ DeliverTerminal(i)
           \/ /\ o.ttl > 0 /\ next \in Relays /\ up[next]
              /\ Len(ops) < MaxOps
              /\ ops' = Append([ops EXCEPT ![i].stage = "waiting", ![i].next = next], PassedOn(i))
              /\ UNCHANGED <<store, delivered, complete>>
           \/ /\ o.ttl > 0 /\ next # Nothing /\ ~up[next]
              /\ Stored(o.at, o.msg, o.deadline, FALSE)
              /\ ops' = Answer(i, "queued")
              /\ UNCHANGED delivered
        /\ UNCHANGED <<table, up, got, cursor, now>>

(* Any answer of the next relay, a refusal too, makes this hop forwarded;  *)
(* without one the message is stored here as well.                         *)
HopEndsMutant(i) == ~up[ops[i].next] \/ \E j \in 1 .. Len(ops) :
    ops[j].parent = i /\ ops[j].stage \in {"refused", "forwarded", "queued"}
HopEnds(i) == \E j \in 1 .. Len(ops) :
    ops[j].parent = i /\ ops[j].stage \in {"refused", "forwarded", "queued"}

HopAnswers(i) ==
    /\ ops[i].stage = "waiting" /\ HopEnds(i)
    /\ ops' = Answer(i, "forwarded")
    /\ UNCHANGED <<table, up, store, delivered, got, cursor, complete, now>>

HopLost(i) ==
    /\ ops[i].stage = "waiting" /\ ~up[ops[i].next]
    /\ Stored(ops[i].at, ops[i].msg, ops[i].deadline, FALSE)
    /\ ops' = Answer(i, "queued")
    /\ UNCHANGED <<table, up, delivered, got, cursor, now>>

---------------------------------------------------------------------------
(* A relay that stops loses the requests it was working on, not its store. *)
RelayChanges(p) ==
    /\ up' = [up EXCEPT ![p] = ~@]
    /\ ops' = [i \in 1 .. Len(ops) |->
                  IF up[p] /\ ops[i].at = p /\ ops[i].stage \in {"new", "waiting"}
                  THEN [ops[i] EXCEPT !.stage = "lost"] ELSE ops[i]]
    /\ UNCHANGED <<table, store, delivered, got, cursor, complete, now>>

RelayTick ==
    /\ now < MaxRelayNow
    /\ now' = now + 1
    /\ UNCHANGED <<table, up, ops, store, delivered, got, cursor, complete>>

RelayNext ==
    \/ \E m \in Msgs, r \in Relays : HandlePut(r, m) \/ \E s \in Sends : SendForward(m, r, s)
    \/ \E i \in 1 .. Len(ops) : HandleForward(i) \/ HopAnswers(i) \/ HopLost(i)
    \/ \E r \in Relays, l \in Limits : HandlePoll(r, l)
    \/ \E p \in Relays \cup {Dest} : RelayChanges(p)
    \/ RelayTick

RelaySpec == RelayInit /\ [][RelayNext]_relayVars

---------------------------------------------------------------------------

(* A message a sender was told is on its way or queued is not dropped: it  *)
(* was handed to the destination, or is stored somewhere, or a relay       *)
(* refused it (forward, put and poll).                                     *)
NotDropped ==
    \A i \in 1 .. Len(ops) :
        ops[i].stage \in {"forwarded", "queued"} =>
            \/ ops[i].msg \in delivered
            \/ \E e \in store : e.msg = ops[i].msg
            \/ \E j \in 1 .. Len(ops) : ops[j].msg = ops[i].msg /\ ops[j].stage = "refused"

=============================================================================
