---------------------------- MODULE Subscription ----------------------------
(***************************************************************************)
(* Subscriptions and the delivery of their notifications:                  *)
(* entity_handlers/subscription.py, the handler's subscribe and            *)
(* unsubscribe and the SubscriptionExtension behind them.                  *)
(*                                                                         *)
(* Phase 2 of EmitPathway creates one task per tree change; run in order,  *)
(* they fan the change out to one bounded queue per subscription.  Each    *)
(* queue has a worker task that takes events off it, checks the            *)
(* subscription's limits, and spawns a delivery task under a semaphore.    *)
(* A delivery task records itself, gets the connection to the subscriber   *)
(* from the pool, at once or in its turn of the pool's lock, waits for the *)
(* connection's write lock, sends, and waits for the response.  An action  *)
(* is what one task does between two suspensions of the event loop.        *)
(*                                                                         *)
(* A change is named by its turn, the place its fan-out task has among     *)
(* those that Phase 2 created; `changes` says which tree change that is.   *)
(***************************************************************************)
EXTENDS Integers, Sequences, FiniteSets

CONSTANTS
    Keys,         \* (subscriber, pattern, deliver_uri) triples
    Nothing,
    NoLimit,      \* a limit that is not set
    Limits,       \* values of max_events that clients ask for
    RateLimit,    \* rate_limit: notifications per minute
    Capacity,     \* max_subscribers_per_prefix
    QueueSize,    \* per_subscription_queue_size
    Inflight,     \* per_subscription_inflight, the semaphore's permits
    MaxId,        \* bound: subscription ids (uuids) handed out
    MaxWrites,    \* bound: tree changes in one behaviour
    MaxCascade,   \* bound: tree changes of one cascade
    MaxRenewals   \* bound: renewals of one subscription

Ids == 1..MaxId

(* What the index holds of a live subscription. *)
Entries == [ key : Keys, max : Nat \cup {NoLimit}, count : Nat, recent : Nat,
             late : BOOLEAN ]

ASSUME SubscriptionAssumption ==
    /\ Nothing \notin Keys \cup Entries
    /\ NoLimit \notin Nat
    /\ Limits \subseteq (Nat \ {0}) \cup {NoLimit}
    /\ RateLimit \in Nat \cup {NoLimit}
    /\ Capacity \in Nat
    /\ QueueSize \in Nat \ {0} /\ Inflight \in Nat \ {0}
    /\ MaxId \in Nat /\ MaxWrites \in Nat /\ MaxCascade \in Nat /\ MaxRenewals \in Nat

VARIABLES
    entry,    \* _index: id -> None or [key, max, count, recent, late]
    gen,      \* id -> which _SubscriptionEntry object the index holds
    token,    \* id -> the deliver_token is in the store and not expired
    nextId,   \* the next id a subscribe would generate
    written,  \* tree changes made so far, and fan-out tasks created for them
    changes,  \* turn -> the tree change that it tells of
    fan,      \* fan-out tasks created by Phase 2 and not run yet, by turn
    worker,   \* id -> state of its worker task
    queue,    \* id -> its delivery queue
    held,     \* id -> the event its worker holds while it waits for a permit
    deliveries, \* id -> its delivery tasks, in creation order: [ev, gen, st]
    link,     \* id -> the pool has a connection to the subscriber
    out,      \* id -> who waits for that connection's write lock: [ev, waited]
    wire,     \* id -> what was written to the subscriber, alike; `waited` if
              \* the delivery had to wait for the pool's lock
    fanned,   \* id -> events fanned out to it
    dropped,  \* id -> events lost to a full queue
    refused   \* id -> events rate limited, or whose delivery failed

subs == <<entry, gen, token, nextId>>
lines == <<deliveries, link, out, wire>>
subscriptionVars == <<subs, written, changes, fan, worker, queue, held, lines,
          fanned, dropped, refused>>

Live == {i \in Ids : entry[i] # Nothing}

SubscriptionInit ==
    /\ entry = [i \in Ids |-> Nothing]
    /\ gen = [i \in Ids |-> 0]
    /\ token = [i \in Ids |-> TRUE]
    /\ nextId = 1
    /\ written = 0
    /\ changes = <<>>
    /\ fan = <<>>
    /\ worker = [i \in Ids |-> "none"]
    /\ queue = [i \in Ids |-> <<>>]
    /\ held = [i \in Ids |-> 0]
    /\ deliveries = [i \in Ids |-> <<>>]
    /\ link = [i \in Ids |-> FALSE]
    /\ out = [i \in Ids |-> <<>>]
    /\ wire = [i \in Ids |-> <<>>]
    /\ fanned = [i \in Ids |-> {}]
    /\ dropped = [i \in Ids |-> {}]
    /\ refused = [i \in Ids |-> {}]

-----------------------------------------------------------------------------
(* merge_with_server_limits(): the smaller of the limits that are set. *)
Merge(a, b) ==
    CASE a = NoLimit -> b
      [] b = NoLimit -> a
      [] OTHER -> IF a <= b THEN a ELSE b

NewEntry(k, max) ==
    [key |-> k, max |-> Merge(max, NoLimit), count |-> 0, recent |-> 0,
     late |-> FALSE]

(* _find_existing_subscription(): the live subscription with this key. *)
Existing(k) == {i \in Live : entry[i].key = k}

(* _handle_subscribe(): renew the subscription of the same key, else       *)
(* answer 303 at capacity, else create one.  The index updater replaces    *)
(* the index entry in the same step.                                       *)
Subscribe(k, max) ==
    /\ \/ /\ Existing(k) # {}
          /\ \E i \in Existing(k) :
               /\ gen[i] < MaxRenewals
               /\ entry' = [entry EXCEPT ![i] = NewEntry(k, max)]
               /\ gen' = [gen EXCEPT ![i] = @ + 1]
               /\ token' = [token EXCEPT ![i] = TRUE]
          /\ UNCHANGED nextId
       \/ /\ Existing(k) = {}
          /\ Cardinality(Live) < Capacity
          /\ nextId \in Ids
          /\ entry' = [entry EXCEPT ![nextId] = NewEntry(k, max)]
          /\ nextId' = nextId + 1
          /\ UNCHANGED <<gen, token>>
    /\ UNCHANGED <<written, changes, fan, worker, queue, held, lines,
                   fanned, dropped, refused>>

(* _drop_delivery_worker() from outside the worker: it is suspended in     *)
(* queue.get() or sem.acquire(), the CancelledError surfaces there and it  *)
(* goes on to drain its in-flight deliveries.                              *)
DropWorker(i) ==
    /\ worker' = [worker EXCEPT ![i] = IF @ = "none" THEN "none" ELSE "drain"]
    /\ queue' = [queue EXCEPT ![i] = <<>>]
    /\ held' = [held EXCEPT ![i] = 0]

(* _handle_unsubscribe(): the entity is deleted; the index updater drops   *)
(* the index entry and the worker.                                         *)
Unsubscribe(i) ==
    /\ i \in Live
    /\ entry' = [entry EXCEPT ![i] = Nothing]
    /\ DropWorker(i)
    /\ UNCHANGED <<gen, token, nextId, written, changes, fan, lines,
                   fanned, dropped, refused>>

(* Time passes: max_duration_ms elapses, the deliver token expires, a      *)
(* minute goes by since the recorded notifications.                        *)
DurationElapses(i) ==
    /\ i \in Live /\ ~entry[i].late
    /\ entry' = [entry EXCEPT ![i].late = TRUE]
    /\ UNCHANGED <<gen, token, nextId, written, changes, fan, worker, queue, held, lines, fanned, dropped, refused>>

TokenExpires(i) ==
    /\ i \in Live /\ token[i]
    /\ token' = [token EXCEPT ![i] = FALSE]
    /\ UNCHANGED <<entry, gen, nextId, written, changes, fan, worker, queue, held, lines, fanned, dropped, refused>>

MinutePasses(i) ==
    /\ i \in Live /\ entry[i].recent > 0
    /\ entry' = [entry EXCEPT ![i].recent = 0]
    /\ UNCHANGED <<gen, token, nextId, written, changes, fan, worker, queue, held, lines, fanned, dropped, refused>>

-----------------------------------------------------------------------------
(* In which order _dispatch() schedules the k changes of one cascade.  A   *)
(* hook's write is dispatched whole, its Phase 2 included, before the      *)
(* write that the hook was called for goes on to its own Phase 2: of the   *)
(* writes nested in one another the innermost comes first, the outermost,  *)
(* change 1, last.                                                         *)
Turns(k) ==
    {p \in [1..k -> 1..k] :
        /\ p[k] = 1
        /\ \A m, n \in 1..k : m < n => p[m] # p[n]
        /\ \A l, m, n \in 1..k : l < m /\ m < n => ~(p[m] < p[n] /\ p[n] < p[l])}

(* A write with those that hooks make below it, in one step of the loop. *)
TreeChange(k) ==
    /\ written + k <= MaxWrites
    /\ written' = written + k
    /\ fan' = fan \o [n \in 1..k |-> written + n]
    /\ \E p \in Turns(k) : changes' = changes \o [n \in 1..k |-> written + p[n]]
    /\ UNCHANGED <<subs, worker, queue, held, lines, fanned, dropped, refused>>

Full(i) == Len(queue[i]) >= QueueSize

(* _on_tree_change() with _ensure_delivery_worker(): every live            *)
(* subscription gets the event, or loses it if its queue is full.          *)
FanOut ==
    /\ fan # <<>>
    /\ LET ev == Head(fan) IN
       /\ worker' = [i \in Ids |->
              IF i \in Live /\ worker[i] = "none" THEN "loop" ELSE worker[i]]
       /\ queue' = [i \in Ids |->
              IF i \in Live /\ ~Full(i) THEN Append(queue[i], ev) ELSE queue[i]]
       /\ dropped' = [i \in Ids |->
              IF i \in Live /\ Full(i) THEN dropped[i] \cup {ev} ELSE dropped[i]]
       /\ fanned' = [i \in Ids |->
              IF i \in Live THEN fanned[i] \cup {ev} ELSE fanned[i]]
    /\ fan' = Tail(fan)
    /\ UNCHANGED <<subs, written, changes, held, lines, refused>>

-----------------------------------------------------------------------------
(* _SubscriptionEntry.is_expired() and check_rate_limit(). *)
Expired(e) == e.late \/ (e.max # NoLimit /\ e.count >= e.max)

RateLimited(e) == RateLimit # NoLimit /\ e.recent >= RateLimit

Takes(i) ==
    /\ worker[i] = "loop" /\ queue[i] # <<>>
    /\ i \in Live

(* The worker breaks out of its loop, drains and returns. *)
Exit == "gone"

(* The worker finds the subscription expired or its token invalid, and     *)
(* terminates it: index entry and tree entity go, and _drop_delivery_worker *)
(* cancels the running task itself.  That cancellation surfaces at the     *)
(* next suspension, the gather() of the finally block, and cancels the     *)
(* gathered delivery tasks.                                                *)
WorkerTerminates(i) ==
    /\ Takes(i)
    /\ Expired(entry[i]) \/ (~RateLimited(entry[i]) /\ ~token[i])
    /\ entry' = [entry EXCEPT ![i] = Nothing]
    /\ worker' = [worker EXCEPT ![i] = Exit]
    /\ queue' = [queue EXCEPT ![i] = <<>>]
    /\ deliveries' = [deliveries EXCEPT ![i] = <<>>]
    /\ out' = [out EXCEPT ![i] = <<>>]
    /\ UNCHANGED <<gen, token, nextId, written, changes, fan, held, link, wire,
                   fanned, dropped, refused>>

WorkerSkips(i) ==
    /\ Takes(i)
    /\ ~Expired(entry[i]) /\ RateLimited(entry[i])
    /\ queue' = [queue EXCEPT ![i] = Tail(@)]
    /\ refused' = [refused EXCEPT ![i] = @ \cup {Head(queue[i])}]
    /\ UNCHANGED <<subs, written, changes, fan, worker, held, lines,
                   fanned, dropped>>

Permitted(i) == Len(deliveries[i]) < Inflight

Spawned(i, ev) == Append(deliveries[i], [ev |-> ev, gen |-> gen[i], st |-> "created"])

(* Mutant: an event that finds no permit is let go of. *)
HoldMutant(i) == UNCHANGED <<worker, held>>

(* The worker suspends in sem.acquire() with the event in hand. *)
Hold(i) ==
    /\ worker' = [worker EXCEPT ![i] = "sem"]
    /\ held' = [held EXCEPT ![i] = Head(queue[i])]

(* The checks pass: spawn a delivery task, or wait for a permit. *)
WorkerDispatches(i) ==
    /\ Takes(i)
    /\ ~Expired(entry[i]) /\ ~RateLimited(entry[i]) /\ token[i]
    /\ queue' = [queue EXCEPT ![i] = Tail(@)]
    /\ IF Permitted(i)
       THEN /\ deliveries' = [deliveries EXCEPT ![i] = Spawned(i, Head(queue[i]))]
            /\ UNCHANGED <<worker, held>>
       ELSE Hold(i) /\ UNCHANGED deliveries
    /\ UNCHANGED <<subs, written, changes, fan, link, out, wire,
                   fanned, dropped, refused>>

(* sem.acquire() returns: no check is made again. *)
WorkerResumes(i) ==
    /\ worker[i] = "sem" /\ Permitted(i)
    /\ deliveries' = [deliveries EXCEPT ![i] = Spawned(i, held[i])]
    /\ held' = [held EXCEPT ![i] = 0]
    /\ worker' = [worker EXCEPT ![i] = "loop"]
    /\ UNCHANGED <<subs, written, changes, fan, queue, link, out, wire,
                   fanned, dropped, refused>>

(* The finally block's gather() of a cancelled worker returns. *)
WorkerDrained(i) ==
    /\ worker[i] = "drain" /\ deliveries[i] = <<>>
    /\ worker' = [worker EXCEPT ![i] = "gone"]
    /\ UNCHANGED <<subs, written, changes, fan, queue, held, lines,
                   fanned, dropped, refused>>

-----------------------------------------------------------------------------
(* The earliest delivery task of i in a state. *)
IsFirst(i, n, st) ==
    /\ n \in DOMAIN deliveries[i] /\ deliveries[i][n].st = st
    /\ \A m \in 1..(n - 1) : deliveries[i][m].st # st

(* The n-th delivery of i goes to the connection's write lock, FIFO. *)
ToWriteLock(i, n, waited) ==
    /\ deliveries' = [deliveries EXCEPT ![i][n].st = "out"]
    /\ out' = [out EXCEPT ![i] = Append(@, [ev |-> deliveries[i][n].ev, waited |-> waited])]

(* _deliver_notification() up to its first suspension: the notification is *)
(* recorded on the entry the task was spawned with, and get_connection()   *)
(* returns what the pool has, without its lock, or waits for the lock.     *)
(* Tasks start in creation order.                                          *)
DeliveryStarts(i, n) ==
    /\ IsFirst(i, n, "created")
    /\ entry' = IF i \in Live /\ gen[i] = deliveries[i][n].gen
                THEN [entry EXCEPT ![i].count = @ + 1, ![i].recent = @ + 1]
                ELSE entry
    /\ IF link[i]
       THEN ToWriteLock(i, n, FALSE)
       ELSE /\ deliveries' = [deliveries EXCEPT ![i][n].st = "pool"]
            /\ UNCHANGED out
    /\ UNCHANGED <<gen, token, nextId, written, changes, fan, worker, queue, held,
                   link, wire, fanned, dropped, refused>>

(* Mutant: those who wait for the pool's lock get it in any order. *)
HasPoolMutant(i, n) == n \in DOMAIN deliveries[i] /\ deliveries[i][n].st = "pool"

(* The pool's lock is FIFO. *)
HasPool(i, n) == IsFirst(i, n, "pool")

(* get_connection() under the lock: another look, or a dial that is bound. *)
Connects(i, n) ==
    /\ HasPool(i, n)
    /\ link' = [link EXCEPT ![i] = TRUE]
    /\ ToWriteLock(i, n, TRUE)
    /\ UNCHANGED <<subs, written, changes, fan, worker, queue, held, wire,
                   fanned, dropped, refused>>

(* No profile of the subscriber can be dialed; the next who waits tries.   *)
DialFails(i, n) ==
    /\ HasPool(i, n) /\ ~link[i]
    /\ deliveries' = [deliveries EXCEPT ![i][n].st = "failed"]
    /\ refused' = [refused EXCEPT ![i] = @ \cup {deliveries[i][n].ev}]
    /\ UNCHANGED <<subs, written, changes, fan, worker, queue, held, link, out, wire,
                   fanned, dropped>>

(* The first who waits for the write lock sends. *)
DeliverySends(i, n) ==
    /\ out[i] # <<>>
    /\ n \in DOMAIN deliveries[i] /\ deliveries[i][n].st = "out"
    /\ deliveries[i][n].ev = Head(out[i]).ev
    /\ deliveries' = [deliveries EXCEPT ![i][n].st = "sent"]
    /\ wire' = [wire EXCEPT ![i] = Append(@, Head(out[i]))]
    /\ out' = [out EXCEPT ![i] = Tail(@)]
    /\ UNCHANGED <<subs, written, changes, fan, worker, queue, held, link,
                   fanned, dropped, refused>>

(* Another dispatch to the same peer connects. *)
LinkMade(i) ==
    /\ ~link[i]
    /\ link' = [link EXCEPT ![i] = TRUE]
    /\ UNCHANGED <<subs, written, changes, fan, worker, queue, held, deliveries, out, wire,
                   fanned, dropped, refused>>

(* The connection closes and the pool lets go of it; who waits to write to *)
(* it fails.                                                               *)
Cut(t) == [n \in DOMAIN t |-> IF t[n].st = "out" THEN [t[n] EXCEPT !.st = "failed"] ELSE t[n]]

LinkDrops(i) ==
    /\ link[i]
    /\ link' = [link EXCEPT ![i] = FALSE]
    /\ deliveries' = [deliveries EXCEPT ![i] = Cut(@)]
    /\ refused' = [refused EXCEPT ![i] =
           @ \cup {d.ev : d \in {deliveries[i][n] : n \in {m \in DOMAIN deliveries[i] :
                                                       deliveries[i][m].st = "out"}}}]
    /\ out' = [out EXCEPT ![i] = <<>>]
    /\ UNCHANGED <<subs, written, changes, fan, worker, queue, held, wire,
                   fanned, dropped>>

Without(s, n) == SubSeq(s, 1, n - 1) \o SubSeq(s, n + 1, Len(s))

(* Mutant: a delivery that failed does not release its permit. *)
OverMutant(t) == t.st = "sent"

(* The response, an error or the request timeout ends a delivery. *)
Over(t) == t.st \in {"sent", "failed"}

(* _deliver_one()'s finally block: the permit is released. *)
DeliveryEnds(i, n) ==
    /\ n \in DOMAIN deliveries[i] /\ Over(deliveries[i][n])
    /\ deliveries' = [deliveries EXCEPT ![i] = Without(@, n)]
    /\ UNCHANGED <<subs, written, changes, fan, worker, queue, held, link, out, wire,
                   fanned, dropped, refused>>

-----------------------------------------------------------------------------
WorkerStep(i) ==
    \/ WorkerTerminates(i) \/ WorkerSkips(i) \/ WorkerDispatches(i)
    \/ WorkerResumes(i) \/ WorkerDrained(i)

DeliveryStep(i) ==
    \/ LinkMade(i) \/ LinkDrops(i)
    \/ \E n \in 1..Inflight :
           \/ DeliveryStarts(i, n) \/ Connects(i, n) \/ DialFails(i, n)
           \/ DeliverySends(i, n) \/ DeliveryEnds(i, n)

Environment ==
    \/ \E k \in Keys, max \in Limits : Subscribe(k, max)
    \/ \E i \in Ids : \/ Unsubscribe(i) \/ DurationElapses(i)
                      \/ TokenExpires(i) \/ MinutePasses(i)
    \/ \E k \in 1..MaxCascade : TreeChange(k)

SubscriptionNext ==
    \/ Environment
    \/ FanOut
    \/ \E i \in Ids : WorkerStep(i) \/ DeliveryStep(i)

SubscriptionSpec == SubscriptionInit /\ [][SubscriptionNext]_subscriptionVars

(* The event loop runs every task that is ready, and execute() bounds its  *)
(* wait for the response.  Nothing bounds a dial, the wait for a lock or a *)
(* write: whether those end is up to the subscriber.                       *)
SubscriptionFairness ==
    /\ WF_subscriptionVars(FanOut)
    /\ \A i \in Ids : /\ WF_subscriptionVars(WorkerStep(i))
                      /\ WF_subscriptionVars(\E n \in 1..Inflight : DeliveryStarts(i, n))
                      /\ WF_subscriptionVars(\E n \in 1..Inflight : DeliveryEnds(i, n))

SubscriptionFairSpec == SubscriptionSpec /\ SubscriptionFairness

-----------------------------------------------------------------------------
Deliveries == [ev : Nat, gen : Nat, st : {"created", "pool", "out", "sent", "failed"}]

Messages == [ev : Nat, waited : BOOLEAN]

SubsTyped ==
    /\ entry \in [Ids -> Entries \cup {Nothing}]
    /\ gen \in [Ids -> Nat] /\ token \in [Ids -> BOOLEAN]
    /\ nextId \in 1..(MaxId + 1)

PipelineTyped ==
    /\ written \in Nat /\ changes \in Seq(Nat) /\ fan \in Seq(Nat)
    /\ worker \in [Ids -> {"none", "loop", "sem", "drain", "gone"}]
    /\ queue \in [Ids -> Seq(Nat)] /\ held \in [Ids -> Nat]
    /\ deliveries \in [Ids -> Seq(Deliveries)]
    /\ link \in [Ids -> BOOLEAN]
    /\ out \in [Ids -> Seq(Messages)] /\ wire \in [Ids -> Seq(Messages)]
    /\ fanned \in [Ids -> SUBSET Nat] /\ dropped \in [Ids -> SUBSET Nat]
    /\ refused \in [Ids -> SUBSET Nat]
    /\ \A i \in Ids : Len(deliveries[i]) <= Inflight /\ Len(queue[i]) <= QueueSize

(* Every variable has its type; the pipeline and the queue are bounded. *)
SubscriptionTypeOK == SubsTyped /\ PipelineTyped

(* x may be written before y: it is earlier, or it found a connection      *)
(* while y waited for the pool's lock.                                     *)
Before(x, y) == x.ev < y.ev \/ (~x.waited /\ y.waited /\ x.ev # y.ev)

(* Whatever fails, is dropped, renewed or answered out of order, the       *)
(* subscriber receives no event twice and events in the order in which     *)
(* Phase 2 scheduled them, but for one thing: a delivery that waited for   *)
(* the pool's lock, which get_connection() releases before the write lock  *)
(* is asked for, may be overtaken by later ones that did not wait.         *)
SendOrder ==
    \A i \in Ids : \A m, n \in DOMAIN wire[i] :
        m < n => Before(wire[i][m], wire[i][n])

(* "The receiver observes deliveries in tree-change order regardless of    *)
(* response interleaving" (subscription.py:840).                           *)
TreeChangeOrder ==
    \A i \in Ids : \A m, n \in DOMAIN wire[i] :
        m < n => changes[wire[i][m].ev] < changes[wire[i][n].ev]

(* What SendOrder rests on.  The deliveries v that were or are next to be  *)
(* written, the tasks t, the held event h, the queue q and the fan-out f   *)
(* of one subscription are one line: nothing is behind what was scheduled  *)
(* before it, tasks start in turn, and only who waits for the pool's lock  *)
(* can find itself overtaken.                                              *)
Stream(i) == wire[i] \o out[i]

InTurn(v, t, q, f) ==
    /\ \A m, n \in DOMAIN v : m < n => Before(v[m], v[n])
    /\ \A m, n \in DOMAIN t :
          m < n => t[m].ev < t[n].ev /\ (t[m].st = "created" => t[n].st = "created")
    /\ \A m, n \in DOMAIN q : m < n => q[m] < q[n]
    /\ \A m, n \in DOMAIN f : m < n => f[m] < f[n]

InLine(v, t, h, q, f) ==
    /\ \A m \in DOMAIN v :
          /\ \A n \in DOMAIN t :
                /\ t[n].st = "created" => v[m].ev < t[n].ev
                /\ t[n].st = "pool" => v[m].ev < t[n].ev \/ (~v[m].waited /\ v[m].ev # t[n].ev)
          /\ \A n \in DOMAIN q : v[m].ev < q[n]
          /\ \A n \in DOMAIN f : v[m].ev < f[n]
          /\ h # 0 => v[m].ev < h
    /\ \A m \in DOMAIN t :
          /\ \A n \in DOMAIN q : t[m].ev < q[n]
          /\ \A n \in DOMAIN f : t[m].ev < f[n]
          /\ h # 0 => t[m].ev < h
    /\ \A n \in DOMAIN q : h < q[n]
    /\ \A n \in DOMAIN f : h < f[n]
    /\ \A m \in DOMAIN q, n \in DOMAIN f : q[m] < f[n]

UpTo(v, t, h, q, f, last) ==
    /\ \A n \in DOMAIN v : v[n].ev <= last
    /\ \A n \in DOMAIN t : t[n].ev <= last
    /\ h <= last
    /\ \A n \in DOMAIN q : q[n] <= last
    /\ \A n \in DOMAIN f : f[n] <= last

Line(v, t, h, q, f, last) ==
    InTurn(v, t, q, f) /\ InLine(v, t, h, q, f) /\ UpTo(v, t, h, q, f, last)

LineAt(i) ==
    /\ worker[i] = "sem" <=> held[i] # 0
    /\ Line(Stream(i), deliveries[i], held[i], queue[i], fan, written)

OneLine == \A i \in Ids : LineAt(i)

(* Every event fanned out to a live subscription is somewhere: queued,     *)
(* held, in a delivery task, sent, refused, or counted as dropped.         *)
Pending(i) ==
    {queue[i][n] : n \in DOMAIN queue[i]}
        \cup {deliveries[i][n].ev : n \in DOMAIN deliveries[i]}
        \cup (IF held[i] = 0 THEN {} ELSE {held[i]})

NothingVanishes ==
    \A i \in Live :
        fanned[i] = Pending(i) \cup {wire[i][n].ev : n \in DOMAIN wire[i]}
                        \cup refused[i] \cup dropped[i]

(* What NothingVanishes rests on: a task that is over was written or       *)
(* refused, and an id that was not handed out has nothing.                 *)
OverIsKnown ==
    \A i \in Ids : \A n \in DOMAIN deliveries[i] :
        /\ deliveries[i][n].st = "sent" => \E m \in DOMAIN wire[i] : wire[i][m].ev = deliveries[i][n].ev
        /\ deliveries[i][n].st = "failed" => deliveries[i][n].ev \in refused[i]

IdsInTurn ==
    \A i \in Ids :
        /\ i \in Live => i < nextId /\ worker[i] \in {"none", "loop", "sem"}
        /\ i >= nextId =>
              /\ queue[i] = <<>> /\ deliveries[i] = <<>> /\ wire[i] = <<>> /\ held[i] = 0
              /\ out[i] = <<>>
              /\ fanned[i] = {} /\ dropped[i] = {} /\ refused[i] = {}
              /\ worker[i] = "none"

(* Who waits for the pool or for the write lock, or is writing. *)
Waits(i) == \E n \in DOMAIN deliveries[i] : deliveries[i][n].st \in {"pool", "out"}

(* Every event fanned out leaves the pipeline, sent, refused or with its   *)
(* subscription, if the subscriber does not hold up a delivery forever:    *)
(* only a dial or a write that never ends stops a worker.  No failure,     *)
(* answer that does not come, burst or lack of permits does, whatever the  *)
(* worker was doing when the subscription was renewed or removed.          *)
PipelineDrains ==
    \A i \in Ids : []<>~Waits(i) => ((Pending(i) # {}) ~> (Pending(i) = {}))

=============================================================================
