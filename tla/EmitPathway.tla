----------------------------- MODULE EmitPathway -----------------------------
(***************************************************************************)
(* The single write path of a peer: EmitPathway of storage/emit.py over    *)
(* the ContentStore and the EntityTree, with the IndexManager of           *)
(* storage/indexes.py as one of its internal hooks.                        *)
(*                                                                         *)
(* A write binds a hash to a path and then dispatches a ChangeEvent.       *)
(* Phase 1 calls the matching internal hooks synchronously and in          *)
(* registration order; a hook may itself write, which runs a whole nested  *)
(* write before the hook returns.  Phase 2 schedules one asyncio task per  *)
(* matching subscription.  The Python call stack is the variable `stack':  *)
(* one frame per _dispatch() in progress, the innermost last.              *)
(*                                                                         *)
(* What a hook does is left open: it writes where HookWrites allows, then  *)
(* returns a 2xx status, returns another status, or raises.                *)
(***************************************************************************)
EXTENDS Integers, Sequences, FiniteSets

CONSTANTS
    Paths,          \* tree paths
    Hashes,         \* content hashes; equal content has an equal hash
    None,           \* Python's None: no binding
    Hooks,          \* the internal hooks
    Matching,       \* Matching[p]: the hooks whose pattern matches p, in
                    \* registration order
    HookWrites,     \* HookWrites[k]: the paths hook k may write
    HookOps,        \* the write operations hooks use
    MayHalt,        \* the hooks that may return a non-2xx status or raise
    IndexHook,      \* query/index-manager
    ClockHook,      \* clock/advancement, the owner of context field "clock"
    Subs,           \* the subscriptions made with subscribe()
    Subscribers,    \* Subscribers[p]: those whose pattern matches p, in order
    SuppressDepth,  \* SUBSCRIPTION_SUPPRESS_DEPTH
    RefuseDepth,    \* SYSTEM_REFUSE_DEPTH
    MaxCalls,       \* bound: writes one hook call makes
    RecursionLimit, \* bound: Python's recursion limit, in dispatch frames
    MaxCommits      \* bound: events in one behaviour

Ops == {"emit", "emit_hash", "delete"}

ASSUME EmitAssumption ==
    /\ None \notin Hashes
    /\ None \notin Hooks
    /\ Matching \in [Paths -> Seq(Hooks)]
    /\ HookWrites \in [Hooks -> SUBSET Paths]
    /\ Subscribers \in [Paths -> Seq(Subs)]
    /\ HookOps \subseteq Ops
    /\ MayHalt \subseteq Hooks
    /\ SuppressDepth \in Nat /\ RefuseDepth \in Nat
    /\ MaxCalls \in Nat /\ RecursionLimit \in Nat /\ MaxCommits \in Nat

VARIABLES
    store,   \* hashes held by the content store
    tree,    \* EntityTree: path -> hash or None
    index,   \* type index: the set of <<path, hash>> entries
    depth,   \* _cascade_depth
    ctx,     \* _context_stack: per level, the event whose clock it holds (0: none)
    stack,   \* dispatches in progress: [seq, todo, calls]
    log,     \* the ChangeEvents, in the order their bindings committed
    tasks,   \* tasks created by Phase 2, in order: [sub, seq]
    last     \* the EmitResult of the write that returned last

vars == <<store, tree, index, depth, ctx, stack, log, tasks, last>>

Bindings == Hashes \cup {None}

Top == stack[Len(stack)]

Init ==
    /\ store = {}
    /\ tree = [p \in Paths |-> None]
    /\ index = {}
    /\ depth = 0
    /\ ctx = <<>>
    /\ stack = <<>>
    /\ log = <<>>
    /\ tasks = <<>>
    /\ last = [status |-> 200, seq |-> 0]

-----------------------------------------------------------------------------
(* A write is called from outside any cascade, or by the hook now running. *)
MayCall(op, u) ==
    \/ stack = <<>>
    \/ /\ stack # <<>>
       /\ Top.todo # <<>>
       /\ op \in HookOps
       /\ u \in HookWrites[Head(Top.todo)]
       /\ Top.calls < MaxCalls
       /\ Len(stack) < RecursionLimit

(* The caller's frame once it has made one more call. *)
Called ==
    IF stack = <<>> THEN <<>>
    ELSE [stack EXCEPT ![Len(stack)].calls = @ + 1]

(* Mutant: previous_hash read after the tree was set. *)
EventMutant(u, h, level) ==
    [ uri |-> u, hash |-> h, prev |-> h, level |-> level,
      done |-> <<>>, halted |-> None, skipped |-> <<>> ]

(* The ChangeEvent of a write of h at u (h = None: a delete).  `level' is *)
(* the value of _cascade_depth while the event is dispatched.             *)
Event(u, h, level) ==
    [ uri |-> u, hash |-> h, prev |-> tree[u], level |-> level,
      done |-> <<>>, halted |-> None, skipped |-> <<>> ]

(* _dispatch() begins for a new event: its frame is pushed. *)
BeginDispatch(e) ==
    /\ log' = Append(log, e)
    /\ stack' = Append(Called,
           [seq |-> Len(log) + 1, todo |-> Matching[e.uri], calls |-> 0])

(* A write that returns without dispatching. *)
ReturnAtOnce(status) ==
    /\ last' = [status |-> status, seq |-> 0]
    /\ stack' = Called
    /\ UNCHANGED <<index, depth, ctx, log, tasks>>

(* emit() and emit_hash() refuse at the system threshold. *)
Refused == depth >= RefuseDepth

(* The body shared by emit() and emit_hash(): refuse at the system         *)
(* threshold before anything is written, else bind, and dispatch only if   *)
(* the binding changed.  `put' is the content store after the write.       *)
Bind(u, h, put) ==
    IF Refused
    THEN /\ ReturnAtOnce(503)
         /\ UNCHANGED <<store, tree>>
    ELSE /\ store' = put
         /\ tree' = [tree EXCEPT ![u] = h]
         /\ IF tree[u] = h
            THEN ReturnAtOnce(200)
            ELSE /\ Len(log) < MaxCommits
                 /\ BeginDispatch(Event(u, h, depth + 1))
                 /\ ctx' = Append(ctx, 0)
                 /\ depth' = depth + 1
                 /\ UNCHANGED <<index, tasks, last>>

Emit(u, h) ==
    /\ MayCall("emit", u)
    /\ Bind(u, h, store \cup {h})

(* emit_hash() binds a hash that is already in the content store. *)
EmitHash(u, h) ==
    /\ MayCall("emit_hash", u)
    /\ h \in store
    /\ Bind(u, h, store)

(* delete() checks no threshold and opens no cascade level of its own. *)
Delete(u) ==
    /\ MayCall("delete", u)
    /\ tree' = [tree EXCEPT ![u] = None]
    /\ UNCHANGED store
    /\ IF tree[u] = None
       THEN ReturnAtOnce(200)
       ELSE /\ Len(log) < MaxCommits
            /\ BeginDispatch(Event(u, None, depth))
            /\ UNCHANGED <<index, depth, ctx, tasks, last>>

PutContentOnly(h) ==
    /\ stack = <<>>
    /\ store' = store \cup {h}
    /\ UNCHANGED <<tree, index, depth, ctx, stack, log, tasks, last>>

-----------------------------------------------------------------------------
(* Mutant: the previous hash's entry is left in the index. *)
ReindexedMutant(e) ==
    index \cup (IF e.hash = None THEN {} ELSE {<<e.uri, e.hash>>})

(* IndexManager.on_change_sync: drop the entry of the previous hash, add   *)
(* one for the new hash.                                                   *)
Reindexed(e) ==
    (index \ (IF e.prev = None THEN {} ELSE {<<e.uri, e.prev>>}))
        \cup (IF e.hash = None THEN {} ELSE {<<e.uri, e.hash>>})

(* set_context_field("clock", ...): the top context dict, if there is one. *)
Stamped(seq) ==
    IF ctx = <<>> THEN ctx ELSE [ctx EXCEPT ![Len(ctx)] = seq]

(* The running hook returns None or a 2xx status. *)
HookCompletes ==
    /\ stack # <<>> /\ Top.todo # <<>>
    /\ LET k == Head(Top.todo)
           e == log[Top.seq]
       IN  /\ index' = IF k = IndexHook THEN Reindexed(e) ELSE index
           /\ ctx' = IF k = ClockHook THEN Stamped(Top.seq) ELSE ctx
           /\ log' = [log EXCEPT ![Top.seq].done = Append(@, k)]
           /\ stack' = [stack EXCEPT ![Len(stack)] =
                  [Top EXCEPT !.todo = Tail(@), !.calls = 0]]
    /\ UNCHANGED <<store, tree, depth, tasks, last>>

(* The hooks the loop never reaches when the first of todo halts it. *)
AfterHalt(todo) == Tail(todo)

(* The running hook returns another status or raises (a RecursionError     *)
(* included): the loop breaks and the hooks after it are skipped.          *)
HookHalts ==
    /\ stack # <<>> /\ Top.todo # <<>>
    /\ Head(Top.todo) \in MayHalt
    /\ log' = [log EXCEPT ![Top.seq] =
           [@ EXCEPT !.halted = Head(Top.todo), !.skipped = AfterHalt(Top.todo)]]
    /\ stack' = [stack EXCEPT ![Len(stack)].todo = <<>>]
    /\ UNCHANGED <<store, tree, index, depth, ctx, tasks, last>>

(* Phase 2: one task per matching subscription, in subscription order. *)
Scheduled(seq) ==
    LET e == log[seq]
        ss == Subscribers[e.uri]
    IN  IF e.halted = None /\ depth < SuppressDepth
        THEN [i \in 1..Len(ss) |-> [sub |-> ss[i], seq |-> seq]]
        ELSE <<>>

(* Mutant: delete() gives back a level it never took. *)
LeaveLevelMutant(e) ==
    /\ depth' = depth - 1
    /\ ctx' = SubSeq(ctx, 1, Len(ctx) - 1)

(* The cascade level a finished write gives back: emit()'s finally block. *)
LeaveLevel(e) ==
    IF e.hash = None
    THEN UNCHANGED <<depth, ctx>>
    ELSE /\ depth' = depth - 1
         /\ ctx' = SubSeq(ctx, 1, Len(ctx) - 1)

(* Phase 1 is over: Phase 2, then the write returns to its caller. *)
FinishDispatch ==
    /\ stack # <<>> /\ Top.todo = <<>>
    /\ tasks' = tasks \o Scheduled(Top.seq)
    /\ LeaveLevel(log[Top.seq])
    /\ last' = [ status |-> IF log[Top.seq].halted = None THEN 200 ELSE 207,
                 seq |-> Top.seq ]
    /\ stack' = SubSeq(stack, 1, Len(stack) - 1)
    /\ UNCHANGED <<store, tree, index, log>>

-----------------------------------------------------------------------------
Write ==
    \/ \E u \in Paths, h \in Hashes : Emit(u, h) \/ EmitHash(u, h)
    \/ \E u \in Paths : Delete(u)
    \/ \E h \in Hashes : PutContentOnly(h)

Cascade == HookCompletes \/ HookHalts \/ FinishDispatch

Next == Write \/ Cascade

Spec == Init /\ [][Next]_vars

-----------------------------------------------------------------------------
Frames == [seq : Nat, todo : Seq(Hooks), calls : Nat]

Events == [ uri : Paths, hash : Bindings, prev : Bindings, level : Nat,
            done : Seq(Hooks), halted : Hooks \cup {None}, skipped : Seq(Hooks) ]

(* Every variable has its type, and every frame is that of a logged event. *)
TypeOK ==
    /\ store \subseteq Hashes
    /\ tree \in [Paths -> Bindings]
    /\ index \subseteq Paths \X Hashes
    /\ depth \in Nat
    /\ ctx \in Seq(Nat)
    /\ stack \in Seq(Frames)
    /\ log \in Seq(Events)
    /\ tasks \in Seq([sub : Subs, seq : Nat])
    /\ last \in [status : {200, 207, 503}, seq : Nat]
    /\ \A i \in 1..Len(stack) : stack[i].seq \in 1..Len(log)

(* The frame of the i-th dispatch belongs to an event of the log. *)
FrameEvent(i) == log[stack[i].seq]

(* The cascade level the i-th dispatch runs at is one more than its        *)
(* caller's for emit() and emit_hash(), and its caller's for delete().     *)
LevelBelow(i) == IF i = 1 THEN 0 ELSE FrameEvent(i - 1).level

LevelsNest ==
    \A i \in 1..Len(stack) :
        FrameEvent(i).level =
            LevelBelow(i) + (IF FrameEvent(i).hash = None THEN 0 ELSE 1)

(* emit.py, the try/finally around _dispatch: the shared counter and the   *)
(* context stack always agree with the dispatches in progress, so both are *)
(* back to empty after any cascade, halted or raised ones included, and no *)
(* cascade, however its hooks recurse, is deeper than the system limit.    *)
DepthAgrees ==
    /\ LevelsNest
    /\ depth = IF stack = <<>> THEN 0 ELSE FrameEvent(Len(stack)).level
    /\ Len(ctx) = depth
    /\ depth <= RefuseDepth

(* emit(): "binding commits here, before cascade fires".  The events of    *)
(* one path form a chain: each one's previous_hash is the hash of the      *)
(* event before it, no event announces a binding that did not change, and  *)
(* the tree holds the hash of the last one.                                *)
EventsAt(p) == {i \in DOMAIN log : log[i].uri = p}

IsLatestBefore(i, j, p) ==
    /\ i \in EventsAt(p) /\ i < j
    /\ \A k \in EventsAt(p) : k < j => k <= i

HashBefore(j, p, h) ==
    \/ \E i \in DOMAIN log : IsLatestBefore(i, j, p) /\ h = log[i].hash
    \/ (\A i \in EventsAt(p) : i >= j) /\ h = None

EventChain ==
    /\ \A j \in DOMAIN log : /\ HashBefore(j, log[j].uri, log[j].prev)
                             /\ log[j].hash # log[j].prev
    /\ \A p \in Paths : HashBefore(Len(log) + 1, p, tree[p])

(* _dispatch() accounts for every matching hook exactly once and in order: *)
(* completed, then the one that halted, then the skipped ones.             *)
Accounted ==
    \A j \in DOMAIN log :
        LET e == log[j]
            left == IF \E i \in DOMAIN stack : stack[i].seq = j
                    THEN stack[CHOOSE i \in DOMAIN stack : stack[i].seq = j].todo
                    ELSE <<>>
            broke == IF e.halted = None THEN <<>> ELSE <<e.halted>> \o e.skipped
        IN  e.done \o broke \o left = Matching[e.uri]

(* storage/indexes.py: "Indexes are synchronous with writes".  The index   *)
(* holds exactly the bindings of the tree, except at the paths of events   *)
(* whose dispatch has not reached the index manager yet.  It needs that no *)
(* hook registered before the index manager halts, or causes a write of    *)
(* the path whose event it is handling.                                    *)
Unindexed ==
    {FrameEvent(i).uri : i \in {n \in DOMAIN stack :
         \E m \in DOMAIN stack[n].todo : stack[n].todo[m] = IndexHook}}

IndexSynchronous ==
    \A p \in Paths \ Unindexed :
        {x \in index : x[1] = p} =
            IF tree[p] = None THEN {} ELSE {<<p, tree[p]>>}

(* What IndexSynchronous needs of the registration: the index manager      *)
(* matches every path, no hook up to it halts, and what those hooks write, *)
(* with all that the hooks of these writes write in turn, keeps away from  *)
(* the path.                                                               *)
UpToIndex(p) ==
    {m \in DOMAIN Matching[p] : \E n \in m..Len(Matching[p]) : Matching[p][n] = IndexHook}

Reaches(p, R) ==
    /\ \A m \in UpToIndex(p) : HookWrites[Matching[p][m]] \subseteq R
    /\ \A q \in R : \A m \in DOMAIN Matching[q] : HookWrites[Matching[q][m]] \subseteq R

IndexUndisturbed ==
    \A p \in Paths :
        /\ UpToIndex(p) # {}
        /\ \A m \in UpToIndex(p) : Matching[p][m] \notin MayHalt
        /\ \E R \in SUBSET (Paths \ {p}) : Reaches(p, R)

(* The tree never binds a hash the content store cannot resolve. *)
BoundIsStored == \A p \in Paths : tree[p] # None => tree[p] \in store

=============================================================================
