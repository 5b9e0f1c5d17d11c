# A TLA+ model of entity-core-py

entity-core-py is a peer of the Entity protocol.  A peer keeps a *tree* (paths
bound to content hashes) and a *content store* (hashes to entities).  Every write
goes through one *emit pathway*, which runs extensions synchronously as hooks and
schedules asynchronous listeners; handlers serve EXECUTE requests of local
callers and of remote peers; connections to remote peers are pooled, watched and
re-dialed.  The whole peer is one asyncio process: code between two `await`s is
atomic, and everything that is hard is in what happens at an `await`, and in how
synchronous hooks nest.

The modules here model the parts that carry this core, one module per part, from
the source under `src/packages/`.  Paths below are relative to
`src/packages/entity-core/src/entity_core/` and
`src/packages/entity-handlers/src/entity_handlers/`.

## Inventory

| component | state it keeps | operations | interacts with | hard behaviour |
|---|---|---|---|---|
| Emit pathway (`storage/emit.py`, `indexes.py`) | tree, content store, cascade depth, context stack, hooks, listeners | emit, emit_hash, delete, put_content_only, dispatch | every extension is a hook or a listener | nested dispatch, depth limits, halting consumers, order of notifications |
| Subscription (`subscription.py`) | index of subscriptions, a queue, a worker and an in-flight window for each | subscribe, unsubscribe, fan-out, deliver, terminate | listener of the pathway, sends through the connection pool | limits checked before they are counted, cancellation, full queues, order across several locks |
| Root tracker (`root_tracker.py`) | config index, a root binding per tracked prefix | config written or deleted, tree written | hook of the pathway, uses the trie | incremental root against rebuilt root, configs in any order |
| Auto-version (`auto_version.py`, `revision.py`) | cached configs, version DAG, head | tree written, config operation | hook after the root tracker, reads its root | cached config is stale, two configs written one after the other |
| Trie (`storage/trie.py`) | nodes in the content store | put, remove, build, diff | root tracker, revision | collapse at the bucket limit, diff of unlike shapes |
| Connection pool and liveness (`peer/remote.py`, `liveness.py`) | binding, keepalive loop and escalation per peer, status entities | dial, dispatch, evict, ping, escalate, release, close, stop | dispatch seam of the peer, network handler | late failures, timers racing reconnects, shutdown |
| Dialed connection (`peer/connection.py`) | pending futures, write lock, reader task | execute, read, time out, close | used by the pool and by deliveries | late answers, end of stream, blocked writer |
| Peer dispatch (`peer/peer.py`) | handlers, inbound semaphore, reentry table | serve a request | everything | concurrency limit, reentry |
| Connect handshake (`handlers/connect.py`) | connect state, session, connection record, reach-back channel | hello, authenticate, ping, end | peer, capabilities | steps out of order, an old connection ending after a newer one began |
| Revision (`revision.py`) | version DAG, branches, heads, remotes | commit, checkout, merge, fetch, push | tree, auto-version | merge bases, conflicts, heads moved meanwhile |
| Network (`network.py`) | maintained sessions, retry state | maintain, reconnect, restore, release, close | pool, subscription | retry pacing against late connects |
| Continuation (`continuation.py`) | suspended continuations, joins | suspend, advance, resume, abandon | inbox, dispatch | a result delivered twice or late |
| History, clock (`history.py`, `clock.py`) | per-path history chain, clock state | hooks of the cascade | emit pathway | nested writes to one path |
| Capabilities, roles, quorum, identity, attestation | tokens, grants, assignments, keys | create, delegate, revoke, assign, exclude, rotate | dispatch | revocation of derived tokens |
| Registry, relay, inbox, signaling, discovery | bindings, queued envelopes, rendezvous slots | resolve, forward, poll, offer | pool, network | duplicates, expiry |
| Compute, query, type handlers | reactive bindings, indexes | evaluate, query, validate | emit pathway | recomputation while a write nests |
| Local files, content, substitute, published roots | watched files, chunks, published sequence | sync, ingest, publish | tree | external changes during a sync |
| SDK, CLI, encodings, cryptography, type tables | none | pure functions, thin clients | all | none that a state model reaches |

`PROJECT.json` lists the components with their status and every hazard at the line
where it bites.  Storage is in memory: nothing survives a crash, so there is no
recovery to model.

## Modules

Actions are named after the method, or the moment of a method, they model; `map` in
`PROJECT.json` gives the lines of every definition.  An action is what one task does
between two `await`s.

The write path and what hangs on it:

* **EmitPathway** models `emit()`, `emit_hash()`, `delete()`,
  `put_content_only()` and `_dispatch()`.  The stack of open dispatches is the
  variable `stack`; a hook that is running may write (pushing a dispatch), complete
  or halt.  `depth`, the context stack, the index kept by `IndexManager` and the
  tasks scheduled for async listeners are state.  `log` and `done` are history
  variables that record the events in commit order and the results returned.
* **RootTracker** models the two hooks of `root_tracker.py`.  A cascade is atomic
  here, since both hooks run inside the write and write only root bindings, which
  they skip.  A root is the set of bindings its trie holds: `Trie` shows that the
  set determines the root.
* **AutoVersion** extends RootTracker with the hook of `auto_version.py` and the
  config operation of `revision.py`.  The variable `operator`, which never changes, says
  whether configs are written by that operation or by direct puts.  With direct puts a
  revision config is written only while its prefix is untracked (`RevisionPut`): the
  watcher of tracking configs is then the only reader, which is the discipline its
  docstring asks for.  Revision configs are valid ones.
* **History** models the history recorder and the clock as hooks of a cascade with its
  own stack of frames: the per-path chain of transitions, the config index, logical and
  hybrid clocks over a wall clock that may step back.
* **Compute** models the reactive part of `compute.py`: installed subgraphs, the index of
  what they depend on, the cascade of recomputations, freezing at the depth limit,
  restart.  **Evaluator** is the expression evaluator as a recursive function with its
  budgets and its word arithmetic.
* **Trie** models put, remove, collapse and diff on explicit nodes.  Key hashes are a
  constant function to digits, so keys collide to any chosen level.
* **TreeQuery** models the tree handler's put, delete, snapshot, extract and merge, the
  secondary indexes, and paged queries.
* **Revision** models commit, branch, checkout, pull, merge and conflict resolution on
  two peers that keep one prefix, each with its own tree, DAG and heads.
* **Subscription** models the index entry, queue, worker, permits and delivery tasks
  of each subscription.  A worker's `await`s (`queue.get()`, `sem.acquire()`, the final
  `gather()`) are separate states.  Its input are the tasks that Phase 2 creates: a
  cascade is one step (`TreeChange`), whose changes are scheduled in one of the orders
  nested dispatches can give (`Turns`), the inner ones first; `changes` remembers which
  turn tells of which change.  A delivery passes two locks: `get_connection()` returns what
  the pool has at once, or waits for the pool's lock and dials; then it waits for the
  write lock of the connection (`out`), which may also close under it.  The pool's lock
  is released in between, so who found the connection ready may overtake who waited.

Connections and requests:

* **Connection** models `execute()`, `_reader_loop()` and `close()`: futures, the write
  lock as a queue, the deadline as a step apart from the caller's resumption.  A write ends
  when the transport has taken it (`Drained`), which nothing makes it do.
* **Calls** is the abstract specification of what a connection promises its callers:
  every call has one outcome, a request is sent at most once, an answer is an answer to
  the call's own request, and a call fails only if the connection has ended.  Connection
  implements it under the mapping `CallOf`.
* **RemotePool** models one remote peer in the pool of `peer/remote.py`, its status
  entities, the dispatching and relaying callers, inbound connections, the
  release and close operations of the network handler, and `close_all()`.  Time is in
  ticks; a tick passes only when no timer has run out.  The notification that the close
  operation sends first is one of the dispatching calls.
* **Handshake** models the accepting side of connect: hello, authenticate, the session
  entity, the capability handed out, the reciprocal channel and the connection record,
  over several connections of one remote.  A connection ends in two steps, since handlers
  are awaited in between: the channel goes with the first (`CloseBegins`), the record with
  the second (`CloseEnds`).  Connections that this peer dials write the same record, and
  are left out.
* **Network** models maintain-peer, release and the backoff of `network.py`, with the two
  flows of it that may wait for the pool at the same time.  `DropSession` takes out of the
  table whatever session is there, as `_drop_session()` does, and cancels its retry.
* **Dispatch** models two peers that serve each other's requests with a bounded number of
  slots: queueing, reentry, cancellation at close, and the durability contract.  Writing a
  request or an answer is a step of its own that may never come, and a handler holds its
  slot over both; a reader that answers a frame itself reads no other meanwhile.
* **SubDispatch** models nested dispatches of handlers, credentials and bounds, while
  handlers are registered and removed.
* **Continuation** models standing continuations, forward and join, with the inbox that
  feeds them.  Calls interleave where the code awaits the target.
* **Relay** models put, forward and poll of relays with routes, deadlines and capacity.
* **Clock** declares the time that Handshake, Network and Relay read and the constant for
  an optional field that is not there; each of the three has its own tick and bound.
* **ContentFetch** models the retrieval of a blob: batches, frame budget, mirrors.
* **LocalFiles** models one mapped file with its reads, writes and reverse writes.
* **Signaling** models rendezvous nodes and the two peers that meet over them.

Authority and names:

* **Capability** models pattern and grant coverage and delegation chains, **Role** role
  tokens, **Attestation** liveness of attestations, **Identity** quorums, certificates and
  the capabilities that follow them (it uses Attestation).
* **Registry** models the issuer and the resolver of names, **NameGlob** the matcher of
  name patterns as its loop runs.

The **MC** modules give constants values for TLC.  Six of them (MCEmitPathway, MCLinks,
MCRequests, MCAuthority, MCVersions, MCDerived) hold several components that share
no state: the initial state chooses one of them in `part`, and the others stand still.
They extend the components the theorems are about (EmitPathway and Subscription;
RemotePool, Dispatch and Connection; Continuation,
SubDispatch, Handshake, Network and Relay; Role and Capability; TreeQuery, History and
Revision; Registry, Compute, NameGlob, LocalFiles and Signaling), whose variables and properties appear under their own names; the other
components are instantiated with `x1, x2, ...` for their variables.  A behaviour of such a module is a behaviour of one component.  The
variables of an extended component that stands still keep an initial value, of which its
property holds; each property of an instantiated component starts with the part it is
about.  Components in these modules state what they assume of their constants
as a definition (`PoolAssumption`, `RelayAssumption`, ...), which the MC module assumes of
its instance and the theorems take as a hypothesis.  Where two extended components would
use one name, the names carry the component (`RelayInit`, `PoolNext`, `ClosePeer`).  The modules named **_proofs** hold
the theorems.

## Runs

| run | what it checks | bounds |
|---|---|---|
| emit | emit pathway: depth accounting, chain of previous hashes, index in step.  Subscription: order of what is written, nothing vanishes unrecorded, the pipeline drains | emit pathway: the hook order of the standard peer, with the clock and the history recorder free to halt; three paths; deletes; four commits.  Subscription: one, with queue 1, window 2, three tree changes, one renewal, and a connection that comes and goes |
| versioning | tracked roots equal a rebuild; every wanted write is captured in the head | nested prefixes, one config name each, excludes by path and by type, configs by the operation or by puts, two versions of the outer prefix and one of the inner |
| links | pool: no binding removed on behalf of another, suspects settle.  Dispatch: what a reply says of durability is so, slots come back.  Connection: it implements Calls, a call on a closed connection fails at once, every call ends.  Fetch: a persistent caller gets the blob | pool: two dispatchers, a relay, two dials, inbound connections, release, close and shutdown at any moment.  Dispatch: one slot a peer, three calls.  Connection: three calls.  Fetch: four chunks, three mirrors, two faults |
| requests | joins fire on one round, no delivery lost, removed handlers stay out, relays do not drop, record and channel follow the newest connection, a maintained peer is retried | joins of two slots and two rounds; two peers and four frames; two relays and one message; two connections and two policies; two sessions and two flows |
| authority | excluded peers hold nothing, tokens follow definitions, no delegation grants more, liveness as intended, signer cache coherent, capabilities settle | two peers and roles; grants that differ in one dimension; one quorum, two signers and controllers |
| versions | merges agree, heads describe trees, diffs are exact, history heads name the binding, indexes agree, pages are complete | two peers, tries of one node, and five versions under the default strategies, three under the others, one of which adds a move; five keys that collide to two levels; two paths and writes; two entities and four paths |
| derived | resolved names hold, the matcher is right, peers meet, results are current, budgets only abort, files follow | one name and two peers; patterns and names of three characters; three nodes; three subgraphs with a cycle; nearly four hundred programs; three operations on a file |
| auto_enable (violation) | every wanted write is captured, with the config operation on a prefix that had a config | as versioning |
| sub_order (violation) | deliveries are in tree-change order, with changes made by hooks | four tree changes in cascades of up to two |
| network_dropped (violation) | a retry that was armed is not stranded, with two calls waiting for one dial | as requests |
| conn_truncated (violation) | failing fast after a frame that was cut short | two calls |
| files_burst (violation) | the file follows the tree, with two changes within the tracker's window | four operations |

Each violation run is a disagreement between the code and one of its own comments or
docstrings; the finding in `PROJECT.json` quotes it.

Why the bounds are enough.  The defects these properties look for need two actors and
one object: two nested writes of one path, two deliveries in the window, two callers of
one pool entry, two configs of nested prefixes, two handshakes of one peer, two peers that
merge.  Each instance has those, and one more where an order between three matters (three
calls on a connection, a ring of three calls, four commits, five versions).  `Interval` 2 and `Grace` 1 keep the
order of the default keepalive (30 s and 10 s); `MaxMissed` is 2 instead of 3, the least
that tells a first miss from the last.  The limits of cascade depth are 2 to 5
instead of the code's: what matters is a depth below, at and past each.  Named bounds
(`MaxCommits`, `MaxDials`, `MaxVersions`, `MaxOps`, ...) only stop counters; where such a
bound leaves nothing to do, the configuration says CHECK_DEADLOCK FALSE.  Symmetry is
declared only in runs that check no liveness, over sets the instance treats alike.

## Other disagreements met while modelling

The models follow the code here, and the properties are stated so as to hold of it.
Nothing below has a run of its own; file:line is the code, then the comment it differs
from.

* `subscription.py:1205` checks `max_events` when an event is taken off the queue, while
  the count moves when a delivery ends: up to a window of deliveries more than the
  maximum (line 57, "Maximum notifications before subscription terminates") are sent.
* `subscription.py:1062` drops the newest change when the queue is full; line 826 says
  the "oldest pending notifications for that subscription are dropped".
* `subscription.py:1244`: a worker that terminates its own subscription is cancelled by
  it, and the `gather()` it then awaits passes the cancellation on to the deliveries in
  flight; line 1240 says that they are not cancelled.
* `subscription.py:654` merges the limits with `None` although line 650 offers
  `server_limits` to operators.
* `root_tracker.py:235`: of two configs for one prefix, deleting or disabling one removes
  the root the other one still asks for.  `root_tracker.py:247`: a config pointed at
  another prefix leaves the old prefix's root behind.  Both are outside
  `OneConfigPerPrefix`, the assumption of the theorems below.
* `root_tracker.py:290` skips every event below the tracking configs' own path, "the
  config watcher handles those (it rebuilds explicitly)": it rebuilds the configured
  prefix only, so a tracked prefix that contains the configs misses them.
* `auto_version.py:160` runs on tracking-config events only, so a revision config written
  while tracking is on (another `exclude`, say) has no effect until the next one.
* `revision.py:3518` names the tracking config by replacing `/` with `-`: `a/b/` and
  `a-b/` share a name, and the second replaces the first.
* `auto_version.py:407` looks for a version entry at the head, where line 438 binds a
  `system/hash` wrapper: the dedup of line 17 never takes place, and a write that leaves
  the versioned root as it was makes a version all the same.
* `remote.py:616`: a connected status written by an inbound connection within the grace
  period ends the escalation, and the bound outbound connection has no keepalive loop
  any more (line 147, "one loop task per pooled outbound connection").
* `remote.py:678` sleeps a whole interval before it looks at the traffic: an idle death is
  noticed up to one interval later than `liveness.py:99` says.
* `remote.py:569`: with an interval shorter than the grace period a second episode can
  begin, on a new connection, while the first one's escalation is pending; that one finds
  another endpoint bound and ends, and nothing demotes the second (line 567, "one episode
  owes exactly one `disconnected` write").  The run keeps the default order of the two.
* `remote.py:878`: an escalation armed while `close_all()` waits for the others outlives
  it, which line 868 wants to exclude.
* `network.py:1229` evicts and records the close, and leaves the status entity as it was;
  `liveness.py:71` and `peer.py:1310` say that a close writes its terminal transition.
* `connection.py:405`: the wait for the write lock and `drain()` are outside the request
  deadline of line 104 ("a truly-stuck connection still surfaces within a bounded
  window").  The same holds of a nested request (`peer.py:651` against 524-527, "a stuck
  socket surfaces as a bounded timeout rather than parking the handler task"), and an
  answer is written with the handler's slot in hand (`peer.py:2849`, 2867): a remote that
  stops reading keeps the slots of the peer.  `EveryCallEnds`, `SlotsComeBack` and
  `PipelineDrains` say in their premise that no write is held up for ever.
* `peer.py:2669` says that the guard on the record keeps a re-handshake's fresh `active`
  from being clobbered.  Two connections established in one millisecond write the same
  record (`liveness.py:285`), and the first of them to end closes it for both.
  `FollowsNewest` counts both as newest.
* `history.py` keeps `max_depth` without pruning to it (lines 369-376 say so), and a
  transition refused at the depth limit (line 327) is lost silently.  A malformed
  config written over a good one leaves the good one in the index until a restart.
* `tree.py:1054`: a merge whose envelope does not carry the entities binds hashes whose
  entities the store lacks, and the indexes get no entries; lines 1039-1048 say that
  merged bindings keep "secondary indexes" consistent.  `IndexAgrees` is checked with
  envelopes that carry them.  `applied` counts refused writes, and a dry run ingests.
* `local_files/operations.py:521`: the stat that completes a cache entry is taken after the
  access, so a program that touches the file in between leaves a stale hit; `reverse.py`
  says hits occur only "when we can prove the file hasn't been touched after the cache
  write".  `local/files:delete` (line 894) removes the binding without an event.
* `substitute/http.py:226` answers a 403 of a mirror by ending the chain; the docstring at
  145 lists what ends it and what advances it differently.
* `content/sdk.py:273` is marked "Should be unreachable" and is reached when the source
  makes progress on every loop but does not finish within the limit.
* `peer.py:547`: a dispatch to another peer starts with a fresh `ttl`, so chains across
  peers are not ended by the 64 hops of `bounds.py:7`.
* `signaling/pool.py:175`: two peers whose pools differ in priorities or weights may choose
  disjoint nodes; `Meet` is checked and proved for nodes of one priority.  Expired buckets count
  against `max_keys` (`node.py:277`), and nothing calls `sweep`.
* `relay.py:641`: a poll's cursor passes entries that are stored behind it later;
  616-618 call it "Stable and resumable".  A hop whose next hop refuses still answers
  "forwarded", and the fallback store ignores `max_storage_bytes`.
* `network.py:490`: a call that waits for its dial while the peer is released and
  maintained anew goes on with the session it began with, which is out of the table: what
  it arms or subscribes is an orphan's; 510-514 say "The retry is armed".  `KeepsTrying` is
  stated of sessions that were neither released nor, as in the run `network_dropped`,
  taken out by another call's failure.
* Dispatch: a request that must be preserved and whose preserving write fails is served all
  the same, while the comment near `peer.py:5212` says that it is not performed; a failed
  durable operation keeps its preserved entry, so that its retry is refused as a duplicate.
* Handshake: the revocation of a capability is not consulted when a cached one is handed
  out again, and a held and a minted capability share one expiry.
* `registry.py:1057` answers from bindings fetched before; 32-34 say "v1 resolves live off
  the tree (no positive cache)".  A signature whose read was lost leaves its binding stored
  unsigned.  `registry.py:1208`: a `*` in a name matches as a wildcard of its own.
* `continuation.py:1310`: a counted join whose target is remote may fire more often than
  its count, since the decrement follows the await; line 674 says "Decrement
  remaining_executions via CAS".  `OneAtATime` is stated of targets that do not suspend.
  `inbox.py:250` raises `_cascade_depth` and does not restore it.
* Revision: writes made while a merge awaits are lost (1838-1843); fetched tries may be
  partial (3207), so that a later merge of a version below the fetched head reads the missing
  nodes as empty, and two peers make different versions of the same two parents: with a
  path in a deeper node (`Deep`) TLC finds this in ten steps.  `MergesAgree` is stated
  of tries of one node (`WholeTries`).  `status.pending` counts deletion markers for ever (1649); `resolve`
  bypasses the emit pathway; the nearest common ancestor is not always found by the
  breadth-first search.
* `role.py:1436`: unassign does not revoke the token, which the docstring at line 15 says
  it does; unexclude and re-derive restore the tokens of an assignment that was kept.
* `compute.py:4004`: the result of an expression that stores is written after the cascade
  its store started.  If that cascade changes what the expression reads, it is evaluated
  again inside, and the outer, older result is written last: the comparison at 3990 only
  asks whether the hash differs from the one bound.  `ResultsCurrent` is stated of expressions that are
  `Apart` from what is stored; TLC finds the stale result with an expression that reads
  the result of another one which reads the path it stores to.
* `compute.py:1763`: an over-budget range as the value of `assoc` keeps the exhaustion as
  an element and is not charged for (101-105), so that with a larger budget the whole may
  be a list, or exhausted elsewhere.  `BudgetOnlyAborts` says so of this place
  (`ExhaustionPlaced`) and promises of all others that an exhaustion is never a part of
  what is returned.  Install indexes a path as it is written and uninstall its normal form.
* `delegation.py:1261`: a grant with handler excludes does not cover itself, so it cannot be
  delegated unchanged (fail closed).  `delegation.py:1477` lets `/*/*` cover any handler,
  which as a handler pattern matches none (`checking.py:310`): a child of such a grant allows
  what the grant itself does not.  `NeverMore` is stated of grants that say any handler with
  a star.  `quorum.py:585` refuses a quorum signed by all of
  its resolved signers, and the signer cache (178-186) outlives a revocation until restart.

## Fairness

Nothing is assumed of the remote.  Where a step is up to it (a write that the transport
takes, a dial that comes to an end), the step has no fairness, and a liveness property that
depends on it says so in its premise: `[]<>~Waits(i)` in `PipelineDrains`, `WritesEnd` in
`SlotsComeBack`, `[]<>` of no call being in the middle of its write in `EveryCallEnds`.

* Subscription: weak fairness of fan-out and of each worker, of the start of delivery tasks
  and of their end: asyncio runs every ready task, and a notification that was written is
  answered, fails or meets the request deadline.
* RemotePool: weak fairness of due timers and of lock waiters, as above; strong
  fairness of `Tick`, because a tick is disabled while something is due and enabled again
  and again after it: callers that keep failing take real time.
* Connection: weak fairness of callers, deadlines and the cancelled reader.
* Dispatch: weak fairness of the slots of each peer, of each call that can proceed without
  a write, and of the cancellation at close: all are ready tasks or timers.
* ContentFetch: weak fairness of the caller, and of the arrival of each chunk at the
  source, which is an assumption about the source's own transfer.

## Proofs

TLAPS proves the results below for every value of the constants that the named
assumptions admit; TLC evaluates the assumptions on the instances of the runs.  Each
module of proofs goes the same way: the initial states have the invariant, each action
keeps it (one step per action), the invariant implies the property, and a temporal step
joins the three.  `[]` and refinement need no fairness, so the theorems are about the
specifications without it.

| module | theorems | assumptions |
|---|---|---|
| EmitPathway_proofs | TypeCorrect, DepthCorrect (`DepthAgrees`), ChainCorrect (`EventChain`), StoredCorrect; IndexCorrect (`IndexSynchronous`) | for the last, `IndexUndisturbed` |
| Links_proofs | of Connection InvCorrect, TypeCorrect, FailsFastCorrect (`FailsFast`), SenderCorrect, FuturesCorrect, ImplementsCalls (`KeepsPromise`) | none |
| | of RemotePool PoolTypeCorrect, NoClobberCorrect (`NoClobber`), NoneLostCorrect; OwedCorrect | `PoolAssumption`; for the last, `GraceIsShort` |
| | of Dispatch DispatchInvCorrect, DurabilityCorrect (`DurabilityIsHonest`) | `DispatchAssumption` |
| AutoVersion_proofs | of the tracker alone TrackedCorrect (`TrackedIsBuild`), UntrackedCorrect; with versions ImplementsTracker, TrackedStaysBuild (`TrackedIsBuild`), OrphansCorrect, CapturedCorrect (`Captured`) | `OneConfigPerPrefix`, except for ImplementsTracker |
| Subscription_proofs | TypeCorrect, OrderCorrect (`SendOrder`), AccountsCorrect (`NothingVanishes`) | the module's own on its constants |
| Versions_proofs | of TreeQuery InvCorrect, IndexCorrect (`IndexAgrees`), ScanCorrect (`ScanComplete`) | `TreeAssumption`, `CompleteEnvelopes` |
| | of History HistoryInvCorrect, HeadCorrect (`HeadIsBinding`) | none |
| | of Revision RevisionInvCorrect, MergesAgreeCorrect (`MergesAgree`), HeadDescribesCorrect (`HeadDescribesTree`) | `RevisionAssumption`, `WholeTries` |
| Requests_proofs | of Continuation RoundInvCorrect, RoundPureCorrect (`RoundPure`), LocalInvCorrect, OneAtATimeCorrect (`OneAtATime`) | `ContinuationAssumption` |
| | of SubDispatch SubDispatchInvCorrect, StaysOutCorrect (`UnregisteredStaysOut`), CallerCorrect (`CallerSurvives`) | `SubDispatchAssumption` |
| | of Relay NotDroppedCorrect (`NotDropped`) | `RelayAssumption` |
| | of Handshake FollowsNewestCorrect (`FollowsNewest`) | `HandshakeAssumption` |
| | of Network KeepsTryingCorrect (`KeepsTrying`) | `NetworkAssumption` |
| Derived_proofs | of Registry AnswersCorrect (`AnswersHold`) | `RegistryAssumption` |
| | of Compute ResultsCorrect (`ResultsCurrent`) | `ComputeAssumption` |
| | of NameGlob GlobInvCorrect, GlobCorrect (`GlobIsRight`) | `GlobAssumption` |
| | of LocalFiles FilesInvCorrect, FollowsCorrect (`FileFollowsTree`) | `FilesAssumption`, `Spaced`, not `Races` |
| | of Signaling SignalingInvCorrect, MeetCorrect (`Meet`) | `SignalingAssumption` |
| Role_proofs | of Role RoleInvCorrect, ExcludedCorrect (`ExcludedHoldsNothing`), FollowCorrect (`TokensFollowDefinition`) | `RoleAssumption` |
| | of Capability CapabilityInvCorrect, NeverMoreCorrect (`NeverMore`) | `CapabilityAssumption` |

**Emit pathway.**  The depth proof carries that the levels of the open dispatches count
down from the top of the stack.  The chain of previous hashes is not inductive alone: an
event is logged from the binding in the tree, so the invariant adds that the tree at every
path is what the latest logged event of that path left there, and that the initial tree is
what the first event of a path refers to.  The index is in step only if nothing comes
between a write and the index manager's turn.  `IndexUndisturbed` says so of the
registered hooks: the index manager is among those of every path, no hook up to it may
halt, and what those hooks write, and what the hooks of those writes write in turn, stays
within a set of paths that does not hold the first.  The standard order of the peer
satisfies it.  The invariant follows each pending dispatch: the rest of its hooks is a
suffix of those of its path, the dispatches above it are of paths within its reach, the
tree still binds what its event says, and everywhere else the index is current.

**Connection.**  The invariant `ConnInv` says what a call in each of its states is owed:
an entry in the table for an open future, as long as a reader is left to complete it
(`Awaited`); an answer that was read for a future that is done (`FuturesFollow`); nothing
on the wire for a call that has not sent (`Unsent`); a connection closed or cut for a
future that failed (`EndsAreKnown`); and no open future of a sent call behind an ended
reader (`NoneLeft`).  With it each action is shown to be a
step or a stutter of Calls under `CallOf`.  The deadline that cancels a future in the same
loop iteration in which the reader pops it is the case the invariant is there for.

**Pool.**  `NoClobber` needs only types; `NoneLost` rests on the second look under the
pool lock (`OneDials`).  `SuspectIsOwed` is about timers: a replaced endpoint's escalation
must be over before the new endpoint's keepalive first pings, which holds as the grace
period is shorter than the interval (`GraceIsShort`; the defaults are 10 s and 30 s) and
both clocks tick together.  `EscalationsFollow` compares the two timers.  Without
`GraceIsShort` the theorem is false, as the section on disagreements says.

**Dispatch.**  A durability verdict is settled before the handler runs and reported after
it, with other calls and the end of the connection in between.  `CallsOK` follows it from
one to the other: a call that waits for its slot has not run; one whose handler runs was
preserved if its verdict says that something is applied, and has, if the level was a
must, that level now or as a promise (`Fair`), unless its preserving write was lost.
`QueuesOK` says that the entries of a queue are calls that are still queued there, so that
a slot starts a handler once.

**Roots and versions.**  `RootInv` adds to the tracker's properties that the configs in
the tree are allowed ones and that the watcher's index agrees with them.
`OneConfigPerPrefix` is needed, for each of its parts the section on disagreements has a
case: each prefix has one possible config name and each name one prefix, and no tracked
prefix contains the configs.  A name given by `revision.py:3518` may collide (`a/b/` and
`a-b/`), and then the theorems say nothing.  AutoVersion is proved to implement RootTracker step by step, from
which the roots stay right under the config operation and the versions.  `OneChain` says
that the versions of a prefix are numbered along their parents and the head is the last;
`ConfigsFollow`, for configs put directly, that the extension holds exactly what the
revision configs of the tracked prefixes say, so that a write it fires for is a write that
is wanted.  `Captured` follows since the root it versions is the tracker's.

**Subscriptions.**  The order is proved on one line of parts: what is on the wire, who
waits for the write lock, the delivery tasks, the event the worker holds, the queue, the
fan-out tasks (`OneLine`).  Every event in a part was scheduled before every event in the
parts behind it, except for the delivery that waits for the pool's lock: it may be
overtaken by later ones that did not wait, and `Before` admits this of the wire.  Tasks
start in turn (`InTurn`).  The lemmas named `Line...` show of each move between parts, as
values, that the line stays a line; the steps then only say which move an action makes.
The accounts are proved on the sets
of events of the parts, with `OverIsKnown` (a task that is over was written or refused, so
ending it loses nothing) and `IdsInTurn` (an id not yet handed out has nothing, so a new
subscription starts with empty books; a live one has no drained worker).

**Tree and indexes.**  An index entry is removed by what the binding it belongs to says,
so the indexes stay right only if every bound hash is stored, at the moment it is bound and
afterwards: `BoundIsStored`, and for a merge `SnapsAreStored`, since what is merged was
named by a snapshot.  `QueryInv` joins them with the types and `IndexesRight`, which
describes each index as the set of the entries of all bindings; `IndexAgrees` follows.
`CompleteEnvelopes` says that a client merges an envelope only where the peer has, or the
envelope brings, all that its snapshot names.  Without it the theorem is false, and TLC
shows so: a merge binds by hash what is not stored, and the index manager passes over it.

A cursor is a number of matches, so a scan is proved on places.  `Below` counts the matches
before a path; `Placed` shows that the sorted answer holds each match at that place, for
which paths must be ordered (pairs of integers) and finite in number; `PageHolds`, that a
page holds the places it covers.  `ScanInv` says that a path owed to the client and not yet
on a page is at or behind the cursor, with more pages to come.  A page moves the cursor
only over what it holds; a change that takes no match away leaves every path at its place
or further back (`RankGrows`).  A change that takes one away moves the others to the front,
past the cursor, which is why `ScanComplete` promises nothing then.

**History.**  The head of a recorded path names the binding once the cascade is over; while
it runs, the last change of a path may still wait for the recorder.  `HistoryInv` says that
its dispatch is then the one on top of the stack and has not passed the recorder.  That
rests on two facts about nested writes: the dispatches below the top have all passed it,
since a hook writes only while its own dispatch is past it or is the recorder itself
(`Under`), and what the top one tells of is still bound (`Fresh`).

**Continuations.**  `RoundInv` follows every delivery by number: a slot, a fire and the
copy a suspended call holds name deliveries that were made and, where the
join has a deadline, for the round of the entity they are in; a fire that is not partial
names one for each slot.  It holds with any number of calls suspended at once, which is
what makes a copy stale.  `LocalInv` is about targets on the peer: at most one call is in
the middle of its advance, what it holds is still what is bound, the executions left and
those over make up the count that was installed, and each delivery is in a slot, in a
fire, stored, or reported in a marker.

**Nested handlers.**  A handler starts under its own grant, and `GrantsFollow` says that
only what is registered has one; that the implementation is still in memory does not help
it.  `OneCaller` says that of two frames of one peer, one on top of the other, both carry
the same caller and author; it is inductive because a call to another peer changes the
peer, and from it `CallerSurvives` follows by the least frame that would differ.
`CallerSurvives` has a theorem and no run of its own.

**Relays.**  A request that one relay passed to another carries the message of its parent
(`SameMessage`); with it `ToldKept`, which is `NotDropped` itself, is inductive.  What was
stored, delivered or refused stays so (`KeptGrows`), and a stage becomes "forwarded" or
"queued" only in a step that delivers, stores, or hands the message to a relay whose own
answer is one of these or a refusal.

**Handshake.**  `FollowsNewest` is inductive with two facts: connections were established
in the past (`Latest`), so that the one being established is a newest, and before the first
there is no channel (`NothingYet`).  A connection that ends closes the record only if the
record is the one it wrote, hence if it was established when the newest was, and gives up
the channel only if the channel is its own.

**Network.**  A session that was neither released nor dropped is the one in the table
(`InTheTable`), so `KeepsTrying` is proved of that one (`CurrentTries`, `CurrentSuffices`).
It is inductive with `Recorded` (a connection is recorded as connected, so that losing it is
an event, and a demotion is dated, so that its backoff can be exhausted) and `Hears` (the
session in the table has its lifecycle subscription once its graph is complete).  The steps
that could leave a session with nothing under way are those that end an operation, fire a
timer, deliver an event or drop a session; each of them arms a timer, starts another
operation or leaves the table empty (`TableStays`, `TableLeft`).

**Registry.**  A resolution holds a binding over several exchanges.  `FetchKnows` says what
it may rely on at each of them: what was revoked when it began is revoked still, what it
fetched is a dated binding, and once the revocation has been read a binding revoked at the
beginning is one the resolver knows of, so that the validation at the end refuses it.

**Compute.**  The result of a subgraph may be out of date only while somebody in the
cascade is going to look at it: a hook with an entry of the subgraph still to do, or a
freeze or result on its way (`InHand`).  `WantedCurrent` says that an active subgraph is
current or in hand, and that every path its expression reads is indexed (`Covered`);
`ResultsHeld`, that the result held while a cascade of its own store runs is still what the
expression says.  A write of a path makes stale only subgraphs whose entries the hook it
starts finds (`Matching`), and a step of a frame takes care of what it drops from the
frame.  The invariant holds of expressions that are `Apart`; the section on disagreements
says what the others do.

**Names matched.**  A pattern means a division of the name among its characters, in which a
star takes any stretch and another character exactly itself.  `Fits` asks for one between
the rest of the pattern and the rest of the name, and the loop keeps the answer to that
question: with no star passed, what it has passed agrees, and the whole matches just if the
rests do (`RestOfAll`); behind a star, what was passed since agrees, and the whole matches
just if the star's rest does from where the star last gave way or from some later place
(`SinceStar`).  Characters that are no stars are matched in one way only (`RunFits`), so
where the next one differs the star may give way by one without losing a match, and a later
star may replace an earlier one.  That a rest divides in only one way, or not at all, is
shown by the least place where it would differ.  `GlobAssumption` says that no name holds a
star, which the loop would match with itself where the pattern's could stand for more.

**Files.**  `FilesInv` follows a change of the tree path to the disk.  There is at most one
job, and it brings what the tree is bound to (`JobsOK`).  A job that the write tracker would
take for an echo was scheduled by an operation that had just moved the file itself, so that
dropping it loses nothing: this is where changes within the window of an earlier one, which
`Spaced` excludes, would break the invariant, as the run `files_burst` shows.  A job that
finds its content in the stat cache ends without a write, so `CacheRight` says that a cached
hash is the file's unless the entry is racy: every entry is stored with the content that was
read or written just before, which another program between the access and the stat (`Races`)
could have replaced.

**Versions.**  Two versions of the same two parents are one because the root of a merge is
a function of its parents (`Agreed`) and no version is in the DAG twice (`Distinct`).  The
function reads the nearest common ancestor that the search finds, and a version may be
merged again long after it was made: `AncestorSame` says that the search gives the same
answer in any DAG that extends the one it was first run in, since every turn reads only
versions that its queues name, and these are ancestors of the two it started from.  The
search and the ancestors are recursive functions of numbers; their defining equations are
proved by the least number at which they fail.  Head describes the tree because a version
binds, to a value or a marker, all that its ancestors bind, but for what some operation
dropped (`Covers`, by parents, and `AncestorsCovered` from it): so whatever a fast-forward or
a merge lays over the tree covers all that the head it leaves has bound.  `WholeTries` says
that a version which was fetched can be read whole.

**Meeting.**  Two pools of one tier that differ by at most one node: the heaviest node of
the smaller one has at most one node above it in the larger, so both peers, who try two
nodes or more, choose it (`ChoicesIntersect`); if the smaller is empty the peer has nobody
to ask and `Meet` says nothing.  At a node chosen by both, `MetAt` follows the current
request.  As long as it is fresh it lies in the bucket, since a node adds and never evicts.
A round begun after it finds it and keeps it among the requests to answer until the answer
lies there too, so a round polled to its end left the answer.  The answer names the
request's nonce and nonces are used once (`NoncesOnce`), so it was left after the request
and is not reaped before it.  `SignalingAssumption` says that all nodes are of one priority
and that at least two are tried; what the third peer leaves, the rate limits and full
buckets only decide which offers are refused.

**Roles.**  `Good` says that a token is bound only if it was minted, that a link names a
token of its own assignee, and that an excluded peer holds none; `Follows`, that linked
tokens carry the grants of the definitions.  A cascade passes over the assignments of
excluded peers, so `Follows` survives it only together with `Good`.  Each write of a token
is shown to leave at most the new token with an excluded peer (`WritesIs`), whichever side
of it the exclusion lands, and the check after the last write takes that one back
(`Settled`).  The cascade over the assignments is a recursive function of the path's
number.  Its defining equation is proved, and then that each assignment passed carries the
new definition; both by the least path at which the claim fails, so that no theorem with
an operator as a parameter is needed.

**Delegation.**  Three comparisons decide what a child may say: a pattern covers another,
matches another, or matches a path, each read segment by segment with a star for the rest
or for the peer.  What a pattern covers matches no more than it (`CoversMatches`), and what
it matches, matched in turn, it matches (`MatchesTransitive`); so a scope within another one
holds no more, each in its own frame (`PathsWithin`), and a grant within another one allows
no more (`GrantWithin`).  Handlers need a case of their own, because `grant_subset()`
canonicalizes only the child's excludes: no relative exclude of a parent is ever inherited,
so such a parent covers nothing (`HandlersWithin`).  The invariant says of a token minted by
request what was checked at that moment, and of every token that its parent is an earlier
one.  From the latter the defining equation of `Chain` is proved; `Verified` compares
neighbours of the chain, and `AlongChain` goes from one to the next.
`CapabilityAssumption` says that handlers are registered at relative paths, that targets are
canonical, and that no grant names its handlers by `/*/*`.

Only model-checked: every liveness property (`PipelineDrains`, `EveryCallEnds`, `Settles`,
`SlotsComeBack`, `FetchEnds`), since fairness and ENABLED are out of the prover's
reach; `DiffIsExact`, `BudgetOnlyAborts`, `LiveAsIntended`, `CacheCoherent` and
`CapsSettled`, which are about modules with recursive operators (Trie, Evaluator,
Attestation, Identity), which the prover cannot read; and what becomes of versions whose
tries have nodes below the root, which the theorems of Revision leave out.

## Not modelled

Byte encodings, signatures and hash functions; type tables, SDK, CLI and conformance
tools; HTTP transport glue; published roots.  Within the modelled parts: the query operation,
vector clocks and ticks of history; listings, diffs and type wildcards of the tree; root
configuration and streaming of local files; signatures and namespaces of substitutes;
limits advertised by signaling nodes, reflection and hole punching; relay advertisement
and inbox-relay; the dialing side's checks in the handshake; custom merge handlers,
keep-both, tags and shallow pulls of revision; token expiry in roles; constraints and
allowances of capabilities; modes of certificates; handler application in the evaluator.
Storage is in memory, so a crash loses everything and there is no recovery to check.

