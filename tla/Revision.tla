------------------------------ MODULE Revision ------------------------------
(***************************************************************************)
(* The version DAG of one prefix on several peers: revision.py.            *)
(*                                                                         *)
(* A version is content-addressed, so it is its root and its parents and   *)
(* every peer that makes the same pair makes the same version.  A version  *)
(* is numbered in the order of its first appearance anywhere; its hash is  *)
(* only compared, and the order of the hashes is chosen at the start.      *)
(*                                                                         *)
(* A root maps each path to a value, to the deletion marker or to nothing. *)
(* A local operation runs without an await; a pull waits for the remote    *)
(* between its fetch and its merge.  Auto-version is off.                  *)
(***************************************************************************)
EXTENDS Naturals, Sequences, FiniteSets

CONSTANTS
    Replicas, PrefixPaths, Contents, Branches,
    Marker,       \* the canonical system/deletion-marker
    Absent,       \* no binding; also no active branch
    Deep,         \* the paths kept in one node below the root node of the trie
    Policies,     \* the strategies that may be in force: [request, config, deletion,
                  \* markerFirst], and bounds on the versions and the moves made
    MaxDirty      \* bound: the writes not yet described by a version

RevisionAssumption ==
    /\ Marker # Absent /\ Marker \notin Contents /\ Absent \notin Contents \cup Branches
    /\ \A s \in Policies : s.versions \in Nat

(* A trie is one node, so a version that was fetched can be read whole. *)
WholeTries == Deep = {}

VARIABLES
    versions,  \* the versions made so far: [root, parents]
    rising,    \* whether later versions have higher hashes
    policy,    \* the strategies, the same on every peer
    known,     \* peer -> the version entries in its content store
    nodes,     \* peer -> the nodes below root nodes in its content store
    head,      \* peer -> the version head points to, 0 if there is none
    active,    \* peer -> the active branch, or Absent
    branch,    \* peer -> branch -> version, 0 if there is none
    live,      \* peer -> path -> the value bound in the tree, or Absent
    conflicts, \* peer -> paths with a conflict entity
    fetched,   \* peer -> the remote head a pull waits to merge, or 0
    dirty,     \* peer -> paths written since head last described them
    dropped,   \* paths some operation has unbound without a marker
    moves      \* merges of a chosen version, checkouts, branches, picks and resolutions so far

revisionVars == <<versions, rising, policy, known, nodes, head, active, branch, live, conflicts,
          fetched, dirty, dropped, moves>>

Unbound == [x \in PrefixPaths |-> Absent]

RevisionInit ==
    /\ versions = <<>> /\ rising \in BOOLEAN /\ policy \in Policies
    /\ known = [p \in Replicas |-> {}] /\ nodes = [p \in Replicas |-> {}]
    /\ head = [p \in Replicas |-> 0]
    /\ active = [p \in Replicas |-> Absent]
    /\ branch = [p \in Replicas |-> [b \in Branches |-> 0]]
    /\ live = [p \in Replicas |-> Unbound]
    /\ conflicts = [p \in Replicas |-> {}]
    /\ fetched = [p \in Replicas |-> 0]
    /\ dirty = [p \in Replicas |-> {}] /\ dropped = {} /\ moves = 0

-----------------------------------------------------------------------------
(* Hashes and ancestry. *)
Lower(v, w) == IF rising THEN v < w ELSE v > w

(* sorted_parents(). *)
SortedParents(v, w) == IF Lower(v, w) THEN <<v, w>> ELSE <<w, v>>

Ids == DOMAIN versions
ParentsOf(v) == LET ps == versions[v].parents IN {ps[i] : i \in DOMAIN ps}

(* _walk_history(), _is_ancestor(): parents are older than their children. *)
AncestorsOf[v \in Ids] == {v} \cup UNION {AncestorsOf[u] : u \in ParentsOf(v)}

(* _find_common_ancestor(): two searches advance in turn.  A version has at most two parents. *)
Unseen(parents, i, seen) ==
    IF i \in DOMAIN parents /\ parents[i] \notin seen THEN <<parents[i]>> ELSE <<>>
SearchTurn(s, mine, other) ==
    IF s.found # 0 \/ s.queue[mine] = <<>> THEN s
    ELSE LET v == Head(s.queue[mine])
             rest == Tail(s.queue[mine])
             parents == versions[v].parents
             seen == s.seen[mine] \cup {v}
         IN IF v \in s.seen[other] THEN [s EXCEPT !.found = v]
            ELSE IF v \in s.seen[mine] THEN [s EXCEPT !.queue[mine] = rest]
            ELSE [s EXCEPT !.queue[mine] = rest \o Unseen(parents, 1, seen) \o Unseen(parents, 2, seen),
                           !.seen[mine] = seen]

CommonAncestor(v, w) ==
    LET start == [found |-> 0, queue |-> [i \in 1..2 |-> IF i = 1 THEN <<v>> ELSE <<w>>],
                  seen |-> [i \in 1..2 |-> {}]]
        search[n \in 0..2 * policy.versions] ==
            IF n = 0 THEN start ELSE SearchTurn(SearchTurn(search[n - 1], 1, 2), 2, 1)
    IN IF v = w THEN v ELSE search[2 * policy.versions].found

(* _check_relationship(). *)
Relationship(local, remote) ==
    CASE local = remote -> "in_sync"
      [] local \in AncestorsOf[remote] \ {remote} -> "behind"
      [] remote \in AncestorsOf[local] \ {local} -> "ahead"
      [] OTHER -> IF CommonAncestor(local, remote) # 0 THEN "diverged" ELSE "unrelated"

(* _normalize_merge_sides(), merge_order deterministic. *)
MergeSidesMutant(v, w) == <<v, w>>
MergeSides(v, w) == SortedParents(v, w)

-----------------------------------------------------------------------------
(* Bindings. *)
DeepPart(root) == [x \in Deep |-> root[x]]

(* _get_version_bindings(): a node that is not in the store reads as empty. *)
BindingsAt(p, v) ==
    IF v = 0 THEN Unbound
    ELSE [x \in PrefixPaths |-> IF x \in Deep /\ DeepPart(versions[v].root) \notin nodes[p]
                          THEN Absent ELSE versions[v].root[x]]

Logical(h) == IF h = Marker THEN Absent ELSE h

(* The live bindings, with a marker wherever the parent binds a path that they do not. *)
SnapshotMutant(p) == live[p]
Snapshot(p) ==
    LET parent == BindingsAt(p, head[p])
    IN [x \in PrefixPaths |-> IF live[p][x] = Absent /\ parent[x] # Absent THEN Marker ELSE live[p][x]]

(* _find_deletion_resolution(): one side is the marker, the other is the value h. *)
DeletionWins ==
    \/ policy.deletion = "deletion-wins"
    \/ policy.deletion = "deterministic" /\ policy.markerFirst

(* _merge_bindings() for one path: what the merge binds, and whether it is a conflict. *)
Choose(h, clash) == [binding |-> h, conflict |-> clash]
MergePath(base, local, remote) ==
    LET deleted == Marker \in {local, remote} /\ Absent \notin {local, remote}
        entity == IF local = Marker THEN remote ELSE local
    IN IF local = remote \/ policy.request = "target-wins" THEN Choose(local, FALSE)
       ELSE IF policy.request = "source-wins" THEN Choose(remote, FALSE)
       ELSE CASE local = base -> Choose(remote, FALSE)
              [] remote = base -> Choose(local, FALSE)
              [] OTHER ->
                 IF deleted THEN
                     IF policy.deletion = "three-way-fallthrough" THEN Choose(local, TRUE)
                     ELSE Choose(IF DeletionWins THEN Marker ELSE entity, FALSE)
                 ELSE IF policy.config = "source-wins" THEN Choose(remote, FALSE)
                 ELSE IF policy.config = "target-wins" THEN Choose(local, FALSE)
                 ELSE Choose(local, TRUE)

(* _apply_bindings_to_tree(), preserve_unknown: markers unbind, the rest is left alone. *)
Applied(bindings, now) ==
    [x \in PrefixPaths |-> IF bindings[x] = Absent THEN now[x] ELSE Logical(bindings[x])]

BoundIn(bindings) == {x \in PrefixPaths : bindings[x] # Absent}

-----------------------------------------------------------------------------
(* content_store.put() of a version and of its trie, then _update_head_and_branch(). *)
Advance(p, v) ==
    /\ head' = [head EXCEPT ![p] = v]
    /\ branch' = IF active[p] = Absent THEN branch ELSE [branch EXCEPT ![p][active[p]] = v]

Record(p, root, parents) ==
    LET made == [root |-> root, parents |-> parents]
        same == {v \in Ids : versions[v] = made}
        v == IF same = {} THEN Len(versions) + 1 ELSE CHOOSE w \in same : TRUE
    IN /\ v <= policy.versions
       /\ versions' = IF same = {} THEN Append(versions, made) ELSE versions
       /\ known' = [known EXCEPT ![p] = @ \cup {v}]
       /\ nodes' = [nodes EXCEPT ![p] = @ \cup {DeepPart(root)}]
       /\ Advance(p, v)

HeadParents(p) == IF head[p] = 0 THEN <<>> ELSE <<head[p]>>

(* A write through the emit pathway, from outside the revision handler. *)
Write(p, x, h) ==
    /\ Cardinality(UNION {dirty[q] \X {q} : q \in Replicas} \cup {<<x, p>>}) <= MaxDirty
    /\ live[p][x] # h
    /\ live' = [live EXCEPT ![p][x] = h]
    /\ dirty' = [dirty EXCEPT ![p] = @ \cup {x}]
    /\ UNCHANGED <<versions, rising, policy, known, nodes, head, active, branch, conflicts, fetched, dropped>>

(* _handle_commit(). *)
CommitVersion(p) ==
    /\ dirty' = [dirty EXCEPT ![p] = {}]
    /\ IF head[p] # 0 /\ versions[head[p]].root = Snapshot(p)
       THEN UNCHANGED <<versions, known, nodes, head, branch>>
       ELSE Record(p, Snapshot(p), HeadParents(p))
    /\ UNCHANGED <<rising, policy, active, live, conflicts, fetched, dropped>>

(* The fast-forwards of _handle_merge(): with no head, and when behind. *)
FastForward(p, v) ==
    LET bindings == BindingsAt(p, v)
    IN /\ Advance(p, v)
       /\ live' = [live EXCEPT ![p] = Applied(bindings, @)]
       /\ dirty' = [dirty EXCEPT ![p] = @ \ BoundIn(bindings)]
       /\ UNCHANGED <<versions, known, nodes, conflicts, dropped>>

(* _handle_merge() of diverged or unrelated histories. *)
MergeVersions(p, v) ==
    LET sides == MergeSides(head[p], v)
        local == BindingsAt(p, sides[1])
        remote == BindingsAt(p, sides[2])
        base == BindingsAt(p, CommonAncestor(sides[1], sides[2]))
        merged == [x \in PrefixPaths |-> MergePath(base[x], local[x], remote[x])]
        root == [x \in PrefixPaths |-> merged[x].binding]
    IN IF versions[head[p]].root = versions[v].root
       THEN /\ Record(p, versions[v].root, SortedParents(head[p], v))
            /\ UNCHANGED <<live, dirty, conflicts, dropped>>
       ELSE /\ Record(p, root, SortedParents(head[p], v))
            /\ live' = [live EXCEPT ![p] = Applied(root, @)]
            /\ dirty' = [dirty EXCEPT ![p] = @ \ BoundIn(root)]
            /\ conflicts' = [conflicts EXCEPT ![p] = @ \cup {x \in PrefixPaths : merged[x].conflict}]
            /\ dropped' = dropped \cup ((BoundIn(local) \cup BoundIn(remote)) \ BoundIn(root))

(* _handle_merge(). *)
MergeFrom(p, v) ==
    /\ CASE head[p] = 0 -> FastForward(p, v)
         [] head[p] # 0 /\ Relationship(head[p], v) = "behind" -> FastForward(p, v)
         [] head[p] # 0 /\ Relationship(head[p], v) \in {"diverged", "unrelated"} -> MergeVersions(p, v)
         [] OTHER -> UNCHANGED <<versions, known, nodes, head, branch, live, dirty, conflicts, dropped>>
    /\ UNCHANGED <<rising, policy, active>>

Merge(p, v) == v \in known[p] /\ MergeFrom(p, v) /\ UNCHANGED fetched

(* _handle_fetch() answers with the versions and their root nodes; the rounds of        *)
(* fetch-entities bring what is missing below the root of the remote head, and no more. *)
Shipped(q) == AncestorsOf[head[q]]
Supplied(q) == {DeepPart(versions[head[q]].root)} \cap nodes[q]

(* _handle_pull(), up to its merge. *)
PullFetch(p, q) ==
    /\ p # q /\ fetched[p] = 0 /\ head[q] # 0
    /\ fetched' = [fetched EXCEPT ![p] = head[q]]
    /\ known' = [known EXCEPT ![p] = @ \cup Shipped(q)]
    /\ nodes' = [nodes EXCEPT ![p] = @ \cup Supplied(q)]
    /\ UNCHANGED <<versions, rising, policy, head, active, branch, live, dirty, conflicts, dropped>>

PullMerge(p) ==
    /\ fetched[p] # 0
    /\ MergeFrom(p, fetched[p])
    /\ fetched' = [fetched EXCEPT ![p] = 0]

(* _handle_checkout(): the target is forced over what the head it leaves binds. *)
Checkout(p, v, b) ==
    LET target == BindingsAt(p, v)
        source == BindingsAt(p, head[p])
        forced == {x \in PrefixPaths : Logical(source[x]) # Absent /\ target[x] = Absent}
        now == Applied(target, live[p])
    IN /\ v \in known[p]
       /\ head' = [head EXCEPT ![p] = v]
       /\ active' = [active EXCEPT ![p] = b]
       /\ live' = [live EXCEPT ![p] = [x \in PrefixPaths |-> IF x \in forced THEN Absent ELSE now[x]]]
       /\ dirty' = [dirty EXCEPT ![p] = @ \ (BoundIn(target) \cup forced)]
       /\ UNCHANGED <<versions, rising, policy, known, nodes, branch, conflicts, fetched, dropped>>

CheckoutBranch(p, b) == branch[p][b] # 0 /\ Checkout(p, branch[p][b], b)
CheckoutVersion(p, v) == v # head[p] /\ Checkout(p, v, Absent)

(* _handle_branch(). *)
BranchCreate(p, b) ==
    /\ branch[p][b] = 0 /\ head[p] # 0
    /\ branch' = [branch EXCEPT ![p][b] = head[p]]
    /\ UNCHANGED <<versions, rising, policy, known, nodes, head, active, live, dirty, conflicts, fetched, dropped>>

BranchDelete(p, b) ==
    /\ active[p] # b /\ branch[p][b] # 0
    /\ branch' = [branch EXCEPT ![p][b] = 0]
    /\ UNCHANGED <<versions, rising, policy, known, nodes, head, active, live, dirty, conflicts, fetched, dropped>>

(* _handle_cherry_pick() and _handle_revert(): the difference of two versions is laid  *)
(* over the live bindings, and what it removes is popped from the new root.            *)
ApplyDelta(p, from, to) ==
    LET old == BindingsAt(p, from)
        new == BindingsAt(p, to)
        target == [x \in PrefixPaths |-> IF Logical(old[x]) = Logical(new[x]) THEN live[p][x]
                                   ELSE Logical(new[x])]
    IN /\ Record(p, target, HeadParents(p))
       /\ live' = [live EXCEPT ![p] = target]
       /\ dirty' = [dirty EXCEPT ![p] = {}]
       /\ dropped' = dropped \cup (BoundIn(BindingsAt(p, head[p])) \ BoundIn(target))
       /\ UNCHANGED <<rising, policy, active, conflicts, fetched>>

CherryPick(p, v) == v \in known[p] /\ \E u \in ParentsOf(v) : ApplyDelta(p, u, v)
Revert(p, v) == v \in known[p] /\ \E u \in ParentsOf(v) : ApplyDelta(p, v, u)

(* _handle_resolve(): the tree is set directly, below the emit pathway. *)
Resolve(p, x, h) ==
    /\ x \in conflicts[p]
    /\ live' = [live EXCEPT ![p][x] = h]
    /\ dirty' = [dirty EXCEPT ![p] = @ \cup {x}]
    /\ conflicts' = [conflicts EXCEPT ![p] = @ \ {x}]
    /\ UNCHANGED <<versions, rising, policy, known, nodes, head, active, branch, fetched, dropped>>

Follow(p) ==
    \/ \E x \in PrefixPaths, h \in Contents \cup {Absent} : Write(p, x, h)
    \/ CommitVersion(p) \/ PullMerge(p)
    \/ \E q \in Replicas : PullFetch(p, q)

Move(p) ==
    \/ \E x \in PrefixPaths, h \in Contents \cup {Absent} : Resolve(p, x, h)
    \/ \E v \in Ids : Merge(p, v) \/ CheckoutVersion(p, v) \/ CherryPick(p, v) \/ Revert(p, v)
    \/ \E b \in Branches : CheckoutBranch(p, b) \/ BranchCreate(p, b) \/ BranchDelete(p, b)

RevisionNext ==
    \E p \in Replicas :
        \/ Follow(p) /\ UNCHANGED moves
        \/ moves < policy.moves /\ Move(p) /\ moves' = moves + 1
RevisionSpec == RevisionInit /\ [][RevisionNext]_revisionVars

-----------------------------------------------------------------------------
(* Two peers that merge the same two heads make the same version, whichever peer       *)
(* merges first and whichever head was its own: two versions with the same two         *)
(* parents never differ (_handle_merge, _normalize_merge_sides, _find_common_ancestor). *)
MergesAgree ==
    \A v, w \in Ids :
        Len(versions[v].parents) > 1 /\ versions[v].parents = versions[w].parents => v = w

(* Head describes the tree: a path nobody wrote since is bound exactly as the version  *)
(* at head says, after any merge, pull, checkout or pick, except where a deletion was *)
(* expressed by absence; and the active branch points where head points.              *)
HeadDescribesTree ==
    /\ \A p \in Replicas, x \in PrefixPaths \ dropped :
          head[p] # 0 /\ x \notin dirty[p] => live[p][x] = Logical(versions[head[p]].root[x])
    /\ \A p \in Replicas : active[p] # Absent => branch[p][active[p]] = head[p]

=============================================================================
