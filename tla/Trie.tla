-------------------------------- MODULE Trie --------------------------------
(***************************************************************************)
(* The content-addressed hash trie of storage/trie.py: put with bucket     *)
(* overflow, remove with collapse, and the diff of two tries.              *)
(*                                                                         *)
(* A node is a function from its occupied positions to entries; the bitmap *)
(* and the dense array of the code are that function's encoding.  A link   *)
(* holds the sub-node itself: its hash stands for it in the code.  Keys    *)
(* are numbers, in the order Python sorts them.                            *)
(***************************************************************************)
EXTENDS Integers, Sequences, SequencesExt, FiniteSets

CONSTANTS
    Keys,        \* relative keys
    Values,      \* value hashes
    None,
    Positions,   \* 0..K-1
    Route,       \* Route[k][l]: position_at_level() of the key's hash
    BucketSize   \* BUCKET_SIZE

(* What the constants are assumed to be. *)
TrieAssumption ==
    /\ Keys \subseteq Nat /\ None \notin Values
    /\ Route \in [Keys -> Seq(Positions)]
    /\ BucketSize \in Nat \ {0}
    \* position_at_level() raises below the last level
    /\ \A k \in Keys : Cardinality({j \in Keys : Route[j] = Route[k]}) <= BucketSize

VARIABLES
    bindings,  \* what the trie should hold: key -> value or None
    trie,      \* the root node
    old,       \* an earlier binding set ...
    base       \* ... and its root

vars == <<bindings, trie, old, base>>

-----------------------------------------------------------------------------
Bucket(tuples) == [kind |-> "bucket", tuples |-> tuples]
Link(node) == [kind |-> "link", node |-> node]

Empty == [p \in {} |-> Link({})]

(* bucket.sort(key=lambda t: t[0]) *)
Sorted(tuples) == SortSeq(tuples, LAMBDA s, t : s[1] < t[1])

With(node, p, entry) ==
    [q \in DOMAIN node \cup {p} |-> IF q = p THEN entry ELSE node[q]]
Cleared(node, p) == Restrict(node, DOMAIN node \ {p})

(* _build_sub_node(): tuples are grouped by their position at this level;  *)
(* a group too large for a bucket goes one level down.                     *)
RECURSIVE BuildSubNode(_, _)
BuildSubNode(tuples, level) ==
    LET group(p) == SelectSeq(tuples, LAMBDA t : Route[t[1]][level] = p)
    IN  [p \in {Route[tuples[i][1]][level] : i \in DOMAIN tuples} |->
            IF Len(group(p)) <= BucketSize
            THEN Bucket(Sorted(group(p)))
            ELSE Link(BuildSubNode(group(p), level + 1))]

IndexOf(bucket, k) == SelectInSeq(bucket, LAMBDA t : t[1] = k)

(* _put_at() *)
RECURSIVE PutAt(_, _, _, _)
PutAt(node, level, k, v) ==
    LET p == Route[k][level]
        e == node[p]
    IN  IF p \notin DOMAIN node THEN With(node, p, Bucket(<<<<k, v>>>>))
        ELSE IF e.kind = "link"
             THEN With(node, p, Link(PutAt(e.node, level + 1, k, v)))
        ELSE IF IndexOf(e.tuples, k) # 0
             THEN With(node, p, Bucket(ReplaceAt(e.tuples, IndexOf(e.tuples, k), <<k, v>>)))
        ELSE IF Len(e.tuples) < BucketSize
             THEN With(node, p, Bucket(Sorted(Append(e.tuples, <<k, v>>))))
        ELSE With(node, p, Link(BuildSubNode(Append(e.tuples, <<k, v>>), level + 1)))

(* _collect_reachable_tuples() *)
RECURSIVE Reachable(_)
Reachable(node) ==
    UNION {IF node[p].kind = "bucket" THEN ToSet(node[p].tuples)
           ELSE Reachable(node[p].node) : p \in DOMAIN node}

Collapses(tuples) == Cardinality(tuples) < BucketSize + 1

(* _replace_link_with_canonical(): a sub-node that fits a bucket again is  *)
(* inlined into its parent.                                                *)
Canonical(node, p, sub) ==
    LET tuples == Reachable(sub)
    IN  IF ~Collapses(tuples) THEN With(node, p, Link(sub))
        ELSE IF tuples = {} THEN Cleared(node, p)
        ELSE With(node, p, Bucket(Sorted(SetToSeq(tuples))))

(* _remove_at() *)
RECURSIVE RemoveFrom(_, _, _)
RemoveFrom(node, level, k) ==
    LET p == Route[k][level]
        e == node[p]
        rest == SelectSeq(e.tuples, LAMBDA t : t[1] # k)
        sub == RemoveFrom(e.node, level + 1, k)
    IN  IF p \notin DOMAIN node THEN node
        ELSE IF e.kind = "bucket"
             THEN IF rest = <<>> THEN Cleared(node, p) ELSE With(node, p, Bucket(rest))
        ELSE IF sub = e.node THEN node
        ELSE Canonical(node, p, sub)

-----------------------------------------------------------------------------
(* _diff_buckets(), on the tuples of two entries. *)
DiffTuples(a, b) ==
    [ added   |-> {t \in b : \A s \in a : s[1] # t[1]},
      removed |-> {s \in a : \A t \in b : t[1] # s[1]},
      changed |-> {<<s[1], s[2], t[2]>> : <<s, t>> \in
                       {x \in a \X b : x[1][1] = x[2][1] /\ x[1][2] # x[2][2]}} ]

Join(diffs) ==
    [ added   |-> UNION {d.added : d \in diffs},
      removed |-> UNION {d.removed : d \in diffs},
      changed |-> UNION {d.changed : d \in diffs} ]

(* _walk_entry_collect_bindings(): what an entry, or none, holds. *)
Held(node, p) ==
    IF p \notin DOMAIN node THEN {}
    ELSE IF node[p].kind = "bucket" THEN ToSet(node[p].tuples)
    ELSE Reachable(node[p].node)

IsLink(node, p) == p \in DOMAIN node /\ node[p].kind = "link"

(* Mutant: where one side is a bucket and the other a link, the link is    *)
(* taken for a new subtree.                                                *)
DiffEntriesMutant(a, b, p) ==
    IF IsLink(b, p) /\ ~IsLink(a, p) THEN DiffTuples({}, Held(b, p))
    ELSE DiffTuples(Held(a, p), Held(b, p))

(* Entries of which at least one is no link are compared by what they hold. *)
DiffEntries(a, b, p) == DiffTuples(Held(a, p), Held(b, p))

(* _diff_nodes(): links on both sides are compared node by node, and equal *)
(* ones are not entered.                                                   *)
RECURSIVE DiffNodes(_, _)
DiffNodes(a, b) ==
    IF a = b THEN Join({})
    ELSE Join({IF IsLink(a, p) /\ IsLink(b, p)
               THEN DiffNodes(a[p].node, b[p].node)
               ELSE DiffEntries(a, b, p) : p \in DOMAIN a \cup DOMAIN b})

-----------------------------------------------------------------------------
Init ==
    /\ bindings = [k \in Keys |-> None] /\ trie = Empty
    /\ old = bindings /\ base = trie

(* trie_put() and trie_remove() *)
TriePut(k, v) ==
    /\ bindings' = [bindings EXCEPT ![k] = v]
    /\ trie' = PutAt(trie, 1, k, v)
    /\ UNCHANGED <<old, base>>

TrieRemove(k) ==
    /\ bindings' = [bindings EXCEPT ![k] = None]
    /\ trie' = RemoveFrom(trie, 1, k)
    /\ UNCHANGED <<old, base>>

(* The root is kept, as a version's root or a diff's base. *)
Keep ==
    /\ old' = bindings /\ base' = trie
    /\ UNCHANGED <<bindings, trie>>

Next ==
    \/ \E k \in Keys, v \in Values : TriePut(k, v)
    \/ \E k \in Keys : TrieRemove(k)
    \/ Keep

Spec == Init /\ [][Next]_vars

-----------------------------------------------------------------------------
(* The canonical trie of a set of tuples, which no history went into. *)
RECURSIVE CanonicalTrie(_, _)
CanonicalTrie(tuples, level) ==
    LET group(p) == {t \in tuples : Route[t[1]][level] = p}
    IN  [p \in {Route[t[1]][level] : t \in tuples} |->
            IF Cardinality(group(p)) <= BucketSize
            THEN [kind |-> "bucket",
                  tuples |-> SetToSortSeq(group(p), LAMBDA s, t : s[1] < t[1])]
            ELSE [kind |-> "link", node |-> CanonicalTrie(group(p), level + 1)]]

Tuples(b) == {<<k, b[k]>> : k \in {j \in Keys : b[j] # None}}

(* trie_put() and trie_remove(): "hash-equivalent to build_trie over the   *)
(* updated binding set": two peers that hold the same bindings hold the    *)
(* same root, whatever order they were written and removed in.             *)
HistoryIndependent == trie = CanonicalTrie(Tuples(bindings), 1)

(* trie_diff(), with its early exit at equal sub-nodes, reports exactly    *)
(* the keys whose binding differs between the two tries.                   *)
DiffIsExact == DiffNodes(base, trie) = DiffTuples(Tuples(old), Tuples(bindings))
=============================================================================
