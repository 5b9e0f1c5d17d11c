----------------------------- MODULE TreeQuery -----------------------------
(***************************************************************************)
(* The tree handler (entity_handlers/tree.py), the registry of secondary   *)
(* trees, the query indexes (storage/indexes.py) and the query handler     *)
(* (entity_handlers/query.py) of peers whose clients copy subtrees from    *)
(* one to the other by snapshot or extract, and merge.                     *)
(*                                                                         *)
(* A path is a pair of numbers <<directory, name>>, so ordered; an entity  *)
(* is its hash.  A snapshot is the function from names to hashes its trie  *)
(* encodes.  Refused requests change nothing and are left out, except      *)
(* where the code has written something before it refuses.                 *)
(***************************************************************************)
EXTENDS Integers, Sequences, FiniteSets

CONSTANTS Peers, Entities,
          Dirs, Names,       \* finite sets of integers
          Trees,             \* ids of secondary trees
          TypeOf(_), Refs(_),    \* an entity's type; the hashes in its data
          CanRead(_), CanPut(_), \* what the clients' capability grants
          Queries,           \* expressions: [type, ref, prefix, where]
          AnyEnvelope,       \* FALSE: clients merge an envelope only where all the
                             \* entities it binds are stored or included
          Starts,            \* trees a peer may start with
          Limit,             \* entries of a page
          MaxOps, None

Paths   == Dirs \X Names
Default == "default"
NoTree  == [p \in Paths |-> None]

(* What the constants are assumed to be; a client's envelope is complete.  *)
TreeAssumption ==
    /\ None \notin Entities \cup [Paths -> Entities \cup {None}]
    /\ Default \notin Trees
    /\ Starts \subseteq [Paths -> Entities \cup {None}]
    /\ \A q \in Queries : q.prefix \in Dirs \cup {None}
    /\ Dirs \subseteq Int /\ Names \subseteq Int /\ IsFiniteSet(Paths) /\ Limit \in Nat
CompleteEnvelopes == ~AnyEnvelope

VARIABLES trees,     \* peer -> tree id -> path -> hash; None: no such tree
          store,     \* peer -> entities in its content store
          snaps,     \* peer -> snapshot entities in its content store
          byType,    \* peer -> entries <<type, path, hash>> of the type index
          byRef,     \* peer -> entries <<hash, path, type>> of the reverse index
          held,      \* envelopes the clients hold
          scan,      \* a client paging through a query, or None
          ops

vars == <<trees, store, snaps, byType, byRef, held, scan, ops>>

---------------------------------------------------------------------------
(* Indexes *)

IndexEntity(path, e) == {<<TypeOf(e), path, e>>}
RefEntries(path, e)  == {<<r, path, TypeOf(e)>> : r \in Refs(e)}

\* rebuild, when the extension starts on a tree that exists.
RebuiltTypes(tree, st) ==
    UNION {IndexEntity(p, tree[p]) : p \in {q \in Paths : tree[q] \in st}}
RebuiltRefs(tree, st) ==
    UNION {RefEntries(p, tree[p]) : p \in {q \in Paths : tree[q] \in st}}

\* What on_change_sync takes out for a path bound to prev before: the entry
\* of that hash if its entity can be read, else whatever the path has.
RemoveEntriesMutant(types, st, path, prev) == {}
RemoveEntries(types, st, path, prev) ==
    IF prev \in st THEN {<<TypeOf(prev), path, prev>>}
                   ELSE {x \in types : x[2] = path}

\* The hook run for every path of the default tree that the step rebinds; st
\* is the store after the step's entities were put.
Hooked(p, new, st) ==
    LET old     == trees[p][Default]
        changed == {q \in Paths : old[q] # new[q]}
        gone    == {q \in changed : old[q] # None}
        here    == {q \in changed : new[q] \in st}
    IN  /\ byType' = [byType EXCEPT ![p] =
              (@ \ UNION {RemoveEntries(@, st, q, old[q]) : q \in gone})
                  \cup UNION {IndexEntity(q, new[q]) : q \in here}]
        /\ byRef' = [byRef EXCEPT ![p] =
              {x \in @ : x[2] \notin gone} \cup UNION {RefEntries(q, new[q]) : q \in here}]

---------------------------------------------------------------------------
(* Queries *)

\* Matches are <<path, hash, type>>; filters that are None do not apply.
LookupPattern(p, t) == {<<x[2], x[3], x[1]>> : x \in {y \in byType[p] : y[1] = t}}

ByRef(p, r) ==
    {<<x[2], trees[p][Default][x[2]], x[3]>> :
        x \in {y \in byRef[p] : y[1] = r /\ trees[p][Default][y[2]] # None}}

ListPrefix(p, d) ==
    {<<<<d, n>>, trees[p][Default][<<d, n>>], TypeOf(trees[p][Default][<<d, n>>])>> :
        n \in {m \in Names : trees[p][Default][<<d, m>>] \in store[p]}}

\* _intersect keeps the left side's match.
Intersect(left, right) == {x \in left : \E y \in right : y[1] = x[1]}

Candidates(p, q) ==
    IF q.type # None
    THEN IF q.ref # None THEN Intersect(LookupPattern(p, q.type), ByRef(p, q.ref))
                         ELSE LookupPattern(p, q.type)
    ELSE IF q.ref # None THEN ByRef(p, q.ref) ELSE ListPrefix(p, q.prefix)

ValidateExpression(q) ==
    /\ q.where # None => q.type # None
    /\ ~(q.type = None /\ q.ref = None /\ q.prefix = None)

ApplyFieldFilters(p, q, x) == q.where = None \/ (x[2] \in store[p] /\ x[2] \in q.where)

ExecuteQuery(p, q) ==
    {x \in Candidates(p, q) :
        /\ q.prefix = None \/ x[1][1] = q.prefix
        /\ ApplyFieldFilters(p, q, x)
        /\ CanRead(x[1])}

Before(a, b) == a[1] < b[1] \/ (a[1] = b[1] /\ a[2] < b[2])

SortMatches(matches) ==
    [i \in 1 .. Cardinality(matches) |->
        CHOOSE m \in matches : Cardinality({o \in matches : Before(o[1], m[1])}) = i - 1]

---------------------------------------------------------------------------
Init ==
    /\ trees \in [Peers -> {[t \in Trees \cup {Default} |-> IF t = Default THEN s ELSE None] :
                                s \in Starts}]
    /\ store = [p \in Peers |-> {trees[p][Default][q] : q \in Paths} \ {None}]
    /\ snaps = [p \in Peers |-> {}]
    /\ byType = [p \in Peers |-> RebuiltTypes(trees[p][Default], store[p])]
    /\ byRef = [p \in Peers |-> RebuiltRefs(trees[p][Default], store[p])]
    /\ held = {} /\ scan = None /\ ops = 0

Counted == ops < MaxOps /\ ops' = ops + 1

(***************************************************************************)
(* put: an unconditional write, a create (the zero hash), a write or a     *)
(* delete conditional on the hash the caller expects.                      *)
(***************************************************************************)
CasHolds(current, expected) ==
    CASE expected = "any"  -> TRUE
      [] expected = "zero" -> current = None
      [] OTHER             -> current = expected

HandlePut(p, path, e, expected) ==
    LET old == trees[p][Default]
        new == [old EXCEPT ![path] = e]
        st  == IF e = None THEN store[p] ELSE store[p] \cup {e}
    IN  /\ Counted
        /\ CanPut(path)
        /\ CasHolds(old[path], expected)
        /\ trees' = [trees EXCEPT ![p][Default] = new]
        /\ store' = [store EXCEPT ![p] = st]
        /\ Hooked(p, new, st)
        /\ UNCHANGED <<snaps, held>>

(***************************************************************************)
(* snapshot carries the trie nodes only; extract the bound entities too,   *)
(* as far as the store has them.                                           *)
(***************************************************************************)
Readable(p, t, d) ==
    [n \in Names |-> IF CanRead(<<d, n>>) THEN trees[p][t][<<d, n>>] ELSE None]

HandleSnapshot(p, t, d) ==
    /\ Counted
    /\ trees[p][t] # None
    /\ held' = held \cup {[bindings |-> Readable(p, t, d), included |-> {}]}
    /\ UNCHANGED <<trees, store, snaps, byType, byRef>>

HandleExtract(p, t, d, paths) ==
    /\ Counted
    /\ trees[p][t] # None
    /\ LET b == [n \in Names |-> IF n \in paths THEN Readable(p, t, d)[n] ELSE None]
       IN  held' = held \cup {[bindings |-> b, included |-> {b[n] : n \in Names} \cap store[p]]}
    /\ UNCHANGED <<trees, store, snaps, byType, byRef>>

(***************************************************************************)
(* merge: what the envelope includes is stored first, whatever comes of    *)
(* the merge; no path is written unless all may be.                        *)
(***************************************************************************)
Merged(tree, b, d, strategy) ==
    [q \in Paths |->
        IF q[1] # d \/ b[q[2]] = None \/ tree[q] = b[q[2]] THEN tree[q]
        ELSE IF tree[q] = None \/ strategy = "source-wins" THEN b[q[2]] ELSE tree[q]]

Authorized(b, d) == \A n \in Names : b[n] # None => CanPut(<<d, n>>)

ApplyBindings(p, t, b, d, strategy, dry, st) ==
    LET new == IF dry \/ ~Authorized(b, d) THEN trees[p][t] ELSE Merged(trees[p][t], b, d, strategy)
    IN  /\ trees' = [trees EXCEPT ![p][t] = new]
        /\ IF t = Default THEN Hooked(p, new, st) ELSE UNCHANGED <<byType, byRef>>

Complete(p, env) == \A n \in Names : env.bindings[n] \in store[p] \cup env.included \cup {None}

HandleMerge(p, t, env, d, strategy, dry) ==
    LET st == store[p] \cup env.included
    IN  /\ Counted
        /\ trees[p][t] # None
        /\ store' = [store EXCEPT ![p] = st]
        /\ snaps' = [snaps EXCEPT ![p] = @ \cup {env.bindings}]
        /\ ApplyBindings(p, t, env.bindings, d, strategy, dry, st)
        /\ UNCHANGED held

\* By the hash of a snapshot an earlier merge stored.
HandleMergeHash(p, t, b, d, strategy) ==
    /\ Counted
    /\ trees[p][t] # None
    /\ b \in snaps[p]
    /\ ApplyBindings(p, t, b, d, strategy, FALSE, store[p])
    /\ UNCHANGED <<store, snaps, held>>

---------------------------------------------------------------------------
(* Secondary trees *)

HandleCreate(p, t) ==
    /\ Counted
    /\ trees[p][t] = None
    /\ trees' = [trees EXCEPT ![p][t] = NoTree]
    /\ UNCHANGED <<store, snaps, byType, byRef, held>>

HandleDestroy(p, t) ==
    /\ Counted
    /\ trees[p][t] # None
    /\ trees' = [trees EXCEPT ![p][t] = None]
    /\ UNCHANGED <<store, snaps, byType, byRef, held>>

\* An entity reaches the store without a binding: what a
\* received envelope includes.
HandleIngest(p, e) ==
    /\ Counted
    /\ e \notin store[p]
    /\ store' = [store EXCEPT ![p] = @ \cup {e}]
    /\ UNCHANGED <<trees, snaps, byType, byRef, held>>

---------------------------------------------------------------------------
(***************************************************************************)
(* find, page by page.  The cursor is an offset into the sorted matches of *)
(* the moment it is used.  seen: paths returned so far; owed: paths that   *)
(* matched at every moment since the first page; intact: no match went     *)
(* away meanwhile.                                                         *)
(***************************************************************************)
PathsOf(matches) == {x[1] : x \in matches}

EncodeCursorMutant(start, count) == start + count + 1
EncodeCursor(start, count) == start + count

HandleFind(p, q, start, so_far) ==
    LET matches == SortMatches(ExecuteQuery(p, q))
        total   == Len(matches)
        page    == SubSeq(matches, start + 1, IF start + Limit < total THEN start + Limit ELSE total)
    IN  scan' = [so_far EXCEPT !.seen = @ \cup {page[i][1] : i \in 1 .. Len(page)},
                               !.offset = EncodeCursor(start, Limit),
                               !.more = start + Limit < total]

FirstPage(p, q) ==
    /\ scan = None
    /\ ValidateExpression(q)
    /\ HandleFind(p, q, 0, [peer |-> p, query |-> q, offset |-> 0, seen |-> {}, more |-> TRUE,
                            owed |-> PathsOf(ExecuteQuery(p, q)), intact |-> TRUE])
    /\ UNCHANGED <<trees, store, snaps, byType, byRef, held, ops>>

NextPage ==
    /\ scan # None
    /\ scan.more
    /\ HandleFind(scan.peer, scan.query, scan.offset, scan)
    /\ UNCHANGED <<trees, store, snaps, byType, byRef, held, ops>>

\* The scan's history variables follow every step of the peers.
Watched ==
    IF scan = None THEN scan' = None
    ELSE \E p \in {scan.peer}, q \in {scan.query} :
             LET before == PathsOf(ExecuteQuery(p, q))
                 after  == PathsOf(ExecuteQuery(p, q)')
             IN  scan' = [scan EXCEPT !.owed = @ \cap after,
                                      !.intact = @ /\ before \subseteq after]

Change ==
    \E p \in Peers :
        \/ \E path \in Paths, e \in Entities \cup {None}, x \in {"any", "zero"} \cup Entities :
               HandlePut(p, path, e, x)
        \/ \E t \in Trees \cup {Default}, d \in Dirs : HandleSnapshot(p, t, d)
        \/ \E t \in Trees \cup {Default}, d \in Dirs, paths \in SUBSET Names :
               HandleExtract(p, t, d, paths)
        \/ \E t \in Trees \cup {Default}, d \in Dirs,
              env \in {x \in held : AnyEnvelope \/ Complete(p, x)},
              s \in {"no-overwrite", "source-wins", "target-wins"}, dry \in BOOLEAN :
               HandleMerge(p, t, env, d, s, dry)
        \/ \E t \in Trees \cup {Default}, b \in snaps[p], d \in Dirs, s \in {"no-overwrite", "source-wins"} :
               HandleMergeHash(p, t, b, d, s)
        \/ \E t \in Trees : HandleCreate(p, t) \/ HandleDestroy(p, t)
        \/ \E e \in Entities : HandleIngest(p, e)

Next ==
    \/ Change /\ Watched
    \/ \E p \in Peers, q \in Queries : FirstPage(p, q)
    \/ NextPage

Spec == Init /\ [][Next]_vars

---------------------------------------------------------------------------
(* Properties *)

\* What a query asks for, read off the tree and the store alone.
Asked(p, q) ==
    {path \in Paths :
        LET e == trees[p][Default][path]
        IN  /\ e \in store[p]
            /\ q.type = None \/ TypeOf(e) = q.type
            /\ q.ref = None \/ q.ref \in Refs(e)
            /\ q.prefix = None \/ path[1] = q.prefix
            /\ q.where = None \/ e \in q.where
            /\ CanRead(path)}

(***************************************************************************)
(* Whatever was written, deleted or merged, a query answered from the      *)
(* indexes (by type, by referenced hash, or both) finds exactly the paths  *)
(* a walk over the tree would find, each with the hash bound there now.    *)
(***************************************************************************)
IndexAgrees ==
    \A p \in Peers, q \in {r \in Queries : ValidateExpression(r)} :
        ExecuteQuery(p, q) = {<<x, trees[p][Default][x], TypeOf(trees[p][Default][x])>> : x \in Asked(p, q)}

(***************************************************************************)
(* A client that follows the cursor to the last page has been given every  *)
(* path that matched all along, provided that nothing it was matching went *)
(* away meanwhile: paths that appear never push another one off the pages. *)
(***************************************************************************)
ScanComplete ==
    scan # None => (~scan.more /\ scan.intact => scan.owed \subseteq scan.seen)

============================================================================
