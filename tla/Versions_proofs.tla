---------------------------- MODULE Versions_proofs ----------------------------
(***************************************************************************)
(* The indexes of TreeQuery and the paging of its queries, for any peers,  *)
(* entities, paths and trees.                                              *)
(*                                                                         *)
(* IndexAgrees compares answers; what is inductive is that the entries are *)
(* those a rebuild would write.  The hook takes the entry of the old       *)
(* binding out by the type of its entity, so every bound entity must be in *)
(* the store, and so must those of the snapshots a later merge may name.   *)
(***************************************************************************)
EXTENDS TreeQuery, History, Revision, FiniteSetTheorems, SequenceTheorems,
        NaturalsInduction, WellFoundedInduction, TLAPS

Bindings == Entities \cup {None}
Bound(p) == trees[p][Default]

TypeOK ==
    /\ trees \in [Peers -> [Trees \cup {Default} -> [Paths -> Bindings] \cup {None}]]
    /\ \A p \in Peers : Bound(p) \in [Paths -> Bindings]
    /\ store \in [Peers -> SUBSET Entities]
    /\ snaps \in [Peers -> SUBSET [Names -> Bindings]]
    /\ held \subseteq [bindings : [Names -> Bindings], included : SUBSET Entities]

(* What is bound, or named by a stored snapshot, can be read. *)
BoundIsStored == \A p \in Peers, q \in Paths : Bound(p)[q] \in store[p] \cup {None}
SnapsAreStored == \A p \in Peers : \A b \in snaps[p] : \A n \in Names : b[n] \in store[p] \cup {None}

(* The entries of a tree whose bound entities can all be read. *)
TypesOf(tree) == {<<TypeOf(tree[q]), q, tree[q]>> : q \in {x \in Paths : tree[x] # None}}
RefsIn(tree) ==
    UNION {{<<r, q, TypeOf(tree[q])>> : r \in Refs(tree[q])} : q \in {x \in Paths : tree[x] # None}}

IndexesRight ==
    /\ byType = [p \in Peers |-> TypesOf(Bound(p))]
    /\ byRef = [p \in Peers |-> RefsIn(Bound(p))]

QueryInv == TypeOK /\ BoundIsStored /\ SnapsAreStored /\ IndexesRight

-------------------------------------------------------------------------------
LEMMA RebuiltIs ==
    ASSUME TreeAssumption, NEW tree \in [Paths -> Bindings], NEW st \in SUBSET Entities,
           \A q \in Paths : tree[q] \in st \cup {None}
    PROVE  RebuiltTypes(tree, st) = TypesOf(tree) /\ RebuiltRefs(tree, st) = RefsIn(tree)
  <1>1. {q \in Paths : tree[q] \in st} = {q \in Paths : tree[q] # None}
    BY DEF TreeAssumption
  <1>2. RebuiltTypes(tree, st) = TypesOf(tree)
    BY <1>1 DEF RebuiltTypes, TypesOf, IndexEntity
  <1>3. RebuiltRefs(tree, st) = RefsIn(tree)
    BY <1>1 DEF RebuiltRefs, RefsIn, RefEntries
  <1> QED BY <1>2, <1>3

(* on_change_sync() for the paths a step rebinds leaves what a rebuild     *)
(* would write.                                                            *)
LEMMA HookRight ==
    ASSUME TreeAssumption, QueryInv, NEW p \in Peers, NEW new \in [Paths -> Bindings],
           NEW st \in SUBSET Entities, store[p] \subseteq st,
           \A q \in Paths : new[q] \in st \cup {None},
           Hooked(p, new, st)
    PROVE  /\ byType' = [byType EXCEPT ![p] = TypesOf(new)]
           /\ byRef' = [byRef EXCEPT ![p] = RefsIn(new)]
  <1> DEFINE old     == Bound(p)
             changed == {q \in Paths : old[q] # new[q]}
             gone    == {q \in changed : old[q] # None}
             here    == {q \in changed : new[q] \in st}
  <1>1. /\ old \in [Paths -> Bindings] /\ None \notin Entities
        /\ \A q \in Paths : old[q] \in store[p] \cup {None}
        /\ byType[p] = TypesOf(old) /\ byRef[p] = RefsIn(old)
    BY DEF QueryInv, TypeOK, BoundIsStored, IndexesRight, TreeAssumption
  <1>2. /\ gone = {q \in Paths : old[q] # new[q] /\ old[q] # None}
        /\ here = {q \in Paths : old[q] # new[q] /\ new[q] # None}
    BY <1>1
  <1>3. /\ byType' = [byType EXCEPT ![p] =
              (@ \ UNION {RemoveEntries(@, st, q, old[q]) : q \in gone})
                  \cup UNION {IndexEntity(q, new[q]) : q \in here}]
        /\ byRef' = [byRef EXCEPT ![p] =
              {x \in @ : x[2] \notin gone} \cup UNION {RefEntries(q, new[q]) : q \in here}]
    BY DEF Hooked, Bound
  <1> HIDE DEF old, gone, here, changed
  <1>4. UNION {RemoveEntries(byType[p], st, q, old[q]) : q \in gone}
            = {<<TypeOf(old[q]), q, old[q]>> : q \in gone}
    <2>1. \A q \in gone : RemoveEntries(byType[p], st, q, old[q]) = {<<TypeOf(old[q]), q, old[q]>>}
      BY <1>1, <1>2 DEF RemoveEntries
    <2> QED BY <2>1
  <1>5. (byType[p] \ {<<TypeOf(old[q]), q, old[q]>> : q \in gone})
            \cup UNION {IndexEntity(q, new[q]) : q \in here} = TypesOf(new)
    <2>1. UNION {IndexEntity(q, new[q]) : q \in here} = {<<TypeOf(new[q]), q, new[q]>> : q \in here}
      BY DEF IndexEntity
    <2> QED BY <1>1, <1>2, <2>1 DEF TypesOf
  <1>6. {x \in byRef[p] : x[2] \notin gone} \cup UNION {RefEntries(q, new[q]) : q \in here} = RefsIn(new)
    BY <1>1, <1>2 DEF RefsIn, RefEntries
  <1> QED BY <1>3, <1>4, <1>5, <1>6

LEMMA QueryInit == ASSUME TreeAssumption PROVE Init => QueryInv
  <1> SUFFICES ASSUME Init PROVE QueryInv
    OBVIOUS
  <1>1. ASSUME NEW p \in Peers
        PROVE  /\ trees[p] \in [Trees \cup {Default} -> [Paths -> Bindings] \cup {None}]
               /\ Bound(p) \in [Paths -> Bindings]
    <2> DEFINE begin(s) == [t \in Trees \cup {Default} |-> IF t = Default THEN s ELSE None]
    <2> HIDE DEF begin
    <2>0. trees \in [Peers -> {begin(s) : s \in Starts}]
      BY DEF Init, begin
    <2>1. PICK s \in Starts : trees[p] = begin(s)
      BY <2>0
    <2> USE DEF begin
    <2>2. s \in [Paths -> Bindings]
      BY DEF TreeAssumption, Bindings
    <2>3. Bound(p) = s
      BY <2>1 DEF Bound
    <2> QED BY <2>1, <2>2, <2>3
  <1>2. ASSUME NEW p \in Peers
        PROVE  /\ store[p] \in SUBSET Entities
               /\ \A q \in Paths : Bound(p)[q] \in store[p] \cup {None}
               /\ byType[p] = TypesOf(Bound(p)) /\ byRef[p] = RefsIn(Bound(p))
    <2>1. store[p] = {Bound(p)[q] : q \in Paths} \ {None}
      BY DEF Init, Bound
    <2>2. store[p] \in SUBSET Entities /\ \A q \in Paths : Bound(p)[q] \in store[p] \cup {None}
      BY <1>1, <2>1 DEF Bindings
    <2>3. /\ byType[p] = RebuiltTypes(Bound(p), store[p])
          /\ byRef[p] = RebuiltRefs(Bound(p), store[p])
      BY DEF Init, Bound
    <2> QED BY <1>1, <2>2, <2>3, RebuiltIs
  <1>3. TypeOK
    BY <1>1, <1>2 DEF Init, TypeOK
  <1>4. BoundIsStored /\ SnapsAreStored
    BY <1>2 DEF Init, BoundIsStored, SnapsAreStored
  <1>5. IndexesRight
    BY <1>2 DEF Init, IndexesRight
  <1> QED BY <1>3, <1>4, <1>5 DEF QueryInv
-------------------------------------------------------------------------------
TreesTyped ==
    /\ trees \in [Peers -> [Trees \cup {Default} -> [Paths -> Bindings] \cup {None}]]
    /\ \A p \in Peers : Bound(p) \in [Paths -> Bindings]

(* A step that rebinds paths of one peer's default tree, with the hook.    *)
LEMMA Rebinds ==
    ASSUME TreeAssumption, QueryInv, NEW p \in Peers, NEW new \in [Paths -> Bindings],
           NEW st \in SUBSET Entities, store[p] \subseteq st,
           \A q \in Paths : new[q] \in st \cup {None},
           trees' = [trees EXCEPT ![p][Default] = new], store' = [store EXCEPT ![p] = st],
           Hooked(p, new, st)
    PROVE  TreesTyped' /\ BoundIsStored' /\ IndexesRight'
  <1>1. /\ byType' = [byType EXCEPT ![p] = TypesOf(new)]
        /\ byRef' = [byRef EXCEPT ![p] = RefsIn(new)]
    BY HookRight
  <1>2. \A r \in Peers : Bound(r)' = IF r = p THEN new ELSE Bound(r)
    BY DEF Bound, QueryInv, TypeOK
  <1>3. TreesTyped'
    <2>1. \A r \in Peers : Bound(r)' \in [Paths -> Bindings]
      BY <1>2 DEF QueryInv, TypeOK
    <2>2. /\ trees \in [Peers -> [Trees \cup {Default} -> [Paths -> Bindings] \cup {None}]]
          /\ new \in [Paths -> Bindings] \cup {None}
      BY DEF QueryInv, TypeOK
    <2>3. trees' \in [Peers -> [Trees \cup {Default} -> [Paths -> Bindings] \cup {None}]]
      BY <2>2
    <2> QED BY <2>1, <2>3 DEF TreesTyped
  <1>4. BoundIsStored'
    <2> SUFFICES ASSUME NEW r \in Peers, NEW q \in Paths PROVE Bound(r)'[q] \in store'[r] \cup {None}
      BY DEF BoundIsStored
    <2>1. store'[r] = IF r = p THEN st ELSE store[r]
      BY DEF QueryInv, TypeOK
    <2> QED BY <1>2, <2>1 DEF QueryInv, BoundIsStored
  <1>5. IndexesRight'
    BY <1>1, <1>2 DEF IndexesRight, QueryInv
  <1> QED BY <1>3, <1>4, <1>5

(* A step that leaves the default trees and the indexes alone.             *)
LEMMA LeavesBound ==
    ASSUME QueryInv, \A r \in Peers : Bound(r)' = Bound(r) /\ store[r] \subseteq store'[r],
           UNCHANGED <<byType, byRef>>
    PROVE  BoundIsStored' /\ IndexesRight'
  BY DEF QueryInv, BoundIsStored, IndexesRight

LEMMA MergedType ==
    ASSUME NEW tree \in [Paths -> Bindings], NEW b \in [Names -> Bindings], NEW d, NEW strategy
    PROVE  /\ Merged(tree, b, d, strategy) \in [Paths -> Bindings]
           /\ \A q \in Paths : Merged(tree, b, d, strategy)[q] \in {tree[q], b[q[2]]} /\ q[2] \in Names
  <1>1. \A q \in Paths : q[2] \in Names
    BY DEF Paths
  <1> QED BY <1>1 DEF Merged

(* What merge does to the tree it is asked to write, whichever that is.    *)
LEMMA AppliedRight ==
    ASSUME TreeAssumption, QueryInv, NEW p \in Peers, NEW t \in Trees \cup {Default},
           trees[p][t] # None, NEW b \in [Names -> Bindings], NEW d, NEW strategy, NEW dry,
           NEW st \in SUBSET Entities, store[p] \subseteq st,
           \A n \in Names : b[n] \in st \cup {None},
           ApplyBindings(p, t, b, d, strategy, dry, st), store' = [store EXCEPT ![p] = st]
    PROVE  TreesTyped' /\ BoundIsStored' /\ IndexesRight'
  <1> DEFINE new == IF dry \/ ~Authorized(b, d) THEN trees[p][t] ELSE Merged(trees[p][t], b, d, strategy)
  <1>1. /\ trees' = [trees EXCEPT ![p][t] = new]
        /\ IF t = Default THEN Hooked(p, new, st) ELSE UNCHANGED <<byType, byRef>>
    BY DEF ApplyBindings
  <1>2. trees[p][t] \in [Paths -> Bindings]
    BY DEF QueryInv, TypeOK
  <1>3. /\ new \in [Paths -> Bindings]
        /\ \A q \in Paths : new[q] = trees[p][t][q] \/ (new[q] = b[q[2]] /\ q[2] \in Names)
    BY <1>2, MergedType
  <1> HIDE DEF new
  <1>4. CASE t = Default
    <2>1. \A q \in Paths : new[q] \in st \cup {None}
      BY <1>3, <1>4 DEF QueryInv, BoundIsStored, Bound
    <2> QED BY <1>1, <1>3, <1>4, <2>1, Rebinds
  <1>5. CASE t # Default
    <2>1. \A r \in Peers : Bound(r)' = Bound(r)
      BY <1>1, <1>5 DEF Bound, QueryInv, TypeOK
    <2>2. TreesTyped'
      BY <1>1, <1>3, <2>1 DEF TreesTyped, QueryInv, TypeOK
    <2>3. \A r \in Peers : store[r] \subseteq store'[r]
      BY DEF QueryInv, TypeOK
    <2> QED BY <1>1, <1>5, <2>1, <2>2, <2>3, LeavesBound
  <1> QED BY <1>4, <1>5
-------------------------------------------------------------------------------
LEMMA ReadableType ==
    ASSUME QueryInv, NEW p \in Peers, NEW t \in Trees \cup {Default}, trees[p][t] # None, NEW d \in Dirs
    PROVE  Readable(p, t, d) \in [Names -> Bindings]
  BY DEF Readable, QueryInv, TypeOK, Paths, Bindings

LEMMA PutKeeps ==
    ASSUME TreeAssumption, QueryInv, NEW p \in Peers, NEW path \in Paths, NEW e \in Bindings,
           NEW expected, HandlePut(p, path, e, expected)
    PROVE  QueryInv'
  <1> DEFINE new == [Bound(p) EXCEPT ![path] = e]
             st  == IF e = None THEN store[p] ELSE store[p] \cup {e}
  <1>1. /\ trees' = [trees EXCEPT ![p][Default] = new] /\ store' = [store EXCEPT ![p] = st]
        /\ Hooked(p, new, st) /\ UNCHANGED <<snaps, held>>
    BY DEF HandlePut, Bound
  <1>2. new \in [Paths -> Bindings] /\ st \in SUBSET Entities /\ store[p] \subseteq st
    BY DEF QueryInv, TypeOK, Bindings
  <1>3. \A q \in Paths : new[q] \in st \cup {None}
    BY DEF QueryInv, TypeOK, BoundIsStored
  <1> HIDE DEF new, st
  <1>4. TreesTyped' /\ BoundIsStored' /\ IndexesRight'
    BY <1>1, <1>2, <1>3, Rebinds
  <1>5. store' \in [Peers -> SUBSET Entities] /\ \A r \in Peers : store[r] \subseteq store'[r]
    BY <1>1, <1>2 DEF QueryInv, TypeOK
  <1>6. SnapsAreStored'
    BY <1>1, <1>5 DEF QueryInv, SnapsAreStored
  <1> QED BY <1>1, <1>4, <1>5, <1>6 DEF QueryInv, TypeOK, TreesTyped

(* snapshot and extract only hand an envelope to the client.               *)
LEMMA HandsOut ==
    ASSUME QueryInv, NEW b \in [Names -> Bindings], NEW i \in SUBSET Entities,
           held' = held \cup {[bindings |-> b, included |-> i]},
           UNCHANGED <<trees, store, snaps, byType, byRef>>
    PROVE  QueryInv'
  <1>1. held' \subseteq [bindings : [Names -> Bindings], included : SUBSET Entities]
    BY DEF QueryInv, TypeOK
  <1> QED BY <1>1 DEF QueryInv, TypeOK, BoundIsStored, SnapsAreStored, IndexesRight, Bound

LEMMA SnapshotKeeps ==
    ASSUME QueryInv, NEW p \in Peers, NEW t \in Trees \cup {Default}, NEW d \in Dirs,
           HandleSnapshot(p, t, d)
    PROVE  QueryInv'
  <1>1. Readable(p, t, d) \in [Names -> Bindings]
    BY ReadableType DEF HandleSnapshot
  <1>2. {} \in SUBSET Entities
    OBVIOUS
  <1>3. /\ held' = held \cup {[bindings |-> Readable(p, t, d), included |-> {}]}
        /\ UNCHANGED <<trees, store, snaps, byType, byRef>>
    BY DEF HandleSnapshot
  <1> QED BY <1>1, <1>2, <1>3, HandsOut

LEMMA ExtractKeeps ==
    ASSUME QueryInv, NEW p \in Peers, NEW t \in Trees \cup {Default}, NEW d \in Dirs,
           NEW paths \in SUBSET Names, HandleExtract(p, t, d, paths)
    PROVE  QueryInv'
  <1> DEFINE b == [n \in Names |-> IF n \in paths THEN Readable(p, t, d)[n] ELSE None]
             i == {b[n] : n \in Names} \cap store[p]
  <1>1. Readable(p, t, d) \in [Names -> Bindings]
    BY ReadableType DEF HandleExtract
  <1>2. b \in [Names -> Bindings]
    BY <1>1 DEF Bindings
  <1>3. i \in SUBSET Entities
    BY DEF QueryInv, TypeOK
  <1>4. /\ held' = held \cup {[bindings |-> b, included |-> i]}
        /\ UNCHANGED <<trees, store, snaps, byType, byRef>>
    BY DEF HandleExtract
  <1> HIDE DEF b, i
  <1> QED BY <1>2, <1>3, <1>4, HandsOut

LEMMA MergeKeeps ==
    ASSUME TreeAssumption, QueryInv, NEW p \in Peers, NEW t \in Trees \cup {Default},
           NEW env \in held, Complete(p, env), NEW d, NEW strategy, NEW dry,
           HandleMerge(p, t, env, d, strategy, dry)
    PROVE  QueryInv'
  <1> DEFINE st == store[p] \cup env.included
             b  == env.bindings
  <1>1. b \in [Names -> Bindings] /\ env.included \in SUBSET Entities
    BY DEF QueryInv, TypeOK
  <1>2. st \in SUBSET Entities /\ store[p] \subseteq st /\ \A n \in Names : b[n] \in st \cup {None}
    BY <1>1 DEF QueryInv, TypeOK, Complete
  <1>3. /\ trees[p][t] # None
        /\ store' = [store EXCEPT ![p] = st] /\ snaps' = [snaps EXCEPT ![p] = @ \cup {b}]
        /\ ApplyBindings(p, t, b, d, strategy, dry, st) /\ UNCHANGED held
    BY DEF HandleMerge
  <1> HIDE DEF st, b
  <1>4. TreesTyped' /\ BoundIsStored' /\ IndexesRight'
    BY <1>1, <1>2, <1>3, AppliedRight
  <1>5. /\ store' \in [Peers -> SUBSET Entities] /\ snaps' \in [Peers -> SUBSET [Names -> Bindings]]
        /\ \A r \in Peers : store[r] \subseteq store'[r]
    BY <1>1, <1>2, <1>3 DEF QueryInv, TypeOK
  <1>6. SnapsAreStored'
    <2> SUFFICES ASSUME NEW r \in Peers, NEW s \in snaps'[r], NEW n \in Names
                 PROVE  s[n] \in store'[r] \cup {None}
      BY DEF SnapsAreStored
    <2>1. CASE s \in snaps[r]
      BY <1>5, <2>1 DEF QueryInv, SnapsAreStored
    <2>2. CASE s \notin snaps[r]
      <3>1. r = p /\ s = b
        BY <1>3, <2>2 DEF QueryInv, TypeOK
      <3>2. store'[r] = st
        BY <1>3, <3>1 DEF QueryInv, TypeOK
      <3> QED BY <1>2, <3>1, <3>2
    <2> QED BY <2>1, <2>2
  <1> QED BY <1>3, <1>4, <1>5, <1>6 DEF QueryInv, TypeOK, TreesTyped

LEMMA MergeHashKeeps ==
    ASSUME TreeAssumption, QueryInv, NEW p \in Peers, NEW t \in Trees \cup {Default},
           NEW b \in snaps[p], NEW d, NEW strategy, HandleMergeHash(p, t, b, d, strategy)
    PROVE  QueryInv'
  <1>1. b \in [Names -> Bindings] /\ store[p] \in SUBSET Entities
    BY DEF QueryInv, TypeOK
  <1>2. \A n \in Names : b[n] \in store[p] \cup {None}
    BY DEF QueryInv, SnapsAreStored
  <1>3. /\ trees[p][t] # None /\ store' = [store EXCEPT ![p] = store[p]]
        /\ ApplyBindings(p, t, b, d, strategy, FALSE, store[p]) /\ UNCHANGED <<store, snaps, held>>
    BY DEF HandleMergeHash, QueryInv, TypeOK
  <1>4. TreesTyped' /\ BoundIsStored' /\ IndexesRight'
    BY <1>1, <1>2, <1>3, AppliedRight
  <1> QED BY <1>3, <1>4 DEF QueryInv, TypeOK, TreesTyped, SnapsAreStored

(* Secondary trees have no indexes. *)
LEMMA SecondaryKeeps ==
    ASSUME TreeAssumption, QueryInv, NEW p \in Peers, NEW t \in Trees, NEW new \in {None, NoTree},
           trees' = [trees EXCEPT ![p][t] = new], UNCHANGED <<store, snaps, byType, byRef, held>>
    PROVE  QueryInv'
  <1>1. \A r \in Peers : Bound(r)' = Bound(r)
    BY DEF Bound, QueryInv, TypeOK, TreeAssumption
  <1>2. new \in [Paths -> Bindings] \cup {None}
    BY DEF NoTree, Bindings
  <1>3. TypeOK'
    BY <1>1, <1>2 DEF QueryInv, TypeOK
  <1>4. BoundIsStored' /\ IndexesRight'
    BY <1>1, LeavesBound
  <1> QED BY <1>3, <1>4 DEF QueryInv, SnapsAreStored

LEMMA IngestKeeps ==
    ASSUME QueryInv, NEW p \in Peers, NEW e \in Entities, HandleIngest(p, e)
    PROVE  QueryInv'
  <1>1. store' \in [Peers -> SUBSET Entities] /\ \A r \in Peers : store[r] \subseteq store'[r]
    BY DEF HandleIngest, QueryInv, TypeOK
  <1>2. BoundIsStored' /\ IndexesRight'
    BY <1>1, LeavesBound DEF HandleIngest, Bound
  <1> QED BY <1>1, <1>2 DEF HandleIngest, QueryInv, TypeOK, SnapsAreStored, Bound

LEMMA StillKeeps ==
    ASSUME QueryInv, UNCHANGED <<trees, store, snaps, byType, byRef, held>>
    PROVE  QueryInv'
  BY DEF QueryInv, TypeOK, BoundIsStored, SnapsAreStored, IndexesRight, Bound

LEMMA QueryStep ==
    ASSUME TreeAssumption, CompleteEnvelopes, QueryInv, [Next]_vars
    PROVE  QueryInv'
  <1>1. CASE Change
    <2> PICK p \in Peers :
        \/ \E path \in Paths, e \in Entities \cup {None}, x \in {"any", "zero"} \cup Entities :
               HandlePut(p, path, e, x)
        \/ \E t \in Trees \cup {Default}, d \in Dirs : HandleSnapshot(p, t, d)
        \/ \E t \in Trees \cup {Default}, d \in Dirs, paths \in SUBSET Names :
               HandleExtract(p, t, d, paths)
        \/ \E t \in Trees \cup {Default}, d \in Dirs,
              env \in {x \in held : AnyEnvelope \/ Complete(p, x)},
              s \in {"no-overwrite", "source-wins", "target-wins"}, dry \in BOOLEAN :
               HandleMerge(p, t, env, d, s, dry)
        \/ \E t \in Trees \cup {Default}, b \in snaps[p], d \in Dirs, s \in {"no-overwrite", "source-wins"} :
               HandleMergeHash(p, t, b, d, s)
        \/ \E t \in Trees : HandleCreate(p, t) \/ HandleDestroy(p, t)
        \/ \E e \in Entities : HandleIngest(p, e)
      BY <1>1 DEF Change
    <2>1. ASSUME NEW path \in Paths, NEW e \in Entities \cup {None}, NEW x, HandlePut(p, path, e, x)
          PROVE  QueryInv'
      BY <2>1, PutKeeps DEF Bindings
    <2>2. ASSUME NEW t \in Trees \cup {Default}, NEW d \in Dirs, HandleSnapshot(p, t, d)
          PROVE  QueryInv'
      BY <2>2, SnapshotKeeps
    <2>3. ASSUME NEW t \in Trees \cup {Default}, NEW d \in Dirs, NEW paths \in SUBSET Names,
                 HandleExtract(p, t, d, paths)
          PROVE  QueryInv'
      BY <2>3, ExtractKeeps
    <2>4. ASSUME NEW t \in Trees \cup {Default}, NEW d \in Dirs,
                 NEW env \in {x \in held : AnyEnvelope \/ Complete(p, x)}, NEW s, NEW dry,
                 HandleMerge(p, t, env, d, s, dry)
          PROVE  QueryInv'
      BY <2>4, MergeKeeps DEF CompleteEnvelopes
    <2>5. ASSUME NEW t \in Trees \cup {Default}, NEW b \in snaps[p], NEW d \in Dirs, NEW s,
                 HandleMergeHash(p, t, b, d, s)
          PROVE  QueryInv'
      BY <2>5, MergeHashKeeps
    <2>6. ASSUME NEW t \in Trees, HandleCreate(p, t) \/ HandleDestroy(p, t)
          PROVE  QueryInv'
      BY <2>6, SecondaryKeeps DEF HandleCreate, HandleDestroy
    <2>7. ASSUME NEW e \in Entities, HandleIngest(p, e)
          PROVE  QueryInv'
      BY <2>7, IngestKeeps
    <2> QED BY <2>1, <2>2, <2>3, <2>4, <2>5, <2>6, <2>7
  <1>2. ASSUME NEW p \in Peers, NEW q \in Queries, FirstPage(p, q) PROVE QueryInv'
    BY <1>2, StillKeeps DEF FirstPage
  <1>3. CASE NextPage
    BY <1>3, StillKeeps DEF NextPage
  <1>4. CASE UNCHANGED vars
    BY <1>4, StillKeeps DEF vars
  <1> QED BY <1>1, <1>2, <1>3, <1>4 DEF Next

-------------------------------------------------------------------------------
(* A query that is answered from right indexes.                            *)
Found(p, q) ==
    {<<x, Bound(p)[x], TypeOf(Bound(p)[x])>> : x \in Asked(p, q)}

LEMMA AnswerRight ==
    ASSUME TreeAssumption, QueryInv, NEW p \in Peers, NEW q \in Queries, ValidateExpression(q)
    PROVE  ExecuteQuery(p, q) = Found(p, q)
  <1> DEFINE tree == Bound(p)
             here == {x \in Paths : tree[x] # None}
             Match(x) == <<x, tree[x], TypeOf(tree[x])>>
  <1>1. /\ tree \in [Paths -> Bindings] /\ None \notin store[p]
        /\ \A x \in Paths : tree[x] \in store[p] <=> tree[x] # None
        /\ byType[p] = TypesOf(tree) /\ byRef[p] = RefsIn(tree)
    BY DEF QueryInv, TypeOK, BoundIsStored, IndexesRight, TreeAssumption
  <1>2. ASSUME NEW t
        PROVE  LookupPattern(p, t) = {Match(x) : x \in {y \in here : TypeOf(tree[y]) = t}}
    <2> DEFINE right == {Match(x) : x \in {y \in here : TypeOf(tree[y]) = t}}
    <2>1. ASSUME NEW z \in LookupPattern(p, t) PROVE z \in right
      <3>1. PICK y \in byType[p] : y[1] = t /\ z = <<y[2], y[3], y[1]>>
        BY <2>1 DEF LookupPattern
      <3>2. PICK x \in here : y = <<TypeOf(tree[x]), x, tree[x]>>
        BY <1>1, <3>1 DEF TypesOf
      <3> QED BY <3>1, <3>2
    <2>2. ASSUME NEW x \in here, TypeOf(tree[x]) = t PROVE Match(x) \in LookupPattern(p, t)
      <3>1. <<TypeOf(tree[x]), x, tree[x]>> \in byType[p]
        BY <1>1 DEF TypesOf
      <3> QED BY <2>2, <3>1 DEF LookupPattern
    <2> QED BY <2>1, <2>2
  <1>3. ASSUME NEW r
        PROVE  ByRef(p, r) = {Match(x) : x \in {y \in here : r \in Refs(tree[y])}}
    <2> DEFINE right == {Match(x) : x \in {y \in here : r \in Refs(tree[y])}}
    <2>1. ASSUME NEW z \in ByRef(p, r) PROVE z \in right
      <3>1. PICK y \in byRef[p] : y[1] = r /\ z = <<y[2], tree[y[2]], y[3]>>
        BY <2>1 DEF ByRef, Bound
      <3>2. PICK x \in here : y[1] \in Refs(tree[x]) /\ y[2] = x /\ y[3] = TypeOf(tree[x])
        BY <1>1, <3>1 DEF RefsIn
      <3> QED BY <3>1, <3>2
    <2>2. ASSUME NEW x \in here, r \in Refs(tree[x]) PROVE Match(x) \in ByRef(p, r)
      <3>1. <<r, x, TypeOf(tree[x])>> \in byRef[p]
        BY <1>1, <2>2 DEF RefsIn
      <3> QED BY <2>2, <3>1 DEF ByRef, Bound
    <2> QED BY <2>1, <2>2
  <1>4. ASSUME NEW d \in Dirs
        PROVE  ListPrefix(p, d) = {Match(x) : x \in {y \in here : y[1] = d}}
    <2> DEFINE right == {Match(x) : x \in {y \in here : y[1] = d}}
    <2>1. ASSUME NEW z \in ListPrefix(p, d) PROVE z \in right
      <3>1. PICK n \in Names : tree[<<d, n>>] \in store[p] /\ z = Match(<<d, n>>)
        BY <2>1 DEF ListPrefix, Bound
      <3>2. <<d, n>> \in here /\ <<d, n>>[1] = d
        BY <1>1, <3>1 DEF Paths
      <3> QED BY <3>1, <3>2
    <2>2. ASSUME NEW x \in here, x[1] = d PROVE Match(x) \in ListPrefix(p, d)
      <3>1. PICK n \in Names : x = <<d, n>>
        BY <2>2 DEF Paths
      <3> QED BY <1>1, <2>2, <3>1 DEF ListPrefix, Bound
    <2> QED BY <2>1, <2>2
  <1>5. q.prefix \in Dirs \cup {None}
    BY DEF TreeAssumption
  <1>6. Candidates(p, q) = {Match(x) : x \in {y \in here :
                              /\ q.type = None \/ TypeOf(tree[y]) = q.type
                              /\ q.ref = None \/ q.ref \in Refs(tree[y])
                              /\ (q.type = None /\ q.ref = None) => y[1] = q.prefix}}
    <2>1. CASE q.type # None /\ q.ref # None
      BY <1>2, <1>3, <2>1 DEF Candidates, Intersect
    <2>2. CASE q.type # None /\ q.ref = None
      BY <1>2, <2>2 DEF Candidates
    <2>3. CASE q.type = None /\ q.ref # None
      BY <1>3, <2>3 DEF Candidates
    <2>4. CASE q.type = None /\ q.ref = None
      BY <1>4, <1>5, <2>4 DEF Candidates, ValidateExpression
    <2> QED BY <2>1, <2>2, <2>3, <2>4
  <1>7. Asked(p, q) = {y \in here :
                          /\ q.type = None \/ TypeOf(tree[y]) = q.type
                          /\ q.ref = None \/ q.ref \in Refs(tree[y])
                          /\ q.prefix = None \/ y[1] = q.prefix
                          /\ q.where = None \/ tree[y] \in q.where
                          /\ CanRead(y)}
    BY <1>1 DEF Asked, Bound
  <1> QED BY <1>1, <1>5, <1>6, <1>7 DEF ExecuteQuery, Found, ApplyFieldFilters, ValidateExpression

(* What the indexes hold is what a rebuild would write (indexes.py), for   *)
(* any number of peers, paths, entities and queries.                       *)
THEOREM InvCorrect ==
    ASSUME TreeAssumption, CompleteEnvelopes PROVE Spec => []QueryInv
  BY QueryInit, QueryStep, PTL DEF Spec

(* So a query answered from the indexes finds what a walk over the tree    *)
(* would find (query.py, tree.py).                                         *)
THEOREM IndexCorrect ==
    ASSUME TreeAssumption, CompleteEnvelopes PROVE Spec => []IndexAgrees
  <1>1. QueryInv => IndexAgrees
    BY AnswerRight DEF IndexAgrees, Found, Bound
  <1> QED BY <1>1, InvCorrect, PTL

-------------------------------------------------------------------------------
(* Paging.  A cursor is a number of matches, so what counts is how many    *)
(* matches stand before a path, at the moment a page is asked for.         *)
Answer(M) ==
    /\ \A m \in M : m[1] \in Paths
    /\ \A m, o \in M : m[1] = o[1] => m = o

Preceding(M, x) == {o \in M : Before(o[1], x)}
Below(M, x)     == Cardinality(Preceding(M, x))

Answers ==
    \A p \in Peers, q \in Queries : ValidateExpression(q) => Answer(ExecuteQuery(p, q))

LEMMA AnswersRight == ASSUME TreeAssumption PROVE QueryInv => Answers
  <1> SUFFICES ASSUME QueryInv, NEW p \in Peers, NEW q \in Queries, ValidateExpression(q)
               PROVE  Answer(Found(p, q))
    BY AnswerRight DEF Answers
  <1> QED BY DEF Answer, Found, Asked

LEMMA BeforeOrders ==
    ASSUME TreeAssumption
    PROVE  /\ \A x \in Paths : ~Before(x, x)
           /\ \A x, y \in Paths : x # y => Before(x, y) \/ Before(y, x)
           /\ \A x, y, z \in Paths : Before(x, y) /\ Before(y, z) => Before(x, z)
  <1>1. \A x \in Paths : x[1] \in Int /\ x[2] \in Int
    BY DEF Paths, TreeAssumption
  <1>2. \A x, y \in Paths : x[1] = y[1] /\ x[2] = y[2] => x = y
    BY DEF Paths
  <1> QED BY <1>1, <1>2 DEF Before

(* Matches may be counted by their paths.                                  *)
LEMMA CountPaths ==
    ASSUME TreeAssumption, NEW M, Answer(M), NEW S \in SUBSET M
    PROVE  /\ IsFiniteSet(S) /\ IsFiniteSet(PathsOf(S)) /\ Cardinality(S) = Cardinality(PathsOf(S))
           /\ Cardinality(S) \in Nat
  <1> DEFINE g == [o \in S |-> o[1]]
             P == PathsOf(S)
  <1>1. P \in SUBSET Paths
    BY DEF Answer, PathsOf
  <1>2. IsFiniteSet(P)
    BY <1>1, FS_Subset DEF TreeAssumption
  <1>a. \A m, o \in S : m[1] = o[1] => m = o
    BY DEF Answer
  <1>b. g \in [S -> P] /\ (\A y \in P : \E o \in S : g[o] = y)
    BY DEF PathsOf
  <1>c. \A m, o \in S : g[m] = g[o] => m = o
    BY <1>a
  <1>3. g \in Injection(S, P) /\ g \in Surjection(S, P)
    BY <1>b, <1>c DEF Injection, Surjection, IsInjective
  <1> HIDE DEF g, P
  <1>4. IsFiniteSet(S) /\ Cardinality(S) = Cardinality(P)
    BY <1>2, <1>3, FS_Injection
  <1>5. Cardinality(S) \in Nat
    BY <1>4, FS_CardinalityType
  <1> QED BY <1>2, <1>4, <1>5 DEF P

(* More matches before the same path never move it towards the front.      *)
LEMMA RankGrows ==
    ASSUME TreeAssumption, NEW M, Answer(M), NEW N, Answer(N), PathsOf(M) \subseteq PathsOf(N), NEW x
    PROVE  Below(M, x) <= Below(N, x) /\ Below(M, x) \in Nat /\ Below(N, x) \in Nat
  <1> DEFINE S == Preceding(M, x)
             T == Preceding(N, x)
  <1>1. S \in SUBSET M /\ T \in SUBSET N
    BY DEF Preceding
  <1>2. PathsOf(S) \in SUBSET PathsOf(T)
    BY DEF Preceding, PathsOf
  <1> HIDE DEF S, T
  <1>3. /\ Cardinality(S) = Cardinality(PathsOf(S)) /\ Cardinality(T) = Cardinality(PathsOf(T))
        /\ IsFiniteSet(PathsOf(T)) /\ Cardinality(S) \in Nat /\ Cardinality(T) \in Nat
    BY <1>1, CountPaths
  <1>4. Cardinality(PathsOf(S)) <= Cardinality(PathsOf(T))
    BY <1>2, <1>3, FS_Subset
  <1> QED BY <1>3, <1>4 DEF Below, S, T

LEMMA RankIs ==
    ASSUME TreeAssumption, NEW M, Answer(M), NEW m \in M, NEW S \in SUBSET M,
           m \in S, Preceding(M, m[1]) \subseteq S
    PROVE  /\ Below(M, m[1]) \in Nat /\ Cardinality(S) \in Nat
           /\ Below(M, m[1]) < Cardinality(S)
  <1> DEFINE Q == Preceding(M, m[1])
  <1>1. Q \in SUBSET M /\ m \notin Q
    BY BeforeOrders DEF Preceding, Answer
  <1>2. Q \cup {m} \in SUBSET S
    OBVIOUS
  <1> HIDE DEF Q
  <1>3. IsFiniteSet(S) /\ Cardinality(S) \in Nat /\ IsFiniteSet(Q) /\ Cardinality(Q) \in Nat
    BY <1>1, CountPaths
  <1>4. Cardinality(Q \cup {m}) = Cardinality(Q) + 1
    BY <1>1, <1>3, FS_AddElement
  <1>5. Cardinality(Q \cup {m}) <= Cardinality(S)
    BY <1>2, <1>3, FS_Subset
  <1> QED BY <1>3, <1>4, <1>5 DEF Below, Q

(* The sorted matches hold each match at its place.                        *)
LEMMA Placed ==
    ASSUME TreeAssumption, NEW M, Answer(M), NEW m \in M
    PROVE  /\ Below(M, m[1]) \in Nat /\ Below(M, m[1]) < Cardinality(M) /\ Cardinality(M) \in Nat
           /\ SortMatches(M)[Below(M, m[1]) + 1] = m
  <1> DEFINE r == Below(M, m[1])
             At(i) == CHOOSE z \in M : Below(M, z[1]) = i - 1
  <1>1. r \in Nat /\ r < Cardinality(M) /\ Cardinality(M) \in Nat
    BY RankIs DEF Preceding
  <1>2. SortMatches(M) = [i \in 1 .. Cardinality(M) |-> At(i)]
    BY DEF SortMatches, Below, Preceding
  <1>3. ASSUME NEW z \in M, z # m PROVE Below(M, z[1]) # r
    <2>1. z[1] # m[1] /\ z[1] \in Paths /\ m[1] \in Paths
      BY <1>3 DEF Answer
    <2>2. CASE Before(z[1], m[1])
      <3>1. z \in Preceding(M, m[1]) /\ Preceding(M, z[1]) \subseteq Preceding(M, m[1])
        BY <2>1, <2>2, BeforeOrders DEF Preceding, Answer
      <3>2. Preceding(M, m[1]) \in SUBSET M
        BY DEF Preceding
      <3>3. Below(M, z[1]) \in Nat /\ Below(M, z[1]) < Cardinality(Preceding(M, m[1]))
        BY <3>1, <3>2, RankIs
      <3> QED BY <1>1, <3>3 DEF Below
    <2>3. CASE Before(m[1], z[1])
      <3>1. m \in Preceding(M, z[1]) /\ Preceding(M, m[1]) \subseteq Preceding(M, z[1])
        BY <2>1, <2>3, BeforeOrders DEF Preceding, Answer
      <3>2. Preceding(M, z[1]) \in SUBSET M
        BY DEF Preceding
      <3>3. r < Cardinality(Preceding(M, z[1]))
        BY <3>1, <3>2, RankIs
      <3> QED BY <1>1, <3>3 DEF Below
    <2> QED BY <2>1, <2>2, <2>3, BeforeOrders
  <1> HIDE DEF r
  <1>4. At(r + 1) \in M /\ Below(M, At(r + 1)[1]) = (r + 1) - 1
    <2>1. Below(M, m[1]) = (r + 1) - 1
      BY <1>1 DEF r
    <2> QED BY <2>1
  <1> HIDE DEF At
  <1>5. At(r + 1) = m
    BY <1>1, <1>3, <1>4
  <1> QED BY <1>1, <1>2, <1>5 DEF r

(* A page holds the matches whose places it covers.                        *)
LEMMA PageHolds ==
    ASSUME TreeAssumption, NEW M, Answer(M), NEW start \in Nat, NEW x \in PathsOf(M),
           start <= Below(M, x), Below(M, x) < start + Limit
    PROVE  LET matches == SortMatches(M)
               total   == Len(matches)
               page    == SubSeq(matches, start + 1, IF start + Limit < total THEN start + Limit ELSE total)
           IN  x \in {page[i][1] : i \in 1 .. Len(page)}
  <1> DEFINE matches == SortMatches(M)
             total   == Len(matches)
             last    == IF start + Limit < total THEN start + Limit ELSE total
             page    == SubSeq(matches, start + 1, last)
             b       == Below(M, x)
  <1>1. PICK m \in M : x = m[1]
    BY DEF PathsOf
  <1>2. b \in Nat /\ b < Cardinality(M) /\ Cardinality(M) \in Nat /\ matches[b + 1] = m
    BY <1>1, Placed
  <1>3. total = Cardinality(M)
    BY <1>2 DEF SortMatches
  <1> HIDE DEF matches, total, b
  <1>4. Limit \in Nat /\ start <= b /\ b < start + Limit
    BY DEF TreeAssumption, b
  <1>5. last \in Nat /\ b + 1 <= last /\ start + 1 \in Int
    BY <1>2, <1>3, <1>4
  <1> HIDE DEF last
  <1> DEFINE S == {matches[i] : i \in (start + 1) .. last}
  <1>6. \A i \in (start + 1) .. last : matches[i] \in S
    OBVIOUS
  <1> HIDE DEF S
  <1>7. /\ Len(page) = IF start + 1 <= last THEN last - (start + 1) + 1 ELSE 0
        /\ \A i \in 1 .. last - (start + 1) + 1 : page[i] = matches[(start + 1) + i - 1]
    BY <1>5, <1>6, SubSeqProperties
  <1> HIDE DEF page
  <1>8. b + 1 - start \in 1 .. Len(page) /\ (start + 1) + (b + 1 - start) - 1 = b + 1
        /\ b + 1 - start \in 1 .. last - (start + 1) + 1
    BY <1>2, <1>4, <1>5, <1>7
  <1>9. page[b + 1 - start] = m
    BY <1>2, <1>7, <1>8
  <1>10. x \in {page[i][1] : i \in 1 .. Len(page)}
    BY <1>1, <1>8, <1>9
  <1> QED BY <1>10 DEF page, last, total, matches

-------------------------------------------------------------------------------
AScan(z) ==
    z = [peer |-> z.peer, query |-> z.query, offset |-> z.offset, seen |-> z.seen,
         more |-> z.more, owed |-> z.owed, intact |-> z.intact]

Scan(z) ==
    /\ AScan(z)
    /\ z.peer \in Peers /\ z.query \in Queries /\ ValidateExpression(z.query)
    /\ z.offset \in Nat /\ z.more \in BOOLEAN /\ z.intact \in BOOLEAN

(* What is owed and was not on a page yet stands behind the cursor.        *)
Ahead(z, M) ==
    /\ z.owed \subseteq PathsOf(M)
    /\ z.intact => \A x \in z.owed \ z.seen : z.more /\ z.offset <= Below(M, x)

ScanInv == scan # None => Scan(scan) /\ Ahead(scan, ExecuteQuery(scan.peer, scan.query))

\* z is the scan s after the page at its cursor, out of the matches M.
Turned(M, s, z) ==
    LET matches == SortMatches(M)
        total   == Len(matches)
        page    == SubSeq(matches, s.offset + 1,
                          IF s.offset + Limit < total THEN s.offset + Limit ELSE total)
    IN  z = [s EXCEPT !.seen = @ \cup {page[i][1] : i \in 1 .. Len(page)},
                      !.offset = EncodeCursor(s.offset, Limit),
                      !.more = s.offset + Limit < total]

LEMMA PageKeeps ==
    ASSUME TreeAssumption, NEW M, Answer(M), NEW s, Scan(s),
           s.owed \subseteq PathsOf(M),
           s.intact => \A x \in s.owed \ s.seen : s.offset <= Below(M, x),
           NEW z, Turned(M, s, z)
    PROVE  Scan(z) /\ Ahead(z, M) /\ z.peer = s.peer /\ z.query = s.query
  <1> DEFINE total == Len(SortMatches(M))
             page  == SubSeq(SortMatches(M), s.offset + 1,
                             IF s.offset + Limit < total THEN s.offset + Limit ELSE total)
             Here  == {page[i][1] : i \in 1 .. Len(page)}
             next  == s.offset + Limit < total
  <1>1. z = [s EXCEPT !.seen = s.seen \cup Here, !.offset = s.offset + Limit, !.more = next]
    BY DEF Turned, EncodeCursor
  <1>2. s.offset \in Nat /\ Limit \in Nat
    BY DEF Scan, TreeAssumption
  <1>3. ASSUME NEW x \in PathsOf(M), s.offset <= Below(M, x), x \notin Here
        PROVE  next /\ s.offset + Limit <= Below(M, x)
    <2>1. PICK m \in M : x = m[1]
      BY DEF PathsOf
    <2>2. Below(M, x) \in Nat /\ Below(M, x) < Cardinality(M) /\ Cardinality(M) \in Nat
      BY <2>1, Placed
    <2>3. total = Cardinality(M)
      BY <2>2 DEF SortMatches
    <2>4. ~(Below(M, x) < s.offset + Limit)
      BY <1>2, <1>3, PageHolds
    <2> HIDE DEF total
    <2> QED BY <1>2, <2>2, <2>3, <2>4
  <1> HIDE DEF Here, next
  <1>4. next \in BOOLEAN
    BY DEF next
  <1>5. /\ z.peer = s.peer /\ z.query = s.query /\ z.offset = s.offset + Limit /\ z.seen = s.seen \cup Here
        /\ z.more = next /\ z.owed = s.owed /\ z.intact = s.intact
        /\ AScan(z)
    BY <1>1 DEF Scan, AScan
  <1>6. Scan(z)
    <2>1. s.offset + Limit \in Nat
      BY <1>2
    <2> QED BY <1>4, <1>5, <2>1, Zenon DEF Scan
  <1>7. Ahead(z, M)
    <2>1. ASSUME s.intact, NEW x \in s.owed, x \notin s.seen \cup Here
          PROVE  next /\ s.offset + Limit <= Below(M, x)
      BY <1>3, <2>1
    <2> QED BY <1>5, <2>1, Zenon DEF Ahead
  <1> QED BY <1>5, <1>6, <1>7

(* A change of the tree while the client is between two pages.             *)
Followed(M, N, s, z) ==
    z = [s EXCEPT !.owed = @ \cap PathsOf(N), !.intact = @ /\ PathsOf(M) \subseteq PathsOf(N)]

LEMMA ChangeKeeps ==
    ASSUME TreeAssumption, NEW M, Answer(M), NEW N, Answer(N), NEW s, Scan(s), Ahead(s, M), NEW z,
           Followed(M, N, s, z)
    PROVE  Scan(z) /\ Ahead(z, N) /\ z.peer = s.peer /\ z.query = s.query
  <1> DEFINE kept == s.intact /\ PathsOf(M) \subseteq PathsOf(N)
  <1>1. z = [s EXCEPT !.owed = s.owed \cap PathsOf(N), !.intact = kept]
    BY DEF Followed
  <1>2. kept \in BOOLEAN /\ (kept => s.intact)
    OBVIOUS
  <1>3. ASSUME kept, NEW x PROVE Below(M, x) <= Below(N, x) /\ Below(M, x) \in Nat /\ Below(N, x) \in Nat
    BY <1>3, RankGrows
  <1> HIDE DEF kept
  <1>4. /\ z.peer = s.peer /\ z.query = s.query /\ z.offset = s.offset /\ z.seen = s.seen
        /\ z.more = s.more /\ z.owed = s.owed \cap PathsOf(N) /\ z.intact = kept
        /\ AScan(z)
    BY <1>1 DEF Scan, AScan
  <1>5. Scan(z)
    BY <1>2, <1>4 DEF Scan
  <1>6. ASSUME kept, NEW x \in z.owed \ z.seen PROVE z.more /\ z.offset <= Below(N, x)
    <2>1. s.more /\ s.offset <= Below(M, x) /\ s.offset \in Nat
      BY <1>2, <1>4, <1>6 DEF Ahead, Scan
    <2> QED BY <1>3, <1>4, <1>6, <2>1
  <1>7. Ahead(z, N)
    BY <1>4, <1>6 DEF Ahead
  <1> QED BY <1>4, <1>5, <1>7

LEMMA SameAnswer ==
    ASSUME NEW p, NEW q, UNCHANGED <<trees, store, byType, byRef>>, scan'.peer = p, scan'.query = q
    PROVE  ExecuteQuery(scan.peer, scan.query)' = ExecuteQuery(p, q)
  BY DEF ExecuteQuery, Candidates, LookupPattern, ByRef, ListPrefix, Intersect, ApplyFieldFilters

LEMMA ScanStep ==
    ASSUME TreeAssumption, Answers, Answers', ScanInv, [Next]_vars
    PROVE  ScanInv'
  <1>1. ASSUME NEW p \in Peers, NEW q \in Queries, FirstPage(p, q) PROVE ScanInv'
    <2> DEFINE M == ExecuteQuery(p, q)
               s == [peer |-> p, query |-> q, offset |-> 0, seen |-> {}, more |-> TRUE,
                     owed |-> PathsOf(M), intact |-> TRUE]
    <2>1. ValidateExpression(q) /\ HandleFind(p, q, 0, s) /\ UNCHANGED <<trees, store, byType, byRef>>
      BY <1>1 DEF FirstPage
    <2>2. Answer(M)
      BY <2>1 DEF Answers
    <2>3. s.offset = 0 /\ s.owed = PathsOf(M) /\ s.peer = p /\ s.query = q /\ Scan(s)
      BY <2>1 DEF Scan, AScan
    <2>4. \A x \in s.owed \ s.seen : s.offset <= Below(M, x)
      BY <2>2, <2>3, RankGrows
    <2>a. HandleFind(p, q, s.offset, s)
      BY <2>1, <2>3
    <2> HIDE DEF s
    <2>b. Turned(M, s, scan')
      BY <2>a DEF HandleFind, Turned
    <2> HIDE DEF M
    <2>c. Scan(s) /\ s.owed \subseteq PathsOf(M)
      BY <2>3
    <2>d. s.intact => \A x \in s.owed \ s.seen : s.offset <= Below(M, x)
      BY <2>4
    <2>5. Scan(scan') /\ Ahead(scan', M) /\ scan'.peer = s.peer /\ scan'.query = s.query
      BY <2>2, <2>b, <2>c, <2>d, PageKeeps
    <2>6. ExecuteQuery(scan.peer, scan.query)' = M
      BY <2>1, <2>3, <2>5, SameAnswer DEF M
    <2> QED BY <2>5, <2>6 DEF ScanInv
  <1>2. CASE NextPage
    <2> DEFINE M == ExecuteQuery(scan.peer, scan.query)
    <2>1. scan # None /\ HandleFind(scan.peer, scan.query, scan.offset, scan)
          /\ UNCHANGED <<trees, store, byType, byRef>>
      BY <1>2 DEF NextPage
    <2>2. Scan(scan) /\ Ahead(scan, M)
      BY <2>1 DEF ScanInv
    <2>3. Answer(M)
      BY <2>2 DEF Answers, Scan
    <2>a. Turned(M, scan, scan')
      BY <2>1 DEF HandleFind, Turned
    <2> HIDE DEF M
    <2>b. scan.owed \subseteq PathsOf(M) /\ (scan.intact => \A x \in scan.owed \ scan.seen : scan.offset <= Below(M, x))
      BY <2>2 DEF Ahead
    <2>4. Scan(scan') /\ Ahead(scan', M) /\ scan'.peer = scan.peer /\ scan'.query = scan.query
      BY <2>2, <2>3, <2>a, <2>b, PageKeeps
    <2>5. ExecuteQuery(scan.peer, scan.query)' = M
      BY <2>1, <2>4, SameAnswer DEF M
    <2> QED BY <2>4, <2>5 DEF ScanInv
  <1>3. CASE Watched
    <2>1. CASE scan = None
      BY <1>3, <2>1 DEF Watched, ScanInv
    <2>2. CASE scan # None
      <3>1. PICK p \in {scan.peer}, q \in {scan.query} :
                scan' = [scan EXCEPT !.owed = @ \cap PathsOf(ExecuteQuery(p, q)'),
                                     !.intact = @ /\ PathsOf(ExecuteQuery(p, q)) \subseteq PathsOf(ExecuteQuery(p, q)')]
        BY <1>3, <2>2 DEF Watched
      <3> DEFINE M == ExecuteQuery(p, q)
                 N == ExecuteQuery(p, q)'
      <3>2. p = scan.peer /\ q = scan.query /\ Scan(scan) /\ Ahead(scan, M)
        BY <2>2 DEF ScanInv
      <3>3. p \in Peers /\ q \in Queries /\ ValidateExpression(q)
        BY <3>2 DEF Scan
      <3>4. Answer(M) /\ Answer(N)
        BY <3>3 DEF Answers
      <3>a. Followed(M, N, scan, scan')
        BY <3>1 DEF Followed
      <3> HIDE DEF M, N
      <3>5. Scan(scan') /\ Ahead(scan', N) /\ scan'.peer = scan.peer /\ scan'.query = scan.query
        BY <3>2, <3>4, <3>a, ChangeKeeps
      <3>6. ExecuteQuery(scan.peer, scan.query)' = N
        BY <3>2, <3>5 DEF N
      <3> QED BY <3>5, <3>6 DEF ScanInv
    <2> QED BY <2>1, <2>2
  <1>4. CASE UNCHANGED vars
    <2>1. scan' = scan /\ ExecuteQuery(scan.peer, scan.query)' = ExecuteQuery(scan.peer, scan.query)
      BY <1>4, SameAnswer DEF vars
    <2> QED BY <2>1 DEF ScanInv
  <1> QED BY <1>1, <1>2, <1>3, <1>4 DEF Next

(* A client that pages through a query (query.py _handle_find()) misses no *)
(* path that matched all along, unless a match went away: for any tree,    *)
(* query and page size, with any changes between two pages.                *)
THEOREM ScanCorrect ==
    ASSUME TreeAssumption, CompleteEnvelopes PROVE Spec => []ScanComplete
  <1>1. Init => ScanInv
    BY DEF Init, ScanInv
  <1>2. ScanInv => ScanComplete
    BY DEF ScanInv, Ahead, ScanComplete
  <1> QED BY <1>1, <1>2, AnswersRight, ScanStep, InvCorrect, PTL DEF Spec


-------------------------------------------------------------------------------
(***************************************************************************)
(* The history of paths.                                                   *)
(*                                                                         *)
(* HeadIsBinding speaks of the moments between cascades.  While one is     *)
(* under way, the last change of a path may wait for the recorder: then    *)
(* its dispatch is the one on top of the stack and has not passed the      *)
(* recorder, since no hook writes before it.                               *)
(***************************************************************************)
TreeContents == Values \cup {Nothing}
Stamps ==
    {Nothing} \cup [timestamp : Nat] \cup [timestamp : Nat, logical : Nat]
    \cup [timestamp : Nat, logical : Nat, hlc : Nat \X Nat]
Frames ==
    [path : DataPaths, head : BOOLEAN, previous : TreeContents, hash : TreeContents,
     clock : Stamps, at : 1..4]
Transitions ==
    [event : {"created", "updated", "deleted"}, hash : TreeContents, previous : TreeContents,
     clock : Stamps]

HistoryTypeOK ==
    /\ bound \in [DataPaths -> TreeContents]
    /\ chain \in [DataPaths -> Seq(Transitions)]
    /\ mode \in Modes
    /\ clock \in [logical : Nat, hlc : Nat \X Nat]
    /\ stack \in Seq(Frames)
    /\ covered \subseteq DataPaths

ToRecord(p) ==
    /\ stack # << >>
    /\ \E f \in {Last(stack)} :
          /\ f.path = p
          /\ f.at <= 2
          /\ f.hash = bound[p]
          /\ Records(f)
    /\ Len(stack) < RefuseDepth
Recorded(p) == chain[p] # << >> /\ Last(chain[p]).hash = bound[p]

(* Only the dispatch on top has not passed the recorder, and what it tells *)
(* of is still bound.                                                      *)
Beyond(s) == \A i \in 1..Len(s) : s[i].at > 2
Under == \A i \in 1..Len(stack) - 1 : stack[i].at > 2
Fresh ==
    stack # << >> =>
        \A f \in {Last(stack)} : f.at <= 2 /\ ~f.head => f.hash = bound[f.path]

Shape == HistoryTypeOK /\ Under /\ Fresh
HistoryInv == Shape /\ \A p \in covered : ToRecord(p) \/ Recorded(p)

-------------------------------------------------------------------------------
LEMMA LastIs ==
    ASSUME NEW S, NEW s \in Seq(S), s # << >>
    PROVE  Last(s) = s[Len(s)] /\ Last(s) \in S /\ Len(s) \in Nat /\ Len(s) > 0
  BY DEF Last

LEMMA LastAppended ==
    ASSUME NEW S, NEW s \in Seq(S), NEW e \in S
    PROVE  /\ Append(s, e) \in Seq(S)
           /\ Append(s, e) # << >>
           /\ Last(Append(s, e)) = e
           /\ Len(Append(s, e)) = Len(s) + 1
  BY DEF Last

LEMMA FrontIs ==
    ASSUME NEW S, NEW s \in Seq(S), s # << >>
    PROVE  Front(s) \in Seq(S)
  BY DEF Front

LEMMA TopIs ==
    ASSUME HistoryTypeOK, stack # << >>
    PROVE  Top \in Frames /\ Top.at \in 1..4 /\ Top = stack[Len(stack)]
  <1>1. Top \in Frames /\ Top = stack[Len(stack)]
    BY LastIs DEF HistoryTypeOK, Top
  <1> QED BY <1>1 DEF Frames

LEMMA HooksAre == Len(Hooks) = 3 /\ Hooks[1] = "clock" /\ Hooks[2] = "history" /\ Hooks[3] = "later"
  BY DEF Hooks

LEMMA TurnIs ==
    ASSUME HistoryTypeOK, NEW hook, Turn(hook)
    PROVE  /\ stack # << >>
           /\ Top \in Frames
           /\ Top.at \in 1..3
           /\ Hooks[Top.at] = hook
  <1>1. stack # << >> /\ Top.at <= 3 /\ Hooks[Top.at] = hook
    BY HooksAre DEF Turn
  <1> QED BY <1>1, TopIs

(* The frame on top with its hook pointer moved on. *)
LEMMA PassedIs ==
    ASSUME HistoryTypeOK, stack # << >>, Top.at \in 1..3
    PROVE  /\ Passed \in Seq(Frames)
           /\ Passed # << >>
           /\ Len(Passed) = Len(stack)
           /\ Last(Passed) = [Top EXCEPT !.at = @ + 1]
           /\ Last(Passed) \in Frames
           /\ \A i \in 1..Len(stack) - 1 : Passed[i] = stack[i]
  <1>1. Len(stack) \in Nat /\ Len(stack) > 0 /\ Top = stack[Len(stack)] /\ Top \in Frames
    BY LastIs DEF HistoryTypeOK, Top
  <1>2. [Top EXCEPT !.at = @ + 1] \in Frames
    BY <1>1 DEF Frames
  <1>3. Passed = [stack EXCEPT ![Len(stack)] = [Top EXCEPT !.at = @ + 1]]
    BY <1>1 DEF Passed
  <1> DEFINE e == [Top EXCEPT !.at = @ + 1]
  <1> HIDE DEF e
  <1>4. e \in Frames /\ Passed = [stack EXCEPT ![Len(stack)] = e]
    BY <1>2, <1>3 DEF e
  <1>5. stack \in Seq(Frames)
    BY DEF HistoryTypeOK
  <1>6. Passed \in Seq(Frames) /\ Len(Passed) = Len(stack) /\ Passed[Len(stack)] = e
    BY <1>1, <1>4, <1>5
  <1>7. \A i \in 1..Len(stack) - 1 : Passed[i] = stack[i]
    BY <1>1, <1>4, <1>5
  <1>8. Passed # << >>
    BY <1>1, <1>6
  <1>9. Last(Passed) = Passed[Len(stack)]
    BY <1>6 DEF Last
  <1> QED BY <1>4, <1>6, <1>7, <1>8, <1>9 DEF e

LEMMA PassedBeyond ==
    ASSUME Shape, stack # << >>, Top.at \in 2..3
    PROVE  Beyond(Passed)
  <1>1. Len(stack) \in Nat /\ Len(stack) > 0 /\ Top \in Frames
    BY LastIs DEF Shape, HistoryTypeOK, Top
  <1>2. /\ Len(Passed) = Len(stack) /\ Passed[Len(stack)] = [Top EXCEPT !.at = @ + 1]
        /\ \A i \in 1..Len(stack) - 1 : Passed[i] = stack[i]
    BY PassedIs, LastIs DEF Shape
  <1>3. [Top EXCEPT !.at = @ + 1].at > 2
    BY <1>1 DEF Frames
  <1>4. ASSUME NEW i \in 1..Len(Passed) PROVE Passed[i].at > 2
    <2>1. CASE i = Len(stack)
      BY <1>2, <1>3, <2>1
    <2>2. CASE i # Len(stack)
      <3>1. i \in 1..Len(stack) - 1
        BY <1>1, <1>2, <2>2
      <3> QED BY <1>2, <3>1 DEF Shape, Under
    <2> QED BY <2>1, <2>2
  <1> QED BY <1>4 DEF Beyond

LEMMA AllBeyond ==
    ASSUME NEW s \in Seq(Frames), Beyond(s), stack' = s
    PROVE  Under' /\ Fresh'
  <1>1. Under'
    BY DEF Under, Beyond
  <1>2. Fresh'
    <2> SUFFICES ASSUME s # << >> PROVE Last(s).at > 2 /\ Last(s).at \in Int
      BY DEF Fresh
    <2>1. Last(s) = s[Len(s)] /\ Last(s) \in Frames /\ Len(s) \in 1..Len(s)
      BY LastIs
    <2>2. Last(s).at \in Int
      BY <2>1 DEF Frames
    <2> QED BY <2>1, <2>2 DEF Beyond
  <1> QED BY <1>1, <1>2

LEMMA Pushed ==
    ASSUME NEW s \in Seq(Frames), Beyond(s), NEW e \in Frames, stack' = Append(s, e),
           e.head \/ e.hash = bound'[e.path]
    PROVE  Under' /\ Fresh'
  <1>1. Under'
    BY LastAppended DEF Under, Beyond
  <1>2. Fresh'
    BY LastAppended DEF Fresh
  <1> QED BY <1>1, <1>2

LEMMA RecordsStays ==
    ASSUME NEW f, UNCHANGED index
    PROVE  Records(f)' <=> Records(f)
  BY DEF Records, FindConfig, Kind

(* A path that waits for the recorder is not there once the recorder has   *)
(* passed.                                                                 *)
LEMMA Waits ==
    ASSUME HistoryInv, NEW p \in covered, stack = << >> \/ Top.at > 2
    PROVE  Recorded(p)
  <1>1. ~ToRecord(p)
    BY TopIs DEF HistoryInv, Shape, ToRecord, Top
  <1> QED BY <1>1 DEF HistoryInv

LEMMA StampTyped ==
    ASSUME NEW c \in [logical : Nat, hlc : Nat \X Nat], NEW m \in Modes, NEW t \in 0..MaxWall
    PROVE  /\ Tick(c, m, t) \in [logical : Nat, hlc : Nat \X Nat]
           /\ Stamp(c, m, t) \in Stamps
  <1>0. t \in Nat
    OBVIOUS
  <1>1. Tick(c, m, t) \in [logical : Nat, hlc : Nat \X Nat]
    BY <1>0 DEF Tick
  <1>2. Stamp(c, m, t) \in Stamps
    <2>1. CASE m = "wall"
      BY <1>0, <2>1 DEF Stamp, Stamps
    <2>2. CASE m = "logical"
      BY <1>0, <2>2 DEF Stamp, Stamps
    <2>3. CASE m = "hlc"
      BY <1>0, <2>3 DEF Stamp, Stamps
    <2> QED BY <2>1, <2>2, <2>3 DEF Modes
  <1> QED BY <1>1, <1>2

(* A write starts when nothing waits for the recorder. *)
LEMMA Committed ==
    ASSUME HistoryInv, NEW p \in DataPaths, NEW h \in TreeContents, NEW below \in Seq(Frames), Beyond(below),
           stack = << >> \/ Top.at > 2,
           Commit(p, h, below), UNCHANGED <<index, chain, mode, clock>>
    PROVE  HistoryInv'
  <1>1. \A q \in covered : Recorded(q)
    BY Waits
  <1>2. CASE bound[p] = h \/ (h # Nothing /\ Len(below) >= RefuseDepth)
    <2>1. stack' = below /\ UNCHANGED <<bound, covered>>
      BY <1>2 DEF Commit
    <2>2. HistoryTypeOK'
      BY <2>1 DEF HistoryInv, Shape, HistoryTypeOK
    <2> QED BY <1>1, <2>1, <2>2, AllBeyond DEF HistoryInv, Shape, Recorded
  <1>3. CASE ~(bound[p] = h \/ (h # Nothing /\ Len(below) >= RefuseDepth))
    <2> DEFINE f == Frame(p, FALSE, bound[p], h)
    <2>1. /\ bound' = [bound EXCEPT ![p] = h]
          /\ stack' = Append(below, f)
          /\ covered' = IF Records(f) /\ Len(below) + 1 < RefuseDepth
                        THEN covered \cup {p} ELSE covered \ {p}
      BY <1>3 DEF Commit
    <2>2. f \in Frames /\ f.path = p /\ f.hash = h /\ f.at = 1
      BY DEF Frame, Frames, HistoryInv, Shape, HistoryTypeOK, Stamps, TreeContents
    <2>3. stack' \in Seq(Frames) /\ stack' # << >> /\ Last(stack') = f /\ Len(stack') = Len(below) + 1
      <3> HIDE DEF f
      <3> QED BY <2>1, <2>2, LastAppended
    <2>4. Shape'
      <3>1. HistoryTypeOK'
        BY <2>1, <2>3 DEF HistoryInv, Shape, HistoryTypeOK
      <3>2. f.hash = bound'[f.path]
        BY <2>1, <2>2 DEF HistoryInv, Shape, HistoryTypeOK
      <3> HIDE DEF f
      <3> QED BY <2>1, <2>2, <3>1, <3>2, Pushed DEF Shape
    <2>5. ASSUME NEW q \in covered' PROVE ToRecord(q)' \/ Recorded(q)'
      <3>1. CASE q # p
        BY <1>1, <2>1, <2>5, <3>1 DEF Recorded, HistoryInv, Shape, HistoryTypeOK
      <3>2. CASE q = p
        <4> HIDE DEF f
        <4>1. Records(f) /\ Len(stack') < RefuseDepth
          BY <2>1, <2>3, <2>5, <3>2
        <4>2. PICK g : g = f
          OBVIOUS
        <4>3. Records(g)'
          BY <4>1, <4>2, RecordsStays
        <4>4. bound'[p] = h
          BY <2>1 DEF HistoryInv, Shape, HistoryTypeOK
        <4> QED BY <2>2, <2>3, <3>2, <4>1, <4>2, <4>3, <4>4 DEF ToRecord
      <3> QED BY <3>1, <3>2
    <2> QED BY <2>4, <2>5 DEF HistoryInv, Shape
  <1> QED BY <1>2, <1>3

(* A step that leaves the paths and their chains alone, when nothing waits *)
(* for the recorder.                                                       *)
LEMMA Rests ==
    ASSUME HistoryInv, stack = << >> \/ Top.at > 2, Shape', UNCHANGED <<bound, chain, covered>>
    PROVE  HistoryInv'
  BY Waits DEF HistoryInv, Shape, Recorded

LEMMA ClockStep ==
    ASSUME HistoryInv, NEW t \in 0..MaxWall, ClockHook(t)
    PROVE  HistoryInv'
  <1>1. stack # << >> /\ Top \in Frames /\ Top.at = 1
    BY TurnIs, HooksAre DEF HistoryInv, Shape, ClockHook
  <1> DEFINE s == Stamp(clock', mode, t)
  <1>2. clock' \in [logical : Nat, hlc : Nat \X Nat] /\ s \in Stamps
    BY StampTyped DEF HistoryInv, Shape, HistoryTypeOK, ClockHook
  <1>3. /\ Passed \in Seq(Frames) /\ Len(Passed) = Len(stack) /\ Passed # << >>
        /\ Last(Passed) = [Top EXCEPT !.at = @ + 1] /\ Last(Passed) \in Frames
    BY <1>1, PassedIs DEF HistoryInv, Shape
  <1>4. Len(stack) \in Nat /\ Len(stack) > 0 /\ Passed[Len(stack)] = Last(Passed)
    BY <1>3, LastIs
  <1>10. \A i \in 1..Len(stack) - 1 : Passed[i] = stack[i]
    BY <1>1, PassedIs DEF HistoryInv, Shape
  <1> DEFINE g == [Last(Passed) EXCEPT !.clock = s]
  <1>5. g \in Frames /\ g.path = Top.path /\ g.hash = Top.hash /\ g.at = 2
        /\ g.head = Top.head /\ g.previous = Top.previous
    <2> HIDE DEF s
    <2> DEFINE l == Last(Passed)
    <2>1. l \in Frames /\ l.path = Top.path /\ l.hash = Top.hash /\ l.at = 2
          /\ l.head = Top.head /\ l.previous = Top.previous
      BY <1>1, <1>3 DEF Frames
    <2> HIDE DEF l
    <2>2. [l EXCEPT !.clock = s] \in Frames
      BY <1>2, <2>1 DEF Frames
    <2>3. LET r == [l EXCEPT !.clock = s]
          IN  r.path = l.path /\ r.hash = l.hash /\ r.at = l.at /\ r.head = l.head /\ r.previous = l.previous
      BY <2>1 DEF Frames
    <2> QED BY <2>1, <2>2, <2>3 DEF l
  <1>6. stack' = [Passed EXCEPT ![Len(stack)] = g]
    <2> HIDE DEF s
    <2>1. stack' = [Passed EXCEPT ![Len(stack)].clock = s]
      BY DEF ClockHook, s
    <2> QED BY <1>3, <1>4, <2>1
  <1>7. stack' \in Seq(Frames) /\ stack' # << >> /\ Last(stack') = g /\ Len(stack') = Len(stack)
    <2> HIDE DEF g
    <2>1. stack' \in Seq(Frames) /\ Len(stack') = Len(stack) /\ stack'[Len(stack)] = g
      BY <1>3, <1>4, <1>5, <1>6
    <2> QED BY <1>4, <2>1 DEF Last
  <1>8. Shape'
    <2>1. HistoryTypeOK'
      BY <1>2, <1>7 DEF ClockHook, HistoryInv, Shape, HistoryTypeOK
    <2> HIDE DEF g
    <2>2. Under'
      BY <1>3, <1>4, <1>5, <1>6, <1>10 DEF HistoryInv, Shape, Under
    <2>3. Fresh'
      BY <1>1, <1>5, <1>7 DEF HistoryInv, Shape, Fresh, ClockHook, Top
    <2> QED BY <2>1, <2>2, <2>3 DEF Shape
  <1>9. ASSUME NEW p \in covered' PROVE ToRecord(p)' \/ Recorded(p)'
    <2>1. p \in covered
      BY <1>9 DEF ClockHook
    <2>2. CASE Recorded(p)
      BY <2>2 DEF Recorded, ClockHook
    <2>3. CASE ToRecord(p)
      <3>1. Records(Top) /\ Top.path = p /\ Top.hash = bound[p] /\ Len(stack) < RefuseDepth
        BY <2>3 DEF ToRecord, Top
      <3> HIDE DEF g
      <3>2. Records(g)
        BY <1>5, <3>1 DEF Records
      <3>3. PICK f : f = g
        OBVIOUS
      <3>4. Records(f)'
        BY <3>2, <3>3, RecordsStays DEF ClockHook
      <3> QED BY <1>5, <1>7, <3>1, <3>3, <3>4 DEF ToRecord, ClockHook
    <2> QED BY <2>1, <2>2, <2>3 DEF HistoryInv, Shape
  <1> QED BY <1>8, <1>9 DEF HistoryInv, Shape

LEMMA RecorderStep ==
    ASSUME HistoryInv, Recorder
    PROVE  HistoryInv'
  <1>1. stack # << >> /\ Top \in Frames /\ Top.at = 2
    BY TurnIs, HooksAre DEF HistoryInv, Shape, Recorder, MayEmit
  <1>2. /\ Passed \in Seq(Frames) /\ Passed # << >>
        /\ Last(Passed) = [Top EXCEPT !.at = @ + 1]
    BY <1>1, PassedIs DEF HistoryInv, Shape
  <1>3. Top.path \in DataPaths /\ Top.hash \in TreeContents /\ Top.previous \in TreeContents
    BY <1>1 DEF Frames
  <1>4. CASE Records(Top) /\ Len(stack) < RefuseDepth
    <2> DEFINE e == Transition(Top)
               p == Top.path
    <2>1. e \in Transitions /\ e.hash = Top.hash
      BY <1>1 DEF Transition, Kind, Frames, Transitions
    <2>2. /\ chain' = [chain EXCEPT ![p] = Append(chain[p], e)]
          /\ stack' = Append(Passed, Frame(p, TRUE, Nothing, Nothing))
          /\ UNCHANGED <<bound, mode, clock, covered>>
      BY <1>4 DEF Recorder, MayEmit
    <2>3. Frame(p, TRUE, Nothing, Nothing) \in Frames
      BY <1>3 DEF Frame, Frames, Stamps, TreeContents
    <2> HIDE DEF e
    <2>4. /\ Append(chain[p], e) \in Seq(Transitions)
          /\ Append(chain[p], e) # << >>
          /\ Last(Append(chain[p], e)) = e
      <3>1. chain[p] \in Seq(Transitions)
        BY <1>3 DEF HistoryInv, Shape, HistoryTypeOK
      <3> HIDE DEF p
      <3> QED BY <2>1, <3>1, LastAppended
    <2>5. Shape'
      <3>1. HistoryTypeOK'
        BY <1>2, <1>3, <2>2, <2>3, <2>4, LastAppended DEF HistoryInv, Shape, HistoryTypeOK
      <3>2. Beyond(Passed) /\ Frame(p, TRUE, Nothing, Nothing).head
        BY <1>1, PassedBeyond DEF HistoryInv, Frame
      <3> QED BY <1>2, <2>2, <2>3, <3>1, <3>2, Pushed DEF Shape
    <2>6. ASSUME NEW q \in covered' PROVE Recorded(q)'
      <3>1. q \in covered /\ q \in DataPaths
        BY <2>2, <2>6 DEF HistoryInv, Shape, HistoryTypeOK
      <3>2. CASE q # p
        <4>1. ~ToRecord(q)
          BY <3>2 DEF ToRecord, Top
        <4>2. Recorded(q)
          BY <3>1, <4>1 DEF HistoryInv, Shape
        <4> QED BY <2>2, <3>1, <3>2, <4>2 DEF Recorded, HistoryInv, Shape, HistoryTypeOK
      <3>3. CASE q = p
        <4>1. Top.hash = bound[p]
          BY <1>1, <1>4 DEF HistoryInv, Shape, Fresh, Records, Top
        <4> QED BY <1>3, <2>1, <2>2, <2>4, <3>3, <4>1 DEF Recorded, HistoryInv, Shape, HistoryTypeOK
      <3> QED BY <3>2, <3>3
    <2> QED BY <2>5, <2>6 DEF HistoryInv, Shape
  <1>5. CASE ~(Records(Top) /\ Len(stack) < RefuseDepth)
    <2>1. stack' = Passed /\ UNCHANGED <<bound, chain, mode, clock, covered>>
      BY <1>5 DEF Recorder, MayEmit
    <2>2. Shape'
      BY <1>1, <1>2, <2>1, PassedBeyond, AllBeyond DEF HistoryInv, Shape, HistoryTypeOK
    <2>3. \A q \in covered : ~ToRecord(q)
      BY <1>5 DEF ToRecord, Top
    <2> QED BY <2>1, <2>2, <2>3 DEF HistoryInv, Shape, Recorded
  <1> QED BY <1>4, <1>5
LEMMA HistoryStep ==
    ASSUME HistoryInv, HistoryNext
    PROVE  HistoryInv'
  <1>0. Beyond(<< >>) /\ << >> \in Seq(Frames) /\ Values \subseteq TreeContents /\ Nothing \in TreeContents
    BY DEF Beyond, TreeContents
  <1>1. ASSUME NEW p \in DataPaths, NEW h \in TreeContents, Put(p, h) PROVE HistoryInv'
    BY <1>0, <1>1, Committed DEF Put, Quiet
  <1>2. ASSUME NEW p \in DataPaths, NEW h \in Values, Rollback(p, h) PROVE HistoryInv'
    BY <1>0, <1>2, Committed DEF Rollback, Quiet
  <1>3. ASSUME NEW t \in 0..MaxWall, ClockHook(t) PROVE HistoryInv'
    BY <1>3, ClockStep
  <1>4. CASE Recorder
    BY <1>4, RecorderStep
  <1>5. ASSUME Turn("later") PROVE /\ stack # << >> /\ Top.at = 3
                                   /\ Passed \in Seq(Frames) /\ Beyond(Passed)
    <2>1. stack # << >> /\ Top.at = 3
      BY <1>5, TurnIs, HooksAre DEF HistoryInv, Shape
    <2> QED BY <2>1, PassedIs, PassedBeyond DEF HistoryInv, Shape
  <1>6. ASSUME NEW p \in DataPaths, NEW h \in TreeContents, LaterWrites(p, h) PROVE HistoryInv'
    BY <1>5, <1>6, Committed DEF LaterWrites
  <1>7. CASE LaterIdle
    <2>1. stack' = Passed /\ UNCHANGED <<bound, chain, mode, clock, covered>> /\ Turn("later")
      BY <1>7 DEF LaterIdle
    <2>2. HistoryTypeOK'
      BY <1>5, <2>1 DEF HistoryInv, Shape, HistoryTypeOK
    <2> QED BY <1>5, <2>1, <2>2, AllBeyond, Rests DEF Shape
  <1>8. CASE Return
    <2>1. stack # << >> /\ Top.at > 3 /\ stack' = Front(stack)
          /\ UNCHANGED <<bound, chain, mode, clock, covered>>
      BY <1>8, HooksAre DEF Return
    <2>2. Front(stack) \in Seq(Frames) /\ Beyond(Front(stack))
      <3>1. Len(stack) \in Nat /\ Len(stack) > 0
        BY <2>1, LastIs DEF HistoryInv, Shape, HistoryTypeOK
      <3> QED BY <2>1, <3>1 DEF Front, Beyond, HistoryInv, Shape, Under, HistoryTypeOK
    <2>3. HistoryTypeOK'
      BY <2>1, <2>2 DEF HistoryInv, Shape, HistoryTypeOK
    <2>4. Top.at > 2
      BY <2>1, TopIs DEF HistoryInv, Shape
    <2> QED BY <2>1, <2>2, <2>3, <2>4, AllBeyond, Rests DEF Shape
  <1>9. ASSUME NEW n, NEW c, NEW t \in 0..MaxWall, PutConfig(n, c, t) PROVE HistoryInv'
    <2>1. stack = << >> /\ UNCHANGED <<bound, chain, mode, stack, covered>> /\ clock' = Tick(clock, mode, t)
      BY <1>9 DEF PutConfig, Quiet
    <2>2. Shape'
      BY <2>1, StampTyped DEF HistoryInv, Shape, HistoryTypeOK, Under, Fresh
    <2> QED BY <2>1, <2>2, Rests
  <1>10. ASSUME NEW m \in Modes, NEW t \in 0..MaxWall, SetMode(m, t) PROVE HistoryInv'
    <2>1. stack = << >> /\ UNCHANGED <<bound, chain, stack, covered>> /\ mode' = m /\ clock' = Tick(clock, m, t)
      BY <1>10 DEF SetMode, Quiet
    <2>2. Shape'
      BY <2>1, StampTyped DEF HistoryInv, Shape, HistoryTypeOK, Under, Fresh
    <2> QED BY <2>1, <2>2, Rests
  <1> QED BY <1>0, <1>1, <1>2, <1>3, <1>4, <1>6, <1>7, <1>8, <1>9, <1>10 DEF HistoryNext

(* Whatever the hooks behind the recorder write, the invariant holds.      *)
THEOREM HistoryInvCorrect == HistorySpec => []HistoryInv
  <1>1. HistoryInit => HistoryInv
    <2> SUFFICES ASSUME HistoryInit PROVE HistoryInv
      OBVIOUS
    <2>1. stack = << >> /\ covered = {}
      BY DEF HistoryInit
    <2>2. HistoryTypeOK
      BY DEF HistoryInit, HistoryTypeOK, TreeContents
    <2> QED BY <2>1, <2>2 DEF HistoryInv, Shape, Under, Fresh
  <1>2. HistoryInv /\ [HistoryNext]_historyVars => HistoryInv'
    <2> SUFFICES ASSUME HistoryInv, UNCHANGED historyVars PROVE HistoryInv'
      BY HistoryStep
    <2>1. Shape'
      BY DEF historyVars, HistoryInv, Shape, HistoryTypeOK, Under, Fresh
    <2>2. ASSUME NEW p \in covered' PROVE ToRecord(p)' \/ Recorded(p)'
      BY <2>2, RecordsStays DEF historyVars, HistoryInv, ToRecord, Recorded
    <2> QED BY <2>1, <2>2 DEF HistoryInv
  <1> QED BY <1>1, <1>2, PTL DEF HistorySpec

(* Between cascades the newest transition of every path that was to be     *)
(* recorded tells what is bound there (_TransitionRecorder), however deep  *)
(* hooks wrote and whatever the configs and clocks.                        *)
THEOREM HeadCorrect == HistorySpec => []HeadIsBinding
  <1>1. HistoryInv => HeadIsBinding
    BY DEF HistoryInv, HeadIsBinding, Quiet, ToRecord, Recorded
  <1> QED BY <1>1, HistoryInvCorrect, PTL

-----------------------------------------------------------------------------
(***************************************************************************)
(* Versions, for any replicas, paths, contents and strategies.             *)
(*                                                                         *)
(* Two merges of the same heads are one version because the root of a      *)
(* merge is a function of its parents: Agreed.  The function reads the     *)
(* common ancestor, so the search for it must give the same answer after   *)
(* more versions are made: a search only reads versions older than those   *)
(* it started from.  Head describes the tree because a version binds all   *)
(* that its ancestors bind, but for what an operation dropped: Covers.     *)
(***************************************************************************)
Roots == [PrefixPaths -> Contents \cup {Marker, Absent}]
VersionEntries == [root : Roots, parents : Seq(Nat)]

(* A version has at most two parents, older than itself. *)
Older(vs, v) ==
    /\ Len(vs[v].parents) <= 2
    /\ \A i \in DOMAIN vs[v].parents : vs[v].parents[i] \in 1 .. v - 1

Dag(vs) == vs \in Seq(VersionEntries) /\ \A v \in DOMAIN vs : Older(vs, v)

LEMMA LeastVersion ==
    ASSUME NEW T \in SUBSET Nat, T # {}
    PROVE  \E n \in T : \A m \in T : n <= m
  <1>1. PICK x \in T : \A y \in T : ~(<<y, x>> \in OpToRel(<, Nat))
    BY NatLessThanWellFounded, WFMin
  <1>2. \A y \in T : ~(y < x)
    BY <1>1 DEF OpToRel
  <1> QED BY <1>2

LEMMA DagIs ==
    ASSUME NEW vs, Dag(vs), NEW v \in DOMAIN vs
    PROVE  /\ DOMAIN vs = 1 .. Len(vs) /\ Len(vs) \in Nat /\ v \in Nat
           /\ vs[v] \in VersionEntries /\ vs[v].root \in Roots /\ vs[v].parents \in Seq(Nat)
           /\ Len(vs[v].parents) \in Nat /\ Len(vs[v].parents) <= 2
           /\ \A i \in DOMAIN vs[v].parents : vs[v].parents[i] \in 1 .. v - 1 /\ vs[v].parents[i] \in DOMAIN vs
  <1>1. vs \in Seq(VersionEntries) /\ Older(vs, v)
    BY DEF Dag
  <1>2. DOMAIN vs = 1 .. Len(vs) /\ Len(vs) \in Nat /\ vs[v] \in VersionEntries
    BY <1>1
  <1>3. vs[v].root \in Roots /\ vs[v].parents \in Seq(Nat)
    BY <1>2 DEF VersionEntries
  <1> QED BY <1>1, <1>2, <1>3 DEF Older

-----------------------------------------------------------------------------
(* Ancestry. *)
IsAncestry(f, D, par) == f = [v \in D |-> {v} \cup UNION {f[u] : u \in par[v]}]

LEMMA AncestryExists ==
    ASSUME NEW N \in Nat, NEW par, \A v \in 1 .. N : par[v] \subseteq 1 .. v - 1
    PROVE  \E f : IsAncestry(f, 1 .. N, par)
  <1> DEFINE One(v, S) == {v} \cup UNION S
             Reaches(k) == \E f : f = [v \in 1 .. k |-> One(v, {f[u] : u \in par[v]})]
             T == {k \in 0 .. N : ~Reaches(k)}
  <1> HIDE DEF One
  <1>1. Reaches(0)
    <2> DEFINE f == [v \in 1 .. 0 |-> {}]
    <2>1. f = [v \in 1 .. 0 |-> One(v, {f[u] : u \in par[v]})]
      OBVIOUS
    <2> HIDE DEF f
    <2> QED BY <2>1
  <1>2. ASSUME NEW k \in 1 .. N, Reaches(k - 1) PROVE Reaches(k)
    <2>1. PICK h : h = [v \in 1 .. k - 1 |-> One(v, {h[u] : u \in par[v]})]
      BY <1>2
    <2> DEFINE f == [v \in 1 .. k |-> IF v = k THEN One(k, {h[u] : u \in par[k]}) ELSE h[v]]
    <2>2. \A v \in 1 .. k - 1 : h[v] = One(v, {h[u] : u \in par[v]})
      BY <2>1
    <2>3. \A v \in 1 .. k - 1 : f[v] = h[v]
      OBVIOUS
    <2>4. f[k] = One(k, {h[u] : u \in par[k]}) /\ DOMAIN f = 1 .. k
      OBVIOUS
    <2>5. f = [v \in 1 .. k |-> f[v]]
      OBVIOUS
    <2> HIDE DEF f
    <2>6. ASSUME NEW v \in 1 .. k PROVE f[v] = One(v, {f[u] : u \in par[v]})
      <3>1. f[v] = One(v, {h[u] : u \in par[v]})
        <4>1. CASE v = k
          BY <2>4, <4>1
        <4>2. CASE v # k
          BY <2>2, <2>3, <4>2
        <4> QED BY <4>1, <4>2
      <3>2. \A u \in par[v] : u \in 1 .. k - 1
        OBVIOUS
      <3>3. {f[u] : u \in par[v]} = {h[u] : u \in par[v]}
        BY <2>3, <3>2
      <3> QED BY <3>1, <3>3
    <2>7. f = [v \in 1 .. k |-> One(v, {f[u] : u \in par[v]})]
      BY <2>5, <2>6
    <2> QED BY <2>7
  <1> HIDE DEF Reaches
  <1>3. T = {}
    <2> SUFFICES ASSUME T # {} PROVE FALSE
      OBVIOUS
    <2>1. T \in SUBSET Nat
      OBVIOUS
    <2>2. PICK k \in T : \A m \in T : k <= m
      BY <2>1, LeastVersion
    <2>3. k # 0 /\ k \in 0 .. N /\ ~Reaches(k)
      BY <1>1, <2>2
    <2>4. k \in 1 .. N /\ k - 1 \in 0 .. N /\ ~(k <= k - 1)
      BY <2>3
    <2>5. Reaches(k - 1)
      BY <2>2, <2>4
    <2> QED BY <1>2, <2>3, <2>4, <2>5
  <1>4. Reaches(N)
    BY <1>3
  <1> QED BY <1>4 DEF Reaches, One, IsAncestry

LEMMA ParentsAre ==
    ASSUME Dag(versions), NEW v \in Ids
    PROVE  ParentsOf(v) \subseteq 1 .. v - 1 /\ ParentsOf(v) \subseteq Ids
  BY DagIs DEF ParentsOf, Ids

LEMMA AncestorsAre ==
    ASSUME Dag(versions)
    PROVE  \A v \in Ids : AncestorsOf[v] = {v} \cup UNION {AncestorsOf[u] : u \in ParentsOf(v)}
  <1> DEFINE N == Len(versions)
             par == [v \in Ids |-> ParentsOf(v)]
             Is(f) == IsAncestry(f, Ids, par)
             Was(f) == f = [v \in Ids |-> {v} \cup UNION {f[u] : u \in ParentsOf(v)}]
  <1>1. N \in Nat /\ Ids = 1 .. N
    BY DEF Dag, Ids
  <1>2. \E f : Is(f)
    <2>1. \A v \in 1 .. N : par[v] \subseteq 1 .. v - 1
      BY <1>1, ParentsAre
    <2> HIDE DEF par, N
    <2> QED BY <1>1, <2>1, AncestryExists
  <1>3. \A f : Is(f) <=> Was(f)
    BY DEF IsAncestry
  <1>4. AncestorsOf = CHOOSE f : Was(f)
    BY DEF AncestorsOf
  <1>5. Was(AncestorsOf)
    <2> HIDE DEF Is, Was
    <2> QED BY <1>2, <1>3, <1>4, Zenon
  <1> QED BY <1>5

(* What a version binds, its descendants bind, but for what was dropped. *)
Covers(vs, dr) ==
    \A v \in DOMAIN vs : \A i \in DOMAIN vs[v].parents :
        BoundIn(vs[vs[v].parents[i]].root) \subseteq BoundIn(vs[v].root) \cup dr

LEMMA AncestorsCovered ==
    ASSUME Dag(versions), Covers(versions, dropped), NEW v \in Ids, NEW u \in AncestorsOf[v]
    PROVE  u \in Ids /\ BoundIn(versions[u].root) \subseteq BoundIn(versions[v].root) \cup dropped
  <1> DEFINE Holds(k) == \A a \in AncestorsOf[k] :
                            a \in Ids /\ BoundIn(versions[a].root) \subseteq BoundIn(versions[k].root) \cup dropped
             T == {k \in Ids : ~Holds(k)}
  <1>1. Ids \subseteq Nat
    BY DEF Dag, Ids
  <1>2. T = {}
    <2> SUFFICES ASSUME T # {} PROVE FALSE
      OBVIOUS
    <2>1. PICK k \in T : \A m \in T : k <= m
      BY <1>1, LeastVersion
    <2>2. ASSUME NEW a \in AncestorsOf[k]
          PROVE  a \in Ids /\ BoundIn(versions[a].root) \subseteq BoundIn(versions[k].root) \cup dropped
      <3>1. CASE a = k
        BY <3>1
      <3>2. CASE a # k
        <4>1. AncestorsOf[k] = {k} \cup UNION {AncestorsOf[w] : w \in ParentsOf(k)}
          BY AncestorsAre
        <4>2. PICK w \in ParentsOf(k) : a \in AncestorsOf[w]
          BY <3>2, <4>1
        <4>3. w \in Ids /\ w \in 1 .. k - 1 /\ k \in Nat
          BY <1>1, ParentsAre
        <4>4. ~(k <= w)
          BY <4>3
        <4>5. Holds(w)
          BY <2>1, <4>3, <4>4
        <4>6. PICK i \in DOMAIN versions[k].parents : w = versions[k].parents[i]
          BY DEF ParentsOf
        <4>7. BoundIn(versions[w].root) \subseteq BoundIn(versions[k].root) \cup dropped
          BY <4>6 DEF Covers, Ids
        <4> QED BY <4>2, <4>5, <4>7
      <3> QED BY <3>1, <3>2
    <2> QED BY <2>1, <2>2
  <1> QED BY <1>2

-----------------------------------------------------------------------------
(* The search for a common ancestor. *)
SearchStates(D) ==
    [found : {0} \cup D, queue : [1 .. 2 -> Seq(D)], seen : [1 .. 2 -> SUBSET D]]

TurnAt(vs, s, mine, other) ==
    IF s.found # 0 \/ s.queue[mine] = <<>> THEN s
    ELSE LET v == Head(s.queue[mine])
             rest == Tail(s.queue[mine])
             parents == vs[v].parents
             seen == s.seen[mine] \cup {v}
         IN IF v \in s.seen[other] THEN [s EXCEPT !.found = v]
            ELSE IF v \in s.seen[mine] THEN [s EXCEPT !.queue[mine] = rest]
            ELSE [s EXCEPT !.queue[mine] = rest \o Unseen(parents, 1, seen) \o Unseen(parents, 2, seen),
                           !.seen[mine] = seen]

StartAt(v, w) ==
    [found |-> 0, queue |-> [i \in 1 .. 2 |-> IF i = 1 THEN <<v>> ELSE <<w>>], seen |-> [i \in 1 .. 2 |-> {}]]

BothTurns(vs, s) == TurnAt(vs, TurnAt(vs, s, 1, 2), 2, 1)

IsSearch(f, vs, s, k) == f = [n \in 0 .. k |-> IF n = 0 THEN s ELSE BothTurns(vs, f[n - 1])]

LEMMA UnseenTyped ==
    ASSUME NEW vs, Dag(vs), NEW v \in DOMAIN vs, NEW i, NEW seen
    PROVE  Unseen(vs[v].parents, i, seen) \in Seq(DOMAIN vs)
  <1> DEFINE ps == vs[v].parents
             D == DOMAIN vs
  <1>1. \A k \in DOMAIN ps : ps[k] \in D
    BY DagIs
  <1> HIDE DEF ps, D
  <1>2. Unseen(ps, i, seen) \in Seq(D)
    BY <1>1 DEF Unseen
  <1> QED BY <1>2 DEF ps, D

LEMMA TurnTyped ==
    ASSUME NEW vs, Dag(vs), NEW s \in SearchStates(DOMAIN vs), NEW i \in 1 .. 2, NEW j \in 1 .. 2
    PROVE  TurnAt(vs, s, i, j) \in SearchStates(DOMAIN vs)
  <1> DEFINE D == DOMAIN vs
  <1>1. /\ s.found \in {0} \cup D /\ s.queue \in [1 .. 2 -> Seq(D)] /\ s.seen \in [1 .. 2 -> SUBSET D]
        /\ s.queue[i] \in Seq(D) /\ s.seen[i] \in SUBSET D
    BY DEF SearchStates
  <1>2. CASE s.found # 0 \/ s.queue[i] = <<>>
    BY <1>2 DEF TurnAt
  <1>3. CASE ~(s.found # 0 \/ s.queue[i] = <<>>)
    <2> DEFINE v == Head(s.queue[i])
               rest == Tail(s.queue[i])
               seen == s.seen[i] \cup {v}
               a == Unseen(vs[v].parents, 1, seen)
               b == Unseen(vs[v].parents, 2, seen)
    <2>1. v \in D /\ rest \in Seq(D)
      <3> DEFINE q == s.queue[i]
      <3>1. q \in Seq(D) /\ q # <<>>
        BY <1>1, <1>3
      <3> HIDE DEF q, D
      <3>2. Head(q) \in D /\ Tail(q) \in Seq(D)
        BY <3>1, HeadTailProperties
      <3> QED BY <3>2 DEF q
    <2>2. a \in Seq(D) /\ b \in Seq(D)
      BY <2>1, UnseenTyped
    <2>3. rest \o a \o b \in Seq(D) /\ seen \in SUBSET D
      <3> HIDE DEF a, b, rest, seen
      <3>1. rest \o a \in Seq(D)
        BY <2>1, <2>2
      <3>2. rest \o a \o b \in Seq(D)
        BY <2>2, <3>1
      <3> QED BY <1>1, <2>1, <3>2 DEF seen
    <2>4. TurnAt(vs, s, i, j) =
            IF v \in s.seen[j] THEN [s EXCEPT !.found = v]
            ELSE IF v \in s.seen[i] THEN [s EXCEPT !.queue[i] = rest]
            ELSE [s EXCEPT !.queue[i] = rest \o a \o b, !.seen[i] = seen]
      BY <1>3 DEF TurnAt
    <2> HIDE DEF v, rest, seen, a, b
    <2>5. [s EXCEPT !.found = v] \in SearchStates(D)
      BY <1>1, <2>1 DEF SearchStates
    <2>6. [s EXCEPT !.queue[i] = rest] \in SearchStates(D)
      BY <1>1, <2>1 DEF SearchStates
    <2>7. [s EXCEPT !.queue[i] = rest \o a \o b, !.seen[i] = seen] \in SearchStates(D)
      BY <1>1, <2>3 DEF SearchStates
    <2> QED BY <2>4, <2>5, <2>6, <2>7
  <1> QED BY <1>2, <1>3

(* A turn reads only versions its queues name. *)
LEMMA TurnSame ==
    ASSUME NEW vs, Dag(vs), NEW ws, \A v \in DOMAIN vs : ws[v] = vs[v],
           NEW s \in SearchStates(DOMAIN vs), NEW i \in 1 .. 2, NEW j \in 1 .. 2
    PROVE  TurnAt(ws, s, i, j) = TurnAt(vs, s, i, j)
  <1>1. s.queue[i] \in Seq(DOMAIN vs)
    BY DEF SearchStates
  <1>2. s.queue[i] # <<>> => Head(s.queue[i]) \in DOMAIN vs
    BY <1>1
  <1>3. s.queue[i] # <<>> => ws[Head(s.queue[i])] = vs[Head(s.queue[i])]
    BY <1>2
  <1> QED BY <1>3 DEF TurnAt

LEMMA SearchExists ==
    ASSUME NEW N \in Nat, NEW vs, NEW s
    PROVE  \E f : IsSearch(f, vs, s, N)
  <1> DEFINE Reaches(k) == \E f : f = [n \in 0 .. k |-> IF n = 0 THEN s ELSE BothTurns(vs, f[n - 1])]
             T == {k \in 0 .. N : ~Reaches(k)}
  <1>1. Reaches(0)
    <2> DEFINE f == [n \in 0 .. 0 |-> s]
    <2>1. f = [n \in 0 .. 0 |-> IF n = 0 THEN s ELSE BothTurns(vs, f[n - 1])]
      OBVIOUS
    <2> HIDE DEF f
    <2> QED BY <2>1
  <1>2. ASSUME NEW k \in 1 .. N, Reaches(k - 1) PROVE Reaches(k)
    <2>1. PICK h : h = [n \in 0 .. k - 1 |-> IF n = 0 THEN s ELSE BothTurns(vs, h[n - 1])]
      BY <1>2
    <2> DEFINE f == [n \in 0 .. k |-> IF n = k THEN BothTurns(vs, h[k - 1]) ELSE h[n]]
    <2>2. \A n \in 0 .. k - 1 : h[n] = IF n = 0 THEN s ELSE BothTurns(vs, h[n - 1])
      BY <2>1
    <2>3. \A n \in 0 .. k - 1 : f[n] = h[n]
      OBVIOUS
    <2>4. f[k] = BothTurns(vs, h[k - 1]) /\ DOMAIN f = 0 .. k /\ k # 0
      OBVIOUS
    <2>5. f = [n \in 0 .. k |-> f[n]]
      OBVIOUS
    <2> HIDE DEF f
    <2>6. ASSUME NEW n \in 0 .. k PROVE f[n] = IF n = 0 THEN s ELSE BothTurns(vs, f[n - 1])
      <3>1. CASE n = k
        <4>1. k - 1 \in 0 .. k - 1
          OBVIOUS
        <4> QED BY <3>1, <4>1, <2>3, <2>4
      <3>2. CASE n # k /\ n # 0
        <4>1. n \in 0 .. k - 1 /\ n - 1 \in 0 .. k - 1
          BY <3>2
        <4> QED BY <3>2, <4>1, <2>2, <2>3
      <3>3. CASE n # k /\ n = 0
        <4>1. n \in 0 .. k - 1
          BY <3>3
        <4> QED BY <3>3, <4>1, <2>2, <2>3
      <3> QED BY <3>1, <3>2, <3>3
    <2>7. f = [n \in 0 .. k |-> IF n = 0 THEN s ELSE BothTurns(vs, f[n - 1])]
      BY <2>5, <2>6
    <2> QED BY <2>7
  <1> HIDE DEF Reaches
  <1>3. T = {}
    <2> SUFFICES ASSUME T # {} PROVE FALSE
      OBVIOUS
    <2>1. T \in SUBSET Nat
      OBVIOUS
    <2>2. PICK k \in T : \A m \in T : k <= m
      BY <2>1, LeastVersion
    <2>3. k # 0 /\ k \in 0 .. N /\ ~Reaches(k)
      BY <1>1, <2>2
    <2>4. k \in 1 .. N /\ k - 1 \in 0 .. N /\ ~(k <= k - 1)
      BY <2>3
    <2>5. Reaches(k - 1)
      BY <2>2, <2>4
    <2> QED BY <1>2, <2>3, <2>4, <2>5
  <1>4. Reaches(N)
    BY <1>3
  <1> QED BY <1>4 DEF Reaches, IsSearch

LEMMA SearchSame ==
    ASSUME NEW vs, Dag(vs), NEW ws, \A v \in DOMAIN vs : ws[v] = vs[v],
           NEW k \in Nat, NEW s \in SearchStates(DOMAIN vs),
           NEW f, IsSearch(f, vs, s, k), NEW g, IsSearch(g, ws, s, k)
    PROVE  \A n \in 0 .. k : f[n] \in SearchStates(DOMAIN vs) /\ g[n] = f[n]
  <1> DEFINE Holds(n) == f[n] \in SearchStates(DOMAIN vs) /\ g[n] = f[n]
             T == {n \in 0 .. k : ~Holds(n)}
  <1>1. /\ f = [n \in 0 .. k |-> IF n = 0 THEN s ELSE BothTurns(vs, f[n - 1])]
        /\ g = [n \in 0 .. k |-> IF n = 0 THEN s ELSE BothTurns(ws, g[n - 1])]
    BY DEF IsSearch
  <1>2. Holds(0)
    BY <1>1
  <1>3. ASSUME NEW n \in 1 .. k, Holds(n - 1) PROVE Holds(n)
    <2> DEFINE u == f[n - 1]
               m == TurnAt(vs, u, 1, 2)
    <2>1. u \in SearchStates(DOMAIN vs) /\ g[n - 1] = u
      BY <1>3
    <2>2. f[n] = BothTurns(vs, u) /\ g[n] = BothTurns(ws, u)
      <3>1. n # 0 /\ n \in 0 .. k
        OBVIOUS
      <3>2. f[n] = BothTurns(vs, f[n - 1]) /\ g[n] = BothTurns(ws, g[n - 1])
        BY <1>1, <3>1
      <3> QED BY <2>1, <3>2
    <2> HIDE DEF u
    <2>0. 1 \in 1 .. 2 /\ 2 \in 1 .. 2
      OBVIOUS
    <2>3. m \in SearchStates(DOMAIN vs) /\ TurnAt(ws, u, 1, 2) = m
      <3>1. m \in SearchStates(DOMAIN vs)
        BY <2>0, <2>1, TurnTyped, Zenon
      <3>2. TurnAt(ws, u, 1, 2) = TurnAt(vs, u, 1, 2)
        BY <2>0, <2>1, TurnSame
      <3> QED BY <3>1, <3>2
    <2> HIDE DEF m
    <2>4. TurnAt(vs, m, 2, 1) \in SearchStates(DOMAIN vs) /\ TurnAt(ws, m, 2, 1) = TurnAt(vs, m, 2, 1)
      <3>1. TurnAt(vs, m, 2, 1) \in SearchStates(DOMAIN vs)
        BY <2>0, <2>3, TurnTyped, Zenon
      <3>2. TurnAt(ws, m, 2, 1) = TurnAt(vs, m, 2, 1)
        BY <2>0, <2>3, TurnSame
      <3> QED BY <3>1, <3>2
    <2>5. BothTurns(vs, u) = TurnAt(vs, m, 2, 1) /\ BothTurns(ws, u) = TurnAt(ws, m, 2, 1)
      <3>1. TurnAt(vs, u, 1, 2) = m
        BY DEF m
      <3> QED BY <2>3, <3>1, Zenon DEF BothTurns
    <2> QED BY <2>2, <2>4, <2>5
  <1> HIDE DEF Holds
  <1>4. T = {}
    <2> SUFFICES ASSUME T # {} PROVE FALSE
      OBVIOUS
    <2>1. T \in SUBSET Nat
      OBVIOUS
    <2>2. PICK n \in T : \A m \in T : n <= m
      BY <2>1, LeastVersion
    <2>3. n # 0 /\ n \in 0 .. k /\ ~Holds(n)
      BY <1>2, <2>2
    <2>4. n \in 1 .. k /\ n - 1 \in 0 .. k /\ ~(n <= n - 1)
      BY <2>3
    <2>5. Holds(n - 1)
      BY <2>2, <2>4
    <2> QED BY <1>3, <2>3, <2>4, <2>5
  <1> QED BY <1>4 DEF Holds

SearchOf(vs, s, k) == CHOOSE f : IsSearch(f, vs, s, k)
AncestorIn(vs, k, v, w) == IF v = w THEN v ELSE SearchOf(vs, StartAt(v, w), k)[k].found

LEMMA AncestorSame ==
    ASSUME NEW vs, Dag(vs), NEW ws, \A v \in DOMAIN vs : ws[v] = vs[v],
           NEW k \in Nat, NEW a \in DOMAIN vs, NEW b \in DOMAIN vs
    PROVE  AncestorIn(vs, k, a, b) \in {0} \cup DOMAIN vs /\ AncestorIn(ws, k, a, b) = AncestorIn(vs, k, a, b)
  <1> DEFINE s == StartAt(a, b)
             f == SearchOf(vs, s, k)
             g == SearchOf(ws, s, k)
  <1>1. s \in SearchStates(DOMAIN vs)
    <2>1. <<a>> \in Seq(DOMAIN vs) /\ <<b>> \in Seq(DOMAIN vs)
      OBVIOUS
    <2> QED BY <2>1 DEF StartAt, SearchStates
  <1> HIDE DEF s
  <1>2. IsSearch(f, vs, s, k) /\ IsSearch(g, ws, s, k)
    BY SearchExists DEF SearchOf
  <1> HIDE DEF f, g
  <1>3. f[k] \in SearchStates(DOMAIN vs) /\ g[k] = f[k]
    BY <1>1, <1>2, SearchSame
  <1>4. f[k].found \in {0} \cup DOMAIN vs
    BY <1>3 DEF SearchStates
  <1>5. \A xs : AncestorIn(xs, k, a, b) = IF a = b THEN a ELSE SearchOf(xs, s, k)[k].found
    BY DEF AncestorIn, s
  <1> QED BY <1>3, <1>4, <1>5 DEF f, g

LEMMA AncestorIs ==
    ASSUME NEW a, NEW b
    PROVE  /\ CommonAncestor(a, b) = AncestorIn(versions, 2 * policy.versions, a, b)
           /\ CommonAncestor(a, b)' = AncestorIn(versions', 2 * policy'.versions, a, b)
  BY DEF CommonAncestor, AncestorIn, SearchOf, IsSearch, StartAt, BothTurns, TurnAt, SearchTurn

RootAt(v) == IF v = 0 THEN Unbound ELSE versions[v].root

(* The root that a merge of two versions has to make. *)
RootOf(a, b) ==
    [x \in PrefixPaths |->
        MergePath(RootAt(CommonAncestor(a, b))[x], RootAt(a)[x], RootAt(b)[x]).binding]

Distinct == \A v, w \in Ids : versions[v] = versions[w] => v = w
Agreed ==
    \A v, a, b \in Ids :
        /\ Len(versions[v].parents) > 1
        /\ versions[v].parents[1] = a /\ versions[v].parents[2] = b
        => versions[v].root = RootOf(a, b)

DagInv ==
    /\ policy \in Policies /\ Dag(versions) /\ Covers(versions, dropped)
    /\ Distinct /\ Agreed

ReplicaTypes ==
    /\ head \in [Replicas -> Nat] /\ fetched \in [Replicas -> Nat]
    /\ known \in [Replicas -> SUBSET Nat]
    /\ active \in [Replicas -> Branches \cup {Absent}]
    /\ branch \in [Replicas -> [Branches -> Nat]]
    /\ live \in [Replicas -> [PrefixPaths -> Contents \cup {Absent}]]
    /\ dirty \in [Replicas -> SUBSET PrefixPaths]

Some == {0} \cup Ids

Described(p) ==
    \A x \in PrefixPaths : x \notin dropped \cup dirty[p] => live[p][x] = Logical(RootAt(head[p])[x])

Fits(p) ==
    /\ head[p] \in Some /\ fetched[p] \in Some /\ known[p] \subseteq Ids
    /\ \A b \in Branches : branch[p][b] \in Some
    /\ active[p] # Absent => branch[p][active[p]] = head[p]
    /\ Described(p)

RevisionInv == DagInv /\ ReplicaTypes /\ \A p \in Replicas : Fits(p)

-----------------------------------------------------------------------------
(* A step keeps every version that was made. *)
Extends ==
    /\ Ids \subseteq Ids' /\ dropped \subseteq dropped'
    /\ \A v \in Ids : versions'[v] = versions[v]

Alike(q) ==
    /\ head'[q] = head[q] /\ fetched'[q] = fetched[q] /\ known'[q] = known[q]
    /\ active'[q] = active[q] /\ branch'[q] = branch[q] /\ live'[q] = live[q] /\ dirty'[q] = dirty[q]

LEMMA RootAtIs ==
    ASSUME Dag(versions), NEW v \in Some
    PROVE  RootAt(v) \in Roots /\ v \in Nat /\ Ids = 1 .. Len(versions) /\ Len(versions) \in Nat
  <1>1. Ids = 1 .. Len(versions) /\ Len(versions) \in Nat
    BY DEF Dag, Ids
  <1>2. CASE v = 0
    BY <1>1, <1>2 DEF RootAt, Unbound, Roots
  <1>3. CASE v # 0
    <2>1. v \in DOMAIN versions
      BY <1>3 DEF Some, Ids
    <2>2. versions[v].root \in Roots
      BY <2>1, DagIs
    <2> QED BY <1>1, <1>3, <2>1, <2>2 DEF RootAt, Ids
  <1> QED BY <1>2, <1>3

LEMMA RootAtSame ==
    ASSUME Dag(versions), Extends, NEW v \in Some
    PROVE  v \in Some' /\ RootAt(v)' = RootAt(v)
  <1>1. CASE v = 0
    BY <1>1 DEF RootAt, Some, Unbound
  <1>2. CASE v # 0
    BY <1>2 DEF RootAt, Some, Extends
  <1> QED BY <1>1, <1>2

LEMMA BindingsAre ==
    ASSUME WholeTries, Dag(versions), NEW p, NEW v \in Some
    PROVE  BindingsAt(p, v) = RootAt(v)
  <1>1. CASE v = 0
    BY <1>1 DEF BindingsAt, RootAt
  <1>2. CASE v # 0
    <2>1. versions[v].root \in Roots
      BY <1>2, RootAtIs DEF RootAt
    <2>2. BindingsAt(p, v) = [x \in PrefixPaths |-> versions[v].root[x]]
      BY <1>2 DEF BindingsAt, WholeTries
    <2>3. versions[v].root = [x \in PrefixPaths |-> versions[v].root[x]]
      BY <2>1 DEF Roots
    <2> QED BY <1>2, <2>2, <2>3 DEF RootAt
  <1> QED BY <1>1, <1>2

LEMMA MergePathIs ==
    ASSUME NEW base, NEW local \in Contents \cup {Marker, Absent}, NEW remote \in Contents \cup {Marker, Absent}
    PROVE  /\ MergePath(base, local, remote).binding \in Contents \cup {Marker, Absent}
           /\ local = remote => MergePath(base, local, remote).binding = local
  BY DEF MergePath, Choose

LEMMA FitsStill ==
    ASSUME Dag(versions), Extends, NEW q, Alike(q), Fits(q)
    PROVE  Fits(q)'
  <1>1. \A v \in Some : v \in Some'
    BY DEF Some, Extends
  <1>2. Ids \subseteq Ids'
    BY DEF Extends
  <1>3. RootAt(head[q])' = RootAt(head[q])
    <2>1. head[q] \in Some
      BY DEF Fits
    <2>2. RootAt(head[q])' = IF head'[q] = 0 THEN Unbound ELSE versions'[head'[q]].root
      BY DEF RootAt, Unbound
    <2>3. versions'[head[q]] = versions[head[q]] \/ head[q] = 0
      BY <2>1 DEF Some, Extends
    <2> QED BY <2>2, <2>3 DEF RootAt, Alike
  <1>4. Described(q)'
    BY <1>3 DEF Fits, Described, Extends, Alike, Logical
  <1>5. (head[q] \in Some /\ fetched[q] \in Some /\ known[q] \subseteq Ids)'
    BY <1>1, <1>2 DEF Fits, Alike
  <1>6. (/\ \A b \in Branches : branch[q][b] \in Some
         /\ active[q] # Absent => branch[q][active[q]] = head[q])'
    BY <1>1 DEF Fits, Alike
  <1> QED BY <1>4, <1>5, <1>6 DEF Fits

LEMMA AncestorFits ==
    ASSUME RevisionAssumption, policy \in Policies, Dag(versions), NEW a \in Ids, NEW b \in Ids
    PROVE  /\ CommonAncestor(a, b) \in Some
           /\ Extends /\ policy' = policy => CommonAncestor(a, b)' = CommonAncestor(a, b)
  <1> DEFINE k == 2 * policy.versions
  <1>1. k \in Nat
    BY DEF RevisionAssumption
  <1>2. a \in DOMAIN versions /\ b \in DOMAIN versions
    BY DEF Ids
  <1>3. CommonAncestor(a, b) = AncestorIn(versions, k, a, b)
    BY AncestorIs
  <1>4. \A v \in DOMAIN versions : versions[v] = versions[v]
    OBVIOUS
  <1> HIDE DEF k
  <1>5. AncestorIn(versions, k, a, b) \in {0} \cup DOMAIN versions
    BY <1>1, <1>2, <1>4, AncestorSame
  <1>6. ASSUME Extends, policy' = policy PROVE CommonAncestor(a, b)' = CommonAncestor(a, b)
    <2>1. \A v \in DOMAIN versions : versions'[v] = versions[v]
      BY <1>6 DEF Extends, Ids
    <2>2. AncestorIn(versions', k, a, b) = AncestorIn(versions, k, a, b)
      BY <1>1, <1>2, <2>1, AncestorSame
    <2>3. CommonAncestor(a, b)' = AncestorIn(versions', k, a, b)
      BY <1>6, AncestorIs DEF k
    <2> QED BY <1>3, <2>2, <2>3
  <1> QED BY <1>3, <1>5, <1>6 DEF Some, Ids

LEMMA RootOfIs ==
    ASSUME RevisionAssumption, policy \in Policies, Dag(versions), NEW a \in Ids, NEW b \in Ids
    PROVE  /\ RootOf(a, b) \in Roots
           /\ versions[a].root = versions[b].root => RootOf(a, b) = versions[a].root
           /\ Extends /\ policy' = policy => RootOf(a, b)' = RootOf(a, b)
  <1>1. CommonAncestor(a, b) \in Some /\ a \in Some /\ b \in Some /\ a # 0 /\ b # 0
    BY AncestorFits, RootAtIs DEF Some
  <1>2. RootAt(a) \in Roots /\ RootAt(b) \in Roots
    BY <1>1, RootAtIs
  <1>3. RootAt(a) = versions[a].root /\ RootAt(b) = versions[b].root
    BY <1>1 DEF RootAt
  <1>4. ASSUME NEW x \in PrefixPaths
        PROVE  RootAt(a)[x] \in Contents \cup {Marker, Absent} /\ RootAt(b)[x] \in Contents \cup {Marker, Absent}
    BY <1>2 DEF Roots
  <1>5. RootOf(a, b) \in Roots
    BY <1>4, MergePathIs DEF RootOf, Roots
  <1>6. ASSUME versions[a].root = versions[b].root PROVE RootOf(a, b) = versions[a].root
    <2>1. \A x \in PrefixPaths : RootOf(a, b)[x] = versions[a].root[x]
      BY <1>3, <1>4, <1>6, MergePathIs DEF RootOf
    <2> QED BY <1>2, <1>3, <1>5, <2>1 DEF Roots
  <1>7. ASSUME Extends, policy' = policy PROVE RootOf(a, b)' = RootOf(a, b)
    <2>1. CommonAncestor(a, b)' = CommonAncestor(a, b)
      BY <1>7, AncestorFits
    <2> DEFINE c == CommonAncestor(a, b)
    <2>2. RootAt(a)' = RootAt(a) /\ RootAt(b)' = RootAt(b)
      BY <1>1, <1>7, RootAtSame
    <2>3. \A v \in Some : (IF v = 0 THEN Unbound ELSE versions'[v].root) = RootAt(v)
      BY <1>7 DEF Some, Extends, RootAt
    <2>4. RootAt(c)' = RootAt(c)
      <3>1. RootAt(c)' = IF CommonAncestor(a, b)' = 0 THEN Unbound ELSE versions'[CommonAncestor(a, b)'].root
        BY DEF RootAt, Unbound
      <3> QED BY <1>1, <2>1, <2>3, <3>1
    <2>5. ASSUME NEW x \in PrefixPaths
          PROVE  (MergePath(RootAt(CommonAncestor(a, b))[x], RootAt(a)[x], RootAt(b)[x]).binding)'
                   = MergePath(RootAt(CommonAncestor(a, b))[x], RootAt(a)[x], RootAt(b)[x]).binding
      BY <1>7, <2>2, <2>4 DEF MergePath, DeletionWins
    <2> QED BY <2>5 DEF RootOf
  <1> QED BY <1>5, <1>6, <1>7

(* What a version adds to the DAG that its parents allow. *)
Allowed(root, parents) ==
    /\ root \in Roots /\ parents \in Seq(Ids) /\ Len(parents) <= 2
    /\ Len(parents) > 1 => root = RootOf(parents[1], parents[2])
    /\ \A i \in DOMAIN parents :
          BoundIn(versions[parents[i]].root) \subseteq BoundIn(root) \cup dropped'

Made(p, root) ==
    \E v \in Ids' : /\ versions'[v].root = root /\ v # 0
                    /\ Advance(p, v)
                    /\ known' = known \/ known' = [known EXCEPT ![p] = @ \cup {v}]

LEMMA DagKept ==
    ASSUME RevisionAssumption, DagInv, versions' = versions, policy' = policy, dropped \subseteq dropped'
    PROVE  DagInv' /\ Extends
  <1>1. Extends
    BY DEF Extends, Ids
  <1>2. Dag(versions)' /\ Distinct' /\ (policy \in Policies)'
    BY DEF DagInv, Dag, Older, Distinct, Ids
  <1>3. Covers(versions, dropped)'
    BY DEF DagInv, Covers, BoundIn
  <1>4. Agreed'
    <2>1. \A a, b \in Ids : RootOf(a, b)' = RootOf(a, b)
      BY <1>1, RootOfIs DEF DagInv
    <2> QED BY <2>1 DEF DagInv, Agreed, Ids
  <1> QED BY <1>1, <1>2, <1>3, <1>4 DEF DagInv

LEMMA TwoOf ==
    ASSUME NEW S, NEW q \in Seq(S), Len(q) > 1
    PROVE  q[1] \in S /\ q[2] \in S
  OBVIOUS

LEMMA ParentPair ==
    ASSUME Dag(versions), NEW v \in Ids, Len(versions[v].parents) > 1
    PROVE  versions[v].parents[1] \in Ids /\ versions[v].parents[2] \in Ids
  <1> DEFINE ps == versions[v].parents
  <1>1. ps \in Seq(Nat) /\ \A i \in DOMAIN ps : ps[i] \in Ids
    BY DagIs DEF Ids
  <1> HIDE DEF ps
  <1>2. Len(ps) > 1 => 1 \in DOMAIN ps /\ 2 \in DOMAIN ps
    BY <1>1
  <1> QED BY <1>1, <1>2 DEF ps

(* Record() of something new. *)
LEMMA DagGrown ==
    ASSUME RevisionAssumption, DagInv, policy' = policy, dropped \subseteq dropped',
           NEW root, NEW parents, Allowed(root, parents),
           ~ \E v \in Ids : versions[v] = [root |-> root, parents |-> parents],
           versions' = Append(versions, [root |-> root, parents |-> parents])
    PROVE  DagInv' /\ Extends /\ Len(versions) + 1 \in Ids' /\ Len(versions) + 1 # 0
           /\ versions'[Len(versions) + 1].root = root
  <1> DEFINE n == Len(versions) + 1
             made == [root |-> root, parents |-> parents]
  <1>1. n \in Nat /\ Ids = 1 .. n - 1 /\ Len(versions) = n - 1 /\ n # 0
    BY DEF DagInv, Dag, Ids
  <1>2. root \in Roots /\ parents \in Seq(Ids) /\ Len(parents) \in Nat /\ Len(parents) <= 2
        /\ parents \in Seq(Nat) /\ \A i \in DOMAIN parents : parents[i] \in Ids
    BY <1>1 DEF Allowed
  <1>3. made \in VersionEntries
    BY <1>2 DEF VersionEntries
  <1>4. versions \in Seq(VersionEntries)
    BY DEF DagInv, Dag
  <1> HIDE DEF made
  <1>5. /\ versions' \in Seq(VersionEntries) /\ DOMAIN versions' = 1 .. n
        /\ versions'[n] = made /\ \A v \in Ids : versions'[v] = versions[v]
    BY <1>1, <1>3, <1>4 DEF made
  <1>6. Ids' = 1 .. n /\ Ids \subseteq Ids' /\ \A v \in Ids' : v # n => v \in Ids
    BY <1>1, <1>5 DEF Ids
  <1>7. Extends
    BY <1>5, <1>6 DEF Extends
  <1>8. made.root = root /\ made.parents = parents
    BY DEF made
  <1>9. Dag(versions)'
    <2>1. ASSUME NEW v \in DOMAIN versions' PROVE Older(versions', v)
      <3>1. CASE v = n
        <4>1. versions'[v].parents = parents
          BY <1>5, <1>8, <3>1
        <4> QED BY <1>1, <1>2, <3>1, <4>1 DEF Older
      <3>2. CASE v # n
        <4>1. v \in Ids
          BY <1>6, <3>2 DEF Ids
        <4>2. Older(versions, v) /\ versions'[v] = versions[v]
          BY <1>5, <4>1 DEF DagInv, Dag, Ids
        <4> QED BY <4>2 DEF Older
      <3> QED BY <3>1, <3>2
    <2> QED BY <1>5, <2>1 DEF Dag, Older
  <1>10. Covers(versions, dropped)'
    <2> SUFFICES ASSUME NEW v \in Ids', NEW i \in DOMAIN versions'[v].parents
                 PROVE  BoundIn(versions'[versions'[v].parents[i]].root)
                          \subseteq BoundIn(versions'[v].root) \cup dropped'
      BY DEF Covers, BoundIn, Ids
    <2>1. CASE v = n
      <3>1. i \in DOMAIN parents /\ versions'[v].parents[i] = parents[i] /\ versions'[v].root = root
        BY <1>5, <1>8, <2>1
      <3>2. versions'[parents[i]] = versions[parents[i]]
        BY <1>2, <1>5, <3>1
      <3> QED BY <3>1, <3>2 DEF Allowed
    <2>2. CASE v # n
      <3>1. v \in Ids /\ versions'[v] = versions[v]
        BY <1>5, <1>6, <2>2
      <3>2. versions[v].parents[i] \in Ids
        BY <3>1, DagIs DEF DagInv, Ids
      <3>3. versions'[versions[v].parents[i]] = versions[versions[v].parents[i]]
        BY <1>5, <3>2
      <3>4. BoundIn(versions[versions[v].parents[i]].root) \subseteq BoundIn(versions[v].root) \cup dropped
        BY <3>1 DEF DagInv, Covers, Ids
      <3> QED BY <3>1, <3>3, <3>4
    <2> QED BY <2>1, <2>2
  <1>11. Distinct'
    <2> SUFFICES ASSUME NEW v \in Ids', NEW w \in Ids', versions'[v] = versions'[w] PROVE v = w
      BY DEF Distinct
    <2>1. \A u \in Ids : versions'[u] # made
      BY <1>5 DEF made
    <2>2. CASE v \in Ids /\ w \in Ids
      BY <1>5, <2>2 DEF DagInv, Distinct
    <2>3. CASE v = n \/ w = n
      BY <1>5, <1>6, <2>1, <2>3
    <2> QED BY <1>6, <2>2, <2>3
  <1>12. Agreed'
    <2> SUFFICES ASSUME NEW v \in Ids', NEW a \in Ids', NEW b \in Ids',
                        Len(versions'[v].parents) > 1,
                        versions'[v].parents[1] = a, versions'[v].parents[2] = b
                 PROVE  versions'[v].root = RootOf(a, b)'
      BY DEF Agreed
    <2>1. \A c, d \in Ids : RootOf(c, d)' = RootOf(c, d)
      BY <1>7, RootOfIs DEF DagInv
    <2>2. CASE v = n
      <3>1. versions'[v].parents = parents /\ versions'[v].root = root
        BY <1>5, <1>8, <2>2
      <3>2. parents[1] \in Ids /\ parents[2] \in Ids
        BY <1>2, <3>1, TwoOf
      <3>3. a \in Ids /\ b \in Ids /\ root = RootOf(a, b)
        BY <3>1, <3>2 DEF Allowed
      <3> QED BY <2>1, <3>1, <3>3
    <2>3. CASE v # n
      <3>1. v \in Ids /\ versions'[v] = versions[v]
        BY <1>5, <1>6, <2>3
      <3>2. a \in Ids /\ b \in Ids
        BY <3>1, ParentPair DEF DagInv
      <3>3. versions[v].root = RootOf(a, b)
        BY <3>1, <3>2 DEF DagInv, Agreed
      <3>4. RootOf(a, b)' = RootOf(a, b)
        BY <2>1, <3>2
      <3> QED BY <3>1, <3>3, <3>4
    <2> QED BY <2>2, <2>3
  <1>13. n \in Ids' /\ versions'[n].root = root /\ (policy \in Policies)'
    BY <1>1, <1>5, <1>6, <1>8 DEF DagInv
  <1> QED BY <1>1, <1>7, <1>9, <1>10, <1>11, <1>12, <1>13 DEF DagInv

LEMMA RecordKeeps ==
    ASSUME RevisionAssumption, DagInv, policy' = policy, dropped \subseteq dropped',
           NEW p, NEW root, NEW parents, Allowed(root, parents), Record(p, root, parents)
    PROVE  DagInv' /\ Extends /\ Made(p, root)
  <1> DEFINE made == [root |-> root, parents |-> parents]
             same == {v \in Ids : versions[v] = made}
  <1>1. CASE same = {}
    <2>1. versions' = Append(versions, made) /\ Advance(p, Len(versions) + 1)
          /\ known' = [known EXCEPT ![p] = @ \cup {Len(versions) + 1}]
      BY <1>1 DEF Record
    <2>2. DagInv' /\ Extends /\ Len(versions) + 1 \in Ids' /\ Len(versions) + 1 # 0
          /\ versions'[Len(versions) + 1].root = root
      BY <1>1, <2>1, DagGrown
    <2> QED BY <2>1, <2>2 DEF Made
  <1>2. CASE same # {}
    <2> DEFINE v == CHOOSE w \in same : TRUE
    <2>1. v \in Ids /\ versions[v] = made
      BY <1>2
    <2>2. versions' = versions /\ Advance(p, v) /\ known' = [known EXCEPT ![p] = @ \cup {v}]
      BY <1>2 DEF Record
    <2> HIDE DEF v
    <2>3. DagInv' /\ Extends
      BY <2>2, DagKept
    <2>4. v \in Ids' /\ versions'[v].root = root /\ v # 0
      BY <2>1, <2>2, RootAtIs DEF DagInv, Ids, Some
    <2> QED BY <2>2, <2>3, <2>4 DEF Made
  <1> QED BY <1>1, <1>2

LEMMA StepKeeps ==
    ASSUME RevisionInv, NEW p \in Replicas, DagInv', Extends, ReplicaTypes',
           \A q \in Replicas \ {p} : Alike(q), Fits(p)'
    PROVE  RevisionInv'
  <1>1. ASSUME NEW q \in Replicas PROVE Fits(q)'
    BY FitsStill DEF RevisionInv, DagInv
  <1> QED BY <1>1 DEF RevisionInv

LEMMA FitsNow ==
    ASSUME NEW p, head'[p] \in Some', fetched'[p] \in Some', known'[p] \subseteq Ids',
           \A b \in Branches : branch'[p][b] \in Some',
           active'[p] # Absent => branch'[p][active'[p]] = head'[p],
           NEW r, r = (IF head'[p] = 0 THEN Unbound ELSE versions'[head'[p]].root),
           \A x \in PrefixPaths : x \notin dropped' \cup dirty'[p] => live'[p][x] = Logical(r[x])
    PROVE  Fits(p)'
  <1>1. RootAt(head[p])' = r
    BY DEF RootAt, Unbound
  <1>2. Described(p)'
    BY <1>1 DEF Described, Logical
  <1> QED BY <1>2 DEF Fits

(* What an unchanged DAG leaves of a replica's numbers. *)
LEMMA SomeStill ==
    ASSUME ReplicaTypes, NEW p \in Replicas, Fits(p), Extends
    PROVE  /\ head[p] \in Some' /\ fetched[p] \in Some' /\ known[p] \subseteq Ids' /\ 0 \in Some'
           /\ \A b \in Branches : branch[p][b] \in Some'
           /\ Ids \subseteq Ids' /\ Some \subseteq Some' /\ Ids' \subseteq Some'
  BY DEF Fits, Extends, Some

Pulled(p) == fetched' = fetched \/ fetched' = [fetched EXCEPT ![p] = 0]

LEMMA PulledIs ==
    ASSUME ReplicaTypes, NEW p \in Replicas, Fits(p), Extends, Pulled(p)
    PROVE  /\ fetched' \in [Replicas -> Nat] /\ fetched'[p] \in Some'
           /\ \A q \in Replicas \ {p} : fetched'[q] = fetched[q]
  <1>1. fetched \in [Replicas -> Nat] /\ fetched[p] \in Some' /\ 0 \in Some'
    BY SomeStill DEF ReplicaTypes
  <1>2. CASE fetched' = fetched
    BY <1>1, <1>2
  <1>3. CASE fetched' = [fetched EXCEPT ![p] = 0]
    BY <1>1, <1>3
  <1> QED BY <1>2, <1>3 DEF Pulled

LEMMA AdvanceIs ==
    ASSUME RevisionAssumption, ReplicaTypes, NEW p \in Replicas, Fits(p), Extends,
           NEW v \in Some', v \in Nat, Advance(p, v), active' = active
    PROVE  /\ head' \in [Replicas -> Nat] /\ branch' \in [Replicas -> [Branches -> Nat]]
           /\ head'[p] = v /\ \A b \in Branches : branch'[p][b] \in Some'
           /\ active'[p] # Absent => branch'[p][active'[p]] = v
           /\ \A q \in Replicas \ {p} : head'[q] = head[q] /\ branch'[q] = branch[q]
  <1>1. head' \in [Replicas -> Nat] /\ head'[p] = v /\ \A q \in Replicas \ {p} : head'[q] = head[q]
    BY DEF Advance, ReplicaTypes
  <1>2. \A b \in Branches : branch[p][b] \in Some'
    BY SomeStill
  <1>3. CASE active[p] = Absent
    BY <1>1, <1>2, <1>3 DEF Advance, ReplicaTypes
  <1>4. CASE active[p] # Absent
    <2>1. active[p] \in Branches /\ branch' = [branch EXCEPT ![p][active[p]] = v]
      BY <1>4 DEF Advance, ReplicaTypes
    <2>2. branch \in [Replicas -> [Branches -> Nat]] /\ branch[p] \in [Branches -> Nat]
      BY DEF ReplicaTypes
    <2>3. branch' \in [Replicas -> [Branches -> Nat]] /\ branch'[p] = [branch[p] EXCEPT ![active[p]] = v]
          /\ \A q \in Replicas \ {p} : branch'[q] = branch[q]
      BY <2>1, <2>2
    <2> QED BY <1>1, <1>2, <2>1, <2>2, <2>3
  <1> QED BY <1>3, <1>4

-----------------------------------------------------------------------------
LEMMA WrittenKeeps ==
    ASSUME RevisionAssumption, RevisionInv, NEW p \in Replicas,
           NEW x \in PrefixPaths, NEW h \in Contents \cup {Absent},
           live' = [live EXCEPT ![p][x] = h], dirty' = [dirty EXCEPT ![p] = @ \cup {x}],
           UNCHANGED <<versions, policy, known, head, active, branch, fetched, dropped>>
    PROVE  RevisionInv'
  <1>1. DagInv /\ ReplicaTypes /\ Fits(p)
    BY DEF RevisionInv
  <1>2. DagInv' /\ Extends
    BY <1>1, DagKept
  <1>3. /\ live'[p] = [live[p] EXCEPT ![x] = h] /\ live[p] \in [PrefixPaths -> Contents \cup {Absent}]
        /\ dirty'[p] = dirty[p] \cup {x}
        /\ \A q \in Replicas \ {p} : live'[q] = live[q] /\ dirty'[q] = dirty[q]
    BY <1>1 DEF ReplicaTypes
  <1>4. ReplicaTypes'
    <2>1. live' \in [Replicas -> [PrefixPaths -> Contents \cup {Absent}]]
      BY <1>1 DEF ReplicaTypes
    <2>2. dirty' \in [Replicas -> SUBSET PrefixPaths]
      BY <1>1 DEF ReplicaTypes
    <2> QED BY <1>1, <2>1, <2>2 DEF ReplicaTypes
  <1>5. \A q \in Replicas \ {p} : Alike(q)
    BY <1>3 DEF Alike
  <1>6. Fits(p)'
    <2> DEFINE r == RootAt(head[p])
    <2>1. r = (IF head'[p] = 0 THEN Unbound ELSE versions'[head'[p]].root)
      BY DEF RootAt
    <2>2. \A y \in PrefixPaths : y \notin dropped' \cup dirty'[p] => live'[p][y] = Logical(r[y])
      BY <1>1, <1>3 DEF Fits, Described
    <2>3. head'[p] \in Some' /\ fetched'[p] \in Some' /\ known'[p] \subseteq Ids'
          /\ \A b \in Branches : branch'[p][b] \in Some'
      BY <1>1, <1>2, SomeStill
    <2>4. active'[p] # Absent => branch'[p][active'[p]] = head'[p]
      BY <1>1 DEF Fits
    <2> HIDE DEF r
    <2> QED BY <2>1, <2>2, <2>3, <2>4, FitsNow
  <1> QED BY <1>2, <1>4, <1>5, <1>6, StepKeeps

LEMMA LogicalIs ==
    ASSUME RevisionAssumption
    PROVE  /\ \A h \in Contents \cup {Absent} : Logical(h) = h /\ h # Marker
           /\ \A h \in Contents \cup {Marker, Absent} : Logical(h) \in Contents \cup {Absent}
  BY DEF RevisionAssumption, Logical

(* Record() of what the live bindings hold leaves head describing the tree. *)
LEMMA SettledKeeps ==
    ASSUME RevisionAssumption, RevisionInv, NEW p \in Replicas, NEW root \in Roots,
           DagInv', Extends, policy' = policy, active' = active, Pulled(p), Made(p, root),
           live' \in [Replicas -> [PrefixPaths -> Contents \cup {Absent}]],
           dirty' \in [Replicas -> SUBSET PrefixPaths],
           \A q \in Replicas \ {p} : live'[q] = live[q] /\ dirty'[q] = dirty[q],
           \A x \in PrefixPaths : x \notin dropped' \cup dirty'[p] => live'[p][x] = Logical(root[x])
    PROVE  RevisionInv'
  <1>1. DagInv /\ ReplicaTypes /\ Fits(p)
    BY DEF RevisionInv
  <1>2. PICK v \in Ids' : /\ versions'[v].root = root /\ v # 0
                          /\ Advance(p, v)
                          /\ known' = known \/ known' = [known EXCEPT ![p] = @ \cup {v}]
    BY DEF Made
  <1>3. v \in Nat /\ v \in Some' /\ Ids' \subseteq Nat
    BY <1>2 DEF DagInv, Dag, Ids, Some
  <1>4. /\ head' \in [Replicas -> Nat] /\ branch' \in [Replicas -> [Branches -> Nat]]
        /\ head'[p] = v /\ \A b \in Branches : branch'[p][b] \in Some'
        /\ active'[p] # Absent => branch'[p][active'[p]] = v
        /\ \A q \in Replicas \ {p} : head'[q] = head[q] /\ branch'[q] = branch[q]
    BY <1>1, <1>2, <1>3, AdvanceIs
  <1>5. known' \in [Replicas -> SUBSET Nat] /\ known'[p] \subseteq Ids'
        /\ \A q \in Replicas \ {p} : known'[q] = known[q]
    <2>1. known \in [Replicas -> SUBSET Nat] /\ known[p] \subseteq Ids'
      BY <1>1, SomeStill DEF ReplicaTypes
    <2> QED BY <1>2, <1>3, <2>1
  <1>9. /\ fetched' \in [Replicas -> Nat] /\ fetched'[p] \in Some'
        /\ \A q \in Replicas \ {p} : fetched'[q] = fetched[q]
    BY <1>1, PulledIs
  <1>6. ReplicaTypes'
    BY <1>1, <1>4, <1>5, <1>9 DEF ReplicaTypes
  <1>7. \A q \in Replicas \ {p} : Alike(q)
    BY <1>4, <1>5, <1>9 DEF Alike
  <1>8. Fits(p)'
    <2>2. root = (IF head'[p] = 0 THEN Unbound ELSE versions'[head'[p]].root)
      BY <1>2, <1>4
    <2> QED BY <1>3, <1>4, <1>5, <1>9, <2>2, FitsNow
  <1> QED BY <1>6, <1>7, <1>8, StepKeeps

LEMMA PartsOf ==
    ASSUME RevisionInv, NEW p \in Replicas
    PROVE  /\ DagInv /\ ReplicaTypes /\ Fits(p) /\ Dag(versions) /\ policy \in Policies
           /\ head[p] \in Some /\ RootAt(head[p]) \in Roots
           /\ live \in [Replicas -> [PrefixPaths -> Contents \cup {Absent}]]
           /\ live[p] \in [PrefixPaths -> Contents \cup {Absent}]
           /\ dirty \in [Replicas -> SUBSET PrefixPaths]
           /\ \A x \in PrefixPaths : x \notin dropped \cup dirty[p] => live[p][x] = Logical(RootAt(head[p])[x])
  <1>1. DagInv /\ ReplicaTypes /\ Fits(p)
    BY DEF RevisionInv
  <1>2. Dag(versions) /\ policy \in Policies
    BY <1>1 DEF DagInv
  <1>3. head[p] \in Some
    BY <1>1 DEF Fits
  <1>4. RootAt(head[p]) \in Roots
    BY <1>2, <1>3, RootAtIs
  <1> QED BY <1>1, <1>2, <1>3, <1>4 DEF ReplicaTypes, Fits, Described

LEMMA SnapshotIs ==
    ASSUME RevisionAssumption, WholeTries, RevisionInv, NEW p \in Replicas
    PROVE  /\ Snapshot(p) \in Roots
           /\ \A x \in PrefixPaths : Logical(Snapshot(p)[x]) = live[p][x]
           /\ BoundIn(RootAt(head[p])) \subseteq BoundIn(Snapshot(p))
  <1> DEFINE parent == RootAt(head[p])
  <1>1. BindingsAt(p, head[p]) = parent
    BY PartsOf, BindingsAre
  <1>2. Snapshot(p) = [x \in PrefixPaths |-> IF live[p][x] = Absent /\ parent[x] # Absent THEN Marker ELSE live[p][x]]
    BY <1>1 DEF Snapshot
  <1> HIDE DEF parent
  <1>3. live[p] \in [PrefixPaths -> Contents \cup {Absent}]
    BY PartsOf
  <1>4. Snapshot(p) \in Roots
    BY <1>2, <1>3 DEF Roots
  <1>5. \A x \in PrefixPaths : Logical(Snapshot(p)[x]) = live[p][x]
    BY <1>2, <1>3 DEF Logical, RevisionAssumption
  <1>6. BoundIn(parent) \subseteq BoundIn(Snapshot(p))
    BY <1>2 DEF BoundIn, RevisionAssumption
  <1> QED BY <1>4, <1>5, <1>6 DEF parent

LEMMA HeadParentsAre ==
    ASSUME RevisionInv, NEW p \in Replicas, NEW root \in Roots,
           BoundIn(RootAt(head[p])) \subseteq BoundIn(root) \cup dropped'
    PROVE  Allowed(root, HeadParents(p))
  <1>1. CASE head[p] = 0
    BY <1>1 DEF Allowed, HeadParents
  <1>2. CASE head[p] # 0
    <2>1. head[p] \in Ids /\ RootAt(head[p]) = versions[head[p]].root
      BY <1>2, PartsOf DEF Some, RootAt
    <2>2. HeadParents(p) = <<head[p]>>
      BY <1>2 DEF HeadParents
    <2>3. <<head[p]>> \in Seq(Ids) /\ Len(<<head[p]>>) = 1 /\ DOMAIN <<head[p]>> = {1} /\ <<head[p]>>[1] = head[p]
      BY <2>1
    <2> QED BY <2>1, <2>2, <2>3 DEF Allowed
  <1> QED BY <1>1, <1>2

LEMMA CommitKeeps ==
    ASSUME RevisionAssumption, WholeTries, RevisionInv, NEW p \in Replicas, CommitVersion(p)
    PROVE  RevisionInv'
  <1>1. DagInv /\ ReplicaTypes /\ Fits(p)
    BY PartsOf
  <1>2. /\ dirty' = [dirty EXCEPT ![p] = {}] /\ UNCHANGED <<rising, policy, active, live, conflicts, fetched, dropped>>
    BY DEF CommitVersion
  <1>3. /\ dirty' \in [Replicas -> SUBSET PrefixPaths] /\ dirty'[p] = {}
        /\ \A q \in Replicas \ {p} : dirty'[q] = dirty[q]
        /\ live' \in [Replicas -> [PrefixPaths -> Contents \cup {Absent}]]
    BY <1>2, PartsOf
  <1>4. CASE head[p] # 0 /\ versions[head[p]].root = Snapshot(p)
    <2>1. UNCHANGED <<versions, known, nodes, head, branch>>
      BY <1>4 DEF CommitVersion
    <2>2. DagInv' /\ Extends
      BY <1>1, <1>2, <2>1, DagKept
    <2>3. ReplicaTypes' /\ \A q \in Replicas \ {p} : Alike(q)
      BY <1>1, <1>2, <1>3, <2>1 DEF ReplicaTypes, Alike
    <2>4. Fits(p)'
      <3> DEFINE r == RootAt(head[p])
      <3>1. r = (IF head'[p] = 0 THEN Unbound ELSE versions'[head'[p]].root)
        BY <2>1 DEF RootAt
      <3>2. \A x \in PrefixPaths : x \notin dropped' \cup dirty'[p] => live'[p][x] = Logical(r[x])
        BY <1>2, <1>4, SnapshotIs DEF RootAt
      <3>3. head'[p] \in Some' /\ fetched'[p] \in Some' /\ known'[p] \subseteq Ids'
            /\ \A b \in Branches : branch'[p][b] \in Some'
        BY <1>1, <1>2, <2>1, <2>2, SomeStill
      <3>4. active'[p] # Absent => branch'[p][active'[p]] = head'[p]
        BY <1>1, <1>2, <2>1 DEF Fits
      <3> HIDE DEF r
      <3> QED BY <3>1, <3>2, <3>3, <3>4, FitsNow
    <2> QED BY <2>2, <2>3, <2>4, StepKeeps
  <1>5. CASE ~(head[p] # 0 /\ versions[head[p]].root = Snapshot(p))
    <2>1. Record(p, Snapshot(p), HeadParents(p))
      BY <1>5 DEF CommitVersion
    <2>2. Snapshot(p) \in Roots /\ Allowed(Snapshot(p), HeadParents(p))
      BY SnapshotIs, HeadParentsAre
    <2>3. DagInv' /\ Extends /\ Made(p, Snapshot(p))
      BY <1>1, <1>2, <2>1, <2>2, RecordKeeps
    <2>4. \A x \in PrefixPaths : live'[p][x] = Logical(Snapshot(p)[x])
      BY <1>2, SnapshotIs
    <2>5. Pulled(p) /\ policy' = policy /\ active' = active
      BY <1>2 DEF Pulled
    <2> DEFINE root == Snapshot(p)
    <2> HIDE DEF root
    <2>6. root = Snapshot(p)
      BY DEF root
    <2>7. /\ root \in Roots /\ DagInv' /\ Extends /\ Made(p, root)
          /\ \A x \in PrefixPaths : live'[p][x] = Logical(root[x])
      BY <2>2, <2>3, <2>4, <2>6
    <2> QED BY <1>2, <1>3, <2>5, <2>7, SettledKeeps
  <1> QED BY <1>4, <1>5

LEMMA AppliedIs ==
    ASSUME RevisionAssumption, NEW bindings \in Roots, NEW now \in [PrefixPaths -> Contents \cup {Absent}]
    PROVE  /\ Applied(bindings, now) \in [PrefixPaths -> Contents \cup {Absent}]
           /\ \A x \in PrefixPaths :
                 Applied(bindings, now)[x] = IF x \in BoundIn(bindings) THEN Logical(bindings[x]) ELSE now[x]
  <1>1. \A x \in PrefixPaths : bindings[x] \in Contents \cup {Marker, Absent}
    BY DEF Roots
  <1>2. \A x \in PrefixPaths : Logical(bindings[x]) \in Contents \cup {Absent}
    BY <1>1, LogicalIs
  <1> QED BY <1>2 DEF Applied, BoundIn

(* Laying a root that binds all that head binds over the live bindings. *)
LEMMA LaidOver ==
    ASSUME RevisionAssumption, RevisionInv, NEW p \in Replicas, NEW root \in Roots,
           BoundIn(RootAt(head[p])) \subseteq BoundIn(root) \cup dropped', dropped \subseteq dropped',
           live' = [live EXCEPT ![p] = Applied(root, @)],
           dirty' = [dirty EXCEPT ![p] = @ \ BoundIn(root)]
    PROVE  /\ live' \in [Replicas -> [PrefixPaths -> Contents \cup {Absent}]]
           /\ dirty' \in [Replicas -> SUBSET PrefixPaths]
           /\ \A q \in Replicas \ {p} : live'[q] = live[q] /\ dirty'[q] = dirty[q]
           /\ \A x \in PrefixPaths : x \notin dropped' \cup dirty'[p] => live'[p][x] = Logical(root[x])
  <1> DEFINE mine == live[p]
             laid == Applied(root, mine)
  <1>1. /\ live \in [Replicas -> [PrefixPaths -> Contents \cup {Absent}]]
        /\ mine \in [PrefixPaths -> Contents \cup {Absent}]
        /\ dirty \in [Replicas -> SUBSET PrefixPaths]
        /\ RootAt(head[p]) \in Roots
    BY PartsOf
  <1> HIDE DEF mine
  <1>2. /\ laid \in [PrefixPaths -> Contents \cup {Absent}]
        /\ \A x \in PrefixPaths : laid[x] = IF x \in BoundIn(root) THEN Logical(root[x]) ELSE mine[x]
    BY <1>1, AppliedIs
  <1>3. live' = [live EXCEPT ![p] = laid]
    BY DEF mine
  <1> HIDE DEF laid
  <1>4. /\ live' \in [Replicas -> [PrefixPaths -> Contents \cup {Absent}]] /\ live'[p] = laid
        /\ dirty' \in [Replicas -> SUBSET PrefixPaths] /\ dirty'[p] = dirty[p] \ BoundIn(root)
        /\ \A q \in Replicas \ {p} : live'[q] = live[q] /\ dirty'[q] = dirty[q]
    BY <1>1, <1>2, <1>3
  <1>5. ASSUME NEW x \in PrefixPaths, x \notin dropped' \cup dirty'[p] PROVE live'[p][x] = Logical(root[x])
    <2>1. CASE x \in BoundIn(root)
      BY <1>2, <1>4, <2>1
    <2>2. CASE x \notin BoundIn(root)
      <3>1. x \notin dropped \cup dirty[p] /\ x \notin BoundIn(RootAt(head[p]))
        BY <1>4, <1>5, <2>2
      <3>2. mine[x] = Logical(RootAt(head[p])[x])
        BY <3>1, PartsOf DEF mine
      <3>3. RootAt(head[p])[x] = Absent /\ root[x] = Absent
        BY <2>2, <3>1 DEF BoundIn
      <3> QED BY <1>2, <1>4, <2>2, <3>2, <3>3
    <2> QED BY <2>1, <2>2
  <1> QED BY <1>4, <1>5

LEMMA FastForwardKeeps ==
    ASSUME RevisionAssumption, WholeTries, RevisionInv, NEW p \in Replicas, NEW v \in Ids,
           head[p] = 0 \/ head[p] \in AncestorsOf[v], FastForward(p, v),
           policy' = policy, active' = active, Pulled(p)
    PROVE  RevisionInv'
  <1> DEFINE root == RootAt(v)
  <1>1. DagInv /\ ReplicaTypes /\ Fits(p) /\ Dag(versions)
    BY PartsOf
  <1>2. v \in Some /\ v # 0 /\ root = versions[v].root /\ root \in Roots
    <2>1. v \in Some /\ v # 0
      BY <1>1, RootAtIs DEF Some
    <2> QED BY <1>1, <2>1, RootAtIs DEF RootAt
  <1>3. BindingsAt(p, v) = root
    BY <1>1, <1>2, BindingsAre
  <1>4. /\ Advance(p, v) /\ live' = [live EXCEPT ![p] = Applied(root, @)]
        /\ dirty' = [dirty EXCEPT ![p] = @ \ BoundIn(root)]
        /\ UNCHANGED <<versions, known, nodes, conflicts, dropped>>
    BY <1>3 DEF FastForward
  <1>5. DagInv' /\ Extends
    BY <1>1, <1>4, DagKept
  <1>6. BoundIn(RootAt(head[p])) \subseteq BoundIn(root) \cup dropped'
    <2>1. CASE head[p] = 0
      BY <2>1 DEF RootAt, Unbound, BoundIn
    <2>2. CASE head[p] \in AncestorsOf[v]
      <3>1. head[p] \in Ids /\ BoundIn(versions[head[p]].root) \subseteq BoundIn(versions[v].root) \cup dropped
        BY <1>1, <2>2, AncestorsCovered DEF DagInv
      <3>2. head[p] # 0
        BY <1>1, <3>1, RootAtIs DEF Some
      <3> QED BY <1>2, <1>4, <3>1, <3>2 DEF RootAt
    <2> QED BY <2>1, <2>2
  <1>7. Made(p, root)
    <2>1. v \in Ids' /\ versions'[v].root = root
      BY <1>2, <1>4 DEF Ids
    <2> QED BY <1>2, <1>4, <2>1 DEF Made
  <1> HIDE DEF root
  <1>8. /\ live' \in [Replicas -> [PrefixPaths -> Contents \cup {Absent}]]
        /\ dirty' \in [Replicas -> SUBSET PrefixPaths]
        /\ \A q \in Replicas \ {p} : live'[q] = live[q] /\ dirty'[q] = dirty[q]
        /\ \A x \in PrefixPaths : x \notin dropped' \cup dirty'[p] => live'[p][x] = Logical(root[x])
    BY <1>2, <1>4, <1>6, LaidOver
  <1> QED BY <1>2, <1>5, <1>7, <1>8, SettledKeeps

LEMMA SortedParentsAre ==
    ASSUME NEW a \in Ids, NEW b \in Ids
    PROVE  \E c, d \in Ids : /\ SortedParents(a, b) = <<c, d>> /\ MergeSides(a, b) = <<c, d>>
                             /\ {c, d} = {a, b}
  BY DEF SortedParents, MergeSides

LEMMA PairAllowed ==
    ASSUME NEW c \in Ids, NEW d \in Ids, NEW root \in Roots, root = RootOf(c, d),
           BoundIn(versions[c].root) \subseteq BoundIn(root) \cup dropped',
           BoundIn(versions[d].root) \subseteq BoundIn(root) \cup dropped'
    PROVE  Allowed(root, <<c, d>>)
  <1> DEFINE ps == <<c, d>>
  <1>1. ps \in Seq(Ids) /\ Len(ps) = 2 /\ DOMAIN ps = {1, 2} /\ ps[1] = c /\ ps[2] = d
    OBVIOUS
  <1> QED BY <1>1 DEF Allowed

LEMMA MergeVersionsKeeps ==
    ASSUME RevisionAssumption, WholeTries, RevisionInv, NEW p \in Replicas, NEW v \in Ids,
           head[p] # 0, MergeVersions(p, v), policy' = policy, active' = active, Pulled(p)
    PROVE  RevisionInv'
  <1>1. DagInv /\ ReplicaTypes /\ Fits(p) /\ Dag(versions) /\ policy \in Policies
    BY PartsOf
  <1>2. head[p] \in Ids /\ RootAt(head[p]) = versions[head[p]].root
    BY PartsOf DEF Some, RootAt
  <1>3. PICK c \in Ids, d \in Ids :
            /\ SortedParents(head[p], v) = <<c, d>> /\ MergeSides(head[p], v) = <<c, d>>
            /\ {c, d} = {head[p], v}
    BY <1>2, SortedParentsAre
  <1>4. \A w \in Ids : w \in Some /\ w # 0 /\ RootAt(w) = versions[w].root /\ RootAt(w) \in Roots
    <2> SUFFICES ASSUME NEW w \in Ids
                 PROVE  w \in Some /\ w # 0 /\ RootAt(w) = versions[w].root /\ RootAt(w) \in Roots
      OBVIOUS
    <2>1. w \in Some /\ w # 0
      BY <1>1, RootAtIs DEF Some
    <2> QED BY <1>1, <2>1, RootAtIs DEF RootAt
  <1> DEFINE root == RootOf(c, d)
  <1>5. root \in Roots
    BY <1>1, RootOfIs
  <1>6. CASE versions[head[p]].root = versions[v].root
    <2> DEFINE same == versions[v].root
    <2>1. Record(p, same, <<c, d>>) /\ UNCHANGED <<live, dirty, conflicts, dropped>>
      BY <1>3, <1>6 DEF MergeVersions
    <2>2. versions[c].root = same /\ versions[d].root = same
      BY <1>3, <1>6
    <2>3. root = same
      BY <1>1, <2>2, RootOfIs
    <2> HIDE DEF same, root
    <2>4. Allowed(same, <<c, d>>)
      BY <1>5, <2>2, <2>3, PairAllowed DEF root
    <2>5. DagInv' /\ Extends /\ Made(p, same)
      BY <1>1, <2>1, <2>4, RecordKeeps
    <2>6. /\ live' \in [Replicas -> [PrefixPaths -> Contents \cup {Absent}]]
          /\ dirty' \in [Replicas -> SUBSET PrefixPaths]
      BY <2>1, PartsOf
    <2>7. \A x \in PrefixPaths : x \notin dropped' \cup dirty'[p] => live'[p][x] = Logical(same[x])
      BY <1>2, <1>6, <2>1, PartsOf DEF same
    <2>8. same \in Roots
      BY <1>5, <2>3
    <2> QED BY <2>1, <2>5, <2>6, <2>7, <2>8, SettledKeeps
  <1>7. CASE versions[head[p]].root # versions[v].root
    <2> DEFINE e == CommonAncestor(c, d)
               merged == [x \in PrefixPaths |-> MergePath(RootAt(e)[x], RootAt(c)[x], RootAt(d)[x])]
    <2>1. e \in Some
      BY <1>1, AncestorFits
    <2>2. BindingsAt(p, c) = RootAt(c) /\ BindingsAt(p, d) = RootAt(d) /\ BindingsAt(p, e) = RootAt(e)
      BY <1>1, <1>4, <2>1, BindingsAre
    <2>3. root = [x \in PrefixPaths |-> merged[x].binding]
      BY DEF RootOf
    <2>4. <<c, d>>[1] = c /\ <<c, d>>[2] = d
      OBVIOUS
    <2>5. /\ Record(p, root, <<c, d>>)
          /\ live' = [live EXCEPT ![p] = Applied(root, @)]
          /\ dirty' = [dirty EXCEPT ![p] = @ \ BoundIn(root)]
          /\ dropped' = dropped \cup ((BoundIn(RootAt(c)) \cup BoundIn(RootAt(d))) \ BoundIn(root))
      <3> HIDE DEF root
      <3>1. MergeSides(head[p], v)[1] = c /\ MergeSides(head[p], v)[2] = d
        BY <1>3, <2>4
      <3>2. root = [x \in PrefixPaths |->
                     [y \in PrefixPaths |-> MergePath(RootAt(e)[y], RootAt(c)[y], RootAt(d)[y])][x].binding]
        BY <2>3
      <3> HIDE DEF e
      <3>3. CommonAncestor(MergeSides(head[p], v)[1], MergeSides(head[p], v)[2]) = e
        BY <3>1 DEF e
      <3> QED BY <1>3, <1>7, <2>2, <3>1, <3>2, <3>3 DEF MergeVersions
    <2> HIDE DEF root, merged
    <2>6. /\ BoundIn(versions[c].root) \subseteq BoundIn(root) \cup dropped'
          /\ BoundIn(versions[d].root) \subseteq BoundIn(root) \cup dropped'
          /\ dropped \subseteq dropped'
      BY <1>4, <2>5
    <2>7. Allowed(root, <<c, d>>)
      BY <1>5, <2>6, PairAllowed DEF root
    <2>8. DagInv' /\ Extends /\ Made(p, root)
      BY <1>1, <2>5, <2>6, <2>7, RecordKeeps
    <2>9. BoundIn(RootAt(head[p])) \subseteq BoundIn(root) \cup dropped'
      BY <1>2, <1>3, <2>6
    <2>10. /\ live' \in [Replicas -> [PrefixPaths -> Contents \cup {Absent}]]
           /\ dirty' \in [Replicas -> SUBSET PrefixPaths]
           /\ \A q \in Replicas \ {p} : live'[q] = live[q] /\ dirty'[q] = dirty[q]
           /\ \A x \in PrefixPaths : x \notin dropped' \cup dirty'[p] => live'[p][x] = Logical(root[x])
      BY <1>5, <2>5, <2>6, <2>9, LaidOver
    <2> QED BY <1>5, <2>8, <2>10, SettledKeeps
  <1> QED BY <1>6, <1>7

(* A step that only moves numbers of one replica, all of versions that were made. *)
LEMMA NumbersKeep ==
    ASSUME RevisionAssumption, RevisionInv, NEW p \in Replicas, ReplicaTypes',
           UNCHANGED <<versions, policy, head, active, live, dirty, dropped>>,
           \A q \in Replicas \ {p} : fetched'[q] = fetched[q] /\ known'[q] = known[q] /\ branch'[q] = branch[q],
           fetched'[p] \in Some, known'[p] \subseteq Ids, \A b \in Branches : branch'[p][b] \in Some,
           active[p] # Absent => branch'[p][active[p]] = head[p]
    PROVE  RevisionInv'
  <1>1. DagInv' /\ Extends
    BY DagKept DEF RevisionInv
  <1>2. \A q \in Replicas \ {p} : Alike(q)
    BY DEF Alike
  <1>3. head[p] \in Some' /\ Ids \subseteq Ids' /\ Some \subseteq Some'
    BY <1>1, PartsOf, SomeStill
  <1>4. Fits(p)'
    <2> DEFINE r == RootAt(head[p])
    <2>1. r = (IF head'[p] = 0 THEN Unbound ELSE versions'[head'[p]].root)
      BY DEF RootAt
    <2>2. \A x \in PrefixPaths : x \notin dropped' \cup dirty'[p] => live'[p][x] = Logical(r[x])
      BY PartsOf
    <2> HIDE DEF r
    <2> QED BY <1>3, <2>1, <2>2, FitsNow
  <1> QED BY <1>1, <1>2, <1>4, StepKeeps

LEMMA PullFetchKeeps ==
    ASSUME RevisionAssumption, RevisionInv, NEW p \in Replicas, NEW q \in Replicas, PullFetch(p, q)
    PROVE  RevisionInv'
  <1>1. /\ fetched' = [fetched EXCEPT ![p] = head[q]] /\ known' = [known EXCEPT ![p] = @ \cup Shipped(q)]
        /\ UNCHANGED <<versions, policy, head, active, branch, live, dirty, dropped>> /\ head[q] # 0
    BY DEF PullFetch
  <1>2. ReplicaTypes /\ DagInv /\ Dag(versions) /\ Fits(p)
    BY PartsOf
  <1>3. head[q] \in Ids
    BY <1>1, PartsOf DEF Some
  <1>4. Shipped(q) \subseteq Ids /\ Ids \subseteq Nat
    <2>1. \A u \in AncestorsOf[head[q]] : u \in Ids
      BY <1>2, <1>3, AncestorsCovered DEF DagInv
    <2> QED BY <1>2, <2>1 DEF Shipped, Dag, Ids
  <1>5. known \in [Replicas -> SUBSET Nat] /\ fetched \in [Replicas -> Nat] /\ head[q] \in Nat
    BY <1>2 DEF ReplicaTypes
  <1>6. /\ known' \in [Replicas -> SUBSET Nat] /\ fetched' \in [Replicas -> Nat]
        /\ known'[p] = known[p] \cup Shipped(q) /\ fetched'[p] = head[q]
        /\ \A r \in Replicas \ {p} : fetched'[r] = fetched[r] /\ known'[r] = known[r]
    BY <1>1, <1>4, <1>5
  <1>7. ReplicaTypes'
    BY <1>1, <1>2, <1>6 DEF ReplicaTypes
  <1>8. fetched'[p] \in Some /\ known'[p] \subseteq Ids
    BY <1>2, <1>3, <1>4, <1>6 DEF Fits, Some
  <1>9. (\A b \in Branches : branch'[p][b] \in Some) /\ (active[p] # Absent => branch'[p][active[p]] = head[p])
    BY <1>1, <1>2 DEF Fits
  <1> QED BY <1>1, <1>6, <1>7, <1>8, <1>9, NumbersKeep

LEMMA BranchKeeps ==
    ASSUME RevisionAssumption, RevisionInv, NEW p \in Replicas, NEW b \in Branches,
           BranchCreate(p, b) \/ BranchDelete(p, b)
    PROVE  RevisionInv'
  <1>1. UNCHANGED <<versions, policy, known, head, active, live, fetched, dirty, dropped>>
    BY DEF BranchCreate, BranchDelete
  <1>2. PICK w \in {0, head[p]} : branch' = [branch EXCEPT ![p][b] = w] /\ (active[p] = b => w = head[p])
    BY DEF BranchCreate, BranchDelete
  <1>3. ReplicaTypes /\ Fits(p) /\ head[p] \in Some /\ 0 \in Some /\ w \in Some /\ w \in Nat
    BY <1>2, PartsOf DEF Some, ReplicaTypes
  <1>4. branch \in [Replicas -> [Branches -> Nat]] /\ branch[p] \in [Branches -> Nat]
    BY <1>3 DEF ReplicaTypes
  <1>5. /\ branch' \in [Replicas -> [Branches -> Nat]] /\ branch'[p] = [branch[p] EXCEPT ![b] = w]
        /\ \A q \in Replicas \ {p} : branch'[q] = branch[q]
    BY <1>2, <1>3, <1>4
  <1>6. ReplicaTypes'
    BY <1>1, <1>3, <1>5 DEF ReplicaTypes
  <1>7. \A c \in Branches : branch'[p][c] \in Some
    BY <1>3, <1>4, <1>5 DEF Fits
  <1>8. active[p] # Absent => branch'[p][active[p]] = head[p]
    <2>1. active[p] # Absent => active[p] \in Branches
      BY <1>3 DEF ReplicaTypes
    <2> QED BY <1>2, <1>3, <1>4, <1>5, <2>1 DEF Fits
  <1>9. fetched'[p] \in Some /\ known'[p] \subseteq Ids
    BY <1>1, <1>3 DEF Fits
  <1> QED BY <1>1, <1>5, <1>6, <1>7, <1>8, <1>9, NumbersKeep

LEMMA RelatedIs ==
    ASSUME NEW a, NEW b, Relationship(a, b) = "behind"
    PROVE  a \in AncestorsOf[b]
  BY DEF Relationship

LEMMA MergeFromKeeps ==
    ASSUME RevisionAssumption, WholeTries, RevisionInv, NEW p \in Replicas, NEW v \in Ids,
           MergeFrom(p, v), Pulled(p)
    PROVE  RevisionInv'
  <1>1. policy' = policy /\ active' = active
    BY DEF MergeFrom
  <1>2. CASE head[p] = 0
    <2>1. FastForward(p, v)
      BY <1>2 DEF MergeFrom
    <2> QED BY <1>1, <1>2, <2>1, FastForwardKeeps
  <1>3. CASE head[p] # 0 /\ Relationship(head[p], v) = "behind"
    <2>1. FastForward(p, v)
      BY <1>3 DEF MergeFrom
    <2>2. head[p] \in AncestorsOf[v]
      BY <1>3, RelatedIs
    <2> QED BY <1>1, <2>1, <2>2, FastForwardKeeps
  <1>4. CASE head[p] # 0 /\ Relationship(head[p], v) \in {"diverged", "unrelated"}
    <2>1. MergeVersions(p, v)
      BY <1>4 DEF MergeFrom
    <2> QED BY <1>1, <1>4, <2>1, MergeVersionsKeeps
  <1>5. CASE head[p] # 0 /\ Relationship(head[p], v) \notin {"behind", "diverged", "unrelated"}
    <2>1. UNCHANGED <<versions, known, nodes, head, branch, live, dirty, conflicts, dropped>>
      BY <1>5 DEF MergeFrom
    <2>2. ReplicaTypes /\ Fits(p) /\ DagInv
      BY PartsOf
    <2>3. Extends
      BY <1>1, <2>1, <2>2, DagKept
    <2>4. fetched' \in [Replicas -> Nat] /\ \A q \in Replicas \ {p} : fetched'[q] = fetched[q]
      BY <2>2, <2>3, PulledIs
    <2>5. fetched'[p] \in Some
      <3>1. fetched[p] \in Some /\ 0 \in Some /\ fetched \in [Replicas -> Nat]
        BY <2>2 DEF Fits, Some, ReplicaTypes
      <3> QED BY <3>1 DEF Pulled
    <2>6. ReplicaTypes'
      BY <1>1, <2>1, <2>2, <2>4 DEF ReplicaTypes
    <2>7. /\ known'[p] \subseteq Ids /\ \A b \in Branches : branch'[p][b] \in Some
          /\ active[p] # Absent => branch'[p][active[p]] = head[p]
      BY <2>1, <2>2 DEF Fits
    <2> QED BY <1>1, <2>1, <2>4, <2>5, <2>6, <2>7, NumbersKeep
  <1> QED BY <1>2, <1>3, <1>4, <1>5

LEMMA CheckoutKeeps ==
    ASSUME RevisionAssumption, WholeTries, RevisionInv, NEW p \in Replicas,
           NEW v \in Ids, NEW b \in Branches \cup {Absent}, Checkout(p, v, b),
           b # Absent => branch[p][b] = v
    PROVE  RevisionInv'
  <1> DEFINE target == RootAt(v)
             source == RootAt(head[p])
             mine == live[p]
             forced == {x \in PrefixPaths : Logical(source[x]) # Absent /\ target[x] = Absent}
             now == Applied(target, mine)
             laid == [x \in PrefixPaths |-> IF x \in forced THEN Absent ELSE now[x]]
  <1>1. DagInv /\ ReplicaTypes /\ Fits(p) /\ Dag(versions) /\ head[p] \in Some
    BY PartsOf
  <1>2. v \in Some /\ v # 0 /\ v \in Nat /\ target = versions[v].root /\ target \in Roots
    <2>1. v \in Some /\ v # 0 /\ v \in Nat
      BY <1>1, RootAtIs DEF Some
    <2> QED BY <1>1, <2>1, RootAtIs DEF RootAt
  <1>3. BindingsAt(p, v) = target /\ BindingsAt(p, head[p]) = source
    BY <1>1, <1>2, BindingsAre
  <1>4. /\ head' = [head EXCEPT ![p] = v] /\ active' = [active EXCEPT ![p] = b]
        /\ live' = [live EXCEPT ![p] = laid]
        /\ dirty' = [dirty EXCEPT ![p] = @ \ (BoundIn(target) \cup forced)]
        /\ UNCHANGED <<versions, policy, known, branch, fetched, dropped>>
    BY <1>3 DEF Checkout
  <1>5. DagInv' /\ Extends
    BY <1>1, <1>4, DagKept
  <1>6. mine \in [PrefixPaths -> Contents \cup {Absent}]
    BY PartsOf
  <1> HIDE DEF target, source, mine
  <1>7. /\ now \in [PrefixPaths -> Contents \cup {Absent}]
        /\ \A x \in PrefixPaths : now[x] = IF x \in BoundIn(target) THEN Logical(target[x]) ELSE mine[x]
    BY <1>2, <1>6, AppliedIs
  <1> HIDE DEF now
  <1>8. laid \in [PrefixPaths -> Contents \cup {Absent}]
    BY <1>7
  <1>9. \A x \in PrefixPaths : laid[x] = IF x \in forced THEN Absent ELSE now[x]
    OBVIOUS
  <1> HIDE DEF laid
  <1>10. /\ head \in [Replicas -> Nat] /\ active \in [Replicas -> Branches \cup {Absent}]
         /\ live \in [Replicas -> [PrefixPaths -> Contents \cup {Absent}]]
         /\ dirty \in [Replicas -> SUBSET PrefixPaths]
    BY <1>1 DEF ReplicaTypes
  <1>11. /\ head' \in [Replicas -> Nat] /\ active' \in [Replicas -> Branches \cup {Absent}]
         /\ live' \in [Replicas -> [PrefixPaths -> Contents \cup {Absent}]]
         /\ dirty' \in [Replicas -> SUBSET PrefixPaths]
         /\ head'[p] = v /\ active'[p] = b /\ live'[p] = laid
         /\ dirty'[p] = dirty[p] \ (BoundIn(target) \cup forced)
    BY <1>2, <1>4, <1>8, <1>10
  <1>12. \A q \in Replicas \ {p} : Alike(q)
    BY <1>4, <1>10 DEF Alike
  <1>13. ReplicaTypes'
    BY <1>1, <1>4, <1>11 DEF ReplicaTypes
  <1>14. \A x \in PrefixPaths : x \notin dropped' \cup dirty'[p] => live'[p][x] = Logical(target[x])
    <2> SUFFICES ASSUME NEW x \in PrefixPaths, x \notin dropped, x \notin dirty'[p]
                 PROVE  laid[x] = Logical(target[x])
      BY <1>4, <1>11
    <2>0. Logical(Absent) = Absent
      BY LogicalIs
    <2>1. CASE x \in BoundIn(target)
      <3>1. x \notin forced
        BY <2>1 DEF BoundIn
      <3> QED BY <1>7, <1>9, <2>1, <3>1
    <2>2. CASE x \in forced
      BY <1>9, <2>0, <2>2
    <2>3. CASE x \notin BoundIn(target) /\ x \notin forced
      <3>1. target[x] = Absent /\ Logical(source[x]) = Absent
        BY <2>3 DEF BoundIn
      <3>2. x \notin dropped \cup dirty[p]
        BY <1>11, <2>3
      <3>3. mine[x] = Logical(source[x])
        BY <3>2, PartsOf DEF mine, source
      <3> QED BY <1>7, <1>9, <2>0, <2>3, <3>1, <3>3
    <2> QED BY <2>1, <2>2, <2>3
  <1>15. Fits(p)'
    <2>1. target = (IF head'[p] = 0 THEN Unbound ELSE versions'[head'[p]].root)
      BY <1>2, <1>4, <1>11
    <2>2. v \in Some' /\ fetched'[p] \in Some' /\ known'[p] \subseteq Ids'
          /\ \A c \in Branches : branch'[p][c] \in Some'
      BY <1>1, <1>2, <1>4, <1>5, SomeStill
    <2>3. active'[p] # Absent => branch'[p][active'[p]] = head'[p]
      BY <1>4, <1>11
    <2> QED BY <1>11, <1>14, <2>1, <2>2, <2>3, FitsNow
  <1> QED BY <1>5, <1>12, <1>13, <1>15, StepKeeps

LEMMA DeltaKeeps ==
    ASSUME RevisionAssumption, WholeTries, RevisionInv, NEW p \in Replicas,
           NEW v \in Ids, NEW w \in Ids, ApplyDelta(p, v, w)
    PROVE  RevisionInv'
  <1> DEFINE old == RootAt(v)
             new == RootAt(w)
             mine == live[p]
             target == [x \in PrefixPaths |-> IF Logical(old[x]) = Logical(new[x]) THEN mine[x] ELSE Logical(new[x])]
  <1>1. DagInv /\ ReplicaTypes /\ Fits(p) /\ Dag(versions) /\ head[p] \in Some /\ v \in Some /\ w \in Some
    BY PartsOf DEF Some
  <1>2. BindingsAt(p, v) = old /\ BindingsAt(p, w) = new /\ BindingsAt(p, head[p]) = RootAt(head[p])
    BY <1>1, BindingsAre
  <1>3. /\ Record(p, target, HeadParents(p))
        /\ live' = [live EXCEPT ![p] = target] /\ dirty' = [dirty EXCEPT ![p] = {}]
        /\ dropped' = dropped \cup (BoundIn(RootAt(head[p])) \ BoundIn(target))
        /\ UNCHANGED <<policy, active, fetched>>
    BY <1>2 DEF ApplyDelta
  <1>4. mine \in [PrefixPaths -> Contents \cup {Absent}] /\ new \in Roots
    BY <1>1, PartsOf, RootAtIs
  <1> HIDE DEF old, new, mine
  <1>5. target \in [PrefixPaths -> Contents \cup {Absent}]
    <2>1. \A x \in PrefixPaths : new[x] \in Contents \cup {Marker, Absent}
      BY <1>4 DEF Roots
    <2>2. \A x \in PrefixPaths : Logical(new[x]) \in Contents \cup {Absent}
      BY <2>1, LogicalIs
    <2> QED BY <1>4, <2>2
  <1> HIDE DEF target
  <1>6. target \in Roots /\ \A x \in PrefixPaths : Logical(target[x]) = target[x]
    BY <1>5, LogicalIs DEF Roots
  <1>7. dropped \subseteq dropped' /\ BoundIn(RootAt(head[p])) \subseteq BoundIn(target) \cup dropped'
    BY <1>3
  <1>8. Allowed(target, HeadParents(p))
    BY <1>6, <1>7, HeadParentsAre
  <1>9. DagInv' /\ Extends /\ Made(p, target)
    BY <1>1, <1>3, <1>7, <1>8, RecordKeeps
  <1>10. /\ live' \in [Replicas -> [PrefixPaths -> Contents \cup {Absent}]] /\ live'[p] = target
         /\ dirty' \in [Replicas -> SUBSET PrefixPaths]
         /\ \A q \in Replicas \ {p} : live'[q] = live[q] /\ dirty'[q] = dirty[q]
    BY <1>3, <1>5, PartsOf
  <1>11. \A x \in PrefixPaths : live'[p][x] = Logical(target[x])
    BY <1>6, <1>10
  <1>12. Pulled(p)
    BY <1>3 DEF Pulled
  <1> QED BY <1>3, <1>6, <1>9, <1>10, <1>11, <1>12, SettledKeeps

LEMMA RevisionInvInit ==
    ASSUME RevisionAssumption, RevisionInit
    PROVE  RevisionInv
  <1>1. versions = <<>> /\ Ids = {} /\ Dag(versions)
    BY DEF RevisionInit, Ids, Dag
  <1>2. DagInv
    BY <1>1 DEF RevisionInit, DagInv, Covers, Distinct, Agreed
  <1>3. ReplicaTypes
    BY DEF RevisionInit, ReplicaTypes, Unbound
  <1>4. ASSUME NEW p \in Replicas PROVE Fits(p)
    <2>1. Described(p)
      BY LogicalIs DEF RevisionInit, Described, RootAt, Unbound
    <2> QED BY <2>1 DEF RevisionInit, Fits, Some
  <1> QED BY <1>2, <1>3, <1>4 DEF RevisionInv

LEMMA MoveKeeps ==
    ASSUME RevisionAssumption, WholeTries, RevisionInv, NEW p \in Replicas, Move(p)
    PROVE  RevisionInv'
  <1>1. Dag(versions) /\ ReplicaTypes /\ Fits(p)
    BY PartsOf
  <1>2. CASE \E x \in PrefixPaths, h \in Contents \cup {Absent} : Resolve(p, x, h)
    BY <1>2, WrittenKeeps DEF Resolve
  <1>3. ASSUME NEW v \in Ids, Merge(p, v) PROVE RevisionInv'
    BY <1>3, MergeFromKeeps DEF Merge, Pulled
  <1>4. ASSUME NEW v \in Ids, CheckoutVersion(p, v) PROVE RevisionInv'
    BY <1>4, CheckoutKeeps DEF CheckoutVersion
  <1>5. ASSUME NEW v \in Ids, CherryPick(p, v) \/ Revert(p, v) PROVE RevisionInv'
    <2>1. ParentsOf(v) \subseteq Ids
      BY <1>1, ParentsAre
    <2>2. PICK u \in ParentsOf(v) : ApplyDelta(p, u, v) \/ ApplyDelta(p, v, u)
      BY <1>5 DEF CherryPick, Revert
    <2> QED BY <2>1, <2>2, DeltaKeeps
  <1>6. ASSUME NEW b \in Branches, CheckoutBranch(p, b) PROVE RevisionInv'
    <2>1. branch[p][b] # 0 /\ branch[p][b] \in Some
      BY <1>1, <1>6 DEF CheckoutBranch, Fits
    <2>2. branch[p][b] \in Ids /\ Checkout(p, branch[p][b], b)
      BY <1>6, <2>1 DEF CheckoutBranch, Some
    <2> QED BY <2>2, CheckoutKeeps
  <1>7. ASSUME NEW b \in Branches, BranchCreate(p, b) \/ BranchDelete(p, b) PROVE RevisionInv'
    BY <1>7, BranchKeeps
  <1> QED BY <1>2, <1>3, <1>4, <1>5, <1>6, <1>7 DEF Move

LEMMA FollowKeeps ==
    ASSUME RevisionAssumption, WholeTries, RevisionInv, NEW p \in Replicas, Follow(p)
    PROVE  RevisionInv'
  <1>1. CASE \E x \in PrefixPaths, h \in Contents \cup {Absent} : Write(p, x, h)
    BY <1>1, WrittenKeeps DEF Write
  <1>2. CASE CommitVersion(p)
    BY <1>2, CommitKeeps
  <1>3. CASE PullMerge(p)
    <2>1. fetched[p] \in Ids
      BY <1>3, PartsOf DEF PullMerge, Fits, Some
    <2>2. MergeFrom(p, fetched[p]) /\ Pulled(p)
      BY <1>3 DEF PullMerge, Pulled
    <2> QED BY <2>1, <2>2, MergeFromKeeps
  <1>4. CASE \E q \in Replicas : PullFetch(p, q)
    BY <1>4, PullFetchKeeps
  <1> QED BY <1>1, <1>2, <1>3, <1>4 DEF Follow

LEMMA RevisionStutter ==
    ASSUME RevisionAssumption, RevisionInv, UNCHANGED revisionVars
    PROVE  RevisionInv'
  <1>1. DagInv' /\ Extends
    BY DagKept DEF RevisionInv, revisionVars
  <1>2. ReplicaTypes' /\ \A q \in Replicas : Alike(q)
    BY DEF RevisionInv, ReplicaTypes, revisionVars, Alike
  <1>3. ASSUME NEW q \in Replicas PROVE Fits(q)'
    BY <1>1, <1>2, FitsStill DEF RevisionInv, DagInv
  <1> QED BY <1>1, <1>2, <1>3 DEF RevisionInv

(* Every reachable state satisfies the inductive invariant: the DAG of      *)
(* versions has no cycle and no version twice, every merge version is the   *)
(* merge of its parents, and every head is described by its tree            *)
(* (revision.py _handle_merge(), _update_head_and_branch()).                *)
THEOREM RevisionInvCorrect ==
    ASSUME RevisionAssumption, WholeTries
    PROVE  RevisionSpec => []RevisionInv
  <1>1. RevisionInit => RevisionInv
    BY RevisionInvInit
  <1>2. RevisionInv /\ [RevisionNext]_revisionVars => RevisionInv'
    <2> SUFFICES ASSUME RevisionInv, [RevisionNext]_revisionVars PROVE RevisionInv'
      OBVIOUS
    <2>1. CASE UNCHANGED revisionVars
      BY <2>1, RevisionStutter
    <2>2. CASE RevisionNext
      BY <2>2, FollowKeeps, MoveKeeps DEF RevisionNext
    <2> QED BY <2>1, <2>2
  <1> QED BY <1>1, <1>2, PTL DEF RevisionSpec

(* Two peers that merge the same two heads make the same version: no two    *)
(* versions have the same two parents, whatever the strategies, the order   *)
(* of the hashes and the order of the pulls (revision.py _handle_merge(),   *)
(* _normalize_merge_sides(), _find_common_ancestor()).                      *)
THEOREM MergesAgreeCorrect ==
    ASSUME RevisionAssumption, WholeTries
    PROVE  RevisionSpec => []MergesAgree
  <1>1. RevisionInv => MergesAgree
    <2> SUFFICES ASSUME RevisionInv, NEW v \in Ids, NEW w \in Ids, Len(versions[v].parents) > 1,
                        versions[v].parents = versions[w].parents
                 PROVE  v = w
      BY DEF MergesAgree
    <2>1. DagInv /\ Dag(versions)
      BY DEF RevisionInv, DagInv
    <2>2. versions[v].parents[1] \in Ids /\ versions[v].parents[2] \in Ids
      BY <2>1, ParentPair
    <2>3. versions[v].root = versions[w].root
      BY <2>1, <2>2 DEF DagInv, Agreed
    <2>4. versions[v] \in VersionEntries /\ versions[w] \in VersionEntries
      BY <2>1, DagIs DEF Ids
    <2>5. versions[v] = versions[w]
      BY <2>3, <2>4 DEF VersionEntries
    <2> QED BY <2>1, <2>5 DEF DagInv, Distinct
  <1> QED BY <1>1, RevisionInvCorrect, PTL

(* A path nobody wrote since is bound as the version at head says, after    *)
(* any merge, pull, checkout, pick or revert, but for the deletions that    *)
(* were expressed by absence (revision.py _apply_bindings_to_tree(),        *)
(* _handle_checkout(), _update_head_and_branch()).                          *)
THEOREM HeadDescribesCorrect ==
    ASSUME RevisionAssumption, WholeTries
    PROVE  RevisionSpec => []HeadDescribesTree
  <1>1. RevisionInv => HeadDescribesTree
    BY DEF RevisionInv, Fits, Described, RootAt, HeadDescribesTree
  <1> QED BY <1>1, RevisionInvCorrect, PTL

===============================================================================
