----------------------------- MODULE MCVersions -----------------------------
(* What remembers the tree: the version DAG, the tries versions are made   *)
(* of, the history of paths with its clocks, and snapshots and queries.    *)
(* The four share no state in the code but the tree that each has here     *)
(* itself, so a run takes one of them, `part`, and the others stand still: *)
(* queries, history and versions, which this module extends, or tries,     *)
(* whose variables are x1, x2, ...                                         *)
EXTENDS TreeQuery, History, Revision, TLC

CONSTANTS Unused,
          main, y1         \* a branch, a path

VARIABLES part, x1, x2, x3, x4

others == <<x1, x2, x3, x4>>
all    == <<vars, historyVars, revisionVars, part, others>>

(***************************************************************************)
(* Snapshots and queries: e1 refers to e2; the client may not read <<2, 2>>.*)
(***************************************************************************)
KindOf(e)  == IF e = "e1" THEN "t1" ELSE "t2"
RefsOf(e)  == IF e = "e1" THEN {"e2"} ELSE {}
MayRead(p) == p # <<2, 2>>
MayPut(p)  == TRUE
Ask(type, ref, prefix) == [type |-> type, ref |-> ref, prefix |-> prefix, where |-> None]
Asks == {Ask("t1", None, None), Ask("t2", None, 1), Ask(None, "e2", None), Ask(None, None, 1)}
Bare == [p \in {1, 2} \X {1, 2} |-> None]
Filled == {Bare, [Bare EXCEPT ![<<1, 1>>] = "e1", ![<<1, 2>>] = "e2"]}

(***************************************************************************)
(* Two peers that version one path, pull from each other and merge, under  *)
(* each kind of strategy.                                                  *)
(***************************************************************************)
Strategy(request, configured, deletion, first, n, m) ==
    [request |-> request, config |-> configured, deletion |-> deletion, markerFirst |-> first,
     versions |-> n, moves |-> m]
Strategies ==
    {Strategy("three-way", "three-way", "preserve-on-conflict", TRUE, 5, 0),
     Strategy("three-way", "three-way", "three-way-fallthrough", TRUE, 3, 1),
     Strategy("three-way", "three-way", "deletion-wins", TRUE, 3, 0),
     Strategy("source-wins", "three-way", "preserve-on-conflict", TRUE, 3, 0)}
    \cup {Strategy("three-way", "source-wins", "deterministic", b, 3, 0) : b \in BOOLEAN}
OnePath   == {y1}
OneBranch == {main}
Shallow   == {}

(***************************************************************************)
(* Buckets of two, and five keys whose routes overflow through two levels. *)
(***************************************************************************)
Keys == 1..5
Bits == {0, 1}
Path == 1 :> <<0, 0, 0>> @@ 2 :> <<0, 0, 0>> @@ 3 :> <<0, 0, 1>> @@
        4 :> <<0, 1, 0>> @@ 5 :> <<1, 0, 0>>

T == INSTANCE Trie WITH
        Positions <- Bits, Route <- Path, BucketSize <- 2,
        bindings <- x1, trie <- x2, old <- x3, base <- x4

(***************************************************************************)
(* Two paths, one config, hooks that write while an event is dispatched,   *)
(* a wall clock that may step back.                                        *)
(***************************************************************************)
Lists == {{"created", "updated", "deleted"}, {"created", "updated"}}

ASSUME T!TrieAssumption /\ TreeAssumption /\ CompleteEnvelopes /\ RevisionAssumption /\ WholeTries

-----------------------------------------------------------------------------
(* The other parts leave the peers of the queries with empty trees, history *)
(* without a config, and versions under one order and strategy.            *)
NoTrees    == \A p \in Peers : trees[p][Default] = Bare
NoHistory  == mode = "wall" /\ \A n \in ConfigNames : config[n] = None
NoVersions == rising = TRUE /\ policy = CHOOSE s \in Policies : TRUE
NoTries    == x1 = Unused /\ x2 = Unused /\ x3 = Unused /\ x4 = Unused

VersionsInit ==
    /\ Init
    /\ HistoryInit
    /\ RevisionInit
    /\ \/ part = "query"    /\ NoHistory /\ NoVersions /\ NoTries
       \/ part = "history"  /\ NoTrees /\ NoVersions /\ NoTries
       \/ part = "revision" /\ NoTrees /\ NoHistory /\ NoTries
       \/ part = "trie"     /\ NoTrees /\ NoHistory /\ NoVersions /\ T!Init

VersionsNext ==
    /\ UNCHANGED part
    /\ \/ part = "query" /\ Next /\ UNCHANGED <<historyVars, revisionVars, others>>
       \/ part = "history" /\ HistoryNext /\ UNCHANGED <<vars, revisionVars, others>>
       \/ part = "revision" /\ RevisionNext /\ UNCHANGED <<vars, historyVars, others>>
       \/ part = "trie" /\ T!Next /\ UNCHANGED <<vars, historyVars, revisionVars>>

VersionsSpec == VersionsInit /\ [][VersionsNext]_all

(* Peers and values may be renamed. *)
Symmetry == Permutations(Peers) \cup Permutations(Values)

-----------------------------------------------------------------------------
(* A diff of two tries is the difference of their bindings (trie.py        *)
(* diff_tries()).                                                          *)
DiffIsExact == part = "trie" => T!DiffIsExact
=============================================================================
