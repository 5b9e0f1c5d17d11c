-------------------------- MODULE AutoVersion_proofs --------------------------
(***************************************************************************)
(* Proofs about RootTracker and AutoVersion, for any names, prefixes,      *)
(* paths and hashes.                                                       *)
(*                                                                         *)
(* TrackedIsBuild is not inductive by itself: incremental updates are      *)
(* right only from a right root, a root that is switched on must not       *)
(* disturb another, and a config that is switched off must name the prefix *)
(* it tracked.  RootInv adds UntrackedHasNoRoot and ConfigsAllowed.        *)
(***************************************************************************)
EXTENDS AutoVersion, SequenceTheorems, TLAPS

RootInv == TypeOK /\ ConfigsAllowed /\ TrackedIsBuild /\ UntrackedHasNoRoot

-----------------------------------------------------------------------------
LEMMA ContentsType ==
    ASSUME NEW t \in Contents
    PROVE  /\ t \in [Paths \cup Names -> Hashes \cup Configs \cup {Bad, None}]
           /\ \A p \in Paths : t[p] \in Hashes \cup {None}
           /\ \A n \in Names : t[n] \in Configs \cup {Bad, None} /\ Allowed(n, t[n])
  BY DEF Contents

(* build_trie() of a well-typed tree is a well-typed trie. *)
LEMMA BuildType ==
    ASSUME NEW t \in Contents, NEW x \in Prefixes
    PROVE  Build(t, x) \in Tries
  BY RootAssumption DEF Build, Contents, Tries

LEMMA RootType ==
    ASSUME NEW t \in Contents, NEW x \in Prefixes
    PROVE  /\ RootOf(Build(t, x)) \in [bound : BOOLEAN, trie : Tries]
           /\ NoRoot \in [bound : BOOLEAN, trie : Tries]
           /\ RootOf(Build(t, x)).trie = Build(t, x)
  BY BuildType DEF RootOf, NoRoot, Tries

(* Writing a path that is not below a prefix leaves its trie as it is. *)
LEMMA BuildElsewhere ==
    ASSUME NEW t \in Contents, NEW x \in Prefixes, NEW p \in Paths \cup Names,
           NEW h, p \notin Under[x]
    PROVE  Build([t EXCEPT ![p] = h], x) = Build(t, x)
  <1>1. t \in [Paths \cup Names -> Hashes \cup Configs \cup {Bad, None}]
    BY ContentsType
  <1>2. \A q \in Under[x] : q # p /\ [t EXCEPT ![p] = h][q] = t[q]
    BY <1>1, RootAssumption
  <1> QED BY <1>2 DEF Build

(* trie_put() on a built trie gives the build of the updated bindings. *)
LEMMA BuildPut ==
    ASSUME NEW t \in Contents, NEW x \in Prefixes, NEW p \in Under[x], NEW h, h # None
    PROVE  Build([t EXCEPT ![p] = h], x) = TriePut(Build(t, x), p, h)
  <1>1. t \in [Paths \cup Names -> Hashes \cup Configs \cup {Bad, None}]
    BY ContentsType
  <1>2. \A q \in Under[x] : [t EXCEPT ![p] = h][q] = IF q = p THEN h ELSE t[q]
    BY <1>1, RootAssumption
  <1>3. \A b : b \in Build(t, x) =>
                   b[1] \in Under[x] /\ t[b[1]] # None /\ b = <<b[1], t[b[1]]>>
    BY DEF Build
  <1> QED BY <1>2, <1>3 DEF Build, TriePut

(* trie_remove() on a built trie gives the build of the updated bindings. *)
LEMMA BuildRemove ==
    ASSUME NEW t \in Contents, NEW x \in Prefixes, NEW p \in Under[x]
    PROVE  Build([t EXCEPT ![p] = None], x) = TrieRemove(Build(t, x), p)
  <1>1. t \in [Paths \cup Names -> Hashes \cup Configs \cup {Bad, None}]
    BY ContentsType
  <1>2. \A q \in Under[x] : [t EXCEPT ![p] = None][q] = IF q = p THEN None ELSE t[q]
    BY <1>1, RootAssumption
  <1>3. \A b : b \in Build(t, x) =>
                   b[1] \in Under[x] /\ t[b[1]] # None /\ b = <<b[1], t[b[1]]>>
    BY DEF Build
  <1> QED BY <1>2, <1>3 DEF Build, TrieRemove

-----------------------------------------------------------------------------
LEMMA InitInv == Init => RootInv
  <1> SUFFICES ASSUME Init PROVE RootInv
    OBVIOUS
  <1>1. configs \in [Names -> Configs \cup {None}]
    BY DEF Init
  <1>2. root \in [Prefixes -> [bound : BOOLEAN, trie : Tries]]
    BY RootType DEF Init
  <1>3. ConfigsAllowed
    BY RootAssumption DEF Init, ConfigsAllowed, Contents
  <1>4. TrackedIsBuild /\ UntrackedHasNoRoot
    BY DEF Init, TrackedIsBuild, UntrackedHasNoRoot
  <1> QED BY <1>1, <1>2, <1>3, <1>4 DEF RootInv, TypeOK, Init

(* A write of data: the updater keeps every tracked root in step. *)
LEMMA WriteInv ==
    ASSUME RootInv, NEW p \in Paths, NEW h \in Hashes \cup {None}, Write(p, h)
    PROVE  RootInv'
  <1>1. tree' \in Contents
    BY RootAssumption DEF RootInv, TypeOK, Write, Contents, Allowed
  <1>2. \A n \in Names, x \in Prefixes : Tracks(n, x)' <=> Tracks(n, x)
    BY DEF Write, Tracks
  <1>3. ASSUME NEW x \in Prefixes, \E n \in Names : Tracks(n, x)
        PROVE  root'[x] = RootOf(Build(tree', x))
    <2>1. tree \in Contents /\ root[x] = RootOf(Build(tree, x))
      BY <1>3 DEF RootInv, TrackedIsBuild, TypeOK
    <2>2. root[x].trie = Build(tree, x)
      BY <2>1, RootType
    <2>3. CASE p \notin Under[x]
      BY <2>1, <2>3, BuildElsewhere DEF Write, RootUpdater
    <2>4. CASE p \in Under[x]
      <3>1. root'[x] = Applied(x, p, h)
        BY <1>3, <2>4 DEF Write, RootUpdater
      <3>2. Applied(x, p, h) = RootOf(IF h = None THEN TrieRemove(Build(tree, x), p)
                                      ELSE TriePut(Build(tree, x), p, h))
        BY <2>1, <2>2 DEF Applied
      <3> QED BY <2>1, <2>4, <3>1, <3>2, BuildPut, BuildRemove DEF Write
    <2> QED BY <2>3, <2>4
  <1>4. ASSUME NEW x \in Prefixes, \A n \in Names : ~Tracks(n, x)
        PROVE  root'[x] = NoRoot
    BY <1>4 DEF RootInv, UntrackedHasNoRoot, Write, RootUpdater
  <1>5. root' \in [Prefixes -> [bound : BOOLEAN, trie : Tries]]
    <2>1. \A x \in Prefixes : root'[x] \in [bound : BOOLEAN, trie : Tries]
      BY <1>1, <1>3, <1>4, RootType
    <2> QED BY <2>1 DEF Write, RootUpdater
  <1>6. configs' \in [Names -> Configs \cup {None}] /\ ConfigsAllowed'
    BY DEF RootInv, TypeOK, Write, ConfigsAllowed, Allowed
  <1> QED BY <1>1, <1>2, <1>3, <1>4, <1>5, <1>6
          DEF RootInv, TypeOK, TrackedIsBuild, UntrackedHasNoRoot

(* A change at the path of a config leaves every trie as it is. *)
LEMMA ConfigElsewhere ==
    ASSUME OneConfigPerPrefix, NEW t \in Contents, NEW n \in Names, NEW c,
           NEW x \in Prefixes
    PROVE  Build([t EXCEPT ![n] = c], x) = Build(t, x)
  BY BuildElsewhere DEF OneConfigPerPrefix

LEMMA ConfigKeepsTries ==
    ASSUME OneConfigPerPrefix, tree \in Contents, NEW n \in Names, NEW v, tree' = [tree EXCEPT ![n] = v]
    PROVE  \A x \in Prefixes : Build(tree', x) = Build(tree, x)
  <1>1. ASSUME NEW x \in Prefixes PROVE Build([tree EXCEPT ![n] = v], x) = Build(tree, x)
    BY ConfigElsewhere
  <1> QED BY <1>1

(* Only the config that changes can start or stop tracking its prefix. *)
LEMMA OtherPrefix ==
    ASSUME OneConfigPerPrefix, RootInv, NEW n \in Names, NEW y \in Prefixes,
           <<n, y>> \in MayTrack, NEW x \in Prefixes, x # y
    PROVE  ~Tracks(n, x)
  BY DEF OneConfigPerPrefix, RootInv, ConfigsAllowed, Tracks, Allowed, TypeOK

LEMMA OtherName ==
    ASSUME OneConfigPerPrefix, RootInv, NEW n \in Names, NEW y \in Prefixes,
           <<n, y>> \in MayTrack, NEW m \in Names, m # n
    PROVE  ~Tracks(m, y)
  <1> SUFFICES ASSUME Tracks(m, y) PROVE FALSE
    OBVIOUS
  <1>1. configs[m] \in Configs /\ configs[m].prefix = y
    BY DEF Tracks, RootInv, TypeOK
  <1>2. <<m, y>> \in MayTrack
    BY <1>1 DEF Tracks, RootInv, ConfigsAllowed, Allowed
  <1>3. <<m, y>>[2] = <<n, y>>[2] => <<m, y>>[1] = <<n, y>>[1]
    BY <1>2 DEF OneConfigPerPrefix
  <1> QED BY <1>3

(* The index entry of n becomes c, and the root of its prefix y follows:   *)
(* what a put and a delete of a config have in common.                     *)
LEMMA ConfigStep ==
    ASSUME OneConfigPerPrefix, RootInv, NEW n \in Names, NEW y \in Prefixes,
           <<n, y>> \in MayTrack, NEW c \in Configs \cup {None},
           c # None => c.prefix = y,
           NEW v, tree' = [tree EXCEPT ![n] = v], tree' \in Contents,
           configs' = [configs EXCEPT ![n] = c],
           root' = [root EXCEPT ![y] =
                        IF c # None /\ c.enabled THEN RootOf(Build(tree', y)) ELSE NoRoot]
    PROVE  RootInv'
  <1>1. tree \in Contents /\ configs \in [Names -> Configs \cup {None}]
        /\ root \in [Prefixes -> [bound : BOOLEAN, trie : Tries]]
    BY DEF RootInv, TypeOK
  <1>2. \A x \in Prefixes : Build(tree', x) = Build(tree, x)
    BY <1>1, ConfigKeepsTries
  <1>3. configs' \in [Names -> Configs \cup {None}]
        /\ root' \in [Prefixes -> [bound : BOOLEAN, trie : Tries]]
    BY <1>1, RootType
  <1>4. ConfigsAllowed'
    BY <1>1 DEF RootInv, ConfigsAllowed, Allowed
  <1>5. ASSUME NEW x \in Prefixes, x # y
        PROVE  /\ root'[x] = root[x]
               /\ \A m \in Names : Tracks(m, x)' <=> Tracks(m, x)
    <2>1. root'[x] = root[x]
      BY <1>1, <1>5
    <2>2. ~Tracks(n, x) /\ ~Tracks(n, x)'
      BY <1>1, <1>5, OtherPrefix DEF Tracks
    <2>3. \A m \in Names : m # n => (Tracks(m, x)' <=> Tracks(m, x))
      BY <1>1 DEF Tracks
    <2> QED BY <2>1, <2>2, <2>3
  <1>6. (\E m \in Names : Tracks(m, y)') <=> (c # None /\ c.enabled)
    <2>1. \A m \in Names : m # n => ~Tracks(m, y)'
      BY <1>1, OtherName DEF Tracks
    <2>2. Tracks(n, y)' <=> (c # None /\ c.enabled)
      BY <1>1 DEF Tracks
    <2> QED BY <2>1, <2>2
  <1>7. root'[y] = IF c # None /\ c.enabled THEN RootOf(Build(tree', y)) ELSE NoRoot
    BY <1>1
  <1>8. TrackedIsBuild'
    <2> SUFFICES ASSUME NEW x \in Prefixes, \E m \in Names : Tracks(m, x)'
                 PROVE  root'[x] = RootOf(Build(tree', x))
      BY DEF TrackedIsBuild
    <2>1. CASE x = y
      BY <2>1, <1>6, <1>7
    <2>2. CASE x # y
      BY <2>2, <1>2, <1>5 DEF RootInv, TrackedIsBuild
    <2> QED BY <2>1, <2>2
  <1>9. UntrackedHasNoRoot'
    <2> SUFFICES ASSUME NEW x \in Prefixes, \A m \in Names : ~Tracks(m, x)'
                 PROVE  root'[x] = NoRoot
      BY DEF UntrackedHasNoRoot
    <2>1. CASE x = y
      BY <2>1, <1>6, <1>7
    <2>2. CASE x # y
      BY <2>2, <1>5 DEF RootInv, UntrackedHasNoRoot
    <2> QED BY <2>1, <2>2
  <1> QED BY <1>3, <1>4, <1>8, <1>9 DEF RootInv, TypeOK

LEMMA PutConfigInv ==
    ASSUME OneConfigPerPrefix, RootInv, NEW n \in Names, NEW c \in Configs \cup {Bad},
           Allowed(n, c), PutConfig(n, c)
    PROVE  RootInv'
  <1>1. tree' = [tree EXCEPT ![n] = c] /\ tree' \in Contents
    BY RootAssumption DEF RootInv, TypeOK, PutConfig, Contents, Allowed
  <1>2. tree \in Contents /\ configs \in [Names -> Configs \cup {None}]
    BY DEF RootInv, TypeOK
  <1>3. CASE c = Bad
    <2>1. configs' = configs /\ root' = root
      BY <1>3 DEF PutConfig
    <2>2. \A x \in Prefixes : Build(tree', x) = Build(tree, x)
      BY <1>1, <1>2, ConfigElsewhere
    <2>3. \A m \in Names, x \in Prefixes : Tracks(m, x)' <=> Tracks(m, x)
      BY <2>1 DEF Tracks
    <2>4. ConfigsAllowed'
      BY <2>1 DEF RootInv, ConfigsAllowed
    <2>5. TypeOK'
      BY <1>1, <2>1 DEF RootInv, TypeOK
    <2>6. TrackedIsBuild' /\ UntrackedHasNoRoot'
      BY <2>1, <2>2, <2>3 DEF RootInv, TrackedIsBuild, UntrackedHasNoRoot
    <2> QED BY <2>4, <2>5, <2>6 DEF RootInv
  <1>4. CASE c # Bad
    <2>1. c \in Configs /\ c # None /\ c.prefix \in Prefixes /\ <<n, c.prefix>> \in MayTrack
      BY <1>4, RootAssumption DEF Allowed, Configs
    <2>2. configs[n] # None => configs[n].prefix = c.prefix
      <3> SUFFICES ASSUME configs[n] # None PROVE configs[n].prefix = c.prefix
        OBVIOUS
      <3>1. <<n, configs[n].prefix>> \in MayTrack
        BY <1>2 DEF RootInv, ConfigsAllowed, Allowed
      <3>2. <<n, configs[n].prefix>>[1] = <<n, c.prefix>>[1] =>
                <<n, configs[n].prefix>>[2] = <<n, c.prefix>>[2]
        BY <2>1, <3>1 DEF OneConfigPerPrefix
      <3> QED BY <3>2
    <2>3. configs' = [configs EXCEPT ![n] = c]
      BY <1>4 DEF PutConfig
    <2>4. root' = [root EXCEPT ![c.prefix] =
                       IF c # None /\ c.enabled THEN RootOf(Build(tree', c.prefix)) ELSE NoRoot]
      BY <1>4, <2>1, <2>2 DEF PutConfig, RemoveRoot
    <2> QED BY <1>1, <2>1, <2>3, <2>4, ConfigStep
  <1> QED BY <1>3, <1>4

LEMMA DeleteConfigInv ==
    ASSUME OneConfigPerPrefix, RootInv, NEW n \in Names, DeleteConfig(n)
    PROVE  RootInv'
  <1>1. tree' = [tree EXCEPT ![n] = None] /\ tree' \in Contents
    BY RootAssumption DEF RootInv, TypeOK, DeleteConfig, Contents, Allowed
  <1>2. tree \in Contents /\ configs \in [Names -> Configs \cup {None}]
    BY DEF RootInv, TypeOK
  <1>3. configs' = [configs EXCEPT ![n] = None]
    BY DEF DeleteConfig
  <1>4. CASE configs[n] = None
    <2>1. configs' = configs /\ root' = root
      BY <1>2, <1>3, <1>4 DEF DeleteConfig
    <2>2. \A x \in Prefixes : Build(tree', x) = Build(tree, x)
      BY <1>1, <1>2, ConfigElsewhere
    <2>3. \A m \in Names, x \in Prefixes : Tracks(m, x)' <=> Tracks(m, x)
      BY <2>1 DEF Tracks
    <2>4. ConfigsAllowed'
      BY <2>1 DEF RootInv, ConfigsAllowed
    <2>5. TypeOK'
      BY <1>1, <2>1 DEF RootInv, TypeOK
    <2>6. TrackedIsBuild' /\ UntrackedHasNoRoot'
      BY <2>1, <2>2, <2>3 DEF RootInv, TrackedIsBuild, UntrackedHasNoRoot
    <2> QED BY <2>4, <2>5, <2>6 DEF RootInv
  <1>5. CASE configs[n] # None
    <2>1. configs[n] \in Configs /\ configs[n].prefix \in Prefixes
      BY <1>2, <1>5 DEF Configs
    <2>2. <<n, configs[n].prefix>> \in MayTrack
      BY <1>5, <2>1 DEF RootInv, ConfigsAllowed, Allowed
    <2>3. root' = [root EXCEPT ![configs[n].prefix] =
                       IF None # None /\ None.enabled
                       THEN RootOf(Build(tree', configs[n].prefix)) ELSE NoRoot]
      BY <1>5 DEF DeleteConfig, RemoveRoot
    <2> QED BY <1>1, <1>3, <2>1, <2>2, <2>3, ConfigStep
  <1> QED BY <1>4, <1>5

-----------------------------------------------------------------------------
LEMMA RootStep ==
    ASSUME OneConfigPerPrefix, RootInv, [Next]_tvars PROVE RootInv'
  <1>1. CASE UNCHANGED tvars
    BY <1>1 DEF tvars, RootInv, TypeOK, ConfigsAllowed, TrackedIsBuild,
                UntrackedHasNoRoot, Tracks, Allowed
  <1>2. ASSUME NEW p \in Paths, NEW h \in Hashes \cup {None}, Write(p, h)
        PROVE  RootInv'
    BY <1>2, WriteInv
  <1>3. ASSUME NEW n \in Names, NEW c \in Configs \cup {Bad}, Allowed(n, c), PutConfig(n, c)
        PROVE  RootInv'
    BY <1>3, PutConfigInv
  <1>4. ASSUME NEW n \in Names, DeleteConfig(n)
        PROVE  RootInv'
    BY <1>4, DeleteConfigInv
  <1> QED BY <1>1, <1>2, <1>3, <1>4 DEF Next

(* root_tracker.py: where every prefix has one config of its own, the      *)
(* roots are always in step with the tree: RootInv is inductive.           *)
THEOREM RootInvariant ==
    ASSUME OneConfigPerPrefix PROVE Spec => []RootInv
  <1>1. RootInv /\ [Next]_tvars => RootInv'
    BY RootStep
  <1> QED BY <1>1, InitInv, PTL DEF Spec

(* "hash-equivalent to build_trie over the updated binding set": for any   *)
(* number of prefixes, however they nest, and any history of writes and    *)
(* config changes.                                                         *)
THEOREM TrackedCorrect ==
    ASSUME OneConfigPerPrefix PROVE Spec => []TrackedIsBuild
  <1>1. RootInv => TrackedIsBuild
    BY DEF RootInv
  <1> QED BY <1>1, RootInvariant, PTL

(* No root is left behind for a prefix that is not tracked. *)
THEOREM UntrackedCorrect ==
    ASSUME OneConfigPerPrefix PROVE Spec => []UntrackedHasNoRoot
  <1>1. RootInv => UntrackedHasNoRoot
    BY DEF RootInv
  <1> QED BY <1>1, RootInvariant, PTL

-----------------------------------------------------------------------------
(***************************************************************************)
(* Automatic versions on top of the tracker.  The extension only reads     *)
(* what the tracker writes, so AVSpec implements the tracker's             *)
(* specification, and every theorem about that one carries over.           *)
(***************************************************************************)

(* Every write of the extension is one of the tracker's, or leaves it. *)
LEMMA TrackerInit == AVInit => Init
  BY DEF AVInit

LEMMA OnIsAllowed ==
    ASSUME NEW x \in Prefixes
    PROVE  /\ [prefix |-> x, enabled |-> TRUE] \in Configs
           /\ TrackingName[x] \in Names
           /\ Allowed(TrackingName[x], [prefix |-> x, enabled |-> TRUE])
  BY AutoVersionAssumption DEF Configs, Allowed

LEMMA TrackerStep == [AVNext]_vars => [Next]_tvars
  <1> SUFFICES ASSUME [AVNext]_vars PROVE [Next]_tvars
    OBVIOUS
  <1>1. ASSUME NEW p \in Paths, NEW h \in Hashes \cup {None}, AVWrite(p, h) PROVE Next
    BY <1>1 DEF AVWrite, Next
  <1>2. ASSUME NEW x \in Prefixes, NEW rc \in RevConfigs, ConfigSet(x, rc) PROVE [Next]_tvars
    BY <1>2, OnIsAllowed DEF ConfigSet, Next
  <1>3. ASSUME NEW x \in Prefixes, ConfigDelete(x) PROVE [Next]_tvars
    BY <1>3, OnIsAllowed DEF ConfigDelete, Next
  <1>4. ASSUME NEW x \in Prefixes, NEW rc \in RevConfigs, RevisionPut(x, rc) PROVE UNCHANGED tvars
    BY <1>4 DEF RevisionPut
  <1>5. ASSUME NEW n \in Names, NEW c \in Configs \cup {Bad}, Allowed(n, c), TrackingPut(n, c)
        PROVE Next
    BY <1>5 DEF TrackingPut, Next
  <1>6. ASSUME NEW n \in Names, TrackingDelete(n) PROVE Next
    BY <1>6 DEF TrackingDelete, Next
  <1>7. CASE UNCHANGED vars
    BY <1>7 DEF vars
  <1> QED BY <1>1, <1>2, <1>3, <1>4, <1>5, <1>6, <1>7 DEF AVNext

(* auto_version.py adds hooks to the tracker's cascade and leaves its      *)
(* state alone: it implements the tracker.                                 *)
THEOREM ImplementsTracker == AVSpec => Spec
  <1> QED BY TrackerInit, TrackerStep, PTL DEF AVSpec, Spec

(* So every tracked root is the trie of the bindings below its prefix,     *)
(* also while configs come and go through the revision handler.            *)
THEOREM TrackedStaysBuild ==
    ASSUME OneConfigPerPrefix PROVE AVSpec => []TrackedIsBuild
  <1> QED BY ImplementsTracker, TrackedCorrect, PTL

-----------------------------------------------------------------------------
LEMMA LoadedTyped ==
    ASSUME rev \in [Prefixes -> RevConfigs \cup {None}], NEW x \in Prefixes
    PROVE  Loaded(x) \in LoadedConfigs
  <1>1. CASE rev[x] = None
    BY <1>1 DEF Loaded, LoadedConfigs
  <1>2. CASE rev[x] # None
    <2>1. rev[x] \in RevConfigs BY <1>2
    <2>2. /\ rev[x].auto \in BOOLEAN
          /\ rev[x].exclude \subseteq Paths /\ rev[x].types \subseteq Hashes
      BY <2>1, AutoVersionAssumption DEF RevConfigs
    <2> QED BY <1>2, <2>2 DEF Loaded, LoadedConfigs
  <1> QED BY <1>1, <1>2

LEMMA WatchedTyped ==
    ASSUME AVTypeOK, NEW n \in Names, NEW c \in Configs \cup {Bad, None}
    PROVE  Watched(n, c) \in [Names -> LoadedConfigs \cup {None}]
  <1>1. CASE c \in Configs
    BY <1>1, LoadedTyped, RootAssumption DEF AVTypeOK, Watched, Configs
  <1>2. CASE c \notin Configs
    BY <1>2, RootAssumption DEF AVTypeOK, Watched
  <1> QED BY <1>1, <1>2

LEMMA VersionTyped ==
    ASSUME RootInv', NEW x \in Prefixes, NEW c \in LoadedConfigs
    PROVE  VersionRoot(x, c) \in Tries
  <1>1. root'[x].trie \in Tries
    BY DEF RootInv, TypeOK
  <1>2. \A q \in Under[x] : tree'[q] # None => <<q, tree'[q]>> \in (Paths \cup Names) \X (Hashes \cup Configs \cup {Bad})
    BY RootAssumption DEF RootInv, TypeOK, Contents
  <1>3. VersionedBindings(tree', x, c) \in Tries
    BY <1>2 DEF VersionedBindings, Tries
  <1> QED BY <1>1, <1>3 DEF VersionRoot

(* What a write does to the versions of a prefix: nothing, or one more at  *)
(* the end of the chain.                                                   *)
LEMMA FireSteps ==
    ASSUME AVTypeOK, RootInv', NEW p, Fire(p), NEW x \in Prefixes
    PROVE  \/ News(x, p) = {} /\ versions'[x] = versions[x] /\ head'[x] = head[x]
           \/ \E r \in News(x, p) :
                 /\ r \in Tries
                 /\ versions'[x] = Append(versions[x], [root |-> r, parent |-> head[x]])
                 /\ head'[x] = Len(versions[x]) + 1
  <1>1. CASE News(x, p) = {}
    BY <1>1 DEF Fire
  <1>2. CASE News(x, p) # {}
    <2> DEFINE r == CHOOSE r \in News(x, p) : TRUE
    <2>1. r \in News(x, p) BY <1>2
    <2>2. \A n \in Firing(x, p) : av[n] \in LoadedConfigs
      BY DEF Firing, AVTypeOK
    <2>3. r \in Tries
      BY <2>1, <2>2, VersionTyped DEF News
    <2>4. /\ versions'[x] = Append(versions[x], [root |-> r, parent |-> head[x]])
          /\ head'[x] = Len(versions[x]) + 1
      BY <1>2 DEF Fire, ParentOf
    <2> HIDE DEF r
    <2> QED BY <2>1, <2>3, <2>4
  <1> QED BY <1>1, <1>2

-----------------------------------------------------------------------------
VersionInv == RootInv /\ AVTypeOK /\ OneChain

LEMMA VersionInit == AVInit => VersionInv
  <1> SUFFICES ASSUME AVInit PROVE VersionInv
    OBVIOUS
  <1>1. RootInv BY TrackerInit, InitInv
  <1>2. \A x \in Prefixes : versions[x] = <<>> /\ Len(versions[x]) = 0
    BY DEF AVInit
  <1>3. OneChain
    BY <1>2 DEF AVInit, OneChain
  <1>4. AVTypeOK
    BY <1>1 DEF AVInit, AVTypeOK, RootInv
  <1> QED BY <1>1, <1>3, <1>4 DEF VersionInv

LEMMA WriteVersions ==
    ASSUME VersionInv, RootInv', NEW p \in Paths, NEW h \in Hashes \cup {None}, AVWrite(p, h),
           UNCHANGED operator
    PROVE  VersionInv'
  <1>1. AVTypeOK BY DEF VersionInv
  <1>2. Fire(p) /\ UNCHANGED <<rev, av, operator>>
    BY DEF AVWrite
  <1>3. ASSUME NEW x \in Prefixes
        PROVE  /\ versions'[x] \in Seq([root : Tries, parent : Nat])
               /\ head'[x] \in Nat
               /\ head'[x] = Len(versions'[x])
               /\ \A v \in 1..Len(versions'[x]) : versions'[x][v].parent = v - 1
    <2> DEFINE T == [root : Tries, parent : Nat]
    <2>1. /\ versions[x] \in Seq(T) /\ head[x] \in Nat
          /\ head[x] = Len(versions[x])
          /\ \A v \in 1..Len(versions[x]) : versions[x][v].parent = v - 1
      BY DEF VersionInv, AVTypeOK, OneChain
    <2>2. CASE versions'[x] = versions[x] /\ head'[x] = head[x]
      BY <2>1, <2>2
    <2>3. ASSUME NEW r \in Tries,
                 versions'[x] = Append(versions[x], [root |-> r, parent |-> head[x]]),
                 head'[x] = Len(versions[x]) + 1
          PROVE  /\ versions'[x] \in Seq(T)
                 /\ head'[x] \in Nat
                 /\ head'[x] = Len(versions'[x])
                 /\ \A v \in 1..Len(versions'[x]) : versions'[x][v].parent = v - 1
      <3> DEFINE e == [root |-> r, parent |-> head[x]]
      <3>1. e \in T /\ e.parent = head[x] BY <2>1
      <3> HIDE DEF T, e
      <3>2. /\ versions'[x] \in Seq(T)
            /\ Len(versions'[x]) = Len(versions[x]) + 1
            /\ \A v \in 1..Len(versions[x]) : versions'[x][v] = versions[x][v]
            /\ versions'[x][Len(versions[x]) + 1] = e
        BY <2>1, <2>3, <3>1, AppendProperties DEF e
      <3>3. Len(versions[x]) \in Nat BY <2>1, LenProperties
      <3>4. ASSUME NEW v \in 1..Len(versions'[x]) PROVE versions'[x][v].parent = v - 1
        <4>1. v \in 1..Len(versions[x]) \/ v = Len(versions[x]) + 1
          BY <3>2, <3>3
        <4> QED BY <4>1, <2>1, <3>1, <3>2, <3>3
      <3> QED BY <2>3, <3>2, <3>3, <3>4
    <2> HIDE DEF T
    <2>4. (versions'[x] = versions[x] /\ head'[x] = head[x])
          \/ \E r \in Tries : /\ versions'[x] = Append(versions[x], [root |-> r, parent |-> head[x]])
                              /\ head'[x] = Len(versions[x]) + 1
      BY <1>1, <1>2, FireSteps
    <2> QED BY <2>2, <2>3, <2>4 DEF T
  <1>4. DOMAIN versions' = Prefixes /\ DOMAIN head' = Prefixes /\ head' = [x \in Prefixes |-> head'[x]]
    BY <1>2 DEF Fire
  <1>5. AVTypeOK'
    BY <1>1, <1>2, <1>3, <1>4 DEF AVTypeOK, RootInv
  <1>6. OneChain'
    BY <1>3 DEF OneChain
  <1> QED BY <1>5, <1>6 DEF VersionInv

LEMMA ConfigVersions ==
    ASSUME VersionInv, RootInv', UNCHANGED <<versions, head, operator>>,
           rev' \in [Prefixes -> RevConfigs \cup {None}],
           av' \in [Names -> LoadedConfigs \cup {None}]
    PROVE  VersionInv'
  BY DEF VersionInv, AVTypeOK, OneChain, RootInv

LEMMA VersionStep ==
    ASSUME OneConfigPerPrefix
    PROVE  VersionInv /\ [AVNext]_vars => VersionInv'
  <1> SUFFICES ASSUME VersionInv, [AVNext]_vars PROVE VersionInv'
    OBVIOUS
  <1>0. RootInv' BY TrackerStep, RootStep DEF VersionInv
  <1>1. AVTypeOK BY DEF VersionInv
  <1>2. rev \in [Prefixes -> RevConfigs \cup {None}] /\ av \in [Names -> LoadedConfigs \cup {None}]
    BY <1>1 DEF AVTypeOK
  <1>3. CASE UNCHANGED vars
    BY <1>0, <1>2, <1>3, ConfigVersions DEF vars
  <1>4. ASSUME NEW p \in Paths, NEW h \in Hashes \cup {None}, AVWrite(p, h), UNCHANGED operator
        PROVE VersionInv'
    BY <1>0, <1>4, WriteVersions
  <1>5. ASSUME NEW x \in Prefixes, NEW rc \in RevConfigs, ConfigSet(x, rc), UNCHANGED operator
        PROVE VersionInv'
    <2>1. av' \in [Names -> LoadedConfigs \cup {None}]
      BY <1>1, <1>2, <1>5, OnIsAllowed, WatchedTyped DEF ConfigSet
    <2> QED BY <1>0, <1>2, <1>5, <2>1, ConfigVersions DEF ConfigSet
  <1>6. ASSUME NEW x \in Prefixes, ConfigDelete(x), UNCHANGED operator PROVE VersionInv'
    <2>1. av' \in [Names -> LoadedConfigs \cup {None}]
      <3>1. Watched(TrackingName[x], None) \in [Names -> LoadedConfigs \cup {None}]
        BY <1>1, OnIsAllowed, WatchedTyped
      <3> QED BY <1>2, <1>6, <3>1 DEF ConfigDelete
    <2> QED BY <1>0, <1>2, <1>6, <2>1, ConfigVersions DEF ConfigDelete
  <1>7. ASSUME NEW x \in Prefixes, NEW rc \in RevConfigs, RevisionPut(x, rc), UNCHANGED operator
        PROVE VersionInv'
    BY <1>0, <1>2, <1>7, ConfigVersions DEF RevisionPut
  <1>8. ASSUME NEW n \in Names, NEW c \in Configs \cup {Bad}, TrackingPut(n, c), UNCHANGED operator
        PROVE VersionInv'
    BY <1>0, <1>1, <1>2, <1>8, WatchedTyped, ConfigVersions DEF TrackingPut
  <1>9. ASSUME NEW n \in Names, TrackingDelete(n), UNCHANGED operator PROVE VersionInv'
    BY <1>0, <1>1, <1>2, <1>9, WatchedTyped, ConfigVersions DEF TrackingDelete
  <1> QED BY <1>3, <1>4, <1>5, <1>6, <1>7, <1>8, <1>9 DEF AVNext

(* The versions of a prefix form one chain, in step with its head, and     *)
(* every state is well typed (auto_version.py _fire_for_config()).         *)
THEOREM VersionCorrect ==
    ASSUME OneConfigPerPrefix PROVE AVSpec => []VersionInv
  <1> QED BY VersionInit, VersionStep, PTL DEF AVSpec

(* "No orphans: every version entry is reachable from some head".          *)
THEOREM OrphansCorrect ==
    ASSUME OneConfigPerPrefix PROVE AVSpec => []NoOrphans
  <1>1. ASSUME VersionInv PROVE NoOrphans
    <2> SUFFICES ASSUME NEW x \in Prefixes, NEW v \in DOMAIN versions[x]
                 PROVE  /\ v = head[x] \/ \E w \in DOMAIN versions[x] : versions[x][w].parent = v
                        /\ versions[x][v].parent = 0 => v = 1
      BY DEF NoOrphans
    <2>1. DOMAIN versions[x] = 1..Len(versions[x]) /\ Len(versions[x]) \in Nat
      BY <1>1, LenProperties DEF VersionInv, AVTypeOK
    <2>2. v = Len(versions[x]) \/ v + 1 \in 1..Len(versions[x])
      BY <2>1
    <2> QED BY <1>1, <2>1, <2>2 DEF VersionInv, OneChain
  <1> QED BY <1>1, VersionCorrect, PTL

-----------------------------------------------------------------------------
(* What puts and deletes of configs do to the tree and to the index of the *)
(* tracker.                                                                *)
LEMMA ConfigBinding ==
    ASSUME RootInv, \A n \in Names : tree[n] = None => configs[n] = None,
           NEW m \in Names,
           \/ DeleteConfig(m)
           \/ \E c \in Configs \cup {Bad} : PutConfig(m, c)
    PROVE  \A n \in Names : tree'[n] = None => configs'[n] = None
  <1>1. CASE DeleteConfig(m)
    BY <1>1 DEF DeleteConfig, RootInv, TypeOK, Contents
  <1>2. ASSUME NEW c \in Configs \cup {Bad}, PutConfig(m, c)
        PROVE  \A n \in Names : tree'[n] = None => configs'[n] = None
    BY <1>2, RootAssumption DEF PutConfig, RootInv, TypeOK, Contents
  <1> QED BY <1>1, <1>2

(* A config in force is that of the prefix it is named after. *)
LEMMA NamedAfter ==
    ASSUME RootInv, NEW n \in Names, configs[n] # None
    PROVE  /\ configs[n] \in Configs /\ configs[n].prefix \in Prefixes
           /\ n = TrackingName[configs[n].prefix]
  <1>1. configs[n] \in Configs /\ Allowed(n, configs[n])
    BY DEF RootInv, TypeOK, ConfigsAllowed
  <1>2. configs[n].prefix \in Prefixes /\ <<n, configs[n].prefix>> \in MayTrack
    BY <1>1 DEF Allowed, Configs
  <1>3. PICK x \in Prefixes : <<n, configs[n].prefix>> = <<TrackingName[x], x>>
    BY <1>2, AutoVersionAssumption
  <1> QED BY <1>1, <1>2, <1>3

LEMMA FollowStep ==
    ASSUME VersionInv, ConfigsFollow, [AVNext]_vars
    PROVE  ConfigsFollow'
  <1>0. RootInv /\ AVTypeOK /\ av \in [Names -> LoadedConfigs \cup {None}]
    BY DEF VersionInv, AVTypeOK
  <1>1. CASE UNCHANGED vars
    BY <1>1 DEF vars, tvars, ConfigsFollow, Loaded
  <1>2. ASSUME NEW p \in Paths, NEW h \in Hashes \cup {None}, AVWrite(p, h), UNCHANGED operator
        PROVE  ConfigsFollow'
    <2>1. \A n \in Names : tree'[n] = tree[n]
      BY <1>0, <1>2, RootAssumption DEF AVWrite, Write, RootInv, TypeOK, Contents
    <2>2. UNCHANGED <<configs, rev, av, operator>>
      BY <1>2 DEF AVWrite, Write
    <2> QED BY <2>1, <2>2 DEF ConfigsFollow, Loaded
  <1>3. ASSUME operator = "handler", UNCHANGED operator, NEW x \in Prefixes,
               ConfigDelete(x) \/ \E rc \in RevConfigs : ConfigSet(x, rc)
        PROVE  ConfigsFollow'
    <2> DEFINE n == TrackingName[x]
               on == [prefix |-> x, enabled |-> TRUE]
    <2>1. n \in Names /\ on \in Configs BY OnIsAllowed
    <2>2. PutConfig(n, on) \/ DeleteConfig(n) \/ UNCHANGED tvars
      BY <1>3 DEF ConfigDelete, ConfigSet
    <2> HIDE DEF n, on
    <2>3. \A m \in Names : tree[m] = None => configs[m] = None
      BY DEF ConfigsFollow
    <2>4. CASE UNCHANGED tvars
      BY <1>3, <2>3, <2>4 DEF ConfigsFollow, tvars
    <2>5. CASE ~UNCHANGED tvars
      <3>1. \A m \in Names : tree'[m] = None => configs'[m] = None
        BY <1>0, <2>1, <2>2, <2>3, <2>5, ConfigBinding
      <3> QED BY <1>3, <3>1 DEF ConfigsFollow
    <2> QED BY <2>4, <2>5
  <1>4. ASSUME NEW x \in Prefixes, NEW rc \in RevConfigs, RevisionPut(x, rc), UNCHANGED operator
        PROVE  ConfigsFollow'
    <2>1. UNCHANGED <<tree, configs, av, operator>> /\ configs[TrackingName[x]] = None
      BY <1>4, OnIsAllowed DEF RevisionPut, tvars, ConfigsFollow
    <2>2. ASSUME NEW n \in Names, configs[n] # None
          PROVE  Loaded(configs[n].prefix)' = Loaded(configs[n].prefix)
      <3>1. configs[n].prefix # x /\ configs[n].prefix \in Prefixes
        BY <1>0, <2>1, <2>2, NamedAfter
      <3>2. rev'[configs[n].prefix] = rev[configs[n].prefix]
        BY <1>0, <1>4, <3>1 DEF RevisionPut, AVTypeOK
      <3> QED BY <2>1, <3>2 DEF Loaded
    <2> QED BY <2>1, <2>2 DEF ConfigsFollow
  <1>5. ASSUME NEW m \in Names, NEW c \in Configs \cup {Bad}, TrackingPut(m, c), UNCHANGED operator
        PROVE  ConfigsFollow'
    <2>1. \A n \in Names : tree'[n] = None => configs'[n] = None
      BY <1>0, <1>5, ConfigBinding DEF TrackingPut, ConfigsFollow
    <2>2. UNCHANGED rev BY <1>5 DEF TrackingPut
    <2>3. CASE c = Bad
      <3>1. UNCHANGED configs /\ av' = av
        <4>1. av' = [av EXCEPT ![m] = av[m]]
          BY <1>5, <2>3, RootAssumption DEF TrackingPut, Watched
        <4> QED BY <1>0, <1>5, <2>3, <4>1 DEF TrackingPut, PutConfig
      <3> QED BY <1>5, <2>1, <2>2, <3>1 DEF ConfigsFollow, Loaded
    <2>4. CASE c # Bad
      <3>1. configs' = [configs EXCEPT ![m] = c] /\ c # None
        BY <1>5, <2>4, RootAssumption DEF TrackingPut, PutConfig
      <3>2. av' = [av EXCEPT ![m] = IF c.enabled THEN Loaded(c.prefix) ELSE None]
        BY <1>5, <2>4, <3>1 DEF TrackingPut, Watched
      <3>3. ASSUME NEW n \in Names
            PROVE  IF n = m THEN configs'[n] = c /\ av'[n] = IF c.enabled THEN Loaded(c.prefix) ELSE None
                            ELSE configs'[n] = configs[n] /\ av'[n] = av[n]
        BY <1>0, <3>1, <3>2 DEF RootInv, TypeOK
      <3>4. ASSUME NEW n \in Names, operator = "direct"
            PROVE  av'[n] = IF configs'[n] # None /\ configs'[n].enabled
                            THEN Loaded(configs'[n].prefix) ELSE None
        <4>1. CASE n = m BY <3>1, <3>3, <4>1
        <4>2. CASE n # m BY <3>3, <3>4, <4>2 DEF ConfigsFollow
        <4> QED BY <4>1, <4>2
      <3> QED BY <1>5, <2>1, <2>2, <3>4 DEF ConfigsFollow, Loaded
    <2> QED BY <2>3, <2>4
  <1>6. ASSUME NEW m \in Names, TrackingDelete(m), UNCHANGED operator
        PROVE  ConfigsFollow'
    <2>1. \A n \in Names : tree'[n] = None => configs'[n] = None
      BY <1>0, <1>6, ConfigBinding DEF TrackingDelete, ConfigsFollow
    <2>2. configs' = [configs EXCEPT ![m] = None] /\ UNCHANGED rev
      BY <1>6 DEF TrackingDelete, DeleteConfig
    <2>3. av' = [av EXCEPT ![m] = None]
      BY <1>6, RootAssumption DEF TrackingDelete, Watched
    <2>4. ASSUME NEW n \in Names
          PROVE  IF n = m THEN configs'[n] = None /\ av'[n] = None
                          ELSE configs'[n] = configs[n] /\ av'[n] = av[n]
      BY <1>0, <2>2, <2>3 DEF RootInv, TypeOK
    <2> QED BY <1>6, <2>1, <2>2, <2>4 DEF ConfigsFollow, Loaded
  <1> QED BY <1>1, <1>2, <1>3, <1>4, <1>5, <1>6 DEF AVNext

(* Nothing but a write at a path changes what is bound there. *)
LEMMA OnlyWritesBind ==
    ASSUME RootInv, [AVNext]_vars, NEW p \in Paths, tree'[p] # tree[p]
    PROVE  \E h \in Hashes \cup {None} : AVWrite(p, h)
  <1>1. [Next]_tvars /\ tree \in [Paths \cup Names -> Hashes \cup Configs \cup {Bad, None}]
    BY TrackerStep DEF RootInv, TypeOK, Contents
  <1>2. \A n \in Names : ~DeleteConfig(n) /\ \A c : ~PutConfig(n, c)
    BY <1>1, RootAssumption DEF PutConfig, DeleteConfig
  <1>3. ~UNCHANGED tvars BY DEF tvars
  <1>4. PICK q \in Paths, h \in Hashes \cup {None} : AVWrite(q, h)
    BY <1>2, <1>3, OnIsAllowed
    DEF AVNext, vars, ConfigDelete, ConfigSet, RevisionPut, TrackingPut, TrackingDelete
  <1>5. q = p BY <1>1, <1>4 DEF AVWrite, Write
  <1> QED BY <1>4, <1>5

(* Without excludes the version root is the whole trie. *)
LEMMA NoFilter ==
    ASSUME NEW t, NEW x, NEW c, c.exclude = {}, c.types = {}
    PROVE  VersionedBindings(t, x, c) = Build(t, x)
  BY DEF VersionedBindings, Build

LEMMA CapturedStep ==
    ASSUME OneConfigPerPrefix, VersionInv, ConfigsFollow, [AVNext]_vars, operator = "direct",
           NEW x \in Prefixes, NEW p \in Paths
    PROVE  HeadCaptures(x, p)
  <1> SUFFICES ASSUME tree'[p] # tree[p], Wanted(x, p)
               PROVE  /\ head'[x] # 0
                      /\ versions'[x][head'[x]].root = VersionedBindings(tree', x, rev[x])
    BY DEF HeadCaptures
  <1>0. RootInv /\ RootInv' /\ AVTypeOK
    BY TrackerStep, RootStep DEF VersionInv
  <1>1. PICK h \in Hashes \cup {None} : AVWrite(p, h)
    BY <1>0, OnlyWritesBind
  <1>2. PICK n \in Names : Tracks(n, x)
    BY DEF Wanted
  <1> DEFINE c == Loaded(x)
  <1>3. rev[x] # None /\ rev[x].auto /\ p \in Under[x] \ rev[x].exclude
    BY DEF Wanted
  <1>4. /\ c.prefix = x /\ c.auto = rev[x].auto
        /\ c.exclude = rev[x].exclude /\ c.types = rev[x].types
    BY <1>3 DEF Loaded
  <1> HIDE DEF c
  <1>5. av[n] = c /\ c \in LoadedConfigs /\ c # None
    <2>1. av[n] = c BY <1>2 DEF ConfigsFollow, Tracks, c
    <2>2. c \in LoadedConfigs BY <1>0, LoadedTyped DEF AVTypeOK, c
    <2> QED BY <2>1, <2>2, AutoVersionAssumption
  <1>6. root'[x] = RootOf(Build(tree', x))
    <2>1. Tracks(n, x)' BY <1>1, <1>2 DEF AVWrite, Write, Tracks
    <2> QED BY <1>0, <2>1 DEF RootInv, TrackedIsBuild
  <1>7. n \in Firing(x, p)
    <2>1. root'[x].bound BY <1>6 DEF RootOf
    <2> QED BY <1>3, <1>4, <1>5, <2>1 DEF Firing
  <1>8. ASSUME NEW m \in Firing(x, p) PROVE av[m] = c
    <2>1. configs[m] # None /\ configs[m].enabled /\ av[m] = Loaded(configs[m].prefix)
      BY <1>8 DEF Firing, ConfigsFollow
    <2>2. configs[m].prefix = x
      BY <2>1, <1>8 DEF Firing, Loaded
    <2> QED BY <2>1, <2>2 DEF c
  <1> DEFINE r == VersionRoot(x, c)
  <1>9. r = VersionedBindings(tree', x, rev[x])
    <2>1. VersionedBindings(tree', x, c) = VersionedBindings(tree', x, rev[x])
      BY <1>4 DEF VersionedBindings
    <2>2. CASE c.exclude = {} /\ c.types = {}
      <3>1. r = Build(tree', x)
        BY <1>6, <2>2 DEF VersionRoot, RootOf
      <3> QED BY <2>1, <2>2, <3>1, NoFilter
    <2>3. CASE ~(c.exclude = {} /\ c.types = {})
      BY <2>1, <2>3 DEF VersionRoot
    <2> QED BY <2>2, <2>3
  <1>10. \A s : ~Describes(x, s)
    BY DEF Describes, HeadType
  <1> HIDE DEF r
  <1>11. News(x, p) = {r}
    <2>1. \A m \in Firing(x, p) : VersionRoot(x, av[m]) = r
      BY <1>8 DEF r
    <2> QED BY <1>7, <1>10, <2>1 DEF News
  <1>12. /\ versions'[x] = Append(versions[x], [root |-> r, parent |-> head[x]])
         /\ head'[x] = Len(versions[x]) + 1
    BY <1>0, <1>1, <1>11, FireSteps DEF AVWrite
  <1>13. versions[x] \in Seq([root : Tries, parent : Nat]) /\ Len(versions[x]) \in Nat
    BY <1>0, LenProperties DEF AVTypeOK
  <1>14. versions'[x][Len(versions[x]) + 1] = [root |-> r, parent |-> head[x]]
    BY <1>12, <1>13
  <1> QED BY <1>9, <1>12, <1>13, <1>14

(* Each write under a tracked prefix with auto_version advances the head   *)
(* to a version of the tree as it is after the write, less what the config *)
(* excludes, where the revision config is put before the tracking config:  *)
(* for any prefixes, however they nest, and any history.                   *)
THEOREM CapturedCorrect ==
    ASSUME OneConfigPerPrefix PROVE AVSpec => Captured
  <1> DEFINE Captures == \A x \in Prefixes, p \in Paths : operator = "direct" => HeadCaptures(x, p)
  <1>1. AVInit => ConfigsFollow
    BY DEF AVInit, Init, ConfigsFollow, RootAssumption
  <1>2. VersionInv /\ ConfigsFollow /\ [AVNext]_vars => ConfigsFollow'
    BY FollowStep
  <1>3. VersionInv /\ ConfigsFollow /\ [AVNext]_vars => Captures
    BY CapturedStep
  <1>4. Captured <=> [][Captures]_vars
    BY PTL DEF Captured
  <1> QED BY <1>1, <1>2, <1>3, <1>4, VersionInit, VersionStep, PTL DEF AVSpec

=============================================================================
