---------------------------- MODULE AutoVersion ----------------------------
(***************************************************************************)
(* Automatic versions: entity_handlers/auto_version.py on top of the root  *)
(* tracker, and the config operation of the revision handler               *)
(* (entity_handlers/revision.py) that switches both on and off.            *)
(*                                                                         *)
(* The hooks of the extension run after those of the root tracker, inside  *)
(* the same write.  The handler's config operation makes two writes with   *)
(* no suspension between them.  No active branch is set: only checkout,    *)
(* which is not modelled here, sets one.                                   *)
(***************************************************************************)
EXTENDS RootTracker, Sequences

CONSTANTS
    Autos,         \* the values of auto_version in use
    Excludes,      \* the exclude lists in use, each as the set of paths it matches
    ExcludeTypes,  \* the exclude_types lists in use, each as a set of hashes
    TrackingName,  \* _tracking_config_path(): prefix -> config name
    Operators,     \* how prefixes are configured: "handler", the config
                   \* operation, "direct", tree puts
    MaxVersions    \* bound: versions, for each prefix

RevConfigs == [auto : Autos, exclude : Excludes, types : ExcludeTypes]

(* What _configs holds of a prefix: its config, as it was loaded. *)
LoadedConfigs ==
    [prefix : Prefixes, auto : BOOLEAN, exclude : SUBSET Paths, types : SUBSET Hashes]

ASSUME AutoVersionAssumption ==
    /\ Autos \subseteq BOOLEAN
    /\ Excludes \subseteq SUBSET Paths /\ ExcludeTypes \subseteq SUBSET Hashes
    /\ None \notin RevConfigs \cup LoadedConfigs
    /\ TrackingName \in [Prefixes -> Names]
    /\ MayTrack = {<<TrackingName[x], x>> : x \in Prefixes}
    /\ \A x \in Prefixes : Under[x] \subseteq Paths
    /\ MaxVersions \in [Prefixes -> Nat]

VARIABLES
    rev,       \* system/revision/{ph}/config: prefix -> revision config or None
    av,        \* AutoVersionExtension._configs: name -> config or None
    versions,  \* prefix -> its version entries, in creation order
    head,      \* system/revision/{ph}/head: index of a version, 0 for none
    operator   \* how this peer's prefixes are configured

vars == <<tvars, rev, av, versions, head, operator>>

AVInit ==
    /\ Init
    /\ tree = [p \in Paths \cup Names |-> None]
    /\ rev = [x \in Prefixes |-> None]
    /\ av = [n \in Names |-> None]
    /\ versions = [x \in Prefixes |-> <<>>]
    /\ head = [x \in Prefixes |-> 0]
    /\ operator \in Operators

-----------------------------------------------------------------------------
(* compute_versioned_bindings() *)
VersionedBindings(t, x, filter) ==
    {<<p, t[p]>> : p \in {q \in Under[x] \ filter.exclude :
                             t[q] # None /\ t[q] \notin filter.types}}

(* _load_revision_config(): the defaults if there is none. *)
Loaded(x) ==
    IF rev[x] = None
    THEN [prefix |-> x, auto |-> TRUE, exclude |-> {}, types |-> {}]
    ELSE [prefix |-> x, auto |-> rev[x].auto,
          exclude |-> rev[x].exclude, types |-> rev[x].types]

(* _ConfigWatcher._handle() of auto_version.py. *)
Watched(n, c) ==
    [av EXCEPT ![n] = CASE c = Bad -> @
                        [] c = None -> None
                        [] OTHER -> IF c.enabled THEN Loaded(c.prefix) ELSE None]

(* The config in force for prefix x, if path p makes it fire. *)
Firing(x, p) ==
    {n \in Names : /\ av[n] # None /\ av[n].prefix = x /\ av[n].auto
                   /\ p \in Under[x] \ av[n].exclude
                   /\ root'[x].bound}

(* Mutant: the exclude lists are not applied to the version root. *)
VersionRootMutant(x, c) == root'[x].trie

VersionRoot(x, c) ==
    IF c.exclude = {} /\ c.types = {}
    THEN root'[x].trie ELSE VersionedBindings(tree', x, c)

(* The type of the entity bound at the head path: a wrapper around the     *)
(* hash of the version entry.                                              *)
HeadType == "system/hash"

Describes(x, r) ==
    /\ head[x] # 0
    /\ HeadType = "system/revision/entry"
    /\ versions[x][head[x]].root = r

(* _resolve_head_to_version_hash() *)
ParentOf(x) == head[x]

(* _fire_for_config(): unless the head describes this root already, a new  *)
(* version entry whose parent is the head, and the head is advanced.       *)
News(x, p) ==
    {r \in {VersionRoot(x, av[n]) : n \in Firing(x, p)} : ~Describes(x, r)}

Fire(p) ==
    /\ \A x \in Prefixes : News(x, p) # {} => Len(versions[x]) < MaxVersions[x]
    /\ versions' = [x \in Prefixes |->
           IF News(x, p) = {} THEN versions[x]
           ELSE Append(versions[x],
                       [root |-> CHOOSE r \in News(x, p) : TRUE, parent |-> ParentOf(x)])]
    /\ head' = [x \in Prefixes |->
           IF News(x, p) = {} THEN head[x] ELSE Len(versions[x]) + 1]

AVWrite(p, h) ==
    /\ Write(p, h)
    /\ Fire(p)
    /\ UNCHANGED <<rev, av>>

(* A put or a delete of a tracking config through the tree handler. *)
TrackingPut(n, c) ==
    /\ PutConfig(n, c)
    /\ av' = Watched(n, c)
    /\ UNCHANGED <<rev, versions, head>>

TrackingDelete(n) ==
    /\ DeleteConfig(n)
    /\ av' = Watched(n, None)
    /\ UNCHANGED <<rev, versions, head>>

-----------------------------------------------------------------------------
WasAuto(x) == rev[x] # None /\ rev[x].auto

(* _handle_config_set(): when auto_version goes on, the tracking config is *)
(* written, and its event handled, before the revision config; when it     *)
(* goes off the tracking config is deleted after it.                       *)
ConfigSet(x, rc) ==
    LET n == TrackingName[x]
        on == [prefix |-> x, enabled |-> TRUE]
    IN  /\ rev' = [rev EXCEPT ![x] = rc]
        /\ CASE rc.auto /\ ~WasAuto(x) /\ tree[n] # on ->
                    PutConfig(n, on) /\ av' = Watched(n, on)
             [] ~rc.auto /\ WasAuto(x) /\ tree[n] # None ->
                    DeleteConfig(n) /\ av' = Watched(n, None)
             [] OTHER -> UNCHANGED <<tvars, av>>
        /\ UNCHANGED <<versions, head>>

(* _handle_config_delete() *)
ConfigDelete(x) ==
    LET n == TrackingName[x] IN
    /\ rev[x] # None
    /\ rev' = [rev EXCEPT ![x] = None]
    /\ IF WasAuto(x) /\ tree[n] # None
       THEN DeleteConfig(n) /\ av' = Watched(n, None)
       ELSE UNCHANGED <<tvars, av>>
    /\ UNCHANGED <<versions, head>>

(* A tree put of a revision config, made while the prefix is not tracked. *)
RevisionPut(x, rc) ==
    /\ tree[TrackingName[x]] = None
    /\ rev[x] # rc
    /\ rev' = [rev EXCEPT ![x] = rc]
    /\ UNCHANGED <<tvars, av, versions, head>>

AVNext ==
    /\ UNCHANGED operator
    /\ \/ \E p \in Paths, h \in Hashes \cup {None} : AVWrite(p, h)
       \/ /\ operator = "handler"
          /\ \E x \in Prefixes : ConfigDelete(x) \/ \E rc \in RevConfigs : ConfigSet(x, rc)
       \/ /\ operator = "direct"
          /\ \/ \E x \in Prefixes, rc \in RevConfigs : RevisionPut(x, rc)
             \/ \E n \in Names, c \in Configs \cup {Bad} : Allowed(n, c) /\ TrackingPut(n, c)
             \/ \E n \in Names : TrackingDelete(n)

AVSpec == AVInit /\ [][AVNext]_vars

-----------------------------------------------------------------------------
(* Every variable has its type. *)
AVTypeOK ==
    /\ TypeOK
    /\ rev \in [Prefixes -> RevConfigs \cup {None}]
    /\ av \in [Names -> LoadedConfigs \cup {None}]
    /\ DOMAIN versions = Prefixes
    /\ \A x \in Prefixes : versions[x] \in Seq([root : Tries, parent : Nat])
    /\ head \in [Prefixes -> Nat]
    /\ operator \in Operators

(* "No orphans: every version entry is reachable from some head": every    *)
(* version is the head of its prefix or the parent of a later version, and *)
(* only the first has no parent.                                           *)
NoOrphans ==
    \A x \in Prefixes : \A v \in DOMAIN versions[x] :
        /\ v = head[x] \/ \E w \in DOMAIN versions[x] : versions[x][w].parent = v
        /\ versions[x][v].parent = 0 => v = 1

(* The versions of a prefix are one chain, and the head is its end. *)
OneChain ==
    \A x \in Prefixes :
        /\ head[x] = Len(versions[x])
        /\ \A v \in 1..Len(versions[x]) : versions[x][v].parent = v - 1

(* A config in force is one that is bound; and where the operator puts the *)
(* configs himself, the extension holds what the revision config says.     *)
ConfigsFollow ==
    /\ \A n \in Names : tree[n] = None => configs[n] = None
    /\ operator = "direct" =>
           \A n \in Names :
               av[n] = IF configs[n] # None /\ configs[n].enabled
                       THEN Loaded(configs[n].prefix) ELSE None

(* The revision config of x asks that a write at p be versioned.  The      *)
(* config operation switches the tracking of x on with it; with direct     *)
(* puts that is up to the operator.                                        *)
Wanted(x, p) ==
    /\ rev[x] # None /\ rev[x].auto
    /\ p \in Under[x] \ rev[x].exclude
    /\ operator = "direct" => \E n \in Names : Tracks(n, x)

HeadCaptures(x, p) ==
    (tree'[p] # tree[p] /\ Wanted(x, p)) =>
        /\ head'[x] # 0
        /\ versions'[x][head'[x]].root = VersionedBindings(tree', x, rev[x])

(* auto_version.py: "for each tree write to a path under a tracked prefix  *)
(* (where the revision config has auto_version: true) and not matching the *)
(* config's exclude [...] advances system/revision/{prefix_hash}/head".    *)
(* The head then describes the tree as it is after the write, less what    *)
(* the config excludes; where the operator puts the configs himself, the   *)
(* revision config before the tracking config.                             *)
Captured ==
    [][\A x \in Prefixes, p \in Paths :
          operator = "direct" => HeadCaptures(x, p)]_vars

(* The same sentence, of configs made by the revision handler's config     *)
(* operation as well.                                                      *)
CapturedAlways == [][\A x \in Prefixes, p \in Paths : HeadCaptures(x, p)]_vars

=============================================================================
