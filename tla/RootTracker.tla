---------------------------- MODULE RootTracker ----------------------------
(***************************************************************************)
(* The trie root tracker: entity_handlers/root_tracker.py.                 *)
(*                                                                         *)
(* For every prefix with an enabled tracking config it keeps the root of a *)
(* trie over the bindings under the prefix.  Two internal hooks of the     *)
(* EmitPathway do the work inside the write that triggers them, so a write *)
(* and its effect on the roots are one step here.  A trie is named by the  *)
(* set of bindings it holds: the trie is content addressed and its shape   *)
(* depends on nothing else (module Trie).                                  *)
(***************************************************************************)
EXTENDS Integers, FiniteSets

CONSTANTS
    Names,     \* config names; a name also stands for the path of its config
    Prefixes,  \* tracked prefixes, distinct in canonical form
    Paths,     \* the other paths of the tree
    Under,     \* Under[x]: the paths, config paths included, below prefix x
    Hashes,    \* content hashes
    None,
    Bad,       \* an entity that is no valid tracking config
    MayTrack   \* the <<name, prefix>> pairs that operators configure

Configs == [prefix : Prefixes, enabled : BOOLEAN]

Tries == SUBSET ((Paths \cup Names) \X (Hashes \cup Configs \cup {Bad}))

(* What is bound at a root path: nothing, or a trie. *)
NoRoot == [bound |-> FALSE, trie |-> {}]
RootOf(trie) == [bound |-> TRUE, trie |-> trie]

ASSUME RootAssumption ==
    /\ None \notin Hashes
    /\ None \notin Configs \cup {Bad} /\ Bad \notin Configs
    /\ Names \cap Paths = {}
    /\ Under \in [Prefixes -> SUBSET (Paths \cup Names)]
    /\ MayTrack \subseteq Names \X Prefixes

VARIABLES
    tree,     \* the EntityTree: path -> what is bound there, or None
    configs,  \* _ConfigIndex._configs: name -> config or None
    root      \* system/tree/root/{P}: prefix -> what is bound there

tvars == <<tree, configs, root>>

Allowed(n, c) == c \in Configs => <<n, c.prefix>> \in MayTrack

Contents == {t \in [Paths \cup Names -> Hashes \cup Configs \cup {Bad, None}] :
                /\ \A p \in Paths : t[p] \in Hashes \cup {None}
                /\ \A n \in Names : /\ t[n] \in Configs \cup {Bad, None}
                                    /\ Allowed(n, t[n])}

(* build_trie() over the bindings below a prefix. *)
Build(t, x) == {<<p, t[p]>> : p \in {q \in Under[x] : t[q] # None}}

Tracks(n, x) == configs[n] # None /\ configs[n].enabled /\ configs[n].prefix = x

(* initialize(): _load_existing_configs() reads the configs already in the *)
(* tree and builds a root for every enabled one.                           *)
Init ==
    /\ tree \in Contents
    /\ configs = [n \in Names |-> IF tree[n] \in Configs THEN tree[n] ELSE None]
    /\ root = [x \in Prefixes |->
           IF \E n \in Names : Tracks(n, x) THEN RootOf(Build(tree, x)) ELSE NoRoot]

-----------------------------------------------------------------------------
(* trie_put() and trie_remove() on the current root, or on the empty trie  *)
(* if none is bound; the binding is written only if the root changed.      *)
TriePut(r, p, h) == {b \in r : b[1] # p} \cup {<<p, h>>}
TrieRemove(r, p) == {b \in r : b[1] # p}

Applied(x, p, h) ==
    LET current == root[x].trie
        new == IF h = None THEN TrieRemove(current, p) ELSE TriePut(current, p, h)
    IN  IF new = current THEN root[x] ELSE RootOf(new)

(* Mutant: the updater stops at the first config whose prefix matches. *)
RootUpdaterMutant(p, h) ==
    IF \E x \in Prefixes : p \in Under[x] /\ \E n \in Names : Tracks(n, x)
    THEN LET x == CHOOSE x \in Prefixes : p \in Under[x] /\ \E n \in Names : Tracks(n, x)
         IN  root' = [root EXCEPT ![x] = Applied(x, p, h)]
    ELSE UNCHANGED root

(* _RootUpdater._handle() for an event at path p. *)
RootUpdater(p, h) ==
    root' = [x \in Prefixes |->
        IF p \in Under[x] /\ \E n \in Names : Tracks(n, x)
        THEN Applied(x, p, h) ELSE root[x]]

(* A put (h # None) or a delete at a path that holds no config. *)
Write(p, h) ==
    /\ tree[p] # h
    /\ tree' = [tree EXCEPT ![p] = h]
    /\ RootUpdater(p, h)
    /\ UNCHANGED configs

(* _remove_root_for_prefix(): the root binding is deleted. *)
RemoveRoot(x) == root' = [root EXCEPT ![x] = NoRoot]

(* _ConfigWatcher._handle() for a put of c at the config path of n.  The   *)
(* root updater skips events at config paths.                              *)
PutConfig(n, c) ==
    /\ tree[n] # c
    /\ tree' = [tree EXCEPT ![n] = c]
    /\ IF c = Bad
       THEN UNCHANGED <<configs, root>>
       ELSE /\ configs' = [configs EXCEPT ![n] = c]
            /\ IF c.enabled
               THEN root' = [root EXCEPT ![c.prefix] = RootOf(Build(tree', c.prefix))]
               ELSE RemoveRoot(IF configs[n] = None THEN c.prefix
                               ELSE configs[n].prefix)

(* _ConfigWatcher._handle() for a delete of the config of n. *)
DeleteConfig(n) ==
    /\ tree[n] # None
    /\ tree' = [tree EXCEPT ![n] = None]
    /\ configs' = [configs EXCEPT ![n] = None]
    /\ IF configs[n] = None THEN UNCHANGED root
       ELSE RemoveRoot(configs[n].prefix)

-----------------------------------------------------------------------------
Next ==
    \/ \E p \in Paths, h \in Hashes \cup {None} : Write(p, h)
    \/ \E n \in Names, c \in Configs \cup {Bad} : Allowed(n, c) /\ PutConfig(n, c)
    \/ \E n \in Names : DeleteConfig(n)

Spec == Init /\ [][Next]_tvars

-----------------------------------------------------------------------------
(* Every variable has its type. *)
TypeOK ==
    /\ tree \in Contents
    /\ configs \in [Names -> Configs \cup {None}]
    /\ root \in [Prefixes -> [bound : BOOLEAN, trie : Tries]]

(* root_tracker.py: "The result is hash-equivalent to build_trie over the  *)
(* updated binding set": however it was reached, by startup, initial build *)
(* or increments, the root of a tracked prefix holds exactly the bindings  *)
(* below it.                                                               *)
TrackedIsBuild ==
    \A x \in Prefixes :
        (\E n \in Names : Tracks(n, x)) => root[x] = RootOf(Build(tree, x))

(* TrackingConfig: "When false, tracking is suspended and the root binding *)
(* is removed": no root is left behind for a prefix that nothing keeps up  *)
(* to date.                                                                *)
UntrackedHasNoRoot ==
    \A x \in Prefixes :
        (\A n \in Names : ~Tracks(n, x)) => root[x] = NoRoot

(* A config in force names a prefix the operators configure for it. *)
ConfigsAllowed == \A n \in Names : configs[n] # None => Allowed(n, configs[n])

(* What both properties need of the configuration: every name tracks one   *)
(* prefix, every prefix is tracked under one name, and no config lies      *)
(* below a tracked prefix.                                                 *)
OneConfigPerPrefix ==
    /\ \A a, b \in MayTrack : (a[1] = b[1]) <=> (a[2] = b[2])
    /\ \A x \in Prefixes : Under[x] \cap Names = {}
=============================================================================
