--------------------------------- MODULE Role ---------------------------------
(***************************************************************************)
(* The role-derived tokens of one context on one peer: role.py.            *)
(*                                                                         *)
(* Every handler runs without an await, so what interleaves with it is     *)
(* only what a hook of its own writes does: an exclusion may land between  *)
(* the check at its head and the one after its last write.  A token is     *)
(* numbered in the order of minting; each is minted in a millisecond of    *)
(* its own.  Grants are levels, a caller's authority is the level it       *)
(* covers for each assignee once the templates are resolved.               *)
(***************************************************************************)
EXTENDS Naturals, Sequences, FiniteSets

CONSTANTS
    Peers, Roles, Grants,
    Order,     \* the peers, in the order of their paths in the tree
    Local,     \* the peer that runs the handler
    Callers,   \* the authorities of callers: functions from Peers to levels
    NoRole,    \* no definition is bound
    MaxMints   \* bound: the tokens minted, by the number of roles in use

Empty == 0     \* a definition whose list of grants is empty

(* A cascade visits the path of every peer. *)
RoleAssumption ==
    /\ Order \in Seq(Peers) /\ \A p \in Peers : \E n \in 1..Len(Order) : Order[n] = p
    /\ Local \in Peers

VARIABLES
    registered, \* whether the role handler is registered
    defs,       \* role -> the level of its definition, Empty or NoRole
    assigned,   \* the assignments bound: [peer, role]
    excluded,   \* the peers with an exclusion
    minted,     \* the tokens minted so far: [peer, role, grants, via, parent]
    tokens,     \* the tokens bound at their role-derived path
    links,      \* [peer, role] -> the token its derived-token-link names, or 0
    behind      \* the assignments whose token a re-derivation left as it was

vars == <<registered, defs, assigned, excluded, minted, tokens, links, behind>>

Pairs == [peer : Peers, role : Roles]
Pair(p, r) == [peer |-> p, role |-> r]

Init ==
    /\ registered = FALSE
    /\ defs = [r \in Roles |-> NoRole]
    /\ assigned = {} /\ excluded \in SUBSET Peers
    /\ minted = <<>> /\ tokens = {}
    /\ links = [a \in Pairs |-> 0]
    /\ behind = {}

-----------------------------------------------------------------------------
(* What the handlers read and write.  A step works on the record of the context. *)
Context == [assigned |-> assigned, excluded |-> excluded, minted |-> minted,
            tokens |-> tokens, links |-> links, behind |-> behind]

Becomes(s) ==
    /\ assigned' = s.assigned /\ excluded' = s.excluded /\ minted' = s.minted
    /\ tokens' = s.tokens /\ links' = s.links /\ behind' = s.behind

(* _sweep_role_derived_paths(): the links and the assignments stay. *)
Sweep(s, p) == [s EXCEPT !.tokens = {t \in @ : s.minted[t].peer # p}]

(* An exclusion written by anything but the role handler: _RoleExclusionWatcher sweeps. *)
Lands(s, p) == Sweep([s EXCEPT !.excluded = @ \cup {p}], p)

(* _issue_role_derived_token_pathway(). *)
Mint(s, p, r, g, via, parent) ==
    [s EXCEPT !.minted = Append(@, [peer |-> p, role |-> r, grants |-> g, via |-> via, parent |-> parent]),
              !.tokens = @ \cup {Len(s.minted) + 1}]

(* _revoke_token_at_role_derived_path(). *)
Unbind(s, t) == [s EXCEPT !.tokens = @ \ {t}]

(* _rollback_role_derived_cap(), after is_excluded() has been asked again (SEC-2). *)
RollBack(s, a, t) ==
    [Unbind(s, t) EXCEPT !.links[a] = 0, !.assigned = @ \ {a}]

SettleMutant(s, p, undone) == s
Settle(s, p, undone) == IF p \in s.excluded THEN undone ELSE s

(* An exclusion lands on a peer while at's token is written, before (early) or after it. *)
Landings == {{}} \cup {{l} : l \in [at : Peers, on : Peers, early : BOOLEAN]}

Writes(s, p, r, g, via, parent, landing) ==
    LET token(x) == Mint(x, p, r, g, via, parent)
        now == {l \in landing : l.at = p}
        l == CHOOSE x \in now : TRUE
    IN CASE now = {} -> token(s)
         [] now # {} /\ l.early -> token(Lands(s, l.on))
         [] now # {} /\ ~l.early -> Lands(token(s), l.on)

-----------------------------------------------------------------------------
(* _re_derive_role_internal() for one assignee: re-mint, relink, then unbind the old token. *)
ReMint(s, p, r, g, landing) ==
    LET a == Pair(p, r)
        t == Len(s.minted) + 1
        made == Writes(s, p, r, g, "re-derive", 0, landing)
        linked == [Unbind(made, s.links[a]) EXCEPT !.links[a] = t, !.behind = @ \ {a}]
    IN Settle(linked, p, [Unbind(linked, t) EXCEPT !.links[a] = 0])

Covers(caller, p, g) == g <= caller[p]

(* The turn of one path below the assignments of the role. *)
ReDeriveOne(x, p, r, g, caller, landing) ==
    IF Pair(p, r) \notin x.assigned \/ p \in x.excluded THEN x
    ELSE IF ~Covers(caller, p, g) THEN [x EXCEPT !.behind = @ \cup {Pair(p, r)}]
    ELSE ReMint(x, p, r, g, landing)

(* The whole cascade: the context after each path. *)
Cascaded(s, r, g, caller, landing) ==
    LET after[n \in 0..Len(Order)] ==
            IF n = 0 THEN s ELSE ReDeriveOne(after[n - 1], Order[n], r, g, caller, landing)
    IN  after

ReDeriveMutant(s, r, g, caller, landing) ==
    IF g \in {NoRole, Empty} \/ (\E p \in s.excluded : Pair(p, r) \in s.assigned) THEN s
    ELSE Cascaded(s, r, g, caller, landing)[Len(Order)]
ReDerive(s, r, g, caller, landing) ==
    IF g \in {NoRole, Empty} THEN s ELSE Cascaded(s, r, g, caller, landing)[Len(Order)]

Everything == [p \in Peers |-> CHOOSE g \in Grants : \A h \in Grants : h <= g]
InUse == {r \in Roles : defs[r] # NoRole \/ \E t \in DOMAIN minted : minted[t].role = r}
Room(n) == Len(minted) + n <= MaxMints[Cardinality(InUse)]
Assignees(r) == {p \in Peers : Pair(p, r) \in assigned}

Cascade(r, g, caller) ==
    /\ g \in {NoRole, Empty} \/ Room(Cardinality(Assignees(r) \ excluded))
    /\ \E landing \in {x \in Landings : \A l \in x : l.at \in Assignees(r)} :
        Becomes(ReDerive(Context, r, g, caller, landing))

-----------------------------------------------------------------------------
(* startup_time_role_derived_token(): only before the handler is registered. *)
Startup(p, g) ==
    /\ ~registered /\ p \notin excluded /\ Room(1)
    /\ Becomes(Mint(Context, p, NoRole, g, "startup", 0))
    /\ UNCHANGED <<registered, defs>>

Register ==
    /\ ~registered /\ registered' = TRUE
    /\ UNCHANGED <<defs, assigned, excluded, minted, tokens, links, behind>>

(* define: the caller's authority must cover the unresolved grants, for any assignee. *)
Define(r, g, caller) ==
    /\ \A p \in Peers : Covers(caller, p, g)
    /\ defs' = [defs EXCEPT ![r] = g]
    /\ Cascade(r, g, caller)

(* A definition written or removed by anything else: _RoleDefinitionWatcher re-derives. *)
PutDefinition(r, g) ==
    /\ defs' = [defs EXCEPT ![r] = g]
    /\ Cascade(r, g, Everything)

(* re-derive. *)
ReDeriveRole(r, caller) ==
    /\ defs[r] # NoRole
    /\ Cascade(r, defs[r], caller)
    /\ UNCHANGED defs

(* assign: write the assignment, mint, link; an earlier token of the pair stays bound. *)
Assign(p, r) ==
    LET a == Pair(p, r)
        t == Len(minted) + 1
    IN /\ defs[r] \notin {NoRole, Empty} /\ p \notin excluded
       /\ (\E caller \in Callers : Covers(caller, p, defs[r])) /\ Room(1)
       /\ \E landing \in {x \in Landings : \A l \in x : l.at = p} :
            LET written == [Writes(Context, p, r, defs[r], "assign", 0, landing)
                               EXCEPT !.assigned = @ \cup {a}, !.links[a] = t, !.behind = @ \ {a}]
            IN Becomes(Settle(written, p, RollBack(written, a, t)))
       /\ UNCHANGED defs

(* _unassign_one_role(), of every assignment in A: each loses the token its link names. *)
Drop(s, A) ==
    [s EXCEPT !.tokens = @ \ {s.links[a] : a \in A}, !.assigned = @ \ A, !.behind = @ \ A,
              !.links = [a \in Pairs |-> IF a \in A THEN 0 ELSE @[a]]]

(* unassign, of one role; of every role that is assigned. *)
Unassign(p, r) == Becomes(Drop(Context, {Pair(p, r)})) /\ UNCHANGED defs
UnassignAll(p) == Becomes(Drop(Context, {a \in assigned : a.peer = p})) /\ UNCHANGED defs

(* exclude, unexclude. *)
Exclude(p) ==
    /\ Becomes(Sweep([Context EXCEPT !.excluded = @ \cup {p}], p))
    /\ UNCHANGED defs
Unexclude(p) ==
    /\ Becomes([Context EXCEPT !.excluded = @ \ {p}])
    /\ UNCHANGED defs

(* delegate: a token under the delegate whose parent is the delegator's linked token. *)
MayDelegate(a, p, r, scope) ==
    /\ a \in assigned /\ links[a] # 0 /\ defs[r] # NoRole
    /\ p \notin excluded /\ scope <= defs[r]

Delegate(p, r, scope) ==
    LET a == Pair(Local, r)
        t == Len(minted) + 1
    IN /\ MayDelegate(a, p, r, scope) /\ Room(1)
       /\ \E landing \in {x \in Landings : \A l \in x : l.at = p} :
            LET written == Writes(Context, p, r, scope, "delegate", links[a], landing)
            IN Becomes(Settle(written, p, Unbind(written, t)))
       /\ UNCHANGED defs

Handle ==
    \E r \in Roles :
        \/ \E g \in Grants, caller \in Callers : Define(r, g, caller)
        \/ \E caller \in Callers : ReDeriveRole(r, caller)
        \/ \E p \in Peers : Assign(p, r) \/ Unassign(p, r)
        \/ \E p \in Peers, scope \in Grants : Delegate(p, r, scope)

HandlePeer == \E p \in Peers : UnassignAll(p) \/ Exclude(p) \/ Unexclude(p)

(* Definitions and exclusions that arrive from elsewhere, a merge for one. *)
Arrives ==
    \/ \E r \in Roles, g \in Grants \cup {Empty, NoRole} : PutDefinition(r, g)
    \/ \E p \in Peers : Becomes(Lands(Context, p)) /\ UNCHANGED defs

Next ==
    \/ \E p \in Peers, g \in Grants : Startup(p, g)
    \/ Register
    \/ registered /\ (Handle \/ HandlePeer \/ Arrives) /\ UNCHANGED registered

Spec == Init /\ [][Next]_vars

-----------------------------------------------------------------------------
(* An excluded peer has no role-derived token bound in the context, whichever way  *)
(* and whenever the exclusion came: the sweeps of exclude and of the watcher, and  *)
(* the checks after the last write of assign, re-derive and delegate.              *)
ExcludedHoldsNothing == \A t \in tokens : minted[t].peer \notin excluded

(* A linked token carries the grants of the current definition, unless the last    *)
(* re-derivation was asked for by a caller without the authority for its assignee, *)
(* or the definition was removed or emptied: the cascades of define, re-derive and *)
(* of the definition watcher reach every assignment.                               *)
TokensFollowDefinition ==
    \A a \in assigned \ behind :
        links[a] \in tokens /\ defs[a.role] \notin {NoRole, Empty}
            => minted[links[a]].grants = defs[a.role]

===============================================================================
