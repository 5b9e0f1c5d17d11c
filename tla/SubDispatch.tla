---------------------------- MODULE SubDispatch ----------------------------
(***************************************************************************)
(* Nested execution (peer.py, handlers/context.py, handlers/registry.py,   *)
(* entity_handlers/handlers.py): a request starts a handler; the handler   *)
(* executes others, at its own peer or at another, under its own grant;    *)
(* handlers are registered and unregistered while chains are running.      *)
(*                                                                         *)
(* One chain is followed: the stack of handlers waiting for one another.   *)
(* Paths are sequences of segments; operations and resources are part of   *)
(* what a scope's set of handlers stands for.                              *)
(***************************************************************************)
EXTENDS Integers, Sequences, FiniteSets, SequencesExt

CONSTANTS Peers,
          Paths,         \* request paths, and the patterns of handlers
          Bound,         \* peer -> patterns with an implementation in memory
          Scopes,        \* grants: [handlers, peers]
          SelfScope,     \* what a peer gives its own handlers at start
          Held,          \* peer -> peer -> handlers its session may use there
          Credentials,   \* [minter, grantee, handlers]
          DefaultTtl,
          MaxFrames, MaxChanges,
          Missing

(* Patterns are sequences, and an implementation is bound to one of them. *)
SubDispatchAssumption ==
    /\ DefaultTtl \in Nat \ {0}
    /\ \A t \in Paths : Len(t) \in Nat
    /\ Bound \in [Peers -> SUBSET Paths]

VARIABLES entity,      \* peer -> pattern -> Missing, "plain" or "native"
          grant,       \* peer -> pattern -> scope of its handler grant, or Missing
          registered,  \* peer -> patterns registered last rather than removed
          revoked,     \* peer -> credentials its tree says are revoked
          edits,       \* registrations, removals and revocations so far
          frames       \* the running handlers, innermost last

subDispatchVars == <<entity, grant, registered, revoked, edits, frames>>

(* The implementation's own handlers are granted and written at start. *)
CreateHandlerGrants ==
    /\ entity = [p \in Peers |-> [t \in Paths |-> IF t \in Bound[p] THEN "plain" ELSE Missing]]
    /\ grant = [p \in Peers |-> [t \in Paths |-> IF t \in Bound[p] THEN SelfScope[p] ELSE Missing]]
    /\ registered = Bound

SubDispatchInit ==
    /\ CreateHandlerGrants
    /\ revoked = [p \in Peers |-> {}]
    /\ edits = 0
    /\ frames = <<>>

---------------------------------------------------------------------------
(* Registration *)

Changes == edits < MaxChanges /\ edits' = edits + 1

(* register writes the handler entity and a grant signed by the peer; what *)
(* was there before is replaced.                                           *)
Register(p, t, kind, s) ==
    /\ Changes
    /\ entity' = [entity EXCEPT ![p][t] = kind]
    /\ grant' = [grant EXCEPT ![p][t] = s]
    /\ registered' = [registered EXCEPT ![p] = @ \cup {t}]
    /\ UNCHANGED <<revoked, frames>>

(* unregister deletes the entity and the grant; an implementation in       *)
(* memory stays.                                                           *)
UnregisterMutant(p, t) ==
    /\ Changes
    /\ entity' = [entity EXCEPT ![p][t] = Missing]
    /\ registered' = [registered EXCEPT ![p] = @ \ {t}]
    /\ UNCHANGED <<grant, revoked, frames>>
Unregister(p, t) ==
    /\ Changes
    /\ entity' = [entity EXCEPT ![p][t] = Missing]
    /\ grant' = [grant EXCEPT ![p][t] = Missing]
    /\ registered' = [registered EXCEPT ![p] = @ \ {t}]
    /\ UNCHANGED <<revoked, frames>>

Revoke(p, c) ==
    /\ Changes
    /\ revoked' = [revoked EXCEPT ![p] = @ \cup {c}]
    /\ UNCHANGED <<entity, grant, registered, frames>>

---------------------------------------------------------------------------
(* Resolution *)

Longest(ts) == IF ts = {} THEN Missing ELSE CHOOSE t \in ts : \A o \in ts : Len(o) <= Len(t)

(* The longest prefix of the path with a handler entity. *)
TreeWalkResolve(p, path) == Longest({t \in Paths : IsPrefix(t, path) /\ entity[p][t] # Missing})

FindHandlerInfo(p, path) == Longest({t \in Bound[p] : IsPrefix(t, path)})

(* An entity is run by the implementation bound to its pattern, or by its  *)
(* expression; without either the compiled handlers are searched.          *)
ResolveHandler(p, path) ==
    LET walked == TreeWalkResolve(p, path)
    IN  IF walked # Missing /\ (walked \in Bound[p] \/ entity[p][walked] = "native") THEN walked
        ELSE FindHandlerInfo(p, path)

GetHandlerGrant(p, t) == grant[p][t]

CheckHandlerScope(s, t, target) == t \in s.handlers /\ target \in s.peers

---------------------------------------------------------------------------
(* Starting a handler *)

TtlExhausted(ttl) == ttl # Missing /\ ttl <= 0
DecrementTtl(ttl) == IF ttl = Missing THEN Missing ELSE ttl - 1

(* The new handler runs under its own grant, as it is now, and sees the    *)
(* capability and the author it is given.                                  *)
Frame(p, t, caller, author, ttl, chained) ==
    [peer |-> p, pattern |-> t, grant |-> GetHandlerGrant(p, t), caller |-> caller,
     author |-> author, ttl |-> DecrementTtl(ttl), chained |-> chained]

Starts(p, t, caller, author, ttl, chained) ==
    /\ GetHandlerGrant(p, t) # Missing /\ ~TtlExhausted(ttl)
    /\ Len(frames) < MaxFrames
    /\ frames' = Append(frames, Frame(p, t, caller, author, ttl, chained))
    /\ UNCHANGED <<entity, grant, registered, revoked, edits>>

ApplyDefaults(ttl) == IF ttl = Missing THEN DefaultTtl ELSE ttl

(* A request from another peer under the capability c. *)
HandleExecute(p, path, c, author, ttl, chained) ==
    LET t == ResolveHandler(p, path)
    IN  /\ t # Missing /\ t \in c
        /\ Starts(p, t, c, author, ApplyDefaults(ttl), chained)

Request(p, q, path, chained) ==
    /\ frames = <<>> /\ p # q
    /\ HandleExecute(q, path, Held[p][q], p, Missing, chained)

(* An extension starts a chain under a full grant and without bounds. *)
ExtensionExecute(p, path) ==
    LET t == ResolveHandler(p, path)
    IN  /\ frames = <<>> /\ t # Missing
        /\ Starts(p, t, Paths, p, Missing, FALSE)

---------------------------------------------------------------------------
(* Calls of the innermost handler *)

Top == Last(frames)

(* What a nested handler sees as its caller: the request's, not the        *)
(* handler that executes it.                                               *)
ExecuteDispatcher(t) == Starts(Top.peer, t, Top.caller, Top.author, Top.ttl, Top.chained)

DispatchLocalExecute(path) ==
    LET t == ResolveHandler(Top.peer, path)
    IN  /\ frames # <<>> /\ t # Missing
        /\ CheckHandlerScope(Top.grant, t, Top.peer)
        /\ ExecuteDispatcher(t)

Covers(c, path) == c \notin revoked[Top.peer] /\ path \in c.handlers

(* A credential the target minted for this peer, valid as far as this peer *)
(* knows and covering the call, answers for the peer the call goes to.     *)
PresentedCredentialRelaxesPeers(c, target, path) ==
    /\ c # Missing
    /\ c.grantee = Top.peer /\ c.minter = target
    /\ Covers(c, path)

AuthorizeOutbound(target, path, c) ==
    /\ path \in Top.grant.handlers
    /\ target \in Top.grant.peers \/ PresentedCredentialRelaxesPeers(c, target, path)

(* Bounds travel only with a continuation's chain; otherwise the other     *)
(* peer starts with its own.                                               *)
WireBounds(f) == IF f.chained THEN f.ttl ELSE Missing

(* The other peer checks the credential that is presented, or else the     *)
(* capability of the session.                                              *)
RemoteExecute(target, path, c) ==
    /\ frames # <<>> /\ target # Top.peer
    /\ AuthorizeOutbound(target, path, c)
    /\ c # Missing => c.grantee = Top.peer /\ c.minter = target /\ c \notin revoked[target]
    /\ HandleExecute(target, path, IF c # Missing THEN c.handlers ELSE Held[Top.peer][target],
                     Top.peer, WireBounds(Top), Top.chained)

Return ==
    /\ frames # <<>>
    /\ frames' = Front(frames)
    /\ UNCHANGED <<entity, grant, registered, revoked, edits>>

SubDispatchNext ==
    \/ \E p \in Peers, t \in Paths :
        \/ Unregister(p, t) \/ ExtensionExecute(p, t)
        \/ \E s \in Scopes, k \in {"plain", "native"} : Register(p, t, k, s)
        \/ \E q \in Peers, b \in BOOLEAN : Request(p, q, t, b)
        \/ \E c \in Credentials \cup {Missing} : RemoteExecute(p, t, c)
    \/ \E p \in Peers, c \in Credentials : Revoke(p, c)
    \/ \E t \in Paths : DispatchLocalExecute(t)
    \/ Return

SubDispatchSpec == SubDispatchInit /\ [][SubDispatchNext]_subDispatchVars

---------------------------------------------------------------------------
(* No handler starts at a pattern that was unregistered and not registered *)
(* again, not even one whose implementation is still in memory, and a      *)
(* request to a path below it is answered, if at all, by a handler that is *)
(* registered (handlers.py _handle_unregister; peer.py _resolve_handler).  *)
StartsRegistered ==
    Len(frames') > Len(frames) => Last(frames').pattern \in registered[Last(frames').peer]
UnregisteredStaysOut == [][StartsRegistered]_subDispatchVars

(* Where a request entered a peer: the first of the frames at that peer    *)
(* without another peer in between.                                        *)
Entry(i) == CHOOSE j \in 1 .. i :
    /\ \A k \in j .. i : frames[k].peer = frames[i].peer
    /\ j > 1 => frames[j - 1].peer # frames[i].peer

(* However deep handlers execute one another at a peer, each sees the      *)
(* capability and the author of the request that came in, never those of   *)
(* the handler that executes it (V7 section 6.8, context propagation).     *)
CallerSurvives ==
    \A i \in 1 .. Len(frames) :
        /\ frames[i].caller = frames[Entry(i)].caller
        /\ frames[i].author = frames[Entry(i)].author

=============================================================================
