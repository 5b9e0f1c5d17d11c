------------------------------ MODULE Capability ------------------------------
(***************************************************************************)
(* Capability tokens as one peer, LocalPeer, mints and judges them:        *)
(* capability/checking.py, capability/delegation.py, capability/temporal.py *)
(* and the handler capability.py.                                          *)
(*                                                                         *)
(* A path or pattern is the sequence of the segments its slashes separate: *)
(* an absolute one begins with the segment "/" and goes on with a peer.     *)
(* A scope is [include, exclude], a grant one scope per dimension.         *)
(* Resource targets are paths: a target that is itself a pattern is left   *)
(* out, and so are constraints, allowances and hash formats.               *)
(***************************************************************************)
EXTENDS Naturals, Sequences, FiniteSets, FiniteSetsExt, SequencesExt

CONSTANTS
    Segments,    \* what paths are made of
    Hosts, LocalPeer,
    Offers,      \* what may be said by a token: [grants, ttl, caveats]
    Sparing(_, _),  \* bound: whether it is said after these tokens
    MaxTokens,   \* bound: tokens of one lineage
    Policies,    \* what configure may bind for a caller, NoPolicy included
    Requests,    \* what a token is asked for: [handler, operation, peer, resource]
    NoPolicy,
    NoCaveat,    \* no delegation_caveats; else [depth |-> n, ttl |-> n]
    Forever,     \* no expires_at
    TimeMax,     \* UINT64_MAX
    MaxNow,      \* bound: the clock
    MaxLinks     \* 64 in the code

NoToken == 0

Paths  == Seq(Segments) \ {<<>>}
Scopes == [include : SUBSET Paths, exclude : SUBSET Paths]
GrantEntries == [handlers : Scopes, operations : Scopes, peers : SUBSET Scopes, resources : Scopes]
Times  == Nat \cup {Forever}

Star     == <<"*">>
Anything == <<"/", "*", "*">>
Never    == <<"/", "never-match">>
Relative(p) == p[1] # "/"

(* A handler is registered at a relative path, and what is asked for is    *)
(* canonical, so absolute, when it is judged.  Any handler is "*" in a     *)
(* grant: pattern_covers() lets /*/* cover them all, and it matches none.  *)
CapabilityAssumption ==
    /\ {"/", "*", "never-match"} \cup Hosts \subseteq Segments
    /\ IsFiniteSet(Hosts) /\ LocalPeer \in Hosts
    /\ Forever \notin Nat /\ TimeMax \in Nat /\ MaxTokens \in Nat
    /\ \A o \in Offers \cup (Policies \ {NoPolicy}) :
            /\ o.grants \subseteq GrantEntries /\ o.ttl \in Times
            /\ \A g \in o.grants : Anything \notin g.handlers.include
    /\ \A r \in Requests :
            /\ {r.handler, r.operation, r.peer, r.resource} \subseteq Paths
            /\ Relative(r.handler) /\ Len(r.resource) >= 3 /\ ~Relative(r.resource)

VARIABLES
    capTokens,  \* every token minted, by whom and from what
    policy,   \* the policy entry that applies to a caller: peer -> grants and ttl
    revoked,  \* tokens with a revocation marker
    now

capabilityVars == <<capTokens, policy, revoked, now>>

-----------------------------------------------------------------------------
(* Patterns. *)
Beyond(s, n) == SubSeq(s, n + 1, Len(s))
EndsStar(p) == Len(p) >= 2 /\ Last(p) = "*"
AnyPeer(p) == Len(p) >= 3 /\ p[1] = "/" /\ p[2] = "*"
Under(prefix, u) == Len(u) > Len(prefix) /\ SubSeq(u, 1, Len(prefix)) = prefix
HasPeer(u) == Len(u) >= 3 /\ u[1] = "/"

(* canonicalize(): a relative path is under the peer whose frame it is read in. *)
Canonicalize(p, frame) ==
    CASE Len(p) >= 2 /\ p[1] \in {".", "..", "*"} -> Never
      [] p[1] = "/" -> p
      [] OTHER -> <<"/", frame>> \o p

(* id_scope_pattern_matches(), id_scope_pattern_covers(): no frame, no peer wildcard. *)
IdMatches(p, v) ==
    CASE p = Star -> TRUE
      [] p # Star /\ EndsStar(p) -> Under(Front(p), v)
      [] OTHER -> p = v

(* matches_pattern(). *)
Matches(p, u) ==
    CASE Never \in {p, u} -> FALSE
      [] Never \notin {p, u} /\ AnyPeer(p) -> HasPeer(u) /\ IdMatches(Beyond(p, 2), Beyond(u, 2))
      [] OTHER -> IdMatches(p, u)

(* pattern_covers(). *)
PatternCoversMutant(p, c) == p \in {c, Star, Anything} \/ (EndsStar(p) /\ SubSeq(c, 1, Len(p) - 1) = Front(p))
PatternCovers(p, c) ==
    \/ p \in {c, Star, Anything}
    \/ EndsStar(p) /\ Under(Front(p), c)
    \/ AnyPeer(p) /\ HasPeer(c) /\ (Beyond(p, 2) = Beyond(c, 2) \/ IdMatches(Beyond(p, 2), Beyond(c, 2)))

(* is_unmatchable_pattern(): whatever the frame. *)
Unmatchable(p) == Canonicalize(p, LocalPeer) = Never

(* matches_scope(), matches_id_scope(): a path that cannot match excludes everything. *)
InScope(scope, v) ==
    /\ \E p \in scope.include : Matches(p, v)
    /\ \A p \in scope.exclude : ~Unmatchable(p) /\ ~Matches(p, v)
InIdScope(scope, v) ==
    /\ \E p \in scope.include : IdMatches(p, v)
    /\ \A p \in scope.exclude : ~IdMatches(p, v)

(* unmatchable_scope_pattern(): none in a dimension of paths. *)
Matchable(grants) ==
    \A g \in grants : \A s \in {g.handlers, g.resources} :
        \A p \in s.include \cup s.exclude : ~Unmatchable(p)

(* A scope read in a frame. *)
Framed(scope, frame) ==
    [include |-> {Canonicalize(p, frame) : p \in scope.include},
     exclude |-> {Canonicalize(p, frame) : p \in scope.exclude}]

(* grant_allows_peer(), _peers_scope_or_default(): no peers means the judging one. *)
PeersOf(g) == IF g.peers = {} THEN [include |-> {<<LocalPeer>>}, exclude |-> {}] ELSE CHOOSE s \in g.peers : TRUE

(* check_resource_scope() for one grant and one path. *)
GrantAllows(g, frame, r) ==
    /\ InScope(g.handlers, r.handler)
    /\ InIdScope(g.operations, r.operation)
    /\ InIdScope(PeersOf(g), r.peer)
    /\ InScope(Framed(g.resources, frame), r.resource)

-----------------------------------------------------------------------------
(* Attenuation: scope_includes_subset(), scope_exclude_inherited() and the id versions. *)
IncludesSubset(child, parent) == \A c \in child.include : \E p \in parent.include : PatternCovers(p, c)
IdIncludesSubset(child, parent) == \A c \in child.include : \E p \in parent.include : IdMatches(p, c)

ExcludesInherited(child, parent) == \A p \in parent.exclude : \E c \in child.exclude : Matches(c, p)
IdExcludesInherited(child, parent) == \A p \in parent.exclude : \E c \in child.exclude : IdMatches(c, p)

(* grant_subset(): handler excludes of the child are read in the local frame, the parent's as written. *)
GrantSubset(c, p, childFrame, parentFrame) ==
    /\ IncludesSubset(c.handlers, p.handlers)
    /\ IdIncludesSubset(c.operations, p.operations)
    /\ IncludesSubset(Framed(c.resources, childFrame), Framed(p.resources, parentFrame))
    /\ ExcludesInherited(Framed(c.handlers, LocalPeer), p.handlers)
    /\ ExcludesInherited(Framed(c.resources, childFrame), Framed(p.resources, parentFrame))
    /\ IdExcludesInherited(c.operations, p.operations)
    /\ IdIncludesSubset(PeersOf(c), PeersOf(p))
    /\ IdExcludesInherited(PeersOf(c), PeersOf(p))

(* is_attenuated(), grant_covered_by(); an expiry is Forever or a time. *)
Later(e, f) == IF Forever \in {e, f} THEN f # Forever ELSE e > f
Covered(child, parent, childFrame, parentFrame) ==
    \A c \in child : \E p \in parent : GrantSubset(c, p, childFrame, parentFrame)

-----------------------------------------------------------------------------
(* Chains. *)
Multi(t) == Cardinality(capTokens[t].signers) > 1
(* granter_frame_peer_id(): a token of several granters is read in the local frame. *)
Frame(t) == IF Multi(t) THEN LocalPeer ELSE CHOOSE p \in capTokens[t].signers : TRUE

(* collect_authority_chain(): the token, its parent, and so on to the root. *)
ParentOf(t) == capTokens[t].parent
Chain[t \in 0..MaxTokens] ==
    IF t \notin DOMAIN capTokens THEN <<>> ELSE <<t>> \o Chain[ParentOf(t)]

(* validate_multi_granter() and the count of valid signatures. *)
Signed(t) ==
    /\ Multi(t) => /\ capTokens[t].parent = NoToken
                   /\ capTokens[t].threshold \in 2..Cardinality(capTokens[t].signers)
    /\ Cardinality(capTokens[t].signed \cap capTokens[t].signers) >= capTokens[t].threshold

(* temporal_validity(). *)
InTime(t) == capTokens[t].expires # Forever => capTokens[t].expires >= now

(* check_caveats(), of a parent and of a child so many links above the leaf. *)
CaveatsHold(p, c, depth) ==
    LET v == capTokens[p].caveats
    IN v # NoCaveat => /\ depth < v.depth
                       /\ capTokens[c].expires # Forever
                       /\ capTokens[c].expires <= capTokens[c].created + v.ttl

(* verify_capability_chain(), link by link from the leaf. *)
LinkHolds(c, p, depth) ==
    /\ capTokens[p].grantee \in capTokens[c].signers
    /\ Covered(capTokens[c].grants, capTokens[p].grants, Frame(c), Frame(p))
    /\ ~Later(capTokens[c].expires, capTokens[p].expires)
    /\ CaveatsHold(p, c, depth)
Verified(t) ==
    LET chain == Chain[t] IN
    /\ Len(chain) <= MaxLinks + 1
    /\ \A i \in DOMAIN chain : Matchable(capTokens[chain[i]].grants) /\ Signed(chain[i]) /\ InTime(chain[i])
    /\ LocalPeer \in capTokens[Last(chain)].signers \cap capTokens[Last(chain)].signed
    /\ \A i \in 1..(Len(chain) - 1) : LinkHolds(chain[i], chain[i + 1], i - 1)

(* is_revoked(): the marker of the root. *)
Accepted(t) == Verified(t) /\ Last(Chain[t]) \notin revoked

Allows(t, r) == \E g \in capTokens[t].grants : GrantAllows(g, Frame(t), r)

-----------------------------------------------------------------------------
CapabilityInit ==
    /\ capTokens = <<>> /\ revoked = {} /\ now = 0
    /\ policy = [p \in Hosts |-> NoPolicy]

MintToken(t) == capTokens' = Append(capTokens, t)

(* _bounded_expiry(): an expiry past the last representable time is none. *)
Bounded(ttl) == IF ttl = Forever \/ now + ttl > TimeMax THEN Forever ELSE now + ttl

(* The earliest of the expiry asked for and of those that limit it. *)
Dated(o, limits) ==
    LET all == ({Bounded(o.ttl)} \cup limits) \ {Forever}
    IN [grants |-> o.grants, expires |-> IF all = {} THEN Forever ELSE Min(all), caveats |-> o.caveats]

(* What a token carries besides who signs it for whom. *)
Token(signers, signed, to, o, parent) ==
    [signers |-> signers, signed |-> signed, threshold |-> Min({2, Cardinality(signers)}),
     grantee |-> to, grants |-> o.grants, parent |-> parent, expires |-> o.expires,
     created |-> now, caveats |-> o.caveats, caller |-> NoToken, ceiling |-> NoPolicy]

(* create_capability_token(): a root, of one granter or of several of whom some have signed. *)
(* One root is issued: tokens of another lineage have no bearing on these. *)
Issue(signers, signed, to, o) ==
    /\ capTokens = <<>>
    /\ MintToken(Token(signers, signed, to, Dated(o, {}), NoToken))
    /\ UNCHANGED <<policy, revoked, now>>

(* A child constructed and signed by a holder for itself or another: nothing is checked yet. *)
(* Only children of a token that verifies are built: no other can verify.                    *)
Derive(p, by, to, o) ==
    /\ Len(Chain[p]) <= MaxLinks /\ Verified(p)
    /\ MintToken(Token({by}, {by}, to, Dated(o, {}), p))
    /\ UNCHANGED <<policy, revoked, now>>

(* request: within the caller's grants and the policy, both read in the local frame. *)
Request(c, o) ==
    LET to == capTokens[c].grantee
        entry == policy[to]
        limits == {capTokens[c].expires} \cup IF entry = NoPolicy THEN {} ELSE {Bounded(entry.ttl)}
    IN /\ Accepted(c) /\ Matchable(o.grants)
       /\ Covered(o.grants, capTokens[c].grants, LocalPeer, LocalPeer)
       /\ entry # NoPolicy => Covered(o.grants, entry.grants, LocalPeer, LocalPeer)
       /\ MintToken([Token({LocalPeer}, {LocalPeer}, to, Dated(o, limits), NoToken)
                    EXCEPT !.caveats = NoCaveat, !.caller = c, !.ceiling = entry])
       /\ UNCHANGED <<policy, revoked, now>>

(* delegate, of a token of the local peer to itself. *)
DelegateToken(p, o) ==
    /\ capTokens[p].grantee = LocalPeer /\ Len(Chain[p]) <= MaxLinks /\ Matchable(o.grants)
    /\ Covered(o.grants, capTokens[p].grants, LocalPeer, LocalPeer)
    /\ MintToken([Token({LocalPeer}, {LocalPeer}, LocalPeer, Dated(o, {capTokens[p].expires}), p) EXCEPT !.caveats = NoCaveat])
    /\ UNCHANGED <<policy, revoked, now>>

(* revoke: is_revoked() reads no marker but a root's, and only a request reads it here. *)
Revoke(t) ==
    /\ capTokens = <<capTokens[t]>> /\ t \notin revoked /\ revoked' = revoked \cup {t}
    /\ UNCHANGED <<capTokens, policy, now>>

(* configure, before there is a token: request reads the entry in one step. *)
Configure(p, entry) ==
    /\ p # LocalPeer /\ capTokens = <<>>
    /\ policy' = [policy EXCEPT ![p] = entry]
    /\ UNCHANGED <<capTokens, revoked, now>>

Tick ==
    /\ now < MaxNow /\ now' = now + 1
    /\ UNCHANGED <<capTokens, policy, revoked>>

Offered == IF Len(capTokens) < MaxTokens THEN {o \in Offers : Sparing(capTokens, o)} ELSE {}
CapabilityNext ==
    \/ \E s, signed \in SUBSET Hosts : \E to \in Hosts, o \in Offered :
            LocalPeer \in s /\ signed \subseteq s /\ Issue(s, signed, to, o)
    \/ \E p \in DOMAIN capTokens : \E by, to \in Hosts : \E o \in Offered : Derive(p, by, to, o)
    \/ \E t \in DOMAIN capTokens : \E o \in Offered : Request(t, o) \/ DelegateToken(t, o)
    \/ \E t \in DOMAIN capTokens : Revoke(t)
    \/ \E p \in Hosts, entry \in Policies : Configure(p, entry)
    \/ Tick

CapabilitySpec == CapabilityInit /\ [][CapabilityNext]_capabilityVars

-----------------------------------------------------------------------------
Ancestors(t) == {Chain[t][i] : i \in 2..Len(Chain[t])}

(***************************************************************************)
(* A token that verifies allows nothing that a token above it does not, as *)
(* each is judged in the frame of its own granter, and outlives none; one  *)
(* minted by request is within its caller's grants and within the policy   *)
(* of the time, and does not outlive the caller's token                    *)
(* (verify_capability_chain(), check_resource_scope(), _handle_request()). *)
(***************************************************************************)
NeverMore ==
    \A t \in DOMAIN capTokens :
        /\ Verified(t) => \A a \in Ancestors(t) :
                /\ ~Later(capTokens[t].expires, capTokens[a].expires)
                /\ \A r \in Requests : Allows(t, r) => Allows(a, r)
        /\ capTokens[t].caller # NoToken =>
                /\ ~Later(capTokens[t].expires, capTokens[capTokens[t].caller].expires)
                /\ \A r \in Requests : Allows(t, r) =>
                        /\ \E g \in capTokens[capTokens[t].caller].grants : GrantAllows(g, LocalPeer, r)
                        /\ capTokens[t].ceiling # NoPolicy => \E g \in capTokens[t].ceiling.grants : GrantAllows(g, LocalPeer, r)

=============================================================================
