---------------------------- MODULE MCAuthority ----------------------------
(* Who may do what: roles, capabilities, attestations, and the identity    *)
(* handler on quorums.  The four share no state in the code, so a run      *)
(* takes one of them, `part`, and the others stand still: roles and        *)
(* capabilities, which this module extends, or another part, whose         *)
(* variables are x1, x2, ...                                               *)
EXTENDS Role, Capability, TLC

CONSTANTS Unused, Nothing,
          p1, p2,                     \* peers
          q1, q2, s1, s2, c1, c2      \* quorums, signers and controllers

VARIABLES part, x1, x2, x3, x4, x5, x6, x7, x8, x9, x10

others == <<part, x1, x2, x3, x4, x5, x6, x7, x8, x9, x10>>
all    == <<vars, capabilityVars, others>>

(***************************************************************************)
(* Two peers, two roles, two levels of grants.                             *)
(***************************************************************************)
InOrder == <<p1, p2>>
Holders == {[p \in Peers |-> IF p = p1 THEN 2 ELSE 1]}
Mints   == [n \in 0..2 |-> <<1, 3, 2>>[n + 1]]

(***************************************************************************)
(* Grants that vary in one dimension at a time, over the local peer l and  *)
(* another, q; every pair of grants without a limit of time, and longer    *)
(* lineages of timed tokens.                                               *)
(***************************************************************************)
Scope(inc, exc) == [include |-> inc, exclude |-> exc]
Whole == Scope({Star}, {})
Full  == [handlers |-> Whole, operations |-> Whole, peers |-> {Whole},
          resources |-> Scope({Anything}, {})]

Patterns == {Star, <<"a">>, <<"a", "*">>, <<"/", "*", "a", "*">>, <<"/", "q", "a", "*">>}
Excludes == {<<"a", "b">>, <<"/", "q", "a", "*">>, <<"*", "b">>}
ByResource ==
    {[Full EXCEPT !.resources = Scope({p}, {})] : p \in Patterns}
    \cup {[Full EXCEPT !.resources = Scope({<<"a", "*">>}, {e})] : e \in Excludes}
    \cup {[Full EXCEPT !.resources = Scope({<<"a">>, <<"/", "q", "*">>}, {})]}
ByHandler ==
    {[Full EXCEPT !.handlers = Scope({<<"t", "*">>}, e)] : e \in {{}, {<<"t", "x">>}}}
ByOperation ==
    {[Full EXCEPT !.operations = s] : s \in {Scope({<<"get">>}, {}), Scope({Star}, {<<"put">>})}}
ByPeer ==
    {[Full EXCEPT !.peers = s] : s \in {{}, {Scope({<<"q">>}, {})}, {Scope({Star}, {<<"q">>})}}}

Offer(gs, ttl, caveats) == [grants |-> gs, ttl |-> ttl, caveats |-> caveats]
Once  == [depth |-> 1, ttl |-> 2]
Plain == {Offer({g}, Forever, Nothing) :
              g \in ByResource \cup ByHandler \cup ByOperation \cup ByPeer \cup {Full}}
         \cup {Offer({[Full EXCEPT !.resources = Scope({<<"a">>}, {})],
                      [Full EXCEPT !.operations = Scope({<<"get">>}, {})]}, Forever, Nothing)}
Timed == {Offer({Full}, 1, Nothing), Offer({Full}, 2, Once), Offer({Full}, 7, Nothing)}
Limited(t) == t.expires # Forever
Sayings == Plain \cup Timed
Lineages(ts, o) ==
    \/ ts = << >>
    \/ Len(ts) = 1 /\ o \in IF Limited(ts[1]) THEN Timed ELSE Plain
    \/ Len(ts) = 2 /\ Limited(ts[1]) /\ o \in Timed

TwoHosts == {"l", "q"}
Words    == {"/", "*", "never-match", "l", "q", "a", "b", "t", "x", "get", "put"}
Entries  == {Nothing, [grants |-> {[Full EXCEPT !.resources = Scope({<<"a", "*">>}, {<<"a", "b">>})]},
                       ttl |-> 6]}
Asked    == [handler : {<<"t">>, <<"t", "x">>}, operation : {<<"get">>, <<"put">>},
             peer : {<<"q">>},
             resource : {<<"/", p, "a">> : p \in TwoHosts} \cup {<<"/", "q", "a", "b">>}]

(***************************************************************************)
(* Claims, superseded and revoked by two issuers, at most four of them.    *)
(***************************************************************************)
A == INSTANCE Attestation WITH atts <- x1, now <- x2, descending <- x3, Forever <- 9
Windows == {<<0, 9>>, <<1, 9>>, <<0, 2>>}

(***************************************************************************)
(* A quorum, controllers it certifies, an agent one of them certifies,     *)
(* rotations, retirements, and quorum events as they arrive from elsewhere.*)
(***************************************************************************)
Founded ==
    (q1 :> [signers |-> {s1}, threshold |-> 1, mode |-> "concrete"]) @@
    (q2 :> [signers |-> {q1}, threshold |-> 1, mode |-> "identity-resolved"])
Said(kind, by, of, sup, until, body) ==
    [kind |-> kind, by |-> by, of |-> of, sup |-> sup, from |-> 0, until |-> until, body |-> body]
SignedBy(c, by) == [content |-> c, signed |-> by]
Controller(p, sup, until) == Said("cert", q1, p, sup, until, [function |-> "controller"])
Arriving(atts) ==
    LET certs == {a \in DOMAIN atts : atts[a].is.kind = "cert"}
    IN   {SignedBy(Controller(c1, Nothing, 9), {s1}),
          SignedBy(Said("update", q1, q1, Nothing, 9, [signers |-> {s2}, threshold |-> 1]), {s1})}
    \cup UNION {{SignedBy(Said("cert", c1, s2, Nothing, 9, [function |-> "agent"]), {c1}),
                 SignedBy(Controller(c2, a, 1), {s2}),
                 SignedBy(Said("handoff", q1, c2, a, 9, [target |-> a]), {c1, c2}),
                 SignedBy(Said("retirement", q1, c2, a, 9, [target |-> a]), {s1})} : a \in certs}

Founders  == {q1}
Newcomers == {s2}
Envelopes == {{s1}}
Sets      == {[signers |-> {s2}, threshold |-> 1]}

D == INSTANCE Identity WITH
        Forever <- 9, Quorums <- Founders, Founding <- Founded, Signers <- Newcomers,
        Inputs <- Arriving, MaxAtts <- 2, MaxNow <- 1,
        atts <- x1, now <- x2, descending <- x3, quorums <- x4, cache <- x5,
        resolving <- x6, config <- x7, caps <- x8, settled <- x9, unheeded <- x10

ASSUME RoleAssumption /\ CapabilityAssumption

-----------------------------------------------------------------------------
(* The other parts leave a context without exclusions. *)
Apart(name) == part = name /\ excluded = {}

AuthorityInit ==
    /\ Init /\ CapabilityInit
    /\ \/ /\ part = "role"
          /\ x1 = Unused /\ x2 = Unused /\ x3 = Unused /\ x4 = Unused /\ x5 = Unused
          /\ x6 = Unused /\ x7 = Unused /\ x8 = Unused /\ x9 = Unused /\ x10 = Unused
       \/ /\ Apart("capability")
          /\ x1 = Unused /\ x2 = Unused /\ x3 = Unused /\ x4 = Unused /\ x5 = Unused /\ x6 = Unused /\ x7 = Unused /\ x8 = Unused /\ x9 = Unused /\ x10 = Unused
       \/ /\ Apart("attestation") /\ A!Begin
          /\ x4 = Unused /\ x5 = Unused /\ x6 = Unused /\ x7 = Unused /\ x8 = Unused /\ x9 = Unused /\ x10 = Unused
       \/ Apart("identity") /\ D!Init

AuthorityNext ==
    \/ part = "role" /\ Next /\ UNCHANGED <<capabilityVars, others>>
    \/ part = "capability" /\ CapabilityNext /\ UNCHANGED <<vars, others>>
    \/ /\ part = "attestation" /\ A!Step(Peers, Windows, 4, 2)
       /\ UNCHANGED <<vars, capabilityVars, part, x4, x5, x6, x7, x8, x9, x10>>
    \/ part = "identity" /\ D!Next /\ UNCHANGED <<vars, capabilityVars, part>>

AuthoritySpec == AuthorityInit /\ [][AuthorityNext]_all

(* The roles may be renamed; the order of peers is that of their paths. *)
Symmetry == Permutations(Roles)

-----------------------------------------------------------------------------
(* is_attestation_live() decides what its comment intends (attestation.py).*)
LiveAsIntended == part = "attestation" => A!LiveAsIntended

(* The cached signer set is the current one (quorum.py). *)
CacheCoherent == part = "identity" => D!CacheCoherent

(* A configuration leaves exactly the live controllers with a capability   *)
(* (identity.py handle_configure).                                         *)
CapsSettled == part = "identity" => D!CapsSettled
=============================================================================
