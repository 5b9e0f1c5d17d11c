-------------------------------- MODULE Identity --------------------------------
(***************************************************************************)
(* Quorums with their cached signer sets, and the identity handler that    *)
(* certifies controllers and keeps their local capabilities: quorum.py,    *)
(* identity.py.                                                            *)
(*                                                                         *)
(* Every handler runs without an await.  Certificates are internal ones: a *)
(* mode decides only under which path a certificate is bound.  A signature *)
(* bound for an attestation is a valid one.                                *)
(***************************************************************************)
EXTENDS Attestation

CONSTANTS
    Quorums,
    Founding,     \* quorum -> [signers, threshold, mode] of its entity
    Signers,      \* the peers that may sign later
    Envelopes,    \* the sets of peers whose signatures come with an attestation
    Sets,         \* the [signers, threshold] an update or a publication names
    Inputs(_),    \* the [content, signed] offered, for the attestations in the store
    MaxAtts, MaxNow   \* bounds: the attestations besides one revocation, the time

VARIABLES
    quorums,    \* the quorums bound at their canonical path
    cache,      \* quorum -> the cached [signers, threshold], or Nothing
    resolving,  \* whether the identity-resolved resolver is registered
    config,     \* the peer-config [quorum, grants], or Nothing
    caps,       \* the controllers with a bound peer-to-controller capability
    settled,    \* a configuration just succeeded and nothing happened since
    unheeded    \* the quorums whose signer set changed by what invalidates no cache

vars == <<atts, now, descending, quorums, cache, resolving, config, caps, settled, unheeded>>

Always == <<0, Forever>>
Is(A, a) == A[a].is

Init ==
    /\ atts = <<>> /\ now = 0 /\ descending = FALSE
    /\ quorums = {} /\ cache = [q \in Quorums |-> Nothing] /\ resolving = FALSE
    /\ config = Nothing /\ caps = {} /\ settled = FALSE /\ unheeded = {}

-----------------------------------------------------------------------------
(* Controllers. *)

(* identity_confers_function(): a certificate, or a rotation of one. *)
RECURSIVE Confers(_, _)
Confers(A, a) ==
    CASE Is(A, a).kind = "cert" -> Is(A, a).body.function = "controller"
      [] Is(A, a).kind \in {"handoff", "recovery"} -> Confers(A, Is(A, a).body.target)
      [] OTHER -> FALSE

(* _enumerate_live_controller_certs(), _live_top_level_controllers_for_quorum(). *)
ControllerCerts(A, q, t) == {a \in InTree(A) : Is(A, a).by = q /\ Confers(A, a) /\ Live(A, a, t)}
Controllers(A, q, t) == {Is(A, a).of : a \in ControllerCerts(A, q, t)}

(* walk_cert_chain_to_current_controller(): what the identity-resolved resolver returns. *)
Attested(A, a) == IF a = Nothing THEN Nothing ELSE Is(A, a).of
ControllerOf(A, q, t) == Attested(A, Smallest(ControllerCerts(A, q, t)))

-----------------------------------------------------------------------------
(* Signer sets. *)
UpdateHead(A, q, t) == Smallest({LiveHead(A, c, t) : c \in Targeting(A, q, "update")} \ {Nothing})

(* What an entry of a signer set stands for: itself, when there is nothing to resolve it to. *)
Else(x, y) == IF x = Nothing THEN y ELSE x
Resolved(A, t, mode, s) == IF mode = "concrete" THEN s ELSE Else(ControllerOf(A, s, t), s)

(* The set an update names, or the founding one. *)
Named(A, head, q) ==
    IF head # Nothing /\ Is(A, head).kind = "update" THEN Is(A, head).body ELSE Founding[q]
Resolve(A, t, mode, set) ==
    [signers |-> {Resolved(A, t, mode, s) : s \in set.signers}, threshold |-> set.threshold]

(* current_signer_set() without the cache. *)
Fresh(A, t, q) == Resolve(A, t, Founding[q].mode, Named(A, UpdateHead(A, q, t), q))

Available(q) == q \in quorums /\ (Founding[q].mode = "concrete" \/ resolving)

(* The cache after current_signer_set(q), and what it returns; Nothing when it raises. *)
Looked(c, A, q) == IF c[q] = Nothing /\ Available(q) THEN [c EXCEPT ![q] = Fresh(A, now, q)] ELSE c
Known(c, A, q) == Looked(c, A, q)[q]

(* verify_k_of_n_signatures(): the resolver is applied to every entry of the set it is given. *)
SlotKeys(A, mode, s) == IF mode = "concrete" THEN {s} ELSE {ControllerOf(A, s, now)} \ {Nothing}
KofN(A, a, set, mode) ==
    LET keys == UNION {SlotKeys(A, mode, s) : s \in set.signers}
    IN Cardinality(keys \cap A[a].signed) >= set.threshold

(* _validate_quorum_update(), _validate_quorum_publish(). *)
BySet(A, a, set, mode) == set # Nothing /\ KofN(A, a, set, mode)
ByCurrent(c, A, a, q) == BySet(A, a, Known(c, A, q), Founding[q].mode)
BySnapshot(A, a) ==
    LET prev == Is(A, a).sup
    IN Is(A, prev).kind = "publish" /\ KofN(A, a, Is(A, prev).body, "concrete")

IsQuorumEvent(A, a) == Is(A, a).kind \in {"update", "publish"} /\ Is(A, a).by = Is(A, a).of
OnSnapshot(A, a) == Is(A, a).kind = "publish" /\ Is(A, a).sup # Nothing

(* process_quorum_attestation(): accept, and the cache after it. *)
Accepts(c, A, a) ==
    IsQuorumEvent(A, a) /\ IF OnSnapshot(A, a) THEN BySnapshot(A, a) ELSE ByCurrent(c, A, a, Is(A, a).by)
Dropped(c, q) == [c EXCEPT ![q] = Nothing]
Heeded(c, A, a) ==
    IF Accepts(c, A, a) THEN Dropped(c, Is(A, a).by)
    ELSE IF IsQuorumEvent(A, a) /\ ~OnSnapshot(A, a) THEN Looked(c, A, Is(A, a).by)
    ELSE c

(* What a step leaves unheeded: the contract says that `told` have their cached value dropped. *)
Leaves(A, t, c, told) ==
    unheeded' = {q \in Quorums \ told :
                    c[q] # Nothing /\ (q \in unheeded \/ Fresh(A, t, q) # Fresh(atts, now, q))}
Told(c, A, a) == IF Accepts(c, A, a) THEN {Is(A, a).by} ELSE {}

-----------------------------------------------------------------------------
(* Verification of certificates. *)

(* _identity_find_authorizing(), walk_attesting_chain(); <<>> when no chain ends at a quorum. *)
Authorizing(A, p) ==
    LET live == {a \in Targeting(A, p, "cert") : Live(A, a, now)}
    IN IF live = {} THEN Nothing ELSE Smallest(live)

RECURSIVE Walk(_, _)
Walk(A, chain) ==
    LET by == Is(A, Last(chain)).by
        above == Authorizing(A, by)
    IN IF by \in quorums THEN chain
       ELSE IF above = Nothing \/ above \in Range(chain) THEN <<>>
       ELSE Walk(A, Append(chain, above))

(* identity_is_authorized_revoker(): the quorum at the end of the chain. *)
MayRevoke(A, revoker, a) ==
    LET chain == Walk(A, <<a>>) IN chain # <<>> /\ Is(A, Last(chain)).by = revoker
Standing(A, a) ==
    /\ Live(A, a, now)
    /\ \A r \in RevocationsOf(A, a) : Live(A, r, now) => ~MayRevoke(A, Is(A, r).by, a)

(* identity_topology_for(). *)
Topology(A, a) ==
    CASE Is(A, a).kind = "cert" /\ Confers(A, a) /\ Is(A, a).by \in quorums -> "k-of-n"
      [] Is(A, a).kind = "cert" /\ ~(Confers(A, a) /\ Is(A, a).by \in quorums) -> "single"
      [] Is(A, a).kind = "handoff" -> "dual"
      [] Is(A, a).kind \in {"recovery", "retirement"} -> "k-of-n"

(* identity_verify_cert(). *)
RECURSIVE VerifyCert(_, _, _)
VerifyCert(c, A, a) ==
    LET chain == Walk(A, <<a>>)
    IN /\ Standing(A, a)
       /\ CASE Topology(A, a) = "k-of-n" -> Is(A, a).by \in Quorums /\ ByCurrent(c, A, a, Is(A, a).by)
            [] Topology(A, a) = "dual" -> {Is(A, Is(A, a).body.target).of, Is(A, a).of} \subseteq A[a].signed
            [] Topology(A, a) = "single" ->
                    /\ Is(A, a).by \in A[a].signed /\ chain # <<>>
                    /\ \A i \in 2..Len(chain) : VerifyCert(c, A, chain[i])

(* The quorums whose signer sets it reads on the way. *)
RECURSIVE Reads(_, _)
Reads(A, a) ==
    LET chain == Walk(A, <<a>>)
    IN CASE ~Standing(A, a) \/ Topology(A, a) = "dual" -> {}
         [] Standing(A, a) /\ Topology(A, a) = "k-of-n" -> {Is(A, a).by} \cap Quorums
         [] Standing(A, a) /\ Topology(A, a) = "single" ->
                IF Is(A, a).by \notin A[a].signed THEN {}
                ELSE UNION {Reads(A, chain[i]) : i \in 2..Len(chain)}
ReadAll(c, A, S) == [q \in Quorums |-> IF q \in S THEN Known(c, A, q) ELSE c[q]]

(* The peer-to-controller capability of p is bound, with its signature, or unbound. *)
Issued(K, p)    == K \cup {p}
Withdrawn(K, p) == K \ {p}

(* _cascade_revoke_caps_for_grantee(): only certificates of controllers have capabilities. *)
Cascade(K, i) == IF i.body.function = "controller" THEN Withdrawn(K, i.of) ELSE K

(* _apply_post_validation_side_effects(). *)
Effects(A, a, K) ==
    LET i == Is(A, a)
    IN CASE i.kind = "cert" ->
              IF Confers(A, a) /\ i.by \in quorums /\ config # Nothing /\ config.grants
              THEN Issued(K, i.of) ELSE K
         [] i.kind = "retirement" ->
              IF Is(A, i.body.target).kind = "cert" /\ Confers(A, i.body.target)
              THEN Withdrawn(K, Is(A, i.body.target).of) ELSE K
         [] OTHER -> K

-----------------------------------------------------------------------------
(* Quorum operations. *)
Fits(A) ==
    /\ Cardinality({a \in DOMAIN A : Is(A, a).kind # "revocation"}) <= MaxAtts
    /\ Len(A) <= MaxAtts + 1

(* create of the quorum handler: the threshold is within the signers. *)
Create(q) ==
    /\ Founding[q].threshold \in 1..Cardinality(Founding[q].signers)
    /\ q \notin quorums /\ quorums' = quorums \cup {q}

(* create_quorum of the identity handler: the first one becomes the configuration. *)
CreateQuorum(q, grants) ==
    /\ Create(q)
    /\ config' = IF config = Nothing THEN [quorum |-> q, grants |-> grants] ELSE config
    /\ settled' = FALSE
    /\ UNCHANGED <<atts, now, descending, cache, resolving, caps, unheeded>>

UpdateMutant(q, set, sup, signers) ==
    LET c == Content("update", q, q, sup, Always, set)
        A == Bound(atts, c, signers)
        done == Heeded(cache, A, Place(atts, c))
    IN /\ q \in quorums /\ Fits(A)
       /\ atts' = A /\ cache' = done
       /\ Leaves(A, now, done, {q}) /\ settled' = FALSE
       /\ UNCHANGED <<now, descending, quorums, resolving, config, caps>>
(* update: the write, the hook on it, and the handler's own invalidation. *)
Update(q, set, sup, signers) ==
    LET c == Content("update", q, q, sup, Always, set)
        A == Bound(atts, c, signers)
        done == [Heeded(cache, A, Place(atts, c)) EXCEPT ![q] = Nothing]
    IN /\ q \in quorums /\ Fits(A)
       /\ atts' = A /\ cache' = done
       /\ Leaves(A, now, done, {q}) /\ settled' = FALSE
       /\ UNCHANGED <<now, descending, quorums, resolving, config, caps>>

(* publish: a first one names the set in effect, a later one whatever it says. *)
Publish(q, set, sup, signers) ==
    LET c == Content("publish", q, q, sup, Always, set)
        A == Bound(atts, c, signers)
        read == IF sup = Nothing THEN Looked(cache, atts, q) ELSE cache
        done == [Heeded(read, A, Place(atts, c)) EXCEPT ![q] = Nothing]
    IN /\ q \in quorums /\ Fits(A)
       /\ sup = Nothing => Known(cache, atts, q) = set
       /\ atts' = A /\ cache' = done
       /\ Leaves(A, now, done, {q}) /\ settled' = FALSE
       /\ UNCHANGED <<now, descending, quorums, resolving, config, caps>>

(* verify of the quorum handler: reads the signer set. *)
Verify(q) ==
    /\ cache' = Looked(cache, atts, q) /\ cache' # cache
    /\ unheeded' = unheeded \ {q}
    /\ UNCHANGED <<atts, now, descending, quorums, resolving, config, caps, settled>>

-----------------------------------------------------------------------------
(* What arrives in the tree by itself: create, supersede and revoke of the attestation handler, *)
(* synchronised writes.  Only a write under a quorum's event path runs the quorum hook.         *)
Arrives(A, a, event) ==
    LET done == IF event THEN Heeded(cache, A, a) ELSE cache
    IN /\ Fits(A) /\ A # atts
       /\ atts' = A /\ cache' = done
       /\ Leaves(A, now, done, IF event THEN Told(cache, A, a) ELSE {}) /\ settled' = FALSE
       /\ UNCHANGED <<now, descending, quorums, resolving, config, caps>>

Arrive(c, signers, event) == Arrives(Bound(atts, c, signers), Place(atts, c), event)
Supersede(a, body, signers) ==
    LET A == Superseded(atts, a, Always, body, signers)
    IN Arrives(A, Place(atts, Content(Is(atts, a).kind, Is(atts, a).by, Is(atts, a).of, a, Always, body)), FALSE)
Revoke(a, by, signers) == Arrives(Revoked(atts, a, by, signers), Nothing, FALSE)

Sign(a, p) ==
    /\ p \notin atts[a].signed
    /\ atts' = [atts EXCEPT ![a].signed = @ \cup {p}]
    /\ settled' = FALSE
    /\ UNCHANGED <<now, descending, quorums, cache, resolving, config, caps, unheeded>>

-----------------------------------------------------------------------------
(* Identity operations. *)

(* create_attestation, supersede_attestation: of identity kinds, nothing is verified here. *)
Write(c, signers) ==
    LET A == Bound(atts, c, signers)
        a == Place(atts, c)
    IN /\ c.kind \in {"cert", "handoff", "recovery", "retirement"}
       /\ Fits(A) /\ atts' = A
       /\ caps' = Effects(A, a, caps)
       /\ Leaves(A, now, cache, {}) /\ settled' = FALSE
       /\ UNCHANGED <<now, descending, quorums, cache, resolving, config>>

Preserves(c) ==
    \/ Is(atts, c.sup).kind = "cert"
    \/ c.by = Is(atts, c.sup).by /\ c.of = Is(atts, c.sup).of

CreateAttestation(c, signers) == Write(c, signers)
SupersedeAttestation(c, signers) == c.sup # Nothing /\ Preserves(c) /\ Write(c, signers)

(* revoke_attestation: a revocation in the name of the attester, then the cascade. *)
RevokeAttestation(a) ==
    LET A == Revoked(atts, a, Is(atts, a).by, {})
        i == Is(atts, a)
    IN /\ i.kind = "cert" /\ Fits(A) /\ atts' = A
       /\ caps' = Cascade(caps, i)
       /\ Leaves(A, now, cache, {}) /\ settled' = FALSE
       /\ UNCHANGED <<now, descending, quorums, cache, resolving, config>>

(* process_attestation: what does not verify is unbound. *)
Processed(a, ok, K, done, told) ==
    LET A == IF ok THEN atts ELSE [atts EXCEPT ![a].bound = FALSE]
    IN /\ atts' = A /\ cache' = done
       /\ caps' = IF ok THEN K ELSE caps
       /\ Leaves(A, now, done, told) /\ settled' = FALSE
       /\ UNCHANGED <<now, descending, quorums, resolving, config>>
Process(a) ==
    \/ /\ Is(atts, a).kind \in {"update", "publish"}
       /\ Processed(a, Accepts(cache, atts, a), caps, Heeded(cache, atts, a), Told(cache, atts, a))
    \/ /\ Is(atts, a).kind \notin {"update", "publish", "revocation"}
       /\ Processed(a, VerifyCert(cache, atts, a), Effects(atts, a, caps),
                    ReadAll(cache, atts, Reads(atts, a)), {})

(* _reconcile_stale_peer_to_controller_caps(). *)
ReconciledMutant(K, live) == K
Reconciled(K, live) == K \cap live

(* configure, phase by phase; a certificate that does not verify ends it with nothing written. *)
Configure(q, grants) ==
    LET certs == ControllerCerts(atts, q, now)
        live == Controllers(atts, q, now)
        ok == \A a \in certs : VerifyCert(cache, atts, a)
        done == ReadAll(cache, atts, UNION {Reads(atts, a) : a \in certs})
    IN /\ q \in quorums
       /\ cache' = done /\ Leaves(atts, now, done, {})
       /\ IF ok
          THEN /\ resolving' = TRUE
               /\ caps' = Reconciled(IF grants THEN caps \cup live ELSE caps, live)
               /\ config' = [quorum |-> q, grants |-> grants]
               /\ settled' = TRUE
          ELSE UNCHANGED <<resolving, caps, config, settled>>
       /\ UNCHANGED <<atts, now, descending, quorums>>

Tick ==
    /\ now < MaxNow /\ now' = now + 1
    /\ Leaves(atts, now', cache, {}) /\ settled' = FALSE
    /\ UNCHANGED <<atts, descending, quorums, cache, resolving, config, caps>>

(* shutdown() and initialize(): only the concrete resolver is registered anew. *)
Restart ==
    /\ cache' = [q \in Quorums |-> Nothing] /\ resolving' = FALSE
    /\ unheeded' = {} /\ settled' = FALSE
    /\ UNCHANGED <<atts, now, descending, quorums, config, caps>>

Next ==
    \/ \E q \in Quorums : CreateQuorum(q, TRUE) \/ CreateQuorum(q, FALSE) \/ Verify(q)
    \/ \E q \in Quorums, set \in Sets, signers \in Envelopes :
       \E sup \in {Nothing} \cup {a \in DOMAIN atts : IsQuorumEvent(atts, a)} :
            Update(q, set, sup, signers) \/ Publish(q, set, sup, signers)
    \/ \E i \in Inputs(atts) :
            \/ \E event \in {FALSE, i.content.by = i.content.of} : Arrive(i.content, i.signed, event)
            \/ CreateAttestation(i.content, i.signed) \/ SupersedeAttestation(i.content, i.signed)
    \/ \E a \in DOMAIN atts, set \in Sets :
            Supersede(a, IF IsQuorumEvent(atts, a) THEN set ELSE Is(atts, a).body, {})
    \/ \E a \in DOMAIN atts : Process(a) \/ RevokeAttestation(a) \/ \E by \in Quorums : Revoke(a, by, {})
    \/ \E a \in DOMAIN atts, p \in Signers : Sign(a, p)
    \/ \E q \in Quorums, grants \in BOOLEAN : Configure(q, grants)
    \/ Tick \/ Restart

Spec == Init /\ [][Next]_vars

-----------------------------------------------------------------------------
(***************************************************************************)
(* The cache follows its contract (QuorumExtension): as long as a quorum's *)
(* signer set changed only by the handler's updates and publications and   *)
(* by attestations that were accepted on arrival, the cached set is the    *)
(* one current_signer_set() would compute.                                 *)
(***************************************************************************)
CacheCoherent ==
    \A q \in Quorums : cache[q] # Nothing /\ q \notin unheeded => cache[q] = Fresh(atts, now, q)

(***************************************************************************)
(* Right after a configuration exactly the live controllers of the trusted *)
(* quorum hold a local capability, none without grants to hand out, and    *)
(* each certificate of the quorum carries the signatures of the signer set *)
(* in effect (handle_configure()).                                         *)
(***************************************************************************)
CapsSettled ==
    settled =>
        LET q == config.quorum
            live == Controllers(atts, q, now)
        IN /\ caps \subseteq live /\ (config.grants => caps = live)
           /\ q \notin unheeded => \A a \in ControllerCerts(atts, q, now) :
                    Is(atts, a).kind = "cert" => KofN(atts, a, Fresh(atts, now, q), Founding[q].mode)

=============================================================================
