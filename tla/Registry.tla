------------------------------ MODULE Registry ------------------------------
(***************************************************************************)
(* The name registry (entity_handlers/registry.py): a registry that issues *)
(* bindings of names to peers on request, and a resolver elsewhere that    *)
(* answers names from its pins, from its local names and from that         *)
(* registry.  The resolver reads the registry over the network, one await  *)
(* per read, while the registry goes on registering, renewing and          *)
(* revoking.                                                               *)
(*                                                                         *)
(* A binding is the record of its content, which is what its hash          *)
(* identifies: two issues with the same content are one binding.           *)
(* Signatures are abstracted to their outcome: a request that reaches an   *)
(* action carries its proof, and what the registry issues verifies.        *)
(***************************************************************************)
EXTENDS Integers, FiniteSets, FiniteSetsExt

CONSTANTS Names, Peers, Nonces, Ttls, Policies, Ceiling, Retention, Window,
          MaxNow, MaxIssued, Nothing

(* Lifetimes are numbers. *)
RegistryAssumption ==
    /\ Ttls \subseteq Int /\ Ceiling \in Int
    /\ \A p \in Policies : p.default \in Int /\ p.most \in Int

VARIABLES policy,   \* the issuer policy, or Nothing
          issued,   \* the bindings the registry has issued
          byName,   \* its by-name pointers
          revoked,  \* the bindings with a by-target revocation
          nonces,   \* the requests it has recorded, <<peer, nonce>>
          pending,  \* the head of every (peer, name) queue of manual review
          now,      \* the clock, the same on both sides
          pins,     \* the names the resolver's configuration pins
          local,    \* the names with a local-name pointer
          cache,    \* the issued bindings in its binding store
          signed,   \* the bindings whose signature it holds
          known,    \* the revocations in its tree
          fetch,    \* the resolution waiting for the registry, or Nothing
          answer    \* the answer being given, or Nothing

registry == <<policy, issued, byName, revoked, nonces, pending>>
resolver == <<pins, local, cache, signed, known, fetch, answer>>
registryVars == <<registry, now, resolver>>

RegistryInit ==
    /\ policy = Nothing
    /\ issued = {} /\ revoked = {} /\ nonces = {}
    /\ byName = [n \in Names |-> Nothing]
    /\ pending = [pn \in Peers \X Names |-> Nothing]
    /\ now = 0
    /\ pins = {} /\ local = {}
    /\ cache = {} /\ signed = {} /\ known = {}
    /\ fetch = Nothing /\ answer = Nothing

---------------------------------------------------------------------------
(* Issuing *)

(* A policy must give both ttls, the default no more than the ceiling. *)
SetIssuerPolicy ==
    /\ policy' \in {p \in Policies : p.default <= p.most}
    /\ UNCHANGED <<issued, byName, revoked, nonces, pending, now, resolver>>

Clamp(ttl) == IF policy = Nothing \/ ttl < policy.most THEN ttl ELSE policy.most

(* A name is taken while its pointer leads to a binding nobody revoked. *)
NameIsTaken(n) == byName[n] # Nothing /\ byName[n] \notin revoked

(* Body, signature and by-name pointer are written without an await. *)
IssueBinding(n, p, ttl, old) ==
    LET b == [name |-> n, target |-> p, at |-> now, ttl |-> ttl, supersedes |-> old]
    IN  /\ Cardinality(issued) < MaxIssued
        /\ issued' = issued \cup {b}
        /\ byName' = [byName EXCEPT ![n] = b]

(* Decided requests older than the retention are dropped when the next one *)
(* is queued.                                                              *)
GcDecidedPending ==
    [pn \in DOMAIN pending |->
        IF /\ pending[pn] # Nothing
           /\ pending[pn].status # "review"
           /\ pending[pn].queued <= now - Retention
        THEN Nothing ELSE pending[pn]]

(* What every register-request passes before the policy's mode is looked   *)
(* at: the sender's proof, the replay window and the nonce.                *)
CheckReplay(p, nonce, at) ==
    /\ now - at <= Window /\ at - now <= Window
    /\ <<p, nonce>> \notin nonces

RegisterRequest ==
    \E n \in Names, p \in Peers, nonce \in Nonces, at \in 0 .. MaxNow, asked \in Ttls \cup {Nothing} :
        LET ttl == Clamp(IF asked = Nothing THEN policy.default ELSE asked)
        IN  /\ policy # Nothing
            /\ CheckReplay(p, nonce, at)
            /\ \/ /\ policy.mode = "manual"
                  /\ pending' = [GcDecidedPending EXCEPT
                                   ![<<p, n>>] = [queued |-> now, ttl |-> ttl, status |-> "review"]]
                  /\ UNCHANGED <<issued, byName>>
               \/ /\ policy.mode = "open" \/ (policy.mode = "allowlist" /\ p \in policy.allow)
                  /\ ~NameIsTaken(n)
                  /\ IssueBinding(n, p, ttl, Nothing)
                  /\ UNCHANGED pending
            /\ nonces' = nonces \cup {<<p, nonce>>}
            /\ UNCHANGED <<policy, revoked, now, resolver>>

(* Only the head of a queue can be decided, and only once. *)
Decidable(pn) == pending[pn] # Nothing /\ pending[pn].status = "review"

(* The name may have been taken while the request waited. *)
Approvable(pn) == Decidable(pn) /\ ~NameIsTaken(pn[2])

ApproveRequest ==
    /\ \E pn \in DOMAIN pending :
          /\ Approvable(pn)
          /\ IssueBinding(pn[2], pn[1], pending[pn].ttl, Nothing)
          /\ pending' = [pending EXCEPT ![pn].status = "approved"]
    /\ UNCHANGED <<policy, revoked, nonces, now, resolver>>

DenyRequest ==
    /\ \E pn \in DOMAIN pending :
          /\ Decidable(pn)
          /\ pending' = [pending EXCEPT ![pn].status = "denied"]
    /\ UNCHANGED <<policy, issued, byName, revoked, nonces, now, resolver>>

RevokeRequest ==
    /\ \E b \in issued \ revoked : revoked' = revoked \cup {b}
    /\ UNCHANGED <<policy, issued, byName, nonces, pending, now, resolver>>

(* A renewal re-issues the binding it names, current or not, and points    *)
(* the name at it.  The ttl is the request's, else the policy's, else the  *)
(* old binding's.                                                          *)
RenewRequest ==
    /\ \E b \in issued, asked \in Ttls \cup {Nothing} :
          LET ttl == CASE asked # Nothing  -> asked
                       [] policy # Nothing -> policy.default
                       [] OTHER            -> b.ttl
          IN  IssueBinding(b.name, b.target, Clamp(ttl), b)
    /\ UNCHANGED <<policy, revoked, nonces, pending, now, resolver>>

---------------------------------------------------------------------------
(* Resolving *)

Effective(b) == IF b.ttl < Ceiling THEN b.ttl ELSE Ceiling
Expired(b) == b.at + Effective(b) <= now
Valid(b) == b \in signed /\ b \notin known /\ ~Expired(b)

(* The stored binding the name is answered with: the one issued last. *)
Stored(n) == {b \in cache : b.name = n}
Latest(n) == CHOOSE b \in Stored(n) : \A c \in Stored(n) : c.at <= b.at

Answers(n, b, gone) ==
    answer' = IF Valid(b)
              THEN [name |-> n, from |-> "peer-issued", binding |-> b, at |-> now, gone |-> gone]
              ELSE [name |-> n, from |-> "exhausted"]

(* Pins come first, then the local name, then the registry's binding if    *)
(* the store already has one; only otherwise is the registry asked.        *)
Resolve ==
    /\ fetch = Nothing
    /\ \E n \in Names :
          CASE n \in pins ->
                  /\ answer' = [name |-> n, from |-> "pin"]
                  /\ UNCHANGED fetch
            [] n \in local \ pins ->
                  /\ answer' = [name |-> n, from |-> "local-name"]
                  /\ UNCHANGED fetch
            [] n \notin pins \cup local /\ Stored(n) # {} ->
                  /\ Answers(n, Latest(n), {})
                  /\ UNCHANGED fetch
            [] OTHER ->
                  /\ fetch' = [name |-> n, step |-> "pointer", binding |-> Nothing, gone |-> revoked]
                  /\ UNCHANGED answer
    /\ UNCHANGED <<registry, now, pins, local, cache, signed, known>>

(* A read that fails is the same to the resolver as one that finds nothing. *)
(* First the by-name pointer, and the binding it leads to.                  *)
FetchPointer ==
    /\ fetch # Nothing /\ fetch.step = "pointer"
    /\ \/ /\ fetch' = Nothing
          /\ answer' = [name |-> fetch.name, from |-> "not_found"]
       \/ /\ byName[fetch.name] # Nothing
          /\ fetch' = [fetch EXCEPT !.binding = byName[fetch.name], !.step = "signature"]
          /\ UNCHANGED answer
       \/ /\ byName[fetch.name] # Nothing
          /\ fetch' = Nothing
          /\ answer' = [name |-> fetch.name, from |-> "exhausted"]
    /\ UNCHANGED <<registry, now, pins, local, cache, signed, known>>

FetchSignature ==
    /\ fetch # Nothing /\ fetch.step = "signature"
    /\ signed' \in {signed, signed \cup {fetch.binding}}
    /\ fetch' = [fetch EXCEPT !.step = "revocation"]
    /\ UNCHANGED <<registry, now, pins, local, cache, known, answer>>

(* The revocation of that binding, if the registry has one by now; when    *)
(* the read is lost the resolver goes on without it, and this resolution   *)
(* promises nothing about revocations.                                     *)
ProbedMutant == {}
Probed == IF fetch.binding \in revoked THEN {fetch.binding} ELSE {}

FetchRevocation ==
    /\ fetch # Nothing /\ fetch.step = "revocation"
    /\ \/ /\ known' = known \cup Probed
          /\ fetch' = [fetch EXCEPT !.step = "store"]
       \/ /\ fetch' = [fetch EXCEPT !.step = "store", !.gone = {}]
          /\ UNCHANGED known
    /\ UNCHANGED <<registry, now, pins, local, cache, signed, answer>>

(* The binding enters the store and is validated there. *)
FetchDone ==
    /\ fetch # Nothing /\ fetch.step = "store"
    /\ cache' = cache \cup {fetch.binding}
    /\ Answers(fetch.name, fetch.binding, fetch.gone)
    /\ fetch' = Nothing
    /\ UNCHANGED <<registry, now, pins, local, signed, known>>

(* Binding a local name again supersedes it; the pointer is what counts. *)
Bind(n) ==
    /\ local' = local \cup {n}
    /\ UNCHANGED <<registry, now, pins, cache, signed, known, fetch, answer>>

Unbind(n) ==
    /\ local' = local \ {n}
    /\ UNCHANGED <<registry, now, pins, cache, signed, known, fetch, answer>>

SetResolverConfig ==
    /\ \E pinned \in SUBSET Names : pins' = pinned
    /\ UNCHANGED <<registry, now, local, cache, signed, known, fetch, answer>>

Tick ==
    /\ now < MaxNow
    /\ now' = now + 1
    /\ UNCHANGED <<registry, resolver>>

(* Nothing is awaited between an answer and its return. *)
ReturnAnswer ==
    /\ answer # Nothing
    /\ answer' = Nothing
    /\ UNCHANGED <<registry, now, pins, local, cache, signed, known, fetch>>

Step ==
    \/ SetIssuerPolicy \/ RegisterRequest \/ ApproveRequest \/ DenyRequest
    \/ RevokeRequest \/ RenewRequest
    \/ Resolve \/ FetchPointer \/ FetchSignature
    \/ FetchRevocation \/ FetchDone
    \/ SetResolverConfig
    \/ \E n \in Names : Bind(n) \/ Unbind(n)
    \/ Tick

RegistryNext == ReturnAnswer \/ (answer = Nothing /\ Step)

RegistrySpec == RegistryInit /\ [][RegistryNext]_registryVars

---------------------------------------------------------------------------

(* An answer that came from the registry is within the lifetime both sides *)
(* allow, and a binding already revoked when the resolution began is never *)
(* the answer, although the revocation is read several exchanges after the *)
(* pointer (_peer_issued_resolve step 3, _validate); a resolution whose    *)
(* revocation read failed, and one served from the store, promise only the *)
(* lifetime.                                                               *)
AnswersHold ==
    (IF answer = Nothing THEN FALSE ELSE answer.from = "peer-issued") =>
        /\ answer.binding \notin answer.gone
        /\ answer.at < answer.binding.at + answer.binding.ttl
        /\ answer.at < answer.binding.at + Ceiling

=============================================================================
