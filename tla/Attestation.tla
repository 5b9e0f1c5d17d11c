------------------------------ MODULE Attestation ------------------------------
(***************************************************************************)
(* Attestations and their liveness: attestation.py.                        *)
(*                                                                         *)
(* An attestation is known by its place in A, the sequence of the ones in  *)
(* the content store; each entry has its content (is), whether the tree    *)
(* binds it, and who signed it.  A content refers to an attestation by its *)
(* hash, so only to an earlier one.  Hashes are ordered as the entries, or *)
(* the other way round.                                                    *)
(***************************************************************************)
EXTENDS Naturals, Sequences, FiniteSets, FiniteSetsExt, SequencesExt

CONSTANTS Nothing,   \* no attestation is superseded, no cached value, no configuration
          Forever    \* an expiry later than every time

VARIABLES atts, now, descending

(* make_attestation(): the content of an attestation nobody has signed yet. *)
Content(kind, by, of, sup, window, body) ==
    [kind |-> kind, by |-> by, of |-> of, sup |-> sup,
     from |-> window[1], until |-> window[2], body |-> body]

(* The content store and the tree: an equal content is the same attestation. *)
Place(A, c) == Min({i \in DOMAIN A : A[i].is = c} \cup {Len(A) + 1})
Stored(A, c) ==
    IF Place(A, c) \in DOMAIN A THEN A ELSE Append(A, [is |-> c, bound |-> FALSE, signed |-> {}])
Bound(A, c, signers) ==
    LET i == Place(A, c)
    IN [Stored(A, c) EXCEPT ![i].bound = TRUE, ![i].signed = @ \cup signers]

(* The order of the hashes. *)
Smallest(S) == IF S = {} THEN Nothing ELSE IF descending THEN Max(S) ELSE Min(S)
Greatest(S) == IF S = {} THEN Nothing ELSE IF descending THEN Min(S) ELSE Max(S)

(* find_attestations_targeting(), _by(), _with_supersedes(), find_revocations_for(): bound ones. *)
InTree(A) == {i \in DOMAIN A : A[i].bound}
Targeting(A, x, kind) == {i \in InTree(A) : A[i].is.of = x /\ A[i].is.kind = kind}
Superseding(A, a) == {i \in InTree(A) : A[i].is.sup = a}
RevocationsOf(A, a) == Targeting(A, a, "revocation")

-----------------------------------------------------------------------------
(* is_attestation_live().  `busy` are the attestations whose liveness is being decided. *)
OutOfTime(A, a, t) == t >= A[a].is.until \/ t < A[a].is.from

RECURSIVE IsLive(_, _, _, _), IsSuperseded(_, _, _, _)

IsSelfRevoked(A, a, t, busy) ==
    \E r \in RevocationsOf(A, a) \ busy :
        A[r].is.by = A[a].is.by /\ IsLive(A, r, t, busy \cup {r})

IsTerminallyDead(A, a, t, busy) == OutOfTime(A, a, t) \/ IsSelfRevoked(A, a, t, busy)

IsSupersededMutant(A, a, t, busy) ==
    \E s \in Superseding(A, a) \ busy : IsLive(A, s, t, busy \cup {s})
IsSuperseded(A, a, t, busy) ==
    \E s \in Superseding(A, a) \ busy :
        \/ ~IsTerminallyDead(A, s, t, busy \cup {s})
        \/ IsSuperseded(A, s, t, busy \cup {s})

IsLive(A, a, t, busy) == ~IsTerminallyDead(A, a, t, busy) /\ ~IsSuperseded(A, a, t, busy)

Live(A, a, t) == IsLive(A, a, t, {a})

(* find_live_head(): of start and all that supersede it, the live one that starts last. *)
RECURSIVE WithSuccessors(_, _)
WithSuccessors(A, S) ==
    LET more == S \cup UNION {Superseding(A, a) : a \in S}
    IN IF more = S THEN S ELSE WithSuccessors(A, more)

Latest(A, alive) == {a \in alive : \A b \in alive : A[b].is.from <= A[a].is.from}
LiveHead(A, start, t) ==
    Greatest(Latest(A, {a \in WithSuccessors(A, {start}) : Live(A, a, t)}))

(* create, supersede and revoke of the attestation handler: bind what they are given. *)
Created(A, kind, by, of, sup, window, body, signers) ==
    Bound(A, Content(kind, by, of, sup, window, body), signers)
Superseded(A, a, window, body, signers) ==
    Created(A, A[a].is.kind, A[a].is.by, A[a].is.of, a, window, body, signers)
Revoked(A, a, by, signers) ==
    Created(A, "revocation", by, a, Nothing, <<0, Forever>>, Nothing, signers)

(* The handler on its own, for attestations of any kind: a claim, one that supersedes another *)
(* or a revocation, by one of several issuers; at most so many of them, up to so late.        *)
Begin == atts = <<>> /\ now = 0 /\ descending \in BOOLEAN
Step(issuers, windows, most, latest) ==
    \/ /\ Len(atts) < most /\ UNCHANGED <<now, descending>>
       /\ \/ \E by \in issuers, w \in windows : atts' = Created(atts, "claim", by, by, Nothing, w, Nothing, {})
          \/ \E a \in DOMAIN atts, w \in windows : atts' = Superseded(atts, a, w, Nothing, {})
          \/ \E a \in DOMAIN atts, by \in issuers : atts' = Revoked(atts, a, by, {})
    \/ now < latest /\ now' = now + 1 /\ UNCHANGED <<atts, descending>>

-----------------------------------------------------------------------------
(***************************************************************************)
(* is_attestation_live() decides what the comment above it intends: an     *)
(* attestation is dead iff it is out of time or revoked itself, or one     *)
(* that supersedes it, over any number of steps, is neither; a revocation  *)
(* counts while it is live in the same sense.                              *)
(***************************************************************************)
LiveAsIntended ==
    \A t \in {now, now + 1} :
        LET L == {a \in DOMAIN atts : Live(atts, a, t)}
            Standing(a) == /\ ~OutOfTime(atts, a, t)
                           /\ \A r \in RevocationsOf(atts, a) \cap L : atts[r].is.by # atts[a].is.by
        IN L = {a \in DOMAIN atts :
                    \A d \in WithSuccessors(atts, {a}) : (d = a) <=> Standing(d)}
=============================================================================
