--------------------------- MODULE Derived_proofs ---------------------------
(***************************************************************************)
(* Proofs about what is looked up or computed from the tree: the answers   *)
(* of Registry, for any names, peers, policies and lifetimes, the results  *)
(* of Compute, for any subgraphs, expressions and limits, what the matcher *)
(* of NameGlob decides, for any patterns and names, the file of LocalFiles *)
(* for any contents and times, and where the peers of Signaling meet, for  *)
(* any nodes, pools and lifetimes.                                         *)
(***************************************************************************)
EXTENDS Registry, Compute, NameGlob, LocalFiles, Signaling,
        SequenceTheorems, FiniteSetTheorems, NaturalsInduction, WellFoundedInduction, TLAPS

-----------------------------------------------------------------------------
(* Names.  An answer holds because its resolution carries what had been    *)
(* revoked when it began (FetchKnows) and reads the revocation before it   *)
(* stores the binding.                                                     *)

(* A binding names one of the names, and its lifetime is a number. *)
Proper(b) == b.name \in Names /\ b.at \in Int /\ b.ttl \in Int

RegistryTypeOK ==
    /\ now \in Int
    /\ policy # Nothing => policy.default \in Int /\ policy.most \in Int
    /\ \A b \in issued \cup signed : Proper(b)
    /\ DOMAIN byName = Names /\ DOMAIN pending = Peers \X Names
    /\ \A n \in Names : byName[n] # Nothing => byName[n] \in issued
    /\ \A pn \in Peers \X Names : pending[pn] # Nothing => pending[pn].ttl \in Int

(* A resolution under way: what had been revoked when it began still is,   *)
(* and once the revocation was read the resolver knows of it.              *)
FetchKnows ==
    fetch # Nothing =>
        /\ fetch.name \in Names
        /\ fetch.gone \subseteq revoked
        /\ fetch.step # "pointer" => Proper(fetch.binding)
        /\ fetch.step = "store" /\ fetch.binding \in fetch.gone => fetch.binding \in known

RegistryInv == RegistryTypeOK /\ FetchKnows /\ AnswersHold

LEMMA RegistryInvInit == RegistryInit => RegistryInv
  BY DEF RegistryInit, RegistryInv, RegistryTypeOK, FetchKnows, AnswersHold

LEMMA Clamped ==
    ASSUME RegistryTypeOK, NEW ttl \in Int
    PROVE  Clamp(ttl) \in Int
  BY DEF Clamp, RegistryTypeOK

(* A new binding is dated, and its name leads to it. *)
LEMMA IssueKeeps ==
    ASSUME RegistryTypeOK, NEW n \in Names, NEW p, NEW ttl \in Int, NEW old, IssueBinding(n, p, ttl, old)
    PROVE  /\ \A b \in issued' : b \in issued \/ Proper(b)
           /\ issued \subseteq issued'
           /\ DOMAIN byName' = Names
           /\ \A m \in Names : byName'[m] # Nothing => byName'[m] \in issued'
  <1> DEFINE b == [name |-> n, target |-> p, at |-> now, ttl |-> ttl, supersedes |-> old]
  <1>1. issued' = issued \cup {b} /\ byName' = [byName EXCEPT ![n] = b]
    BY DEF IssueBinding
  <1>2. Proper(b)
    BY DEF RegistryTypeOK, Proper
  <1> HIDE DEF b
  <1> QED BY <1>1, <1>2 DEF RegistryTypeOK

(* What the registry does in between changes none of the resolver's state. *)
LEMMA RegistrySteps ==
    ASSUME RegistryInv, UNCHANGED <<now, resolver>>, revoked \subseteq revoked', RegistryTypeOK'
    PROVE  RegistryInv'
  BY DEF RegistryInv, FetchKnows, AnswersHold, resolver, Proper

LEMMA AnswerKeeps ==
    ASSUME RegistryTypeOK, RegistryAssumption, NEW n, NEW b, NEW gone, Answers(n, b, gone),
           b \in gone => b \in known
    PROVE  AnswersHold'
  <1>1. CASE Valid(b)
    <2>1. answer' = [name |-> n, from |-> "peer-issued", binding |-> b, at |-> now, gone |-> gone]
      BY <1>1 DEF Answers
    <2>2. b \notin gone /\ Proper(b) /\ now < b.at + Effective(b)
      BY <1>1 DEF Valid, Expired, Effective, RegistryTypeOK, Proper, RegistryAssumption
    <2>3. now < b.at + b.ttl /\ now < b.at + Ceiling
      BY <2>2 DEF Effective, Proper, RegistryTypeOK, RegistryAssumption
    <2> QED BY <2>1, <2>2, <2>3 DEF AnswersHold
  <1>2. CASE ~Valid(b)
    <2>1. answer' = [name |-> n, from |-> "exhausted"]
      BY <1>2 DEF Answers
    <2> QED BY <2>1 DEF AnswersHold
  <1> QED BY <1>1, <1>2

LEMMA RegistryInvStep == ASSUME RegistryAssumption PROVE RegistryInv /\ [RegistryNext]_registryVars => RegistryInv'
  <1> SUFFICES ASSUME RegistryInv, [RegistryNext]_registryVars PROVE RegistryInv'
    OBVIOUS
  <1>t. RegistryTypeOK /\ FetchKnows /\ AnswersHold
    BY DEF RegistryInv
  <1>1. CASE SetIssuerPolicy
    <2>1. RegistryTypeOK'
      BY <1>t, <1>1 DEF SetIssuerPolicy, RegistryTypeOK, RegistryAssumption, resolver, Proper
    <2>2. UNCHANGED <<now, resolver>> /\ revoked \subseteq revoked'
      BY <1>1 DEF SetIssuerPolicy
    <2> QED BY <2>1, <2>2, RegistrySteps
  <1>2. CASE RegisterRequest
    <2>0. PICK n \in Names, p \in Peers, nonce \in Nonces, at \in 0 .. MaxNow, asked \in Ttls \cup {Nothing} :
             LET ttl == Clamp(IF asked = Nothing THEN policy.default ELSE asked)
             IN  /\ policy # Nothing
                 /\ CheckReplay(p, nonce, at)
                 /\ \/ /\ policy.mode = "manual"
                       /\ pending' = [GcDecidedPending EXCEPT
                                        ![<<p, n>>] = [queued |-> now, ttl |-> ttl, status |-> "review"]]
                       /\ UNCHANGED <<issued, byName>>
                    \/ /\ policy.mode = "open" \/ (policy.mode = "allowlist" /\ p \in policy.allow)
                       /\ ~NameIsTaken(n)
                       /\ IssueBinding(n, p, ttl, Nothing)
                       /\ UNCHANGED pending
                 /\ nonces' = nonces \cup {<<p, nonce>>}
                 /\ UNCHANGED <<policy, revoked, now, resolver>>
      BY <1>2, Zenon DEF RegisterRequest
    <2> DEFINE ttl == Clamp(IF asked = Nothing THEN policy.default ELSE asked)
               request == [queued |-> now, ttl |-> ttl, status |-> "review"]
    <2>1. /\ policy # Nothing
          /\ \/ /\ pending' = [GcDecidedPending EXCEPT ![<<p, n>>] = request]
                /\ UNCHANGED <<issued, byName>>
             \/ IssueBinding(n, p, ttl, Nothing) /\ UNCHANGED pending
          /\ UNCHANGED <<policy, revoked, now, resolver>>
      BY <2>0
    <2>2. ttl \in Int
      <3>1. (IF asked = Nothing THEN policy.default ELSE asked) \in Int
        BY <1>t, <2>1 DEF RegistryTypeOK, RegistryAssumption
      <3> QED BY <1>t, <3>1, Clamped
    <2>3. CASE pending' = [GcDecidedPending EXCEPT ![<<p, n>>] = request] /\ UNCHANGED <<issued, byName>>
      <3>1. request.ttl \in Int
        BY <2>2
      <3> HIDE DEF request, ttl
      <3>2. /\ DOMAIN pending' = Peers \X Names
            /\ \A pn \in Peers \X Names : pending'[pn] \in {Nothing, pending[pn], request}
        BY <1>t, <2>3 DEF GcDecidedPending, RegistryTypeOK
      <3>3. \A pn \in Peers \X Names : pending'[pn] # Nothing => pending'[pn].ttl \in Int
        BY <1>t, <3>1, <3>2 DEF RegistryTypeOK
      <3> HIDE DEF request
      <3>4. UNCHANGED <<policy, revoked, now, resolver, issued, byName, signed>>
        BY <2>1, <2>3 DEF resolver
      <3>5. RegistryTypeOK'
        BY <1>t, <3>2, <3>3, <3>4 DEF RegistryTypeOK, Proper
      <3> QED BY <3>4, <3>5, RegistrySteps
    <2>4. CASE IssueBinding(n, p, ttl, Nothing) /\ UNCHANGED pending
      <3> HIDE DEF ttl
      <3>1. /\ \A b \in issued' : b \in issued \/ Proper(b)
            /\ issued \subseteq issued' /\ DOMAIN byName' = Names
            /\ \A m \in Names : byName'[m] # Nothing => byName'[m] \in issued'
        BY <1>t, <2>2, <2>4, IssueKeeps
      <3>2. UNCHANGED <<policy, revoked, now, resolver, pending, signed>>
        BY <2>1, <2>4 DEF resolver
      <3>3. RegistryTypeOK'
        BY <1>t, <3>1, <3>2 DEF RegistryTypeOK, Proper
      <3> QED BY <3>2, <3>3, RegistrySteps
    <2> QED BY <2>1, <2>3, <2>4
  <1>3. CASE ApproveRequest
    <2>1. PICK pn \in Peers \X Names :
              /\ pending[pn] # Nothing
              /\ IssueBinding(pn[2], pn[1], pending[pn].ttl, Nothing)
              /\ pending' = [pending EXCEPT ![pn].status = "approved"]
              /\ UNCHANGED <<policy, revoked, nonces, now, resolver>>
      BY <1>t, <1>3 DEF ApproveRequest, Approvable, Decidable, RegistryTypeOK
    <2>2. pn[2] \in Names /\ pending[pn].ttl \in Int
      BY <1>t, <2>1 DEF RegistryTypeOK
    <2>3. /\ \A b \in issued' : b \in issued \/ Proper(b)
          /\ issued \subseteq issued' /\ DOMAIN byName' = Names
          /\ \A m \in Names : byName'[m] # Nothing => byName'[m] \in issued'
      BY <1>t, <2>1, <2>2, IssueKeeps
    <2>4. UNCHANGED <<policy, revoked, now, resolver, signed>>
      BY <2>1 DEF resolver
    <2>5. /\ DOMAIN pending' = Peers \X Names
          /\ \A q \in Peers \X Names : pending'[q] # Nothing => pending'[q].ttl \in Int
      BY <1>t, <2>1, <2>2 DEF RegistryTypeOK
    <2>6. RegistryTypeOK'
      BY <1>t, <2>3, <2>4, <2>5 DEF RegistryTypeOK, Proper
    <2> QED BY <2>4, <2>6, RegistrySteps
  <1>4. CASE DenyRequest
    <2>1. PICK pn \in Peers \X Names :
              /\ pending[pn] # Nothing
              /\ pending' = [pending EXCEPT ![pn].status = "denied"]
              /\ UNCHANGED <<policy, issued, byName, revoked, now, resolver>>
      BY <1>t, <1>4 DEF DenyRequest, Decidable, RegistryTypeOK
    <2>2. /\ DOMAIN pending' = Peers \X Names
          /\ \A q \in Peers \X Names : pending'[q] # Nothing => pending'[q].ttl \in Int
      BY <1>t, <2>1 DEF RegistryTypeOK
    <2>3. UNCHANGED <<policy, issued, byName, revoked, now, resolver, signed>>
      BY <2>1 DEF resolver
    <2>4. RegistryTypeOK'
      BY <1>t, <2>2, <2>3 DEF RegistryTypeOK, Proper
    <2> QED BY <2>3, <2>4, RegistrySteps
  <1>5. CASE RevokeRequest
    <2>1. revoked \subseteq revoked' /\ UNCHANGED <<policy, issued, byName, pending, now, resolver, signed>>
      BY <1>5 DEF RevokeRequest, resolver
    <2>2. RegistryTypeOK'
      BY <1>t, <2>1 DEF RegistryTypeOK, Proper
    <2> QED BY <2>1, <2>2, RegistrySteps
  <1>6. CASE RenewRequest
    <2>1. PICK b \in issued, asked \in Ttls \cup {Nothing} :
             /\ IssueBinding(b.name, b.target, Clamp(CASE asked # Nothing -> asked
                      [] policy # Nothing -> policy.default [] OTHER -> b.ttl), b)
             /\ UNCHANGED <<policy, revoked, pending, now, resolver>>
      BY <1>6 DEF RenewRequest
    <2> DEFINE ttl == CASE asked # Nothing -> asked [] policy # Nothing -> policy.default [] OTHER -> b.ttl
    <2>2. ttl \in Int /\ b.name \in Names
      BY <1>t, <2>1 DEF RegistryTypeOK, RegistryAssumption, Proper
    <2>3. Clamp(ttl) \in Int /\ IssueBinding(b.name, b.target, Clamp(ttl), b)
      BY <1>t, <2>1, <2>2, Clamped
    <2> HIDE DEF ttl
    <2>4. /\ \A c \in issued' : c \in issued \/ Proper(c)
          /\ issued \subseteq issued' /\ DOMAIN byName' = Names
          /\ \A m \in Names : byName'[m] # Nothing => byName'[m] \in issued'
      BY <1>t, <2>2, <2>3, IssueKeeps
    <2>5. UNCHANGED <<policy, revoked, now, resolver, pending, signed>>
      BY <2>1 DEF resolver
    <2>6. RegistryTypeOK'
      BY <1>t, <2>4, <2>5 DEF RegistryTypeOK, Proper
    <2> QED BY <2>5, <2>6, RegistrySteps
  <1>7. CASE Resolve
    <2>0. UNCHANGED <<policy, issued, byName, revoked, pending, now, signed, known>>
      BY <1>7 DEF Resolve, registry
    <2>1. RegistryTypeOK'
      BY <1>t, <2>0 DEF RegistryTypeOK, Proper
    <2>2. CASE \E n \in Names : answer' \in {[name |-> n, from |-> "pin"], [name |-> n, from |-> "local-name"]}
                                /\ UNCHANGED fetch
      <3>1. AnswersHold'
        BY <2>2 DEF AnswersHold
      <3> QED BY <1>t, <2>0, <2>1, <2>2, <3>1 DEF RegistryInv, FetchKnows, Proper
    <2>3. ASSUME NEW n \in Names, Answers(n, Latest(n), {}), UNCHANGED fetch PROVE RegistryInv'
      <3>1. Latest(n) \in {} => Latest(n) \in known
        OBVIOUS
      <3>2. AnswersHold'
        BY <1>t, <2>3, <3>1, AnswerKeeps
      <3> QED BY <1>t, <2>0, <2>1, <2>3, <3>2 DEF RegistryInv, FetchKnows, Proper
    <2>4. ASSUME NEW n \in Names, UNCHANGED answer,
                 fetch' = [name |-> n, step |-> "pointer", binding |-> Nothing, gone |-> revoked]
          PROVE  RegistryInv'
      <3>1. FetchKnows'
        BY <2>0, <2>4 DEF FetchKnows
      <3> QED BY <1>t, <2>1, <2>4, <3>1 DEF RegistryInv, AnswersHold
    <2> QED BY <1>7, <2>2, <2>3, <2>4 DEF Resolve
  <1>8. CASE FetchPointer
    <2>0. fetch # Nothing /\ fetch.name \in Names /\ fetch.step = "pointer"
          /\ UNCHANGED <<policy, issued, byName, revoked, pending, now, signed, known>>
      BY <1>t, <1>8 DEF FetchPointer, registry, FetchKnows
    <2>1. RegistryTypeOK'
      BY <1>t, <2>0 DEF RegistryTypeOK, Proper
    <2>2. CASE fetch' = Nothing /\ answer' \in {[name |-> fetch.name, from |-> "not_found"],
                                                 [name |-> fetch.name, from |-> "exhausted"]}
      <3>1. AnswersHold'
        BY <2>2 DEF AnswersHold
      <3> QED BY <2>1, <2>2, <3>1 DEF RegistryInv, FetchKnows
    <2>3. CASE /\ byName[fetch.name] # Nothing
               /\ fetch' = [fetch EXCEPT !.binding = byName[fetch.name], !.step = "signature"]
               /\ UNCHANGED answer
      <3>1. Proper(byName[fetch.name])
        BY <1>t, <2>0, <2>3 DEF RegistryTypeOK
      <3>2. FetchKnows'
        BY <1>t, <2>0, <2>3, <3>1 DEF FetchKnows, Proper
      <3> QED BY <1>t, <2>1, <2>3, <3>2 DEF RegistryInv, AnswersHold
    <2> QED BY <1>8, <2>2, <2>3 DEF FetchPointer
  <1>9. CASE FetchSignature
    <2>0. /\ fetch # Nothing /\ fetch.name \in Names /\ Proper(fetch.binding) /\ fetch.gone \subseteq revoked
          /\ signed' \subseteq signed \cup {fetch.binding}
          /\ fetch' = [fetch EXCEPT !.step = "revocation"]
          /\ UNCHANGED <<policy, issued, byName, revoked, pending, now, known, answer>>
      BY <1>t, <1>9 DEF FetchSignature, registry, FetchKnows
    <2>1. RegistryTypeOK'
      BY <1>t, <2>0 DEF RegistryTypeOK, Proper
    <2>2. FetchKnows'
      BY <1>t, <2>0 DEF FetchKnows, Proper
    <2> QED BY <1>t, <2>0, <2>1, <2>2 DEF RegistryInv, AnswersHold
  <1>10. CASE FetchRevocation
    <2>0. /\ fetch # Nothing /\ fetch.name \in Names /\ Proper(fetch.binding) /\ fetch.gone \subseteq revoked
          /\ UNCHANGED <<policy, issued, byName, revoked, pending, now, signed, answer>>
      BY <1>t, <1>10 DEF FetchRevocation, registry, FetchKnows
    <2>1. RegistryTypeOK'
      BY <1>t, <2>0 DEF RegistryTypeOK, Proper
    <2>2. CASE known' = known \cup Probed /\ fetch' = [fetch EXCEPT !.step = "store"]
      <3>1. fetch.binding \in fetch.gone => fetch.binding \in known'
        BY <2>0, <2>2 DEF Probed
      <3>2. FetchKnows'
        BY <2>0, <2>2, <3>1 DEF FetchKnows, Proper
      <3> QED BY <1>t, <2>0, <2>1, <3>2 DEF RegistryInv, AnswersHold
    <2>3. CASE fetch' = [fetch EXCEPT !.step = "store", !.gone = {}] /\ UNCHANGED known
      <3>1. FetchKnows'
        BY <2>0, <2>3 DEF FetchKnows, Proper
      <3> QED BY <1>t, <2>0, <2>1, <3>1 DEF RegistryInv, AnswersHold
    <2> QED BY <1>10, <2>2, <2>3 DEF FetchRevocation
  <1>11. CASE FetchDone
    <2>0. /\ fetch.binding \in fetch.gone => fetch.binding \in known
          /\ Answers(fetch.name, fetch.binding, fetch.gone) /\ fetch' = Nothing
          /\ UNCHANGED <<policy, issued, byName, revoked, pending, now, signed>>
      BY <1>t, <1>11 DEF FetchDone, registry, FetchKnows
    <2>1. RegistryTypeOK'
      BY <1>t, <2>0 DEF RegistryTypeOK, Proper
    <2>2. AnswersHold'
      BY <1>t, <2>0, AnswerKeeps
    <2> QED BY <2>0, <2>1, <2>2 DEF RegistryInv, FetchKnows
  <1>12. CASE \/ \E n \in Names : Bind(n) \/ Unbind(n)
              \/ SetResolverConfig \/ UNCHANGED registryVars
    <2>1. UNCHANGED <<registry, now, signed, known, fetch, answer>>
      BY <1>12 DEF Bind, Unbind, SetResolverConfig, registryVars, resolver
    <2> QED BY <1>t, <2>1 DEF registry, RegistryInv, RegistryTypeOK, FetchKnows, AnswersHold, Proper
  <1>13. CASE Tick
    <2>0. now' \in Int /\ UNCHANGED <<policy, issued, byName, revoked, pending, signed, known, fetch, answer>>
      BY <1>t, <1>13 DEF Tick, registry, resolver, RegistryTypeOK
    <2> QED BY <1>t, <2>0 DEF RegistryInv, RegistryTypeOK, FetchKnows, AnswersHold, Proper
  <1>14. CASE ReturnAnswer
    <2>0. answer' = Nothing /\ UNCHANGED <<policy, issued, byName, revoked, pending, signed, known, fetch, now>>
      BY <1>14 DEF ReturnAnswer, registry
    <2> QED BY <1>t, <2>0 DEF RegistryInv, RegistryTypeOK, FetchKnows, AnswersHold, Proper
  <1> QED BY <1>1, <1>2, <1>3, <1>4, <1>5, <1>6, <1>7, <1>8, <1>9, <1>10, <1>11, <1>12, <1>13, <1>14
          DEF RegistryNext, Step

(* A resolved name is within its lifetime, and no revocation that was made *)
(* before the resolution began is missed, whatever is registered, renewed  *)
(* and revoked between its exchanges (registry.py                          *)
(* _peer_issued_resolve()).                                                *)
THEOREM AnswersCorrect == ASSUME RegistryAssumption PROVE RegistrySpec => []AnswersHold
  <1>1. RegistryInv => AnswersHold
    BY DEF RegistryInv
  <1> QED BY <1>1, RegistryInvInit, RegistryInvStep, PTL DEF RegistrySpec

-----------------------------------------------------------------------------
(* Subgraphs.  In a cascade a result may lag behind its expression: then a *)
(* frame on the stack still has the subgraph to look at (InHand), and a    *)
(* result that waits for its store is still what the expression says       *)
(* (ResultsHeld), for nothing the hook writes is read by it (Apart).       *)

FramesOf(r) == {r[i] : i \in 1 .. Len(r)}
IsStack(r) == r \in Seq(FramesOf(r))

(* What a frame of the hook or of a stored result is made of. *)
FrameOK(f) ==
    /\ f.kind = "hook" =>
          /\ f = [kind |-> "hook", todo |-> f.todo, level |-> f.level, opened |-> f.opened]
          /\ \A n \in f.todo : n.sub \in Subs
    /\ f.kind \in {"result", "status"} => f.sub \in Subs
    /\ f.kind = "result" => expr[f.sub] # None

ComputeTypeOK ==
    /\ DOMAIN tree = Paths /\ DOMAIN status = Subs
    /\ expr \in [Subs -> Exprs \cup {None}]
    /\ fresh \subseteq Subs
    /\ \A n \in index : n.sub \in Subs
    /\ IsStack(stack)
    /\ \A f \in FramesOf(stack) : FrameOK(f)

Wanted(s) == s \in fresh /\ status[s] = "active" /\ expr[s] # None
Current(s) == tree[Out[s]] = Evaluate(expr[s])

(* Somewhere in the cascade the subgraph is still looked at, or frozen. *)
InHand(s, frames) ==
    \/ \E f \in frames : f.kind = "hook" /\ \E n \in f.todo : n.sub = s
    \/ \E f \in frames : f.kind \in {"status", "result"} /\ f.sub = s

WantedCurrent ==
    \A s \in Subs : Wanted(s) => /\ Covered(s)
                                 /\ Apart(expr[s]) => Current(s) \/ InHand(s, FramesOf(stack))

(* A result on its way to its path is still what the expression says. *)
ResultsHeld ==
    \A f \in FramesOf(stack) :
        f.kind = "result" /\ Apart(expr[f.sub]) => f.value = Evaluate(expr[f.sub]) /\ Stores[expr[f.sub]] # None

ComputeInv == ComputeTypeOK /\ WantedCurrent /\ ResultsHeld

---------------------------------------------------------------------------
(* Stacks *)

LEMMA Pushed ==
    ASSUME NEW r, IsStack(r), NEW f
    PROVE  IsStack(Append(r, f)) /\ FramesOf(Append(r, f)) = FramesOf(r) \cup {f} /\ Append(r, f) # <<>>
  <1> DEFINE T == FramesOf(r) \cup {f}
  <1>1. r \in Seq(T)
    BY DEF IsStack
  <1> HIDE DEF T
  <1>2. /\ Len(Append(r, f)) = Len(r) + 1
        /\ \A i \in 1 .. Len(r) : Append(r, f)[i] = r[i]
        /\ Append(r, f)[Len(r) + 1] = f
        /\ Len(r) \in Nat
    BY <1>1 DEF T
  <1>3. FramesOf(Append(r, f)) = FramesOf(r) \cup {f}
    BY <1>2 DEF FramesOf
  <1>4. Append(r, f) \in Seq(T)
    BY <1>1 DEF T
  <1> QED BY <1>2, <1>3, <1>4 DEF IsStack, T

LEMMA Popped ==
    ASSUME IsStack(stack), stack # <<>>
    PROVE  /\ IsStack(Below) /\ FramesOf(stack) = FramesOf(Below) \cup {Top}
           /\ Top \in FramesOf(stack) /\ FramesOf(Below) \subseteq FramesOf(stack)
  <1> DEFINE T == FramesOf(stack)
  <1>1. stack \in Seq(T) /\ Len(stack) \in Nat /\ Len(stack) > 0
    BY DEF IsStack
  <1>2. Top \in FramesOf(stack)
    BY <1>1 DEF Top, FramesOf
  <1> HIDE DEF T
  <1>3. /\ Below \in Seq(T) /\ Len(Below) = Len(stack) - 1
        /\ \A i \in 1 .. Len(Below) : Below[i] = stack[i]
    <2>1. Len(stack) - 1 \in Int /\ 1 \in Int /\ \A i \in 1 .. Len(stack) - 1 : stack[i] \in T
      BY <1>1
    <2>2. /\ Below \in Seq(T)
          /\ Len(Below) = IF 1 <= Len(stack) - 1 THEN Len(stack) - 1 - 1 + 1 ELSE 0
          /\ \A i \in 1 .. Len(stack) - 1 - 1 + 1 : Below[i] = stack[1 + i - 1]
      BY <2>1, SubSeqProperties DEF Below
    <2>3. \A i \in 1 .. Len(stack) - 1 : Below[i] = stack[i]
      <3> SUFFICES ASSUME NEW i \in 1 .. Len(stack) - 1 PROVE Below[i] = stack[i]
        OBVIOUS
      <3>1. 1 + i - 1 = i /\ i \in 1 .. Len(stack) - 1 - 1 + 1
        BY <1>1
      <3> QED BY <2>2, <3>1
    <2>4. Len(Below) = Len(stack) - 1
      <3>1. PICK k \in Nat : k = Len(stack) /\ k > 0
        BY <1>1
      <3>2. Len(Below) = IF 1 <= k - 1 THEN k - 1 - 1 + 1 ELSE 0
        BY <2>2, <3>1
      <3> HIDE DEF Below
      <3> QED BY <3>1, <3>2
    <2> QED BY <2>2, <2>3, <2>4
  <1>4. FramesOf(stack) = FramesOf(Below) \cup {Top}
    BY <1>1, <1>3 DEF FramesOf, Top
  <1>5. Below \in Seq(FramesOf(Below))
    <2>1. Below = [i \in 1 .. Len(Below) |-> Below[i]]
      BY <1>3
    <2> QED BY <1>3, <2>1 DEF FramesOf
  <1> QED BY <1>2, <1>4, <1>5 DEF IsStack

LEMMA EmptyStack == IsStack(<<>>) /\ FramesOf(<<>>) = {}
  BY DEF IsStack, FramesOf

LEMMA OneFrame == ASSUME NEW f PROVE IsStack(<<f>>) /\ FramesOf(<<f>>) = {f}
  BY DEF IsStack, FramesOf

LEMMA HookRewritten ==
    ASSUME NEW todo, NEW level, NEW opened, NEW n, NEW f,
           f = [kind |-> "hook", todo |-> todo, level |-> level, opened |-> opened]
    PROVE  [f EXCEPT !.todo = f.todo \ {n}] =
              [kind |-> "hook", todo |-> todo \ {n}, level |-> level, opened |-> opened]
  OBVIOUS

(* An entry is taken off the innermost hook: nothing but that entry leaves. *)
LEMMA PickedIs ==
    ASSUME ComputeTypeOK, stack # <<>>, Top.kind = "hook", NEW n \in Top.todo
    PROVE  /\ n.sub \in Subs
           /\ IsStack(Picked(n))
           /\ \A f \in FramesOf(Picked(n)) : FrameOK(f) /\ (f \in FramesOf(stack) \/ f.kind = "hook")
           /\ \A t : t # n.sub /\ InHand(t, FramesOf(stack)) => InHand(t, FramesOf(Picked(n)))
  <1> DEFINE left == [Top EXCEPT !.todo = @ \ {n}]
  <1>1. /\ IsStack(Below) /\ FramesOf(stack) = FramesOf(Below) \cup {Top}
        /\ Top \in FramesOf(stack)
    BY Popped DEF ComputeTypeOK
  <1>2. /\ FrameOK(Top)
        /\ Top = [kind |-> "hook", todo |-> Top.todo, level |-> Top.level, opened |-> Top.opened]
    BY <1>1 DEF ComputeTypeOK, FrameOK
  <1>r. PICK todo, level, opened : Top = [kind |-> "hook", todo |-> todo, level |-> level, opened |-> opened]
    BY <1>2
  <1> HIDE DEF Top
  <1>3. left = [kind |-> "hook", todo |-> todo \ {n}, level |-> level, opened |-> opened] /\ Top.todo = todo
    <2>1. left = [Top EXCEPT !.todo = Top.todo \ {n}]
      OBVIOUS
    <2>2. Top.todo = todo
      BY <1>r
    <2> HIDE DEF left
    <2> QED BY <1>r, <2>1, <2>2, HookRewritten
  <1>4. FrameOK(left) /\ left.kind = "hook" /\ left.todo = Top.todo \ {n}
    BY <1>2, <1>3 DEF FrameOK
  <1> HIDE DEF left
  <1>5. IsStack(Picked(n)) /\ FramesOf(Picked(n)) = FramesOf(Below) \cup {left}
    BY <1>1, Pushed DEF Picked, left
  <1>6. ASSUME NEW t, t # n.sub, InHand(t, FramesOf(stack)) PROVE InHand(t, FramesOf(Picked(n)))
    <2>1. CASE \E f \in FramesOf(stack) : f.kind = "hook" /\ \E m \in f.todo : m.sub = t
      <3>1. PICK f \in FramesOf(stack) : f.kind = "hook" /\ \E m \in f.todo : m.sub = t
        BY <2>1
      <3>2. CASE f \in FramesOf(Below)
        BY <1>5, <3>1, <3>2 DEF InHand
      <3>3. CASE f = Top
        BY <1>4, <1>5, <1>6, <3>1, <3>3 DEF InHand
      <3> QED BY <1>1, <3>2, <3>3
    <2>2. CASE \E f \in FramesOf(stack) : f.kind \in {"status", "result"} /\ f.sub = t
      BY <1>1, <1>5, <2>2 DEF InHand
    <2> QED BY <1>6, <2>1, <2>2 DEF InHand
  <1>7. n.sub \in Subs
    BY <1>2 DEF FrameOK
  <1> QED BY <1>1, <1>4, <1>5, <1>6, <1>7 DEF ComputeTypeOK

---------------------------------------------------------------------------
(* Writes *)

(* Evaluation depends on nothing but what is read. *)
LEMMA ReadSame ==
    ASSUME NEW e, \A p \in Dependencies(e) : tree'[p] = tree[p]
    PROVE  Evaluate(e)' = Evaluate(e)
  <1>1. \A i \in DOMAIN Reads[e] : Lookup(Reads[e][i])' = Lookup(Reads[e][i])
    BY DEF Dependencies, Lookup
  <1>2. [i \in DOMAIN Reads[e] |-> Lookup(Reads[e][i])]' = [i \in DOMAIN Reads[e] |-> Lookup(Reads[e][i])]
    BY <1>1
  <1> QED BY <1>2 DEF Evaluate

LEMMA ReadsPaths ==
    ASSUME ComputeAssumption, NEW e \in Exprs PROVE Dependencies(e) \subseteq Paths
  BY DEF ComputeAssumption, Dependencies

(* A write changes one path, and everybody who is indexed for it is in hand. *)
Spreads(p, rest) ==
    /\ IsStack(stack')
    /\ FramesOf(rest) \subseteq FramesOf(stack')
    /\ \A f \in FramesOf(stack') : f \in FramesOf(rest) \/ (f.kind = "hook" /\ FrameOK(f))
    /\ DOMAIN tree' = Paths
    /\ \A q \in Paths : q # p => tree'[q] = tree[q]
    /\ tree' = tree \/ \A n \in index : n.path = p => InHand(n.sub, FramesOf(stack'))

LEMMA HookFrame ==
    ASSUME ComputeTypeOK, NEW p, NEW level, NEW opened, NEW f,
           f = [kind |-> "hook", todo |-> Matching(p), level |-> level, opened |-> opened]
    PROVE  f.kind = "hook" /\ FrameOK(f) /\ f.todo = Matching(p)
  BY DEF ComputeTypeOK, FrameOK, Matching

LEMMA EmitSpreads ==
    ASSUME ComputeTypeOK, NEW p \in Paths, NEW v, NEW rest, IsStack(rest), Emit(p, v, rest)
    PROVE  Spreads(p, rest) /\ (depth < Refuse \/ tree[p] = v => tree'[p] = v)
  <1>1. CASE Emitted(p, v)
    <2> DEFINE f == [kind |-> "hook", todo |-> Matching(p), level |-> depth + 1, opened |-> 1]
    <2>1. tree' = [tree EXCEPT ![p] = v] /\ stack' = Append(rest, f)
      BY <1>1 DEF Emit
    <2>2. f.kind = "hook" /\ FrameOK(f) /\ f.todo = Matching(p)
      BY HookFrame
    <2> HIDE DEF f
    <2>3. IsStack(stack') /\ FramesOf(stack') = FramesOf(rest) \cup {f}
      BY <2>1, Pushed
    <2>4. \A n \in index : n.path = p => InHand(n.sub, FramesOf(stack'))
      BY <2>2, <2>3 DEF InHand, Matching
    <2> QED BY <2>1, <2>2, <2>3, <2>4 DEF Spreads, ComputeTypeOK
  <1>2. CASE ~Emitted(p, v)
    BY <1>2 DEF Emit, Emitted, Spreads, ComputeTypeOK
  <1> QED BY <1>1, <1>2

(* The evaluation of a subgraph indexed for what it reads stays, or it is in hand. *)
LEMMA SpreadSame ==
    ASSUME ComputeAssumption, NEW p, NEW rest, Spreads(p, rest), NEW e \in Exprs, NEW t,
           \A q \in Dependencies(e) : \E n \in index : n.path = q /\ n.sub = t
    PROVE  Evaluate(e)' = Evaluate(e) \/ InHand(t, FramesOf(stack'))
  <1>1. CASE p \in Dependencies(e) /\ tree' # tree
    BY <1>1 DEF Spreads
  <1>2. CASE tree' = tree
    BY <1>2, ReadSame
  <1>3. CASE p \notin Dependencies(e)
    <2>1. \A q \in Dependencies(e) : tree'[q] = tree[q]
      BY <1>3, ReadsPaths DEF Spreads
    <2> QED BY <2>1, ReadSame
  <1> QED BY <1>1, <1>2, <1>3

LEMMA SpreadKeeps ==
    ASSUME ComputeAssumption, ComputeTypeOK, NEW p, NEW rest, Spreads(p, rest), UNCHANGED expr,
           NEW t \in Subs, expr[t] # None, Covered(t), p # Out[t],
           Current(t) \/ InHand(t, FramesOf(rest))
    PROVE  Current(t)' \/ InHand(t, FramesOf(stack'))
  <1>e. PICK e \in Exprs : e = expr[t]
    BY DEF ComputeTypeOK
  <1>1. \A q \in Dependencies(e) : \E n \in index : n.path = q /\ n.sub = t
    BY <1>e DEF Covered
  <1>2. tree'[Out[t]] = tree[Out[t]]
    BY DEF Spreads, Paths, Outs
  <1>3. Evaluate(e)' = Evaluate(e) \/ InHand(t, FramesOf(stack'))
    BY <1>1, SpreadSame
  <1>4. InHand(t, FramesOf(rest)) => InHand(t, FramesOf(stack'))
    BY DEF Spreads, InHand
  <1>5. Evaluate(expr[t])' = Evaluate(e)'
    BY <1>e DEF Evaluate
  <1> QED BY <1>e, <1>2, <1>3, <1>4, <1>5 DEF Current

(* What the hook writes changes nothing a result on its way was computed from. *)
HookPaths == Outs \cup {Stores[x] : x \in Exprs}

LEMMA HeldKeeps ==
    ASSUME ComputeAssumption, ComputeTypeOK, NEW p, NEW rest, Spreads(p, rest), UNCHANGED expr,
           \A f \in FramesOf(rest) : FrameOK(f),
           \A f \in FramesOf(rest) : f.kind = "result" /\ Apart(expr[f.sub]) =>
               p \in HookPaths /\ f.value = Evaluate(expr[f.sub]) /\ Stores[expr[f.sub]] # None
    PROVE  ResultsHeld'
  <1> SUFFICES ASSUME NEW f \in FramesOf(stack'), f.kind = "result", Apart(expr[f.sub])
               PROVE  f.value = Evaluate(expr[f.sub])' /\ Stores[expr[f.sub]] # None
    BY DEF ResultsHeld, Apart, Dependencies
  <1>1. f \in FramesOf(rest)
    BY DEF Spreads
  <1>2. /\ p \in HookPaths /\ f.value = Evaluate(expr[f.sub]) /\ Stores[expr[f.sub]] # None
        /\ FrameOK(f)
    BY <1>1
  <1>3. PICK e \in Exprs : e = expr[f.sub]
    BY <1>2 DEF FrameOK, ComputeTypeOK
  <1>4. p \notin Dependencies(e)
    BY <1>2, <1>3 DEF Apart, HookPaths
  <1>5. \A q \in Dependencies(e) : tree'[q] = tree[q]
    BY <1>3, <1>4, ReadsPaths DEF Spreads
  <1>6. Evaluate(e)' = Evaluate(e)
    BY <1>5, ReadSame
  <1>7. Evaluate(expr[f.sub])' = Evaluate(e)'
    BY <1>3 DEF Evaluate
  <1> QED BY <1>2, <1>3, <1>6, <1>7

---------------------------------------------------------------------------
(* The result of one subgraph is written, or found there already.          *)
LEMMA WriteResultKeeps ==
    ASSUME ComputeAssumption, ComputeTypeOK, NEW s \in Subs, expr[s] # None, NEW v, NEW rest, IsStack(rest),
           WriteResult(s, v, rest), UNCHANGED <<expr, status, expired, index>>,
           Apart(expr[s]) => v = Evaluate(expr[s]),
           \A t \in Subs : t # s /\ Wanted(t) =>
               Covered(t) /\ (Apart(expr[t]) => Current(t) \/ InHand(t, FramesOf(rest))),
           \A f \in FramesOf(rest) : FrameOK(f),
           \A f \in FramesOf(rest) : f.kind = "result" /\ Apart(expr[f.sub]) =>
               f.value = Evaluate(expr[f.sub]) /\ Stores[expr[f.sub]] # None
    PROVE  ComputeInv'
  <1>p. Out[s] \in Paths /\ Out[s] \in HookPaths /\ \A t \in Subs : t # s => Out[t] # Out[s]
    BY DEF Paths, Outs, HookPaths, ComputeAssumption
  <1>1. Spreads(Out[s], rest) /\ (depth < Refuse \/ tree[Out[s]] = v => tree'[Out[s]] = v)
    BY <1>p, EmitSpreads DEF WriteResult
  <1>2. ComputeTypeOK'
    <2>1. fresh' \subseteq Subs
      BY DEF WriteResult, ComputeTypeOK
    <2>2. \A f \in FramesOf(stack') : FrameOK(f)'
      BY <1>1 DEF Spreads, FrameOK
    <2> QED BY <1>1, <2>1, <2>2 DEF ComputeTypeOK, Spreads
  <1>3. ResultsHeld'
    BY <1>1, <1>p, HeldKeeps
  <1>4. ASSUME NEW t \in Subs, Wanted(t)'
        PROVE  Covered(t)' /\ (Apart(expr[t])' => Current(t)' \/ InHand(t, FramesOf(stack')))
    <2>0. expr[t] # None /\ (Covered(t)' <=> Covered(t)) /\ (Apart(expr[t])' <=> Apart(expr[t]))
      BY <1>4 DEF Wanted, Covered, Dependencies, Apart
    <2>1. CASE t # s
      <3>1. Wanted(t)
        BY <1>4, <2>1 DEF Wanted, WriteResult
      <3>2. Covered(t) /\ (Apart(expr[t]) => Current(t) \/ InHand(t, FramesOf(rest)))
        BY <2>1, <3>1
      <3>3. Apart(expr[t]) => Current(t)' \/ InHand(t, FramesOf(stack'))
        BY <1>1, <1>p, <2>0, <2>1, <3>2, SpreadKeeps
      <3> QED BY <2>0, <3>2, <3>3
    <2>2. CASE t = s
      <3>1. Covered(s) /\ (depth < Refuse \/ tree[Out[s]] = v)
        BY <1>4, <2>2 DEF Wanted, WriteResult
      <3>2. PICK e \in Exprs : e = expr[s]
        BY DEF ComputeTypeOK
      <3>3. Evaluate(e)' = Evaluate(e) \/ InHand(s, FramesOf(stack'))
        <4>1. \A q \in Dependencies(e) : \E n \in index : n.path = q /\ n.sub = s
          BY <3>1, <3>2 DEF Covered
        <4> QED BY <1>1, <4>1, SpreadSame
      <3>4. Evaluate(expr[s])' = Evaluate(e)'
        BY <3>2 DEF Evaluate
      <3>5. Apart(expr[s]) => Current(s)' \/ InHand(s, FramesOf(stack'))
        BY <1>1, <3>1, <3>2, <3>3, <3>4 DEF Current
      <3> QED BY <2>0, <2>2, <3>1, <3>5
    <2> QED BY <2>1, <2>2
  <1> QED BY <1>2, <1>3, <1>4 DEF ComputeInv, WantedCurrent

(* The tree and the installed subgraphs stand still. *)
LEMMA StillCurrent ==
    ASSUME NEW t \in Subs, UNCHANGED <<tree, expr>>
    PROVE  (Current(t)' <=> Current(t)) /\ (Apart(expr[t])' <=> Apart(expr[t]))
  BY DEF Current, Evaluate, Lookup, Apart, Dependencies

LEMMA StillHeld ==
    ASSUME ResultsHeld, UNCHANGED <<tree, expr>>,
           \A f \in FramesOf(stack') : f \in FramesOf(stack) \/ f.kind # "result"
    PROVE  ResultsHeld'
  <1>1. \A f : Evaluate(expr[f.sub])' = Evaluate(expr[f.sub]) /\ (Apart(expr[f.sub])' <=> Apart(expr[f.sub]))
    BY DEF Evaluate, Lookup, Apart, Dependencies
  <1> QED BY <1>1 DEF ResultsHeld

LEMMA ComputeInvInit == ASSUME ComputeAssumption PROVE ComputeInit => ComputeInv
  <1> SUFFICES ASSUME ComputeInit PROVE ComputeInv
    OBVIOUS
  <1>1. /\ stack = <<>> /\ FramesOf(stack) = {} /\ IsStack(stack) /\ fresh = {} /\ index = {}
        /\ DOMAIN tree = Paths /\ DOMAIN status = Subs
    BY EmptyStack DEF ComputeInit
  <1>2. expr \in [Subs -> Exprs \cup {None}]
    BY DEF ComputeInit, ComputeAssumption
  <1> QED BY <1>1, <1>2 DEF ComputeInv, ComputeTypeOK, WantedCurrent, ResultsHeld, Wanted

LEMMA SkipStep ==
    ASSUME ComputeInv, stack # <<>>, Top.kind = "hook", NEW n \in Top.todo, Skip(n) PROVE ComputeInv'
  <1>t. ComputeTypeOK /\ WantedCurrent /\ ResultsHeld
    BY DEF ComputeInv
  <1>1. /\ n.sub \in Subs /\ IsStack(Picked(n))
        /\ \A f \in FramesOf(Picked(n)) : FrameOK(f) /\ (f \in FramesOf(stack) \/ f.kind = "hook")
        /\ \A t : t # n.sub /\ InHand(t, FramesOf(stack)) => InHand(t, FramesOf(Picked(n)))
    BY <1>t, PickedIs
  <1>2. /\ stack' = Picked(n) /\ status[n.sub] # "active"
        /\ UNCHANGED <<tree, expr, status, expired, index, depth, fresh, calls>>
    BY DEF Skip
  <1> HIDE DEF Picked
  <1>3. ComputeTypeOK'
    <2>1. \A f \in FramesOf(stack') : FrameOK(f)'
      BY <1>1, <1>2 DEF FrameOK
    <2> QED BY <1>t, <1>1, <1>2, <2>1 DEF ComputeTypeOK
  <1>4. ResultsHeld'
    BY <1>t, <1>1, <1>2, StillHeld
  <1>5. WantedCurrent'
    <2> SUFFICES ASSUME NEW t \in Subs, Wanted(t)'
                 PROVE  Covered(t)' /\ (Apart(expr[t])' => Current(t)' \/ InHand(t, FramesOf(stack')))
      BY DEF WantedCurrent
    <2>1. Wanted(t) /\ t # n.sub /\ (Covered(t)' <=> Covered(t))
      BY <1>2 DEF Wanted, Covered, Dependencies
    <2>2. (Current(t)' <=> Current(t)) /\ (Apart(expr[t])' <=> Apart(expr[t]))
      BY <1>2, StillCurrent
    <2>3. Covered(t) /\ (Apart(expr[t]) => Current(t) \/ InHand(t, FramesOf(stack)))
      BY <1>t, <2>1 DEF WantedCurrent
    <2> QED BY <1>1, <1>2, <2>1, <2>2, <2>3
  <1> QED BY <1>3, <1>4, <1>5 DEF ComputeInv

LEMMA CoveredStays ==
    ASSUME NEW t, Covered(t), expr' = expr, \A m \in index : m.sub = t => m \in index'
    PROVE  Covered(t)'
  <1> SUFFICES ASSUME NEW q \in Dependencies(expr[t]) PROVE \E m \in index' : m.path = q /\ m.sub = t
    BY DEF Covered, Dependencies
  <1>1. PICK m \in index : m.path = q /\ m.sub = t
    BY DEF Covered
  <1> QED BY <1>1

LEMMA DanglingStep ==
    ASSUME ComputeInv, stack # <<>>, Top.kind = "hook", NEW n \in Top.todo, Dangling(n) PROVE ComputeInv'
  <1>t. ComputeTypeOK /\ WantedCurrent /\ ResultsHeld
    BY DEF ComputeInv
  <1>1. /\ n.sub \in Subs /\ IsStack(Picked(n))
        /\ \A f \in FramesOf(Picked(n)) : FrameOK(f) /\ (f \in FramesOf(stack) \/ f.kind = "hook")
        /\ \A t : t # n.sub /\ InHand(t, FramesOf(stack)) => InHand(t, FramesOf(Picked(n)))
    BY <1>t, PickedIs
  <1>2. /\ stack' = Picked(n) /\ expr[n.sub] = None /\ index' = Unindex(n.sub)
        /\ UNCHANGED <<tree, expr, status, expired, depth, fresh, calls>>
    BY DEF Dangling
  <1> HIDE DEF Picked
  <1>3. ComputeTypeOK'
    <2>1. \A f \in FramesOf(stack') : FrameOK(f)'
      BY <1>1, <1>2 DEF FrameOK
    <2> QED BY <1>t, <1>1, <1>2, <2>1 DEF ComputeTypeOK, Unindex
  <1>4. ResultsHeld'
    BY <1>t, <1>1, <1>2, StillHeld
  <1>5. WantedCurrent'
    <2> SUFFICES ASSUME NEW t \in Subs, Wanted(t)'
                 PROVE  Covered(t)' /\ (Apart(expr[t])' => Current(t)' \/ InHand(t, FramesOf(stack')))
      BY DEF WantedCurrent
    <2>1. Wanted(t) /\ t # n.sub
      BY <1>2 DEF Wanted
    <2>2. (Current(t)' <=> Current(t)) /\ (Apart(expr[t])' <=> Apart(expr[t]))
      BY <1>2, StillCurrent
    <2>3. Covered(t) /\ (Apart(expr[t]) => Current(t) \/ InHand(t, FramesOf(stack)))
      BY <1>t, <2>1 DEF WantedCurrent
    <2>4. Covered(t)'
      <3>1. index' = Unindex(n.sub) /\ expr' = expr
        BY <1>2
      <3>2. \A m \in index : m.sub = t => m \in index'
        BY <2>1, <3>1 DEF Unindex
      <3> QED BY <2>3, <3>1, <3>2, CoveredStays
    <2> QED BY <1>1, <1>2, <2>1, <2>2, <2>3, <2>4
  <1> QED BY <1>3, <1>4, <1>5 DEF ComputeInv

(* An error or a stored sum is written, and the subgraph waits in a frame. *)
LEMMA WaitStep ==
    ASSUME ComputeAssumption, ComputeInv, stack # <<>>, Top.kind = "hook", NEW n \in Top.todo,
           NEW p \in Paths, p \in HookPaths, \A t \in Subs : t # n.sub => p # Out[t],
           NEW v, NEW f, f.kind \in {"status", "result"}, f.sub = n.sub, FrameOK(f),
           f.kind = "result" /\ Apart(expr[f.sub]) => f.value = Evaluate(expr[f.sub]) /\ Stores[expr[f.sub]] # None,
           Emit(p, v, Append(Picked(n), f)),
           UNCHANGED <<expr, status, expired, index, fresh>>
    PROVE  ComputeInv'
  <1>t. ComputeTypeOK /\ WantedCurrent /\ ResultsHeld
    BY DEF ComputeInv
  <1>1. /\ n.sub \in Subs /\ IsStack(Picked(n))
        /\ \A g \in FramesOf(Picked(n)) : FrameOK(g) /\ (g \in FramesOf(stack) \/ g.kind = "hook")
        /\ \A t : t # n.sub /\ InHand(t, FramesOf(stack)) => InHand(t, FramesOf(Picked(n)))
    BY <1>t, PickedIs
  <1> HIDE DEF Picked
  <1> DEFINE rest == Append(Picked(n), f)
  <1>2. IsStack(rest) /\ FramesOf(rest) = FramesOf(Picked(n)) \cup {f}
    BY <1>1, Pushed
  <1>3. \A t : t # n.sub /\ InHand(t, FramesOf(stack)) => InHand(t, FramesOf(rest))
    BY <1>1, <1>2 DEF InHand
  <1>4. /\ \A g \in FramesOf(rest) : FrameOK(g)
        /\ \A g \in FramesOf(rest) : g.kind = "result" /\ Apart(expr[g.sub]) =>
               p \in HookPaths /\ g.value = Evaluate(expr[g.sub]) /\ Stores[expr[g.sub]] # None
    BY <1>t, <1>1, <1>2 DEF ResultsHeld
  <1>5. InHand(n.sub, FramesOf(rest))
    BY <1>2 DEF InHand
  <1>6. Emit(p, v, rest)
    OBVIOUS
  <1> HIDE DEF rest
  <1>7. Spreads(p, rest)
    BY <1>t, <1>2, <1>6, EmitSpreads
  <1>8. ComputeTypeOK'
    <2>1. \A g \in FramesOf(stack') : FrameOK(g)'
      BY <1>4, <1>7 DEF Spreads, FrameOK
    <2> QED BY <1>t, <1>7, <2>1 DEF ComputeTypeOK, Spreads
  <1>9. ResultsHeld'
    BY <1>t, <1>4, <1>7, HeldKeeps
  <1>10. WantedCurrent'
    <2> SUFFICES ASSUME NEW t \in Subs, Wanted(t)'
                 PROVE  Covered(t)' /\ (Apart(expr[t])' => Current(t)' \/ InHand(t, FramesOf(stack')))
      BY DEF WantedCurrent
    <2>1. Wanted(t) /\ expr[t] # None /\ (Covered(t)' <=> Covered(t)) /\ (Apart(expr[t])' <=> Apart(expr[t]))
      BY DEF Wanted, Covered, Dependencies, Apart
    <2>2. Covered(t) /\ (Apart(expr[t]) => Current(t) \/ InHand(t, FramesOf(stack)))
      BY <1>t, <2>1 DEF WantedCurrent
    <2>3. CASE t = n.sub
      <3>1. InHand(t, FramesOf(stack'))
        BY <1>5, <1>7, <2>3 DEF InHand, Spreads
      <3> QED BY <2>1, <2>2, <3>1
    <2>4. CASE t # n.sub
      <3>1. Apart(expr[t]) => Current(t)' \/ InHand(t, FramesOf(stack'))
        BY <1>t, <1>3, <1>7, <2>1, <2>2, <2>4, SpreadKeeps
      <3> QED BY <2>1, <2>2, <3>1
    <2> QED BY <2>3, <2>4
  <1> QED BY <1>8, <1>9, <1>10 DEF ComputeInv

LEMMA FreezeStep ==
    ASSUME ComputeAssumption, ComputeInv, stack # <<>>, Top.kind = "hook", NEW n \in Top.todo, Freeze(n)
    PROVE  ComputeInv'
  <1>1. n.sub \in Subs
    BY PickedIs DEF ComputeInv
  <1> DEFINE f == [kind |-> "status", sub |-> n.sub]
  <1>2. f.kind = "status" /\ f.sub = n.sub /\ FrameOK(f)
    BY <1>1 DEF FrameOK
  <1>3. Emit(Out[n.sub], Freezes(n), Append(Picked(n), f)) /\ UNCHANGED <<expr, status, expired, index, fresh>>
    BY DEF Freeze
  <1> HIDE DEF f
  <1>4. Out[n.sub] \in Paths /\ Out[n.sub] \in HookPaths /\ \A t \in Subs : t # n.sub => Out[n.sub] # Out[t]
    BY <1>1 DEF Paths, Outs, HookPaths, ComputeAssumption
  <1> QED BY <1>2, <1>3, <1>4, WaitStep

LEMMA ReEvaluateStep ==
    ASSUME ComputeAssumption, ComputeInv, stack # <<>>, Top.kind = "hook", NEW n \in Top.todo, ReEvaluate(n)
    PROVE  ComputeInv'
  <1>t. ComputeTypeOK /\ WantedCurrent /\ ResultsHeld
    BY DEF ComputeInv
  <1>1. /\ n.sub \in Subs /\ IsStack(Picked(n))
        /\ \A f \in FramesOf(Picked(n)) : FrameOK(f) /\ (f \in FramesOf(stack) \/ f.kind = "hook")
        /\ \A t : t # n.sub /\ InHand(t, FramesOf(stack)) => InHand(t, FramesOf(Picked(n)))
    BY <1>t, PickedIs
  <1> DEFINE e == expr[n.sub]
             v == Evaluate(e)
             f == [kind |-> "result", sub |-> n.sub, value |-> v]
  <1>2. e # None /\ e \in Exprs /\ UNCHANGED <<expr, status, expired, index>>
    BY <1>t, <1>1 DEF ReEvaluate, ComputeTypeOK
  <1>3. CASE Stores[e] = None
    <2>1. WriteResult(n.sub, v, Picked(n))
      BY <1>3 DEF ReEvaluate
    <2>2. \A t \in Subs : t # n.sub /\ Wanted(t) =>
               Covered(t) /\ (Apart(expr[t]) => Current(t) \/ InHand(t, FramesOf(Picked(n))))
      BY <1>t, <1>1 DEF WantedCurrent
    <2>3. \A g \in FramesOf(Picked(n)) : g.kind = "result" /\ Apart(expr[g.sub]) =>
               g.value = Evaluate(expr[g.sub]) /\ Stores[expr[g.sub]] # None
      BY <1>t, <1>1 DEF ResultsHeld
    <2> HIDE DEF Picked
    <2> QED BY <1>t, <1>1, <1>2, <2>1, <2>2, <2>3, WriteResultKeeps
  <1>4. CASE Stores[e] # None
    <2>1. f.kind = "result" /\ f.sub = n.sub /\ f.value = Evaluate(expr[f.sub]) /\ FrameOK(f)
      BY <1>1, <1>2 DEF FrameOK
    <2>2. Emit(Stores[e], v, Append(Picked(n), f)) /\ UNCHANGED fresh
      BY <1>4 DEF ReEvaluate
    <2>3. Stores[e] \in Paths /\ Stores[e] \in HookPaths /\ \A t \in Subs : Stores[e] # Out[t]
      BY <1>2, <1>4 DEF ComputeAssumption, Paths, HookPaths, Outs
    <2>4. Stores[expr[f.sub]] # None
      BY <1>4, <2>1
    <2> HIDE DEF f, e, v
    <2> QED BY <1>2, <2>1, <2>2, <2>3, <2>4, WaitStep
  <1> QED BY <1>3, <1>4

LEMMA FinishStep ==
    ASSUME ComputeAssumption, ComputeInv, FinishEvaluation PROVE ComputeInv'
  <1>t. ComputeTypeOK /\ WantedCurrent /\ ResultsHeld
    BY DEF ComputeInv
  <1>1. /\ stack # <<>> /\ Top.kind = "result" /\ WriteResult(Top.sub, Top.value, Below)
        /\ UNCHANGED <<expr, status, expired, index>>
    BY DEF FinishEvaluation
  <1>2. /\ IsStack(Below) /\ FramesOf(stack) = FramesOf(Below) \cup {Top}
        /\ Top \in FramesOf(stack) /\ FramesOf(Below) \subseteq FramesOf(stack)
    BY <1>t, <1>1, Popped DEF ComputeTypeOK
  <1>3. /\ Top.sub \in Subs /\ expr[Top.sub] # None
        /\ Apart(expr[Top.sub]) => Top.value = Evaluate(expr[Top.sub])
    BY <1>t, <1>1, <1>2 DEF ComputeTypeOK, FrameOK, ResultsHeld
  <1>4. ASSUME NEW t \in Subs, t # Top.sub, InHand(t, FramesOf(stack)) PROVE InHand(t, FramesOf(Below))
    BY <1>1, <1>2, <1>4 DEF InHand
  <1>5. \A t \in Subs : t # Top.sub /\ Wanted(t) =>
               Covered(t) /\ (Apart(expr[t]) => Current(t) \/ InHand(t, FramesOf(Below)))
    BY <1>t, <1>4 DEF WantedCurrent
  <1>6. /\ \A f \in FramesOf(Below) : FrameOK(f)
        /\ \A f \in FramesOf(Below) : f.kind = "result" /\ Apart(expr[f.sub]) =>
               f.value = Evaluate(expr[f.sub]) /\ Stores[expr[f.sub]] # None
    BY <1>t, <1>2 DEF ComputeTypeOK, ResultsHeld
  <1> HIDE DEF Below, Top
  <1> QED BY <1>t, <1>1, <1>2, <1>3, <1>5, <1>6, WriteResultKeeps

(* The innermost frame is left: a hook with nothing to do, or a status written. *)
LEMMA LeaveStep ==
    ASSUME ComputeInv, HookReturns \/ WriteStatus PROVE ComputeInv'
  <1>t. ComputeTypeOK /\ WantedCurrent /\ ResultsHeld
    BY DEF ComputeInv
  <1>1. /\ stack # <<>> /\ stack' = Below /\ UNCHANGED <<tree, expr, index>>
        /\ \/ Top.kind = "hook" /\ Top.todo = {} /\ UNCHANGED <<status, fresh>>
           \/ /\ Top.kind = "status" /\ fresh' = fresh \ {Top.sub}
              /\ status' = status \/ status' = [status EXCEPT ![Top.sub] = "frozen"]
    BY DEF HookReturns, WriteStatus
  <1>2. /\ IsStack(Below) /\ FramesOf(stack) = FramesOf(Below) \cup {Top}
        /\ Top \in FramesOf(stack) /\ FramesOf(Below) \subseteq FramesOf(stack)
    BY <1>t, <1>1, Popped DEF ComputeTypeOK
  <1> HIDE DEF Below, Top
  <1>3. ComputeTypeOK'
    <2>1. \A f \in FramesOf(stack') : FrameOK(f)'
      BY <1>t, <1>1, <1>2 DEF FrameOK, ComputeTypeOK
    <2> QED BY <1>t, <1>1, <1>2, <2>1 DEF ComputeTypeOK
  <1>4. ResultsHeld'
    BY <1>t, <1>1, <1>2, StillHeld
  <1>5. WantedCurrent'
    <2> SUFFICES ASSUME NEW t \in Subs, Wanted(t)'
                 PROVE  Covered(t)' /\ (Apart(expr[t])' => Current(t)' \/ InHand(t, FramesOf(stack')))
      BY DEF WantedCurrent
    <2>s. status[t] = status'[t] \/ (Top.kind = "status" /\ t = Top.sub /\ t \notin fresh')
      BY <1>t, <1>1 DEF ComputeTypeOK
    <2>w. Wanted(t) /\ (Top.kind = "status" => t # Top.sub)
      BY <1>1, <2>s DEF Wanted
    <2>c. Covered(t)' <=> Covered(t)
      BY <1>1 DEF Covered, Dependencies
    <2>1. Wanted(t) /\ (Covered(t)' <=> Covered(t)) /\ (Top.kind = "status" => t # Top.sub)
      BY <2>w, <2>c
    <2>2. (Current(t)' <=> Current(t)) /\ (Apart(expr[t])' <=> Apart(expr[t]))
      BY <1>1, StillCurrent
    <2>3. Covered(t) /\ (Apart(expr[t]) => Current(t) \/ InHand(t, FramesOf(stack)))
      BY <1>t, <2>1 DEF WantedCurrent
    <2>4. InHand(t, FramesOf(stack)) => InHand(t, FramesOf(stack'))
      BY <1>1, <1>2, <2>1 DEF InHand
    <2> QED BY <2>1, <2>2, <2>3, <2>4
  <1> QED BY <1>3, <1>4, <1>5 DEF ComputeInv

(* A write from outside, with no cascade in progress. *)
LEMMA OutsideWrite ==
    ASSUME ComputeAssumption, ComputeInv, NEW p \in Paths, Spreads(p, <<>>), stack = <<>>,
           fresh' = fresh \ Owner(p), UNCHANGED <<expr, status, expired, index>>
    PROVE  ComputeInv'
  <1>t. ComputeTypeOK /\ WantedCurrent /\ ResultsHeld
    BY DEF ComputeInv
  <1>0. FramesOf(stack) = {} /\ FramesOf(<<>>) = {}
    BY EmptyStack
  <1>1. ComputeTypeOK'
    <2>1. \A f \in FramesOf(stack') : FrameOK(f)'
      BY <1>0 DEF Spreads, FrameOK
    <2> QED BY <1>t, <2>1 DEF ComputeTypeOK, Spreads
  <1>2. ResultsHeld'
    BY <1>t, <1>0, HeldKeeps
  <1>3. WantedCurrent'
    <2> SUFFICES ASSUME NEW t \in Subs, Wanted(t)'
                 PROVE  Covered(t)' /\ (Apart(expr[t])' => Current(t)' \/ InHand(t, FramesOf(stack')))
      BY DEF WantedCurrent
    <2>1. /\ Wanted(t) /\ expr[t] # None /\ (Covered(t)' <=> Covered(t)) /\ (Apart(expr[t])' <=> Apart(expr[t]))
          /\ p # Out[t]
      BY DEF Wanted, Covered, Dependencies, Apart, Owner
    <2>2. Covered(t) /\ (Apart(expr[t]) => Current(t) \/ InHand(t, FramesOf(<<>>)))
      BY <1>t, <1>0, <2>1 DEF WantedCurrent
    <2>3. Apart(expr[t]) => Current(t)' \/ InHand(t, FramesOf(stack'))
      BY <1>t, <2>1, <2>2, SpreadKeeps
    <2> QED BY <2>1, <2>2, <2>3
  <1> QED BY <1>1, <1>2, <1>3 DEF ComputeInv

LEMMA DeleteSpreads ==
    ASSUME ComputeTypeOK, NEW p \in Paths, Delete(p) PROVE Spreads(p, <<>>)
  <1> DEFINE f == [kind |-> "hook", todo |-> Matching(p), level |-> depth, opened |-> 0]
  <1>1. tree' = [tree EXCEPT ![p] = None] /\ stack' = <<f>>
    BY DEF Delete
  <1>2. f.kind = "hook" /\ FrameOK(f) /\ f.todo = Matching(p)
    BY HookFrame
  <1> HIDE DEF f
  <1>3. IsStack(stack') /\ FramesOf(stack') = {f} /\ FramesOf(<<>>) = {}
    BY <1>1, OneFrame, EmptyStack
  <1>4. \A n \in index : n.path = p => InHand(n.sub, FramesOf(stack'))
    BY <1>2, <1>3 DEF InHand, Matching
  <1> QED BY <1>1, <1>2, <1>3, <1>4 DEF Spreads, ComputeTypeOK

(* What is installed, rewritten or indexed anew from outside. *)
LEMMA OutsideKeeps ==
    ASSUME ComputeInv, stack = <<>>, UNCHANGED <<stack, tree>>,
           expr' \in [Subs -> Exprs \cup {None}], DOMAIN status' = Subs, fresh' \subseteq fresh,
           \A n \in index' : n.sub \in Subs,
           \A t \in Subs : Wanted(t)' => expr'[t] = expr[t] /\ Wanted(t) /\ (Covered(t) => Covered(t)')
    PROVE  ComputeInv'
  <1>t. ComputeTypeOK /\ WantedCurrent /\ ResultsHeld
    BY DEF ComputeInv
  <1>0. FramesOf(stack') = {} /\ FramesOf(stack) = {} /\ IsStack(stack')
    BY EmptyStack
  <1>1. ComputeTypeOK' /\ ResultsHeld'
    BY <1>t, <1>0 DEF ComputeTypeOK, ResultsHeld
  <1>2. WantedCurrent'
    <2> SUFFICES ASSUME NEW t \in Subs, Wanted(t)'
                 PROVE  Covered(t)' /\ (Apart(expr[t])' => Current(t)')
      BY DEF WantedCurrent
    <2>1. Covered(t)' /\ (Apart(expr[t]) => Current(t))
      BY <1>t, <1>0 DEF WantedCurrent, InHand
    <2>2. PICK e : e = expr[t] /\ expr'[t] = e
      OBVIOUS
    <2>3. Evaluate(e)' = Evaluate(e) /\ (Apart(e)' <=> Apart(e))
      BY DEF Evaluate, Lookup, Apart, Dependencies
    <2>4. Evaluate(expr[t])' = Evaluate(e)' /\ (Apart(expr[t])' <=> Apart(e)')
      BY <2>2 DEF Evaluate, Apart, Dependencies
    <2>5. (Current(t)' <=> Current(t)) /\ (Apart(expr[t])' <=> Apart(expr[t]))
      BY <2>2, <2>3, <2>4 DEF Current
    <2> QED BY <2>1, <2>5
  <1> QED BY <1>1, <1>2 DEF ComputeInv

LEMMA ComputeInvStep == ASSUME ComputeAssumption PROVE ComputeInv /\ [ComputeNext]_computeVars => ComputeInv'
  <1> SUFFICES ASSUME ComputeInv, [ComputeNext]_computeVars PROVE ComputeInv'
    OBVIOUS
  <1>t. ComputeTypeOK
    BY DEF ComputeInv
  <1>1. CASE OnChange
    <2>1. PICK n \in Top.todo : Skip(n) \/ Freeze(n) \/ Dangling(n) \/ ReEvaluate(n)
      BY <1>1 DEF OnChange
    <2>2. stack # <<>> /\ Top.kind = "hook"
      BY <1>1 DEF OnChange
    <2> QED BY <2>1, <2>2, SkipStep, FreezeStep, DanglingStep, ReEvaluateStep
  <1>2. CASE HookReturns \/ WriteStatus
    BY <1>2, LeaveStep
  <1>3. CASE FinishEvaluation
    BY <1>3, FinishStep
  <1>4. ASSUME NEW p \in Paths, NEW v, Put(p, v) PROVE ComputeInv'
    <2>1. /\ stack = <<>> /\ Emit(p, v, <<>>) /\ fresh' = fresh \ Owner(p)
          /\ UNCHANGED <<expr, status, expired, index>>
      BY <1>4 DEF Put, Call
    <2>2. Spreads(p, <<>>)
      BY <1>t, <2>1, EmptyStack, EmitSpreads
    <2> QED BY <2>1, <2>2, OutsideWrite
  <1>5. ASSUME NEW p \in Paths, Delete(p) PROVE ComputeInv'
    <2>1. stack = <<>> /\ fresh' = fresh \ Owner(p) /\ UNCHANGED <<expr, status, expired, index>>
      BY <1>5 DEF Delete, Call
    <2>2. Spreads(p, <<>>)
      BY <1>t, <1>5, DeleteSpreads
    <2> QED BY <2>1, <2>2, OutsideWrite
  <1>6. ASSUME NEW s \in Subs, Install(s) PROVE ComputeInv'
    <2>1. /\ stack = <<>> /\ UNCHANGED <<tree, expr, stack>> /\ fresh' = fresh \ {s}
          /\ status' = [status EXCEPT ![s] = "active"] /\ index' = index \cup Entries(s, FALSE)
      BY <1>6 DEF Install, Call
    <2>2. \A n \in index' : n.sub \in Subs
      BY <1>t, <2>1 DEF ComputeTypeOK, Entries
    <2>3. ASSUME NEW t \in Subs, Wanted(t)' PROVE Wanted(t)
      BY <1>t, <2>1, <2>3 DEF Wanted, ComputeTypeOK
    <2>4. ASSUME NEW t \in Subs, Covered(t) PROVE Covered(t)'
      BY <2>1, <2>4, CoveredStays
    <2>5. DOMAIN status' = Subs
      BY <1>t, <2>1 DEF ComputeTypeOK
    <2> QED BY <1>t, <2>1, <2>2, <2>3, <2>4, <2>5, OutsideKeeps DEF ComputeTypeOK
  <1>7. ASSUME NEW s \in Subs, Uninstall(s) PROVE ComputeInv'
    <2>1. /\ stack = <<>> /\ UNCHANGED <<tree, expr, stack>> /\ fresh' = fresh \ {s}
          /\ status' = [status EXCEPT ![s] = "none"] /\ index' = Unindex(s)
      BY <1>7 DEF Uninstall, Call
    <2>2. \A n \in index' : n.sub \in Subs
      BY <1>t, <2>1 DEF ComputeTypeOK, Unindex
    <2>3. ASSUME NEW t \in Subs, Wanted(t)' PROVE t # s /\ Wanted(t)
      BY <1>t, <2>1, <2>3 DEF Wanted, ComputeTypeOK
    <2>4. ASSUME NEW t \in Subs, t # s, Covered(t) PROVE Covered(t)'
      <3>1. \A n \in index : n.sub = t => n \in index'
        BY <2>1, <2>4 DEF Unindex
      <3>2. Dependencies(expr[t])' = Dependencies(expr[t])
        BY <2>1 DEF Dependencies
      <3> QED BY <2>4, <3>1, <3>2 DEF Covered
    <2>5. DOMAIN status' = Subs
      BY <1>t, <2>1 DEF ComputeTypeOK
    <2> QED BY <1>t, <2>1, <2>2, <2>3, <2>4, <2>5, OutsideKeeps DEF ComputeTypeOK
  <1>8. ASSUME NEW s \in Subs, Expire(s) PROVE ComputeInv'
    <2>1. stack = <<>> /\ UNCHANGED <<tree, expr, stack, fresh, status, index>>
      BY <1>8 DEF Expire, Call
    <2>2. \A t \in Subs : Wanted(t)' => expr'[t] = expr[t] /\ Wanted(t) /\ (Covered(t) => Covered(t)')
      BY <2>1 DEF Wanted, Covered, Dependencies
    <2> QED BY <1>t, <2>1, <2>2, OutsideKeeps DEF ComputeTypeOK
  <1>9. ASSUME NEW s \in Subs, NEW e \in Rooted[s] \cup {None}, Rewrite(s, e) PROVE ComputeInv'
    <2>1. /\ stack = <<>> /\ UNCHANGED <<tree, stack, status, index>> /\ fresh' = fresh \ {s}
          /\ expr' = [expr EXCEPT ![s] = e] /\ e \in Exprs \cup {None}
      BY <1>9 DEF Rewrite, Call, ComputeAssumption
    <2>2. expr' \in [Subs -> Exprs \cup {None}] /\ \A t \in Subs : t # s => expr'[t] = expr[t]
      BY <1>t, <2>1 DEF ComputeTypeOK
    <2>3. \A t \in Subs : Wanted(t)' => expr'[t] = expr[t] /\ Wanted(t) /\ (Covered(t) => Covered(t)')
      BY <2>1, <2>2 DEF Wanted, Covered, Dependencies
    <2> QED BY <1>t, <2>1, <2>2, <2>3, OutsideKeeps DEF ComputeTypeOK
  <1>10. CASE Restart
    <2>1. stack = <<>> /\ UNCHANGED <<tree, expr, stack, fresh, status>> /\ index' = Rebuild
      BY <1>10 DEF Restart, Call
    <2>2. ASSUME NEW n \in index' PROVE n.sub \in Subs
      <3>1. PICK s \in Subs : n \in Entries(s, TRUE)
        BY <2>1, <2>2 DEF Rebuild
      <3>2. n.sub = s
        BY <3>1 DEF Entries
      <3> QED BY <3>1, <3>2
    <2>3. \A t \in Subs : Wanted(t)' => Wanted(t)
      BY <2>1 DEF Wanted
    <2>4. ASSUME NEW t \in Subs, Wanted(t) PROVE Covered(t)'
      <3>1. Entries(t, TRUE) \subseteq index'
        BY <2>1, <2>4 DEF Rebuild, Wanted
      <3>2. ASSUME NEW q \in Dependencies(expr[t]) PROVE \E n \in index' : n.path = q /\ n.sub = t
        <4>1. [path |-> q, sub |-> t, full |-> TRUE] \in Entries(t, TRUE)
          BY DEF Entries
        <4> QED BY <3>1, <4>1
      <3>3. Dependencies(expr[t])' = Dependencies(expr[t])
        BY <2>1 DEF Dependencies
      <3> QED BY <3>2, <3>3 DEF Covered
    <2> QED BY <1>t, <2>1, <2>2, <2>3, <2>4, OutsideKeeps DEF ComputeTypeOK
  <1>11. CASE UNCHANGED computeVars
    <2>1. UNCHANGED <<tree, expr, status, index, stack, fresh>>
      BY <1>11 DEF computeVars
    <2>2. ComputeTypeOK'
      BY <1>t, <2>1 DEF ComputeTypeOK, FrameOK
    <2>3. ResultsHeld'
      BY <2>1, StillHeld DEF ComputeInv
    <2>4. WantedCurrent'
      <3> SUFFICES ASSUME NEW t \in Subs, Wanted(t)'
                   PROVE  Covered(t)' /\ (Apart(expr[t])' => Current(t)' \/ InHand(t, FramesOf(stack')))
        BY DEF WantedCurrent
      <3>1. Wanted(t) /\ (Covered(t)' <=> Covered(t)) /\ FramesOf(stack') = FramesOf(stack)
        BY <2>1 DEF Wanted, Covered, Dependencies
      <3>2. (Current(t)' <=> Current(t)) /\ (Apart(expr[t])' <=> Apart(expr[t]))
        BY <2>1, StillCurrent
      <3> QED BY <3>1, <3>2 DEF ComputeInv, WantedCurrent
    <2> QED BY <2>2, <2>3, <2>4 DEF ComputeInv
  <1> QED BY <1>1, <1>2, <1>3, <1>4, <1>5, <1>6, <1>7, <1>8, <1>9, <1>10, <1>11 DEF ComputeNext, Cascade, Outside

(* Between cascades the result of an active subgraph that was evaluated    *)
(* with every read indexed is what its expression evaluates to, in         *)
(* whatever order nested re-evaluations, freezes, refusals, rewrites and   *)
(* restarts came (compute.py _ComputeHook).                                *)
THEOREM ResultsCorrect == ASSUME ComputeAssumption PROVE ComputeSpec => []ResultsCurrent
  <1>1. ComputeInv => ResultsCurrent
    BY EmptyStack DEF ComputeInv, ComputeTypeOK, WantedCurrent, Wanted, Current, InHand, ResultsCurrent
  <1> QED BY <1>1, ComputeInvInit, ComputeInvStep, PTL DEF ComputeSpec

-----------------------------------------------------------------------------
(***************************************************************************)
(* The matcher.  What the rest of a pattern means for the rest of a name   *)
(* is the same question about cuts; the loop keeps its answer while it     *)
(* moves from rest to rest.                                                *)
(***************************************************************************)
Piece(w, s, cut, k) ==
    IF w[k] = "*" THEN cut[k] >= cut[k - 1] ELSE cut[k] = cut[k - 1] + 1 /\ s[cut[k]] = w[k]

(* cut divides s, from j on, among the characters of w, from i on. *)
Cuts(w, s, cut, i, j) ==
    /\ cut \in [i - 1 .. Len(w) -> 0 .. Len(s)]
    /\ cut[i - 1] = j - 1 /\ cut[Len(w)] = Len(s)
    /\ \A k \in i .. Len(w) : Piece(w, s, cut, k)

Fits(w, s, i, j) == \E cut : Cuts(w, s, cut, i, j)

(* The characters of w from i to before m are those of s from j on. *)
Agree(w, s, i, m, j) ==
    /\ j + (m - i) <= Len(s) + 1
    /\ \A k \in i .. m - 1 : w[k] # "*" /\ w[k] = s[j + (k - i)]

LEMMA LeastNumber ==
    ASSUME NEW T \in SUBSET Nat, T # {}
    PROVE  \E n \in T : \A m \in T : n <= m
  <1>1. PICK x \in T : \A y \in T : ~(<<y, x>> \in OpToRel(<, Nat))
    BY NatLessThanWellFounded, WFMin
  <1>2. \A y \in T : ~(y < x)
    BY <1>1 DEF OpToRel
  <1> QED BY <1>2

(* Cuts never go back. *)
LEMMA CutsGrow ==
    ASSUME NEW S, NEW R, NEW w \in Seq(S), NEW s \in Seq(R), NEW i \in 1 .. Len(w) + 1, NEW j \in Nat, NEW cut,
           Cuts(w, s, cut, i, j)
    PROVE  \A k \in i - 1 .. Len(w) : cut[k] \in 0 .. Len(s) /\ cut[k] >= j - 1
  <1> DEFINE T == {k \in i - 1 .. Len(w) : ~(cut[k] >= j - 1)}
  <1>1. \A k \in i - 1 .. Len(w) : cut[k] \in 0 .. Len(s)
    BY DEF Cuts
  <1>2. SUFFICES ASSUME T # {} PROVE FALSE
    BY <1>1
  <1>3. T \in SUBSET Nat
    OBVIOUS
  <1>4. PICK k \in T : \A m \in T : k <= m
    BY <1>2, <1>3, LeastNumber
  <1>5. k # i - 1 /\ k \in i .. Len(w) /\ k - 1 \in i - 1 .. Len(w)
    <2>1. cut[i - 1] = j - 1 /\ j - 1 \in Int
      BY DEF Cuts
    <2>2. k # i - 1
      BY <1>4, <2>1
    <2> QED BY <1>4, <2>2
  <1>6. cut[k - 1] >= j - 1
    BY <1>4, <1>5
  <1>7. Piece(w, s, cut, k) /\ cut[k] \in Int /\ cut[k - 1] \in Int
    BY <1>1, <1>5 DEF Cuts
  <1>8. cut[k] >= cut[k - 1]
    BY <1>7 DEF Piece
  <1> QED BY <1>4, <1>6, <1>7, <1>8

(* Over characters that are no stars they go on one by one. *)
LEMMA CutsRun ==
    ASSUME NEW S, NEW R, NEW w \in Seq(S), NEW s \in Seq(R), NEW i \in 1 .. Len(w) + 1, NEW j \in Nat, NEW cut,
           Cuts(w, s, cut, i, j), NEW m \in i .. Len(w) + 1, \A k \in i .. m - 1 : w[k] # "*"
    PROVE  \A k \in i - 1 .. m - 1 : cut[k] = j - 1 + (k - (i - 1))
  <1> DEFINE T == {k \in i - 1 .. m - 1 : cut[k] # j - 1 + (k - (i - 1))}
  <1>1. SUFFICES ASSUME T # {} PROVE FALSE
    OBVIOUS
  <1>2. T \in SUBSET Nat
    OBVIOUS
  <1>3. PICK k \in T : \A l \in T : k <= l
    BY <1>1, <1>2, LeastNumber
  <1>4. k # i - 1 /\ k \in i .. m - 1 /\ k \in i .. Len(w) /\ k - 1 \in i - 1 .. m - 1
    BY <1>3 DEF Cuts
  <1>5. cut[k - 1] = j - 1 + (k - 1 - (i - 1))
    BY <1>3, <1>4
  <1>6. cut[k] = cut[k - 1] + 1
    <2>1. Piece(w, s, cut, k) /\ w[k] # "*"
      BY <1>4 DEF Cuts
    <2> QED BY <2>1 DEF Piece
  <1>7. i \in Int /\ k \in Int
    BY <1>4
  <1> QED BY <1>3, <1>5, <1>6, <1>7

(* A run of such characters is matched in one way. *)
LEMMA RunFits ==
    ASSUME NEW S, NEW R, NEW w \in Seq(S), NEW s \in Seq(R), NEW i \in 1 .. Len(w) + 1,
           NEW j \in 1 .. Len(s) + 1, NEW m \in i .. Len(w) + 1, \A k \in i .. m - 1 : w[k] # "*"
    PROVE  Fits(w, s, i, j) <=> Agree(w, s, i, m, j) /\ Fits(w, s, m, j + (m - i))
  <1>1. ASSUME NEW cut, Cuts(w, s, cut, i, j)
        PROVE  Agree(w, s, i, m, j) /\ Fits(w, s, m, j + (m - i))
    <2>1. \A k \in i - 1 .. m - 1 : cut[k] = j - 1 + (k - (i - 1))
      BY <1>1, CutsRun
    <2>2. m - 1 \in i - 1 .. m - 1 /\ m - 1 \in i - 1 .. Len(w)
      OBVIOUS
    <2>3. cut[m - 1] = j + (m - i) - 1 /\ cut[m - 1] \in 0 .. Len(s)
      <3>1. cut[m - 1] = j - 1 + (m - 1 - (i - 1))
        BY <2>1, <2>2
      <3>2. j - 1 + (m - 1 - (i - 1)) = j + (m - i) - 1
        OBVIOUS
      <3>3. cut[m - 1] \in 0 .. Len(s)
        BY <1>1, <2>2 DEF Cuts
      <3> QED BY <3>1, <3>2, <3>3
    <2>4. ASSUME NEW k \in i .. m - 1 PROVE w[k] # "*" /\ w[k] = s[j + (k - i)]
      <3>1. Piece(w, s, cut, k) /\ w[k] # "*"
        BY <1>1 DEF Cuts
      <3>2. cut[k] = j + (k - i)
        BY <2>1
      <3> QED BY <3>1, <3>2 DEF Piece
    <2>5. Agree(w, s, i, m, j)
      BY <2>3, <2>4 DEF Agree
    <2> DEFINE rest == [k \in m - 1 .. Len(w) |-> cut[k]]
    <2>6. Cuts(w, s, rest, m, j + (m - i))
      <3>1. \A k \in m - 1 .. Len(w) : k \in i - 1 .. Len(w)
        OBVIOUS
      <3>2. rest \in [m - 1 .. Len(w) -> 0 .. Len(s)]
        BY <1>1, <3>1 DEF Cuts
      <3>3. Len(w) \in m - 1 .. Len(w) /\ m - 1 \in m - 1 .. Len(w)
        OBVIOUS
      <3>4. \A k \in m .. Len(w) : Piece(w, s, rest, k)
        <4> TAKE k \in m .. Len(w)
        <4>1. k \in i .. Len(w) /\ k \in m - 1 .. Len(w) /\ k - 1 \in m - 1 .. Len(w)
          OBVIOUS
        <4>2. rest[k] = cut[k] /\ rest[k - 1] = cut[k - 1]
          BY <4>1
        <4> QED BY <1>1, <4>1, <4>2 DEF Cuts, Piece
      <3> QED BY <1>1, <2>3, <3>2, <3>3, <3>4 DEF Cuts
    <2> QED BY <2>5, <2>6 DEF Fits
  <1>2. ASSUME Agree(w, s, i, m, j), NEW cut, Cuts(w, s, cut, m, j + (m - i))
        PROVE  Fits(w, s, i, j)
    <2> DEFINE whole == [k \in i - 1 .. Len(w) |-> IF k < m THEN j - 1 + (k - (i - 1)) ELSE cut[k]]
    <2>1. whole[m - 1] = cut[m - 1]
      BY <1>2 DEF Cuts
    <2>2. ASSUME NEW k \in m - 1 .. Len(w) PROVE whole[k] = cut[k] /\ cut[k] \in 0 .. Len(s)
      <3>1. k \in i - 1 .. Len(w) /\ (k = m - 1 \/ ~(k < m))
        OBVIOUS
      <3>2. cut[k] \in 0 .. Len(s)
        BY <1>2 DEF Cuts
      <3> QED BY <2>1, <3>1, <3>2
    <2>3. \A k \in i - 1 .. m - 1 : whole[k] = j - 1 + (k - (i - 1)) /\ whole[k] \in 0 .. Len(s)
      BY <1>2 DEF Agree
    <2>4. whole \in [i - 1 .. Len(w) -> 0 .. Len(s)]
      <3>1. \A k \in i - 1 .. Len(w) : k \in i - 1 .. m - 1 \/ k \in m - 1 .. Len(w)
        OBVIOUS
      <3>2. \A k \in i - 1 .. Len(w) : whole[k] \in 0 .. Len(s)
        BY <2>2, <2>3, <3>1
      <3> QED BY <3>2
    <2>5. whole[i - 1] = j - 1 /\ whole[Len(w)] = Len(s)
      <3>1. i - 1 \in i - 1 .. m - 1 /\ j - 1 + (i - 1 - (i - 1)) = j - 1 /\ Len(w) \in m - 1 .. Len(w)
        OBVIOUS
      <3>2. cut[Len(w)] = Len(s)
        BY <1>2 DEF Cuts
      <3> QED BY <2>2, <2>3, <3>1, <3>2
    <2>6. \A k \in i .. Len(w) : Piece(w, s, whole, k)
      <3> TAKE k \in i .. Len(w)
      <3>1. CASE k < m
        <4>1. k \in i .. m - 1 /\ k \in i - 1 .. m - 1 /\ k - 1 \in i - 1 .. m - 1
          BY <3>1
        <4>2. whole[k] = whole[k - 1] + 1 /\ whole[k] = j + (k - i)
          BY <2>3, <4>1
        <4>3. w[k] # "*" /\ w[k] = s[j + (k - i)]
          BY <1>2, <4>1 DEF Agree
        <4> QED BY <4>2, <4>3 DEF Piece
      <3>2. CASE k >= m
        <4>1. k \in m .. Len(w) /\ k \in m - 1 .. Len(w) /\ k - 1 \in m - 1 .. Len(w)
          BY <3>2
        <4>2. whole[k] = cut[k] /\ whole[k - 1] = cut[k - 1]
          BY <2>2, <4>1
        <4>3. Piece(w, s, cut, k)
          BY <1>2, <4>1 DEF Cuts
        <4> QED BY <4>2, <4>3 DEF Piece
      <3> QED BY <3>1, <3>2
    <2>7. Cuts(w, s, whole, i, j)
      BY <2>4, <2>5, <2>6 DEF Cuts
    <2> QED BY <2>7 DEF Fits
  <1> QED BY <1>1, <1>2 DEF Fits

(* A star takes any part of what is left. *)
LEMMA StarFits ==
    ASSUME NEW S, NEW R, NEW w \in Seq(S), NEW s \in Seq(R), NEW i \in 1 .. Len(w), w[i] = "*",
           NEW j \in 1 .. Len(s) + 1
    PROVE  Fits(w, s, i, j) <=> \E l \in j .. Len(s) + 1 : Fits(w, s, i + 1, l)
  <1>1. ASSUME NEW cut, Cuts(w, s, cut, i, j)
        PROVE  \E l \in j .. Len(s) + 1 : Fits(w, s, i + 1, l)
    <2>1. i \in i .. Len(w) /\ i \in i - 1 .. Len(w) /\ i - 1 \in i - 1 .. Len(w)
      OBVIOUS
    <2>2. Piece(w, s, cut, i) /\ cut[i - 1] = j - 1 /\ cut[i] \in 0 .. Len(s)
      BY <1>1, <2>1 DEF Cuts
    <2>3. cut[i] + 1 \in j .. Len(s) + 1
      BY <2>2 DEF Piece
    <2> DEFINE rest == [k \in i .. Len(w) |-> cut[k]]
    <2>4. rest \in [i + 1 - 1 .. Len(w) -> 0 .. Len(s)]
      BY <1>1 DEF Cuts
    <2>5. rest[i + 1 - 1] = cut[i] + 1 - 1 /\ rest[Len(w)] = Len(s)
      BY <1>1, <2>1, <2>2 DEF Cuts
    <2>6. \A k \in i + 1 .. Len(w) : Piece(w, s, rest, k)
      <3> TAKE k \in i + 1 .. Len(w)
      <3>1. k \in i .. Len(w) /\ k - 1 \in i .. Len(w)
        OBVIOUS
      <3>2. rest[k] = cut[k] /\ rest[k - 1] = cut[k - 1]
        BY <3>1
      <3> QED BY <1>1, <3>1, <3>2 DEF Cuts, Piece
    <2>7. Cuts(w, s, rest, i + 1, cut[i] + 1)
      BY <2>4, <2>5, <2>6 DEF Cuts
    <2> QED BY <2>3, <2>7 DEF Fits
  <1>2. ASSUME NEW l \in j .. Len(s) + 1, NEW cut, Cuts(w, s, cut, i + 1, l)
        PROVE  Fits(w, s, i, j)
    <2> DEFINE whole == [k \in i - 1 .. Len(w) |-> IF k < i THEN j - 1 ELSE cut[k]]
    <2>1. \A k \in i .. Len(w) : whole[k] = cut[k] /\ cut[k] \in 0 .. Len(s)
      <3>1. cut \in [i .. Len(w) -> 0 .. Len(s)]
        <4>1. i + 1 - 1 = i
          OBVIOUS
        <4> QED BY <1>2, <4>1 DEF Cuts
      <3> QED BY <3>1
    <2>2. whole[i - 1] = j - 1 /\ whole[i] = l - 1 /\ whole[Len(w)] = Len(s)
      BY <1>2, <2>1 DEF Cuts
    <2>3. whole \in [i - 1 .. Len(w) -> 0 .. Len(s)]
      <3>1. \A k \in i - 1 .. Len(w) : k = i - 1 \/ k \in i .. Len(w)
        OBVIOUS
      <3>2. j - 1 \in 0 .. Len(s)
        OBVIOUS
      <3>3. \A k \in i .. Len(w) : whole[k] \in 0 .. Len(s)
        BY <2>1
      <3>4. \A k \in i - 1 .. Len(w) : whole[k] \in 0 .. Len(s)
        BY <2>2, <3>1, <3>2, <3>3
      <3> QED BY <3>4
    <2>4. \A k \in i .. Len(w) : Piece(w, s, whole, k)
      <3> TAKE k \in i .. Len(w)
      <3>1. CASE k = i
        BY <2>2, <3>1 DEF Piece
      <3>2. CASE k # i
        <4>1. k \in i + 1 .. Len(w) /\ k - 1 \in i .. Len(w)
          BY <3>2
        <4> QED BY <1>2, <2>1, <4>1 DEF Cuts, Piece
      <3> QED BY <3>1, <3>2
    <2>5. Cuts(w, s, whole, i, j)
      BY <2>2, <2>3, <2>4 DEF Cuts
    <2> QED BY <2>5 DEF Fits
  <1> QED BY <1>1, <1>2 DEF Fits

(* At the end of the pattern the name must end. *)
LEMMA EndFits ==
    ASSUME NEW S, NEW R, NEW w \in Seq(S), NEW s \in Seq(R), NEW j \in 1 .. Len(s) + 1
    PROVE  Fits(w, s, Len(w) + 1, j) <=> j = Len(s) + 1
  <1>1. ASSUME NEW cut, Cuts(w, s, cut, Len(w) + 1, j) PROVE j = Len(s) + 1
    <2>1. cut[Len(w)] = j - 1 /\ cut[Len(w)] = Len(s)
      BY <1>1 DEF Cuts
    <2> QED BY <2>1
  <1>2. ASSUME j = Len(s) + 1 PROVE Fits(w, s, Len(w) + 1, j)
    <2> DEFINE cut == [k \in Len(w) .. Len(w) |-> Len(s)]
    <2>1. Cuts(w, s, cut, Len(w) + 1, j)
      BY <1>2 DEF Cuts
    <2> QED BY <2>1 DEF Fits
  <1> QED BY <1>1, <1>2 DEF Fits

(* At the end of the name only stars may be left. *)
LEMMA StarsFit ==
    ASSUME NEW S, NEW R, NEW w \in Seq(S), NEW s \in Seq(R), NEW i \in 1 .. Len(w) + 1
    PROVE  Fits(w, s, i, Len(s) + 1) <=> \A k \in i .. Len(w) : w[k] = "*"
  <1>1. ASSUME NEW cut, Cuts(w, s, cut, i, Len(s) + 1), NEW k \in i .. Len(w), w[k] # "*" PROVE FALSE
    <2>1. k \in i - 1 .. Len(w) /\ k - 1 \in i - 1 .. Len(w)
      OBVIOUS
    <2>2. cut[k - 1] \in 0 .. Len(s) /\ cut[k - 1] >= Len(s) /\ cut[k] \in 0 .. Len(s)
      BY <1>1, <2>1, CutsGrow
    <2>3. cut[k] = cut[k - 1] + 1
      BY <1>1 DEF Cuts, Piece
    <2> QED BY <2>2, <2>3
  <1>2. ASSUME \A k \in i .. Len(w) : w[k] = "*" PROVE Fits(w, s, i, Len(s) + 1)
    <2> DEFINE cut == [k \in i - 1 .. Len(w) |-> Len(s)]
    <2>1. \A k \in i .. Len(w) : Piece(w, s, cut, k)
      BY <1>2 DEF Piece
    <2>2. Cuts(w, s, cut, i, Len(s) + 1)
      <3>1. i - 1 \in i - 1 .. Len(w) /\ Len(w) \in i - 1 .. Len(w) /\ Len(s) + 1 - 1 = Len(s)
        OBVIOUS
      <3>2. cut \in [i - 1 .. Len(w) -> 0 .. Len(s)]
        OBVIOUS
      <3>3. cut[i - 1] = Len(s) + 1 - 1 /\ cut[Len(w)] = Len(s)
        BY <3>1
      <3> HIDE DEF cut
      <3> QED BY <2>1, <3>2, <3>3 DEF Cuts
    <2> QED BY <2>2 DEF Fits
  <1> QED BY <1>1, <1>2 DEF Fits

-----------------------------------------------------------------------------
Matched == Fits(pattern, name, 1, 1)

(* Behind the last star, or from the start, the loop has passed characters *)
(* that agree; the whole matches if the star's rest does at some later     *)
(* place.                                                                  *)
SinceStar ==
    /\ pattern[star] = "*" /\ star < atPattern /\ resume <= atName
    /\ atPattern - star = atName - resume + 1
    /\ Agree(pattern, name, star + 1, atPattern, resume)
    /\ Matched <=> \E l \in resume .. Len(name) + 1 : Fits(pattern, name, star + 1, l)

GlobTypeOK ==
    /\ pattern \in Seq(Letters \cup {"*"}) /\ name \in Seq(Letters)
    /\ atPattern \in 1 .. Len(pattern) + 1 /\ atName \in 1 .. Len(name) + 1
    /\ star \in 0 .. Len(pattern) /\ resume \in 1 .. Len(name) + 1
    /\ verdict \in {"open", "yes", "no"}

GlobInv ==
    /\ GlobTypeOK
    /\ star = 0 => atPattern = atName /\ Agree(pattern, name, 1, atPattern, 1)
    /\ star > 0 => SinceStar
    /\ verdict # "open" => (verdict = "yes" <=> Matched)

(* What the loop has left to match, as it stands. *)
Rest == Fits(pattern, name, atPattern, atName)

(* Without a star the whole matches if the rest does. *)
LEMMA RestOfAll ==
    ASSUME GlobInv, star = 0
    PROVE  Matched <=> Rest
  <1>1. pattern \in Seq(Letters \cup {"*"}) /\ name \in Seq(Letters)
    BY DEF GlobInv, GlobTypeOK
  <1>2. 1 \in 1 .. Len(pattern) + 1 /\ 1 \in 1 .. Len(name) + 1 /\ atPattern \in 1 .. Len(pattern) + 1
    BY DEF GlobInv, GlobTypeOK
  <1>3. Agree(pattern, name, 1, atPattern, 1) /\ \A k \in 1 .. atPattern - 1 : pattern[k] # "*"
    BY DEF GlobInv, Agree
  <1>4. 1 + (atPattern - 1) = atName
    BY DEF GlobInv, GlobTypeOK
  <1>5. Fits(pattern, name, 1, 1) <=>
            Agree(pattern, name, 1, atPattern, 1) /\ Fits(pattern, name, atPattern, 1 + (atPattern - 1))
    BY <1>1, <1>2, <1>3, RunFits
  <1> QED BY <1>3, <1>4, <1>5 DEF Matched, Rest

(* Behind a star its rest matches where the star gives way now if what is  *)
(* left matches.                                                           *)
LEMMA RestOfStar ==
    ASSUME GlobInv, star > 0
    PROVE  /\ Fits(pattern, name, star + 1, resume) <=> Rest
           /\ \A l \in resume .. Len(name) + 1 :
                 Fits(pattern, name, star + 1, l) =>
                    /\ l + (atName - resume) \in atName .. Len(name) + 1
                    /\ Fits(pattern, name, atPattern, l + (atName - resume))
  <1>1. pattern \in Seq(Letters \cup {"*"}) /\ name \in Seq(Letters)
    BY DEF GlobInv, GlobTypeOK
  <1>2. /\ star + 1 \in 1 .. Len(pattern) + 1 /\ atPattern \in star + 1 .. Len(pattern) + 1
        /\ resume \in 1 .. Len(name) + 1 /\ atName \in 1 .. Len(name) + 1
        /\ atPattern - (star + 1) = atName - resume
    BY DEF GlobInv, GlobTypeOK, SinceStar
  <1>3. Agree(pattern, name, star + 1, atPattern, resume) /\ \A k \in star + 1 .. atPattern - 1 : pattern[k] # "*"
    BY DEF GlobInv, SinceStar, Agree
  <1>4. ASSUME NEW l \in 1 .. Len(name) + 1
        PROVE  Fits(pattern, name, star + 1, l) <=>
                  /\ Agree(pattern, name, star + 1, atPattern, l)
                  /\ Fits(pattern, name, atPattern, l + (atName - resume))
    <2>1. Fits(pattern, name, star + 1, l) <=>
                  /\ Agree(pattern, name, star + 1, atPattern, l)
                  /\ Fits(pattern, name, atPattern, l + (atPattern - (star + 1)))
      BY <1>1, <1>2, <1>3, RunFits
    <2> QED BY <1>2, <2>1
  <1>5. resume + (atName - resume) = atName
    BY <1>2
  <1>6. ASSUME NEW l \in resume .. Len(name) + 1, Fits(pattern, name, star + 1, l)
        PROVE  /\ l + (atName - resume) \in atName .. Len(name) + 1
               /\ Fits(pattern, name, atPattern, l + (atName - resume))
    <2>1. l \in 1 .. Len(name) + 1
      BY <1>2
    <2>2. l + (atPattern - (star + 1)) <= Len(name) + 1
      BY <1>4, <1>6, <2>1 DEF Agree
    <2> QED BY <1>2, <1>4, <1>6, <2>1, <2>2
  <1> QED BY <1>2, <1>3, <1>4, <1>5, <1>6 DEF Rest

(* Where neither a character nor a star can be taken, nothing matches. *)
LEMMA NoRest ==
    ASSUME GlobInv, atName <= Len(name), ~AtMatch, ~AtStar
    PROVE  ~Rest
  <1>1. pattern \in Seq(Letters \cup {"*"}) /\ name \in Seq(Letters)
    BY DEF GlobInv, GlobTypeOK
  <1>2. atPattern \in 1 .. Len(pattern) + 1 /\ atName \in 1 .. Len(name) + 1
    BY DEF GlobInv, GlobTypeOK
  <1>3. CASE atPattern = Len(pattern) + 1
    BY <1>1, <1>2, <1>3, EndFits DEF Rest
  <1>4. CASE atPattern # Len(pattern) + 1
    <2>1. atPattern \in 1 .. Len(pattern) /\ atPattern + 1 \in atPattern .. Len(pattern) + 1
      BY <1>2, <1>4
    <2>2. pattern[atPattern] # "*" /\ pattern[atPattern] # name[atName]
      BY <2>1 DEF AtMatch, AtStar
    <2>3. \A k \in atPattern .. atPattern + 1 - 1 : pattern[k] # "*"
      BY <2>1, <2>2
    <2>4. Rest => Agree(pattern, name, atPattern, atPattern + 1, atName)
      BY <1>1, <1>2, <2>1, <2>3, RunFits DEF Rest
    <2>5. atPattern \in atPattern .. atPattern + 1 - 1 /\ atName + (atPattern - atPattern) = atName
      BY <1>2
    <2> QED BY <2>2, <2>4, <2>5 DEF Agree
  <1> QED BY <1>3, <1>4

LEMMA GlobInvInit ==
    ASSUME GlobAssumption, Begin
    PROVE  GlobInv
  <1>1. pattern \in Seq(Letters \cup {"*"})
    BY DEF GlobAssumption, Begin, Words
  <1>2. name \in Seq(Letters)
    BY DEF GlobAssumption, Begin, Words
  <1> QED BY <1>1, <1>2 DEF Begin, GlobInv, GlobTypeOK, Agree

LEMMA GlobInvStep ==
    ASSUME GlobAssumption, GlobInv, [GlobStep]_globVars
    PROVE  GlobInv'
  <1>0. /\ pattern \in Seq(Letters \cup {"*"}) /\ name \in Seq(Letters)
        /\ atPattern \in 1 .. Len(pattern) + 1 /\ atName \in 1 .. Len(name) + 1
        /\ star \in 0 .. Len(pattern) /\ resume \in 1 .. Len(name) + 1
    BY DEF GlobInv, GlobTypeOK
  <1>1. CASE UNCHANGED globVars
    BY <1>1 DEF globVars, GlobInv, GlobTypeOK, SinceStar, Matched
  <1>2. CASE GlobStep
    <2>1. UNCHANGED <<pattern, name>> /\ verdict = "open"
      BY <1>2 DEF GlobStep
    <2>2. CASE Literal
      <3>1. /\ atPattern' = atPattern + 1 /\ atName' = atName + 1 /\ UNCHANGED <<star, resume, verdict>>
            /\ atPattern \in 1 .. Len(pattern) /\ atName \in 1 .. Len(name)
            /\ pattern[atPattern] = name[atName]
        BY <1>0, <2>2 DEF Literal, AtMatch
      <3>2. pattern[atPattern] # "*"
        BY <1>0, <3>1 DEF GlobAssumption
      <3>3. GlobTypeOK'
        BY <2>1, <3>1 DEF GlobInv, GlobTypeOK
      <3>4. star = 0 => atPattern' = atName' /\ Agree(pattern, name, 1, atPattern', 1)
        <4> SUFFICES ASSUME star = 0 PROVE atPattern' = atName' /\ Agree(pattern, name, 1, atPattern', 1)
          OBVIOUS
        <4>1. atPattern = atName /\ Agree(pattern, name, 1, atPattern, 1)
          BY DEF GlobInv
        <4>2. \A k \in 1 .. atPattern' - 1 : k \in 1 .. atPattern - 1 \/ k = atPattern
          BY <3>1
        <4>3. 1 + (atPattern - 1) = atName /\ 1 + (atPattern' - 1) <= Len(name) + 1
          BY <3>1, <4>1
        <4> QED BY <3>1, <3>2, <4>1, <4>2, <4>3 DEF Agree
      <3>5. star > 0 => SinceStar'
        <4> SUFFICES ASSUME star > 0 PROVE SinceStar'
          OBVIOUS
        <4>1. SinceStar
          BY DEF GlobInv
        <4>2. \A k \in star + 1 .. atPattern' - 1 : k \in star + 1 .. atPattern - 1 \/ k = atPattern
          BY <1>0, <3>1
        <4>3. resume + (atPattern - (star + 1)) = atName /\ resume + (atPattern' - (star + 1)) <= Len(name) + 1
          BY <1>0, <3>1, <4>1 DEF SinceStar
        <4>4. Agree(pattern, name, star + 1, atPattern', resume)
          BY <3>1, <3>2, <4>1, <4>2, <4>3 DEF SinceStar, Agree
        <4>5. /\ star < atPattern' /\ resume <= atName' /\ atPattern' - star = atName' - resume + 1
          BY <1>0, <3>1, <4>1 DEF SinceStar
        <4> QED BY <2>1, <3>1, <4>1, <4>4, <4>5 DEF SinceStar, Matched
      <3> QED BY <2>1, <3>1, <3>3, <3>4, <3>5 DEF GlobInv
    <2>3. CASE PassStar
      <3>1. /\ star' = atPattern /\ resume' = atName /\ atPattern' = atPattern + 1 /\ UNCHANGED <<atName, verdict>>
            /\ atPattern \in 1 .. Len(pattern) /\ pattern[atPattern] = "*"
        BY <1>0, <2>3 DEF PassStar, AtStar
      <3>2. GlobTypeOK'
        BY <2>1, <3>1 DEF GlobInv, GlobTypeOK
      <3>3. Rest <=> \E l \in atName .. Len(name) + 1 : Fits(pattern, name, atPattern + 1, l)
        BY <1>0, <3>1, StarFits DEF Rest
      <3>4. Matched <=> Rest
        <4>1. CASE star = 0
          BY <4>1, RestOfAll
        <4>2. CASE star > 0
          <5>1. Rest => Matched
            <6>1. resume \in resume .. Len(name) + 1
              BY <1>0
            <6> QED BY <4>2, <6>1, RestOfStar DEF GlobInv, SinceStar
          <5>2. ASSUME NEW l \in resume .. Len(name) + 1, Fits(pattern, name, star + 1, l)
                PROVE  Rest
            <6>1. /\ l + (atName - resume) \in atName .. Len(name) + 1
                  /\ Fits(pattern, name, atPattern, l + (atName - resume))
              BY <4>2, <5>2, RestOfStar
            <6>2. PICK j : j = l + (atName - resume)
              OBVIOUS
            <6>3. j \in 1 .. Len(name) + 1 /\ \A k \in j .. Len(name) + 1 : k \in atName .. Len(name) + 1
              BY <1>0, <6>1, <6>2
            <6>4. Fits(pattern, name, atPattern, j)
              BY <6>1, <6>2
            <6>5. \E k \in j .. Len(name) + 1 : Fits(pattern, name, atPattern + 1, k)
              BY <1>0, <3>1, <6>3, <6>4, StarFits
            <6> QED BY <3>3, <6>3, <6>5
          <5> QED BY <4>2, <5>1, <5>2 DEF GlobInv, SinceStar
        <4> QED BY <1>0, <4>1, <4>2
      <3>5. Agree(pattern, name, atPattern + 1, atPattern + 1, atName)
        BY <1>0, <3>1 DEF Agree
      <3>6. SinceStar'
        <4>1. atPattern < atPattern + 1 /\ atName <= atName /\ atPattern + 1 - atPattern = atName - atName + 1
          BY <1>0
        <4>2. Matched' <=> Matched
          BY <2>1 DEF Matched
        <4> QED BY <2>1, <3>1, <3>3, <3>4, <3>5, <4>1, <4>2 DEF SinceStar
      <3>7. star' > 0
        BY <3>1
      <3> QED BY <2>1, <3>1, <3>2, <3>6, <3>7 DEF GlobInv
    <2>4. CASE GiveWay
      <3>1. /\ atName <= Len(name) /\ ~AtMatch /\ ~AtStar /\ star > 0 /\ atPattern' = star + 1
            /\ resume' = resume + 1 /\ atName' = resume + 1 /\ UNCHANGED <<star, verdict>>
        BY <2>4 DEF GiveWay, Back
      <3>2. SinceStar /\ resume <= atName
        BY <3>1 DEF GlobInv, SinceStar
      <3>3. ~Fits(pattern, name, star + 1, resume)
        BY <3>1, NoRest, RestOfStar
      <3>4. resume + 1 \in 1 .. Len(name) + 1 /\ \A l \in resume .. Len(name) + 1 : l = resume \/ l \in resume + 1 .. Len(name) + 1
        BY <1>0, <3>1, <3>2
      <3>5. Matched <=> \E l \in resume + 1 .. Len(name) + 1 : Fits(pattern, name, star + 1, l)
        <4>1. \A l \in resume + 1 .. Len(name) + 1 : l \in resume .. Len(name) + 1
          BY <1>0
        <4> QED BY <3>2, <3>3, <3>4, <4>1 DEF SinceStar
      <3>6. GlobTypeOK'
        BY <2>1, <3>1, <3>4 DEF GlobInv, GlobTypeOK
      <3>7. Agree(pattern, name, star + 1, star + 1, resume + 1)
        BY <1>0, <3>4 DEF Agree
      <3>8. SinceStar'
        <4>1. star < star + 1 /\ resume + 1 <= resume + 1 /\ star + 1 - star = resume + 1 - (resume + 1) + 1
          BY <1>0
        <4>2. Matched' <=> Matched
          BY <2>1 DEF Matched
        <4>3. pattern[star] = "*"
          BY <3>2 DEF SinceStar
        <4>5. Agree(pattern', name', star' + 1, atPattern', resume')
          BY <2>1, <3>1, <3>7
        <4>6. Matched' <=> \E l \in resume' .. Len(name') + 1 : Fits(pattern', name', star' + 1, l)
          BY <2>1, <3>1, <3>5, <4>2
        <4>7. star' < atPattern' /\ resume' <= atName' /\ atPattern' - star' = atName' - resume' + 1
          BY <1>0, <3>1, <4>1
        <4> QED BY <2>1, <3>1, <4>3, <4>5, <4>6, <4>7 DEF SinceStar
      <3> QED BY <2>1, <3>1, <3>6, <3>8 DEF GlobInv
    <2>5. CASE Fail
      <3>1. ~Matched
        BY <2>5, NoRest, RestOfAll DEF Fail
      <3> QED BY <2>1, <2>5, <3>1 DEF Fail, GlobInv, GlobTypeOK, Matched
    <2>6. CASE Finish
      <3>1. atName = Len(name) + 1 /\ UNCHANGED <<atPattern, atName, star, resume>>
        BY <1>0, <2>6 DEF Finish
      <3>2. Rest <=> \A k \in atPattern .. Len(pattern) : pattern[k] = "*"
        BY <1>0, <3>1, StarsFit DEF Rest
      <3>3. Matched <=> Rest
        <4>1. CASE star = 0
          BY <4>1, RestOfAll
        <4>2. CASE star > 0
          <5>1. Rest => Matched
            <6>1. resume \in resume .. Len(name) + 1
              BY <1>0
            <6> QED BY <4>2, <6>1, RestOfStar DEF GlobInv, SinceStar
          <5>2. ASSUME NEW l \in resume .. Len(name) + 1, Fits(pattern, name, star + 1, l)
                PROVE  Rest
            <6>1. /\ l + (atName - resume) \in atName .. Len(name) + 1
                  /\ Fits(pattern, name, atPattern, l + (atName - resume))
              BY <4>2, <5>2, RestOfStar
            <6>2. l + (atName - resume) = atName
              BY <1>0, <3>1, <6>1
            <6> QED BY <6>1, <6>2 DEF Rest
          <5> QED BY <4>2, <5>1, <5>2 DEF GlobInv, SinceStar
        <4> QED BY <1>0, <4>1, <4>2
      <3>4. verdict' \in {"yes", "no"} /\ (verdict' = "yes" <=> Matched)
        BY <2>6, <3>2, <3>3 DEF Finish
      <3> QED BY <2>1, <3>1, <3>4 DEF GlobInv, GlobTypeOK, SinceStar, Matched
    <2> QED BY <1>2, <2>2, <2>3, <2>4, <2>5, <2>6 DEF GlobStep
  <1> QED BY <1>1, <1>2

(* The loop of name_glob_match() never loses a match and never makes one   *)
(* up, wherever its pointers are.                                          *)
THEOREM GlobInvCorrect == ASSUME GlobAssumption PROVE GlobSpec => []GlobInv
  BY GlobInvInit, GlobInvStep, PTL DEF GlobSpec

(* What is matched has each character of the pattern that is no star, the  *)
(* last one at its end.                                                    *)
LEMMA CharactersKept ==
    ASSUME GlobTypeOK, Matched, NEW k \in 1 .. Len(pattern), pattern[k] # "*"
    PROVE  Has(name, pattern[k]) /\ (k = Len(pattern) => EndsIn(name, pattern[k]))
  <1>1. pattern \in Seq(Letters \cup {"*"}) /\ name \in Seq(Letters)
    BY DEF GlobTypeOK
  <1>2. PICK cut : Cuts(pattern, name, cut, 1, 1)
    BY DEF Matched, Fits
  <1>3. k \in 1 - 1 .. Len(pattern) /\ k - 1 \in 1 - 1 .. Len(pattern)
    BY <1>1
  <1>4. cut[k] = cut[k - 1] + 1 /\ name[cut[k]] = pattern[k]
    BY <1>2 DEF Cuts, Piece
  <1>5. cut[k] \in 1 .. Len(name)
    <2>1. cut[k] \in 0 .. Len(name) /\ cut[k - 1] \in 0 .. Len(name)
      BY <1>2, <1>3 DEF Cuts
    <2> QED BY <1>4, <2>1
  <1>6. k = Len(pattern) => cut[k] = Len(name)
    BY <1>2 DEF Cuts
  <1> QED BY <1>1, <1>4, <1>5, <1>6 DEF Has, EndsIn

(* The matcher's loop decides what the pattern means, and a wildcard       *)
(* pattern that is called narrow matches only names with an authority, a   *)
(* scheme or the enumerated suffix (registry.py name_glob_match(),         *)
(* _pattern_reaches_unscoped_name()).                                      *)
THEOREM GlobCorrect == ASSUME GlobAssumption PROVE GlobSpec => []GlobIsRight
  <1>1. ASSUME GlobInv, verdict # "open"
        PROVE  verdict = "yes" <=> Means(pattern, name)
    <2>1. Matched <=> Means(pattern, name)
      <3>1. 1 - 1 = 0
        OBVIOUS
      <3> QED BY <3>1 DEF Matched, Fits, Cuts, Piece, Means
    <2> QED BY <1>1, <2>1 DEF GlobInv
  <1>2. ASSUME GlobInv, verdict = "yes", Has(pattern, "*"), ~ReachesUnscoped(pattern)
        PROVE  Scoped(name)
    <2>1. Matched /\ GlobTypeOK
      BY <1>2 DEF GlobInv
    <2>2. CASE Has(pattern, "@")
      BY <2>1, <2>2, CharactersKept DEF Has, Scoped
    <2>3. ASSUME NEW i \in 2 .. Len(pattern), pattern[i - 1] = ":" PROVE Scoped(name)
      <3>1. i - 1 \in 1 .. Len(pattern)
        OBVIOUS
      <3> QED BY <2>1, <2>3, <3>1, CharactersKept DEF Scoped
    <2>4. CASE EndsIn(pattern, ".eth")
      <3>1. Len(pattern) \in 1 .. Len(pattern)
        BY <2>1, <2>4 DEF EndsIn, GlobTypeOK
      <3> QED BY <2>1, <2>4, <3>1, CharactersKept DEF EndsIn, Scoped
    <2> QED BY <1>2, <2>2, <2>3, <2>4 DEF ReachesUnscoped
  <1>3. GlobInv => GlobIsRight
    BY <1>1, <1>2 DEF GlobIsRight
  <1> QED BY <1>3, GlobInvCorrect, PTL

-----------------------------------------------------------------------------
(***************************************************************************)
(* Files that follow the tree, where changes of the path come one at a     *)
(* time and no other program gets between an access and its stat.          *)
(***************************************************************************)
FilesTypeOK ==
    /\ time \in 0 .. MaxTime
    /\ file \in {Absent} \cup [content : Contents, mtime : 0 .. MaxTime]
    /\ bound \in {Absent} \cup Contents
    /\ marked \in {Absent} \cup Nat
    /\ held \in {Absent} \cup Contents
    /\ touched \in BOOLEAN /\ missed \in BOOLEAN

Onto == IF bound = Absent THEN Deleted ELSE bound

(* One job at a time, which brings to the disk what the tree has. *)
Stages == {"task", "thread", "read", "write", "cache"}
JobsOK ==
    /\ \A j, k \in jobs : j = k
    /\ \A j \in jobs : /\ j = [id |-> j.id, what |-> j.what, stage |-> j.stage, st |-> j.st]
                       /\ j.stage \in Stages
                       /\ j.what = Onto
                       /\ j.stage \notin {"task", "thread"} => j.what # Deleted

(* What is on the disk. *)
Holds(c) == file # Absent /\ file.content = c
Synced == (IF file = Absent THEN Absent ELSE file.content) = bound

(* A cached hash that is not racy is the file's. *)
CacheRight ==
    statCache # Absent =>
        /\ statCache.at \in 0 .. time
        /\ file # Absent /\ file.mtime < statCache.at => statCache.hash = file.content

FilesInv ==
    /\ FilesTypeOK /\ JobsOK /\ CacheRight
    /\ held # Absent => jobs = {} /\ Holds(held)
    /\ \A j \in jobs : j.stage = "cache" => Holds(j.what)
    /\ ~touched =>
          /\ Quiet /\ ~missed /\ (bound # Absent \/ marked # Absent) => Synced
          /\ \A j \in jobs : j.stage \in {"task", "thread"} /\ IsRecentlyWritten => Synced

LEMMA FilesInvInit ==
    ASSUME FilesAssumption, FilesInit
    PROVE  FilesInv
  <1>1. /\ file \in {Absent} \cup {[content |-> c, mtime |-> 0] : c \in Contents}
        /\ bound = Absent /\ statCache = Absent /\ marked = Absent /\ jobs = {} /\ held = Absent
        /\ touched = FALSE /\ missed = FALSE /\ time = 0
    BY DEF FilesInit
  <1>2. file \in {Absent} \cup [content : Contents, mtime : 0 .. MaxTime]
    BY <1>1 DEF FilesAssumption
  <1>3. FilesTypeOK
    <2>1. time \in 0 .. MaxTime
      BY <1>1 DEF FilesAssumption
    <2>2. bound \in {Absent} \cup Contents /\ held \in {Absent} \cup Contents
      BY <1>1
    <2>3. marked \in {Absent} \cup Nat
      BY <1>1
    <2>4. touched \in BOOLEAN /\ missed \in BOOLEAN
      BY <1>1
    <2> QED BY <1>2, <2>1, <2>2, <2>3, <2>4, Zenon DEF FilesTypeOK
  <1>4. JobsOK /\ CacheRight
    BY <1>1 DEF JobsOK, CacheRight
  <1> QED BY <1>1, <1>3, <1>4 DEF FilesInv

(* A file that was written is there. *)
LEMMA FileThere ==
    ASSUME FilesAssumption, NEW c \in Contents, time \in 0 .. MaxTime
    PROVE  /\ [content |-> c, mtime |-> time] \in [content : Contents, mtime : 0 .. MaxTime]
           /\ [content |-> c, mtime |-> time] # Absent
  BY DEF FilesAssumption

(* The time and the hash of an entry that was stored now. *)
LEMMA SmudgedIs ==
    ASSUME NEW key, NEW hash
    PROVE  Smudged(key, hash).at = time /\ Smudged(key, hash).hash = hash
  BY DEF Smudged

(* A new job, or none if the path was bound to that already. *)
LEMMA MovesOK ==
    ASSUME FilesTypeOK, jobs = {}, NEW what, NEW new, TreeMoves(what, new),
           what = IF new = Absent THEN Deleted ELSE new
    PROVE  /\ bound' = new /\ JobsOK'
           /\ \A j \in jobs' : j.stage = "task"
           /\ jobs' = {} => bound = new
  <1>1. bound' = new
    BY DEF TreeMoves
  <1>2. CASE bound = new /\ jobs' = jobs
    BY <1>1, <1>2 DEF JobsOK
  <1>3. CASE jobs' = jobs \cup {[id |-> <<ops, held>>, what |-> what, stage |-> "task", st |-> Absent]}
    <2> DEFINE n == [id |-> <<ops, held>>, what |-> what, stage |-> "task", st |-> Absent]
    <2>1. jobs' = {n}
      BY <1>3
    <2>2. n = [id |-> n.id, what |-> n.what, stage |-> n.stage, st |-> n.st] /\ n.stage = "task" /\ n.what = what
      OBVIOUS
    <2>3. what = Onto'
      BY <1>1 DEF Onto
    <2> HIDE DEF n
    <2> QED BY <1>1, <2>1, <2>2, <2>3 DEF JobsOK, Stages
  <1> QED BY <1>1, <1>2, <1>3 DEF TreeMoves

(* The one job there is goes on, or is over. *)
LEMMA DropIs ==
    ASSUME JobsOK, NEW j \in jobs, Drop(j)
    PROVE  jobs' = {}
  BY DEF JobsOK, Drop

LEMMA GotoIs ==
    ASSUME JobsOK, NEW j \in jobs, NEW stage \in Stages, NEW st, Goto(j, stage, st), bound' = bound,
           stage \notin {"task", "thread"} => j.what # Deleted
    PROVE  /\ JobsOK' /\ jobs' # {}
           /\ \A k \in jobs' : k.stage = stage /\ k.what = j.what
  <1> DEFINE n == [id |-> j.id, what |-> j.what, stage |-> stage, st |-> st]
  <1>1. [j EXCEPT !.stage = stage, !.st = st] = n
    <2>1. PICK a, b, c, d : j = [id |-> a, what |-> b, stage |-> c, st |-> d]
      BY DEF JobsOK
    <2>2. /\ [j EXCEPT !.stage = stage] = [id |-> a, what |-> b, stage |-> stage, st |-> d]
          /\ j.id = a /\ j.what = b
      BY <2>1
    <2>3. PICK h : h = [j EXCEPT !.stage = stage]
      OBVIOUS
    <2>4. h = [id |-> a, what |-> b, stage |-> stage, st |-> d]
      BY <2>2, <2>3
    <2>5. [h EXCEPT !.st = st] = [id |-> a, what |-> b, stage |-> stage, st |-> st]
      BY <2>4
    <2> QED BY <2>2, <2>3, <2>5
  <1>2. jobs' = {n}
    BY <1>1 DEF JobsOK, Goto
  <1> QED BY <1>2 DEF JobsOK, Onto

LEMMA NoJobsOK ==
    ASSUME jobs' = {}
    PROVE  JobsOK'
  BY DEF JobsOK

LEMMA FilesInvStep ==
    ASSUME FilesAssumption, Spaced, ~Races, FilesInv, [FilesNext]_filesVars
    PROVE  FilesInv'
  <1> USE DEF FilesInv
  <1>0. Absent \notin Contents /\ Deleted \notin Contents /\ Deleted # Absent /\ EchoWindow \in Nat
    BY DEF FilesAssumption
  <1>1. CASE UNCHANGED filesVars
    BY <1>1 DEF filesVars, FilesTypeOK, JobsOK, Onto, CacheRight, Holds, Synced, Quiet, IsRecentlyWritten
  <1>2. ASSUME NEW c \in Contents, TreePut(c) PROVE FilesInv'
    <2>1. /\ UNCHANGED <<file, statCache, marked, held, time>> /\ Quiet /\ ~IsRecentlyWritten
          /\ TreeMoves(c, c) /\ bound # c /\ touched' = FALSE /\ missed' = FALSE
      BY <1>2 DEF TreePut
    <2>2. /\ bound' = c /\ JobsOK' /\ jobs' # {} /\ \A j \in jobs' : j.stage = "task"
      BY <1>0, <2>1, MovesOK DEF Quiet
    <2>3. FilesTypeOK' /\ CacheRight'
      BY <2>1, <2>2 DEF FilesTypeOK, CacheRight
    <2>4. ~IsRecentlyWritten' /\ ~Quiet' /\ held' = Absent
      BY <2>1, <2>2 DEF IsRecentlyWritten, Quiet
    <2> QED BY <2>2, <2>3, <2>4
  <1>3. CASE TreeDelete
    <2>1. /\ UNCHANGED <<file, statCache, marked, held, time>> /\ Quiet /\ ~IsRecentlyWritten
          /\ TreeMoves(Deleted, Absent) /\ bound # Absent /\ touched' = FALSE /\ missed' = FALSE
      BY <1>3 DEF TreeDelete
    <2>2. /\ bound' = Absent /\ JobsOK' /\ jobs' # {} /\ \A j \in jobs' : j.stage = "task"
      BY <2>1, MovesOK DEF Quiet
    <2>3. FilesTypeOK' /\ CacheRight'
      BY <2>1, <2>2 DEF FilesTypeOK, CacheRight
    <2>4. ~IsRecentlyWritten' /\ ~Quiet' /\ held' = Absent
      BY <2>1, <2>2 DEF IsRecentlyWritten, Quiet
    <2> QED BY <2>2, <2>3, <2>4
  <1>4. ASSUME NEW c \in Contents, BlobArrives(c) PROVE FilesInv'
    BY <1>4 DEF BlobArrives, FilesTypeOK, JobsOK, Onto, CacheRight, Holds, Synced, Quiet, IsRecentlyWritten
  <1>5. CASE HandleRead
    <2>1. /\ UNCHANGED <<file, bound, statCache, marked, jobs, time>> /\ Quiet
          /\ file # Absent /\ held' = file.content /\ touched' = FALSE /\ missed' = FALSE
      BY <1>5 DEF HandleRead
    <2>2. held' \in Contents
      BY <2>1 DEF FilesTypeOK
    <2>3. FilesTypeOK' /\ CacheRight' /\ JobsOK' /\ jobs' = {} /\ Holds(held)'
      BY <2>1, <2>2 DEF FilesTypeOK, CacheRight, JobsOK, Quiet, Holds
    <2> QED BY <1>0, <2>2, <2>3 DEF Quiet
  <1>6. ASSUME NEW c \in Contents, HandleWrite(c) PROVE FilesInv'
    <2>1. /\ UNCHANGED <<bound, statCache, marked, jobs, time>> /\ Quiet
          /\ file' = [content |-> c, mtime |-> time] /\ held' = c /\ touched' = FALSE /\ missed' = FALSE
      BY <1>6 DEF HandleWrite
    <2>2. /\ file' \in [content : Contents, mtime : 0 .. MaxTime] /\ file' # Absent
          /\ file'.content = c /\ file'.mtime = time
      BY <2>1, FileThere DEF FilesTypeOK
    <2>3. FilesTypeOK' /\ JobsOK' /\ jobs' = {} /\ Holds(held)'
      BY <2>1, <2>2 DEF FilesTypeOK, JobsOK, Quiet, Holds
    <2>4. CacheRight'
      BY <2>1, <2>2 DEF FilesTypeOK, CacheRight
    <2> QED BY <1>0, <2>1, <2>3, <2>4 DEF Quiet
  <1>7. CASE HandleDelete
    <2>1. /\ UNCHANGED <<jobs, held, time>> /\ Quiet /\ file' = Absent /\ statCache' = Absent
          /\ marked' = time /\ bound' = Absent /\ touched' = FALSE /\ missed' = FALSE
      BY <1>7 DEF HandleDelete
    <2>2. FilesTypeOK'
      <3>1. time' \in 0 .. MaxTime /\ held' \in {Absent} \cup Contents
        BY <2>1 DEF FilesTypeOK
      <3>2. bound' \in {Absent} \cup Contents
        BY <2>1
      <3>3. marked' \in {Absent} \cup Nat
        BY <2>1 DEF FilesTypeOK
      <3>4. file' \in {Absent} \cup [content : Contents, mtime : 0 .. MaxTime]
        BY <2>1
      <3>5. touched' \in BOOLEAN /\ missed' \in BOOLEAN
        BY <2>1
      <3> QED BY <3>1, <3>2, <3>3, <3>4, <3>5, Zenon DEF FilesTypeOK
    <2>3. CacheRight' /\ Synced'
      BY <2>1 DEF CacheRight, Synced
    <2>4. JobsOK' /\ jobs' = {} /\ held' = Absent
      BY <2>1 DEF JobsOK, Quiet
    <2> QED BY <2>2, <2>3, <2>4
  <1>8. CASE FinishOp
    <2>1. held # Absent /\ held' = Absent /\ UNCHANGED <<file, touched, missed, time>>
      BY <1>8 DEF FinishOp
    <2>2. jobs = {} /\ Holds(held)
      BY <2>1
    <2>3. statCache' = Smudged(StatKey(file), held) /\ marked' = time /\ TreeMoves(held, held)
      BY <1>8, <2>2 DEF FinishOp, Holds
    <2>4. bound' = held /\ JobsOK' /\ \A j \in jobs' : j.stage = "task"
      BY <2>1, <2>2, <2>3, MovesOK
    <2>5. FilesTypeOK'
      BY <2>1, <2>3, <2>4 DEF FilesTypeOK
    <2>6. CacheRight'
      BY <2>1, <2>2, <2>3, SmudgedIs DEF CacheRight, Holds, FilesTypeOK
    <2>7. Synced'
      BY <2>1, <2>2, <2>4 DEF Synced, Holds
    <2> QED BY <2>1, <2>4, <2>5, <2>6, <2>7
  <1>9. ASSUME NEW j \in jobs, ListenerRuns(j) PROVE FilesInv'
    <2>1. /\ UNCHANGED <<file, bound, statCache, marked, held, touched, missed, time>>
          /\ held = Absent /\ j.stage = "task"
      BY <1>9 DEF ListenerRuns, LoopFree
    <2>2. FilesTypeOK' /\ CacheRight' /\ (Synced' <=> Synced) /\ (IsRecentlyWritten' <=> IsRecentlyWritten)
      BY <2>1 DEF FilesTypeOK, CacheRight, Synced, IsRecentlyWritten
    <2>3. CASE IsRecentlyWritten
      <3>1. jobs' = {} /\ JobsOK'
        BY <1>9, <2>3, DropIs, NoJobsOK DEF ListenerRuns
      <3>2. ~touched => Synced
        BY <2>1, <2>3
      <3> QED BY <2>1, <2>2, <3>1, <3>2
    <2>4. CASE ~IsRecentlyWritten
      <3>1. Goto(j, "thread", Absent)
        BY <1>9, <2>4 DEF ListenerRuns
      <3>2. JobsOK' /\ jobs' # {} /\ \A k \in jobs' : k.stage = "thread"
        BY <2>1, <3>1, GotoIs DEF Stages
      <3> QED BY <2>1, <2>2, <2>4, <3>2 DEF Quiet
    <2> QED BY <2>3, <2>4
  <1>10. ASSUME NEW j \in jobs, ReverseDelete(j) PROVE FilesInv'
    <2>1. /\ UNCHANGED <<bound, marked, held, touched, missed, time>> /\ held = Absent
          /\ j.stage = "thread" /\ j.what = Deleted /\ Drop(j)
      BY <1>10 DEF ReverseDelete
    <2>2. jobs' = {} /\ JobsOK' /\ bound = Absent
      <3>1. j.what = Onto
        BY DEF JobsOK
      <3> QED BY <1>0, <2>1, <3>1, DropIs, NoJobsOK DEF Onto, FilesTypeOK
    <2>3. CASE IsRecentlyWritten \/ file = Absent
      <3>1. UNCHANGED <<file, statCache>>
        BY <1>10, <2>3 DEF ReverseDelete
      <3>2. ~touched => Synced
        BY <2>1, <2>2, <2>3 DEF Synced
      <3> QED BY <2>1, <2>2, <3>1, <3>2 DEF FilesTypeOK, CacheRight, Synced
    <2>4. CASE ~(IsRecentlyWritten \/ file = Absent)
      <3>1. file' = Absent /\ statCache' = Absent
        BY <1>10, <2>4 DEF ReverseDelete
      <3> QED BY <2>1, <2>2, <3>1 DEF FilesTypeOK, CacheRight, Synced
    <2> QED BY <2>3, <2>4
  <1>11. ASSUME NEW j \in jobs, ReverseCheck(j) PROVE FilesInv'
    <2>1. /\ UNCHANGED <<file, bound, statCache, marked, held, touched, time>> /\ held = Absent
          /\ j.stage = "thread" /\ j.what # Deleted
      BY <1>11 DEF ReverseCheck
    <2>2. j.what = bound /\ bound \in Contents
      <3>1. j.what = Onto
        BY DEF JobsOK
      <3> QED BY <2>1, <3>1 DEF Onto, FilesTypeOK
    <2>3. /\ CacheRight' /\ (Synced' <=> Synced)
      BY <2>1 DEF CacheRight, Synced
    <2>4. CASE IsRecentlyWritten
      <3>1. jobs' = {} /\ JobsOK' /\ missed' = missed
        BY <1>11, <2>4, DropIs, NoJobsOK DEF ReverseCheck
      <3>2. ~touched => Synced
        BY <2>1, <2>4
      <3> QED BY <2>1, <2>3, <3>1, <3>2 DEF FilesTypeOK
    <2>5. CASE ~IsRecentlyWritten /\ j.what \notin blobs
      <3>1. jobs' = {} /\ JobsOK' /\ missed' = TRUE
        BY <1>11, <2>5, DropIs, NoJobsOK DEF ReverseCheck
      <3> QED BY <2>1, <2>3, <3>1 DEF FilesTypeOK
    <2>6. CASE ~IsRecentlyWritten /\ j.what \in blobs /\ NextStage(j) = "done"
      <3>1. jobs' = {} /\ JobsOK' /\ missed' = missed
        BY <1>11, <2>6, DropIs, NoJobsOK DEF ReverseCheck
      <3>2. file # Absent /\ CachedHash(file) = j.what /\ j.what # Absent
        BY <1>0, <2>2, <2>6 DEF NextStage
      <3>3. statCache # Absent /\ ~(file.mtime >= statCache.at) /\ statCache.hash = j.what
        BY <3>2 DEF CachedHash, Racy
      <3>4. file.mtime < statCache.at
        BY <3>2, <3>3 DEF FilesTypeOK, CacheRight
      <3>5. Synced
        BY <2>2, <3>2, <3>3, <3>4 DEF CacheRight, Synced
      <3> QED BY <2>1, <2>3, <3>1, <3>5 DEF FilesTypeOK
    <2>7. CASE ~IsRecentlyWritten /\ j.what \in blobs /\ NextStage(j) # "done"
      <3>1. Goto(j, NextStage(j), IF file = Absent THEN Absent ELSE StatKey(file)) /\ missed' = missed
        BY <1>11, <2>7 DEF ReverseCheck
      <3>2. NextStage(j) \in {"read", "write"}
        BY <2>7 DEF NextStage
      <3>3. PICK s \in {"read", "write"} : s = NextStage(j)
        BY <3>2
      <3>4. PICK st : Goto(j, s, st)
        BY <3>1, <3>3
      <3>5. JobsOK' /\ jobs' # {} /\ \A k \in jobs' : k.stage = s
        BY <2>1, <3>3, <3>4, GotoIs DEF Stages
      <3>6. \A k \in jobs' : k.stage \notin {"cache", "task", "thread"}
        BY <3>5
      <3> QED BY <2>1, <2>3, <3>1, <3>5, <3>6 DEF FilesTypeOK, Quiet
    <2> QED BY <2>4, <2>5, <2>6, <2>7
  <1>12. ASSUME NEW j \in jobs, ReverseCompare(j) PROVE FilesInv'
    <2>1. /\ UNCHANGED <<file, bound, marked, held, touched, missed, time>> /\ held = Absent
          /\ j.stage = "read"
      BY <1>12 DEF ReverseCompare
    <2>2. j.what = bound /\ j.what # Deleted
      BY <2>1 DEF JobsOK, Onto
    <2>3. FilesTypeOK'
      BY <2>1 DEF FilesTypeOK
    <2>4. CacheRight'
      <3>1. CASE file = Absent
        BY <1>12, <2>1, <3>1 DEF ReverseCompare, CacheRight
      <3>2. CASE file # Absent
        <4>1. statCache' = Smudged(j.st, file.content)
          BY <1>12, <3>2 DEF ReverseCompare
        <4> QED BY <2>1, <4>1, SmudgedIs DEF CacheRight, FilesTypeOK
      <3> QED BY <3>1, <3>2
    <2>5. CASE file # Absent /\ file.content = j.what
      <3>1. jobs' = {} /\ JobsOK'
        BY <1>12, <2>5, DropIs, NoJobsOK DEF ReverseCompare
      <3>2. Synced'
        BY <2>1, <2>2, <2>5 DEF Synced
      <3> QED BY <2>1, <2>3, <2>4, <3>1, <3>2
    <2>6. CASE ~(file # Absent /\ file.content = j.what)
      <3>1. Goto(j, "write", Absent)
        BY <1>12, <2>6 DEF ReverseCompare
      <3>2. JobsOK' /\ jobs' # {} /\ \A k \in jobs' : k.stage = "write"
        BY <2>1, <2>2, <3>1, GotoIs DEF Stages
      <3> QED BY <2>1, <2>3, <2>4, <3>2 DEF Quiet
    <2> QED BY <2>5, <2>6
  <1>13. ASSUME NEW j \in jobs, ReverseWrite(j) PROVE FilesInv'
    <2>1. /\ UNCHANGED <<bound, statCache, held, touched, missed, time>> /\ held = Absent
          /\ j.stage = "write" /\ marked' = time /\ Goto(j, "cache", Absent)
          /\ file' = [content |-> j.what, mtime |-> time]
      BY <1>13 DEF ReverseWrite
    <2>2. j.what = bound /\ j.what # Deleted /\ j.what \in Contents
      BY <2>1 DEF JobsOK, Onto, FilesTypeOK
    <2>3. /\ file' \in [content : Contents, mtime : 0 .. MaxTime] /\ file' # Absent
          /\ file'.content = j.what /\ file'.mtime = time
      BY <2>1, <2>2, FileThere DEF FilesTypeOK
    <2>4. JobsOK' /\ jobs' # {} /\ \A k \in jobs' : k.stage = "cache" /\ k.what = j.what
      BY <2>1, <2>2, GotoIs DEF Stages
    <2>5. FilesTypeOK' /\ CacheRight'
      BY <2>1, <2>3 DEF FilesTypeOK, CacheRight
    <2>6. \A k \in jobs' : Holds(k.what)'
      BY <2>3, <2>4 DEF Holds
    <2> QED BY <2>1, <2>4, <2>5, <2>6 DEF Quiet
  <1>14. ASSUME NEW j \in jobs, ReverseCache(j) PROVE FilesInv'
    <2>1. /\ UNCHANGED <<file, bound, marked, held, touched, missed, time>> /\ held = Absent
          /\ j.stage = "cache" /\ Drop(j)
      BY <1>14 DEF ReverseCache
    <2>2. j.what = bound /\ Holds(j.what)
      BY <2>1 DEF JobsOK, Onto
    <2>3. statCache' = Smudged(StatKey(file), j.what)
      BY <1>14, <2>2 DEF ReverseCache, Holds
    <2>4. jobs' = {} /\ JobsOK'
      BY <2>1, DropIs, NoJobsOK
    <2>5. FilesTypeOK'
      BY <2>1 DEF FilesTypeOK
    <2>6. CacheRight'
      BY <2>1, <2>2, <2>3, SmudgedIs DEF CacheRight, Holds, FilesTypeOK
    <2>7. Synced'
      BY <2>1, <2>2 DEF Synced, Holds
    <2> QED BY <2>1, <2>4, <2>5, <2>6, <2>7
  <1>15. CASE External
    <2>1. /\ UNCHANGED <<bound, statCache, marked, jobs, held, missed, time>> /\ touched' = TRUE
          /\ held = Absent /\ \A j \in jobs : j.stage # "cache"
          /\ \/ file' = Absent
             \/ \E c \in Contents : file' = [content |-> c, mtime |-> time]
      BY <1>15 DEF External, BetweenAccessAndStat
    <2>2. /\ file' \in {Absent} \cup [content : Contents, mtime : 0 .. MaxTime]
          /\ file' # Absent => file'.mtime = time
      BY <2>1, FileThere DEF FilesTypeOK
    <2>3. FilesTypeOK' /\ CacheRight' /\ JobsOK'
      BY <2>1, <2>2 DEF FilesTypeOK, CacheRight, JobsOK, Onto
    <2> QED BY <2>1, <2>3
  <1>16. CASE TimePasses
    <2>1. /\ UNCHANGED <<file, bound, statCache, marked, jobs, held, touched, missed>>
          /\ time < MaxTime /\ time' = time + 1
      BY <1>16 DEF TimePasses
    <2>2. FilesTypeOK' /\ CacheRight' /\ JobsOK'
      BY <2>1 DEF FilesTypeOK, CacheRight, JobsOK, Onto, FilesAssumption
    <2>3. IsRecentlyWritten' => IsRecentlyWritten
      BY <1>0, <2>1 DEF IsRecentlyWritten, FilesTypeOK
    <2>4. (Synced' <=> Synced) /\ (Quiet' <=> Quiet) /\ \A c : Holds(c)' <=> Holds(c)
      BY <2>1 DEF Synced, Quiet, Holds
    <2> QED BY <2>1, <2>2, <2>3, <2>4
  <1> QED BY <1>1, <1>2, <1>3, <1>4, <1>5, <1>6, <1>7, <1>8, <1>9, <1>10, <1>11, <1>12, <1>13, <1>14, <1>15, <1>16
          DEF FilesNext

(* The file, the cache and the one job agree on what is brought to the     *)
(* disk (reverse.py _reverse_write(), stat_cache.py, operations.py).       *)
THEOREM FilesInvCorrect == ASSUME FilesAssumption, Spaced, ~Races PROVE FilesSpec => []FilesInv
  BY FilesInvInit, FilesInvStep, PTL DEF FilesSpec

(* Once its job has run, the file holds what the tree path is bound to, if *)
(* changes of the path come one at a time and further apart than the       *)
(* tracker's window, and no other program gets between an access and its   *)
(* stat (reverse.py _reverse_write(), _reverse_delete()).                  *)
THEOREM FollowsCorrect == ASSUME FilesAssumption, Spaced, ~Races PROVE FilesSpec => []FileFollowsTree
  <1>1. FilesInv => FileFollowsTree
    BY DEF FilesInv, FileFollowsTree, Synced
  <1> QED BY <1>1, FilesInvCorrect, PTL

-----------------------------------------------------------------------------
(* Meeting: the choices of two pools.  The heaviest node of the smaller    *)
(* one is among the first two of the larger, so two peers that choose at   *)
(* least two nodes have one in common (ChoicesIntersect).                  *)

(* No two nodes weigh the same. *)
Distinct == \A e, f \in Endpoints : weight[e] = weight[f] => e = f
Weighed == weight \in [Endpoints -> 1 .. Cardinality(Endpoints)] /\ Distinct

OfOneTier(pool, tier) == IsFiniteSet(pool) /\ pool \subseteq [endpoint : Endpoints, priority : {tier}]

LEMMA AllOfTheTier ==
    ASSUME NEW tier \in Int, NEW pool, OfOneTier(pool, tier)
    PROVE  LowestTier(pool) = pool
  BY DEF OfOneTier, LowestTier

(* Of a pool that is not empty one node is the heaviest. *)
LEMMA Heaviest ==
    ASSUME IsFiniteSet(Endpoints), Weighed, NEW tier \in Int, NEW pool, OfOneTier(pool, tier), pool # {}
    PROVE  \E m \in pool : \A o \in pool : weight[o.endpoint] >= weight[m.endpoint] => o = m
  <1> DEFINE top == Cardinality(Endpoints)
             T == {top - weight[m.endpoint] : m \in pool}
  <1>1. top \in Nat
    BY FS_CardinalityType
  <1>2. \A m \in pool : /\ m.endpoint \in Endpoints /\ m = [endpoint |-> m.endpoint, priority |-> tier]
                        /\ weight[m.endpoint] \in 1 .. top
    BY DEF OfOneTier, Weighed
  <1>3. T \in SUBSET Nat /\ T # {}
    BY <1>1, <1>2
  <1>4. PICK x \in T : \A y \in T : x <= y
    BY <1>3, LeastNumber
  <1>5. PICK m \in pool : x = top - weight[m.endpoint]
    BY <1>4
  <1>6. ASSUME NEW o \in pool, weight[o.endpoint] >= weight[m.endpoint] PROVE o = m
    <2>1. top - weight[m.endpoint] <= top - weight[o.endpoint]
      BY <1>4, <1>5
    <2>2. weight[o.endpoint] = weight[m.endpoint]
      BY <1>1, <1>2, <1>6, <2>1
    <2>3. o.endpoint = m.endpoint
      BY <1>2, <2>2 DEF Weighed, Distinct
    <2> QED BY <1>2, <2>3
  <1> QED BY <1>6

(* What a set of two elements contains has at most two. *)
LEMMA AtMostTwo ==
    ASSUME NEW a, NEW b, NEW T \in SUBSET {a, b}
    PROVE  Cardinality(T) \in Nat /\ Cardinality(T) <= 2
  <1>1. IsFiniteSet({a}) /\ Cardinality({a}) = 1
    BY FS_Singleton
  <1>2. IsFiniteSet({a} \cup {b}) /\ Cardinality({a} \cup {b}) \in {1, 2}
    BY <1>1, FS_AddElement
  <1>3. {a} \cup {b} = {a, b}
    OBVIOUS
  <1>4. IsFiniteSet(T) /\ Cardinality(T) <= Cardinality({a, b})
    BY <1>2, <1>3, FS_Subset
  <1>5. Cardinality(T) \in Nat
    BY <1>4, FS_CardinalityType
  <1> QED BY <1>2, <1>3, <1>4, <1>5

(* Where one pool has at most one node more, both choose the heaviest of   *)
(* the others.                                                             *)
LEMMA ChosenByBoth ==
    ASSUME SignalingAssumption, Weighed, NEW tier \in Int, NEW small, NEW large, NEW extra,
           OfOneTier(small, tier), OfOneTier(large, tier), small # {},
           small \subseteq large, large \subseteq small \cup {extra}
    PROVE  \E m \in small : /\ m \in LowestTier(small) /\ Ranked(small, m) <= Fanout
                            /\ m \in LowestTier(large) /\ Ranked(large, m) <= Fanout
  <1>1. PICK m \in small : \A o \in small : weight[o.endpoint] >= weight[m.endpoint] => o = m
    BY Heaviest DEF SignalingAssumption
  <1>2. LowestTier(small) = small /\ LowestTier(large) = large
    BY AllOfTheTier
  <1>3. {o \in small : weight[o.endpoint] >= weight[m.endpoint]} \in SUBSET {m, extra}
    BY <1>1
  <1>4. {o \in large : weight[o.endpoint] >= weight[m.endpoint]} \in SUBSET {m, extra}
    BY <1>1
  <1>5. Ranked(small, m) \in Nat /\ Ranked(small, m) <= 2
    BY <1>2, <1>3, AtMostTwo DEF Ranked
  <1>6. Ranked(large, m) \in Nat /\ Ranked(large, m) <= 2
    BY <1>2, <1>4, AtMostTwo DEF Ranked
  <1>7. Fanout \in Nat /\ Fanout >= 2
    BY DEF SignalingAssumption
  <1> QED BY <1>1, <1>2, <1>5, <1>6, <1>7

OneApart(v, w) == Cardinality((v \ w) \cup (w \ v)) <= 1

LEMMA ApartIs ==
    ASSUME NEW v, NEW w, IsFiniteSet(v), IsFiniteSet(w), OneApart(v, w)
    PROVE  \E x : (v \subseteq w /\ w \subseteq v \cup {x}) \/ (w \subseteq v /\ v \subseteq w \cup {x})
  <1> DEFINE D == (v \ w) \cup (w \ v)
  <1>1. IsFiniteSet(D)
    <2>1. IsFiniteSet(v \cup w) /\ D \subseteq v \cup w
      BY FS_Union
    <2> QED BY <2>1, FS_Subset
  <1>2. Cardinality(D) \in Nat /\ Cardinality(D) <= 1
    BY <1>1, FS_CardinalityType DEF OneApart
  <1>3. CASE Cardinality(D) = 0
    <2>1. D = {}
      BY <1>1, <1>3, FS_EmptySet
    <2> QED BY <2>1
  <1>4. CASE Cardinality(D) = 1
    <2>1. PICK x : D = {x}
      BY <1>1, <1>4, FS_Singleton
    <2> QED BY <2>1
  <1> QED BY <1>2, <1>3, <1>4

LEMMA ChoicesIntersect ==
    ASSUME SignalingAssumption, Weighed, view \in [{Initiator, Responder} -> Views],
           OneApart(view[Initiator], view[Responder]), view[Initiator] # {}, view[Responder] # {}
    PROVE  \E n \in Endpoints : n \in SelectTop(Initiator) /\ n \in SelectTop(Responder)
  <1>0. view[Initiator] \in Views /\ view[Responder] \in Views
    OBVIOUS
  <1>1. PICK tier \in Int : \A m \in view[Initiator] : m.priority = tier
    <2>1. PICK m \in view[Initiator] : TRUE
      OBVIOUS
    <2>2. m.priority \in Int /\ \A o \in view[Initiator] : o.priority = m.priority
      BY <1>0 DEF SignalingAssumption
    <2> QED BY <2>2
  <1>2. OfOneTier(view[Initiator], tier) /\ OfOneTier(view[Responder], tier)
    <2>1. \A m \in view[Responder] : m.priority = tier
      <3>1. PICK o \in view[Initiator] : o.priority = tier
        BY <1>1
      <3> QED BY <1>0, <3>1 DEF SignalingAssumption
    <2>2. ASSUME NEW pool \in Views, \A m \in pool : m.priority = tier
          PROVE  OfOneTier(pool, tier)
      <3>1. IsFiniteSet(pool)
        BY DEF SignalingAssumption
      <3>2. ASSUME NEW m \in pool PROVE m \in [endpoint : Endpoints, priority : {tier}]
        <4>1. m = [endpoint |-> m.endpoint, priority |-> m.priority] /\ m.endpoint \in Endpoints
          BY DEF SignalingAssumption
        <4>2. m.priority = tier
          BY <2>2
        <4> QED BY <4>1, <4>2
      <3> QED BY <3>1, <3>2 DEF OfOneTier
    <2> QED BY <1>0, <1>1, <2>1, <2>2
  <1>3. PICK x : \/ view[Initiator] \subseteq view[Responder] /\ view[Responder] \subseteq view[Initiator] \cup {x}
                 \/ view[Responder] \subseteq view[Initiator] /\ view[Initiator] \subseteq view[Responder] \cup {x}
    BY <1>2, ApartIs DEF OfOneTier
  <1>4. \E m \in view[Initiator] \cup view[Responder] :
            /\ m \in LowestTier(view[Initiator]) /\ Ranked(view[Initiator], m) <= Fanout
            /\ m \in LowestTier(view[Responder]) /\ Ranked(view[Responder], m) <= Fanout
    <2>1. CASE view[Initiator] \subseteq view[Responder] /\ view[Responder] \subseteq view[Initiator] \cup {x}
      BY <1>2, <2>1, ChosenByBoth
    <2>2. CASE view[Responder] \subseteq view[Initiator] /\ view[Initiator] \subseteq view[Responder] \cup {x}
      BY <1>2, <2>2, ChosenByBoth
    <2> QED BY <1>3, <2>1, <2>2
  <1>5. \A m \in view[Initiator] \cup view[Responder] : m.endpoint \in Endpoints
    BY <1>2 DEF OfOneTier
  <1> QED BY <1>4, <1>5 DEF SelectTop

-----------------------------------------------------------------------------
(* Meeting: the bulletins.  A nonce is used once (NoncesOnce), so an       *)
(* answer to a request is no older than the request and lies as long as it *)
(* is fresh; a round polled to its end left that answer (MetAt).           *)

Notes == [type : {"request", "response", "unknown"}, peer : Parties, nonce : Nat]
Blobs == [msg : Notes, at : Nat]

SignalingTypeOK ==
    /\ keyMode \in Modes
    /\ view \in [{Initiator, Responder} -> Views]
    /\ OneApart(view[Initiator], view[Responder])
    /\ Weighed
    /\ buckets \in [Endpoints -> [Keys -> SUBSET Blobs]]
    /\ lastNonce \in Nat /\ clock \in Nat
    /\ DOMAIN asking = Endpoints
    /\ \A n \in Endpoints : asking[n] # Unset => asking[n] \in [nonce : 1 .. lastNonce, at : 0 .. clock]
    /\ unanswered \in [Endpoints -> SUBSET Notes]
    /\ DOMAIN round = Endpoints

Shared == KeyOf(Initiator)
Fresh(n) == asking[n] # Unset /\ clock < asking[n].at + Ttl
Mine(n) == Request(Initiator, asking[n].nonce)
Answer(n) == Response(Responder, asking[n].nonce)
Lies(n, msg) == \E b \in buckets[n][Shared] : b.msg = msg /\ b.at >= asking[n].at

(* Nonces are not used twice, and no blob is from the future. *)
NoncesOnce ==
    \A n \in Endpoints :
        /\ \A k \in Keys : \A b \in buckets[n][k] : b.msg.nonce <= lastNonce /\ b.at <= clock
        /\ \A r \in unanswered[n] : r.nonce <= lastNonce

(* A fresh request lies at its node, and an answer to it is no older.  The *)
(* responder that has seen it answers it, or did.                          *)
MetAt(n) ==
    /\ Fresh(n) => Lies(n, Mine(n))
    /\ asking[n] # Unset => \A b \in buckets[n][Shared] : b.msg = Answer(n) => b.at >= asking[n].at
    /\ Fresh(n) /\ round[n] = "open" => Mine(n) \in unanswered[n] \/ Lies(n, Answer(n))
    /\ Fresh(n) /\ round[n] = "done" => Lies(n, Answer(n))

SignalingInv == SignalingTypeOK /\ NoncesOnce /\ \A n \in Endpoints : MetAt(n)

(* The two derive the same key. *)
LEMMA KeysAgree ==
    ASSUME SignalingAssumption, keyMode \in Modes
    PROVE  Shared \in Keys /\ KeyOf(Responder) = Shared
  <1>1. CASE keyMode = "pair"
    BY <1>1 DEF SignalingAssumption, Shared, KeyOf, PairKey, Keys
  <1>2. CASE keyMode = "tag"
    BY <1>2 DEF Shared, KeyOf, Keys
  <1>3. CASE keyMode = "lobby"
    BY <1>3 DEF Shared, KeyOf, Keys
  <1> QED BY <1>1, <1>2, <1>3 DEF SignalingAssumption

(* What an offer does to the buckets. *)
Kept(old, new) == \A b \in old : b.at > clock - Ttl => b \in new

LEMMA OfferIs ==
    ASSUME SignalingTypeOK, NEW n \in Endpoints, NEW k \in Keys, NEW p, NEW msg \in Notes, Offer(n, p, k, msg)
    PROVE  /\ buckets' \in [Endpoints -> [Keys -> SUBSET Blobs]]
           /\ \A m \in Endpoints, l \in Keys :
                 /\ Kept(buckets[m][l], buckets'[m][l])
                 /\ \A b \in buckets'[m][l] :
                       b \in buckets[m][l] \/ (m = n /\ l = k /\ b = [msg |-> msg, at |-> clock])
           /\ OfferOk(n, p, k, msg) => \E b \in buckets'[n][k] : b.msg = msg
  <1>1. PICK new : /\ buckets' = [buckets EXCEPT ![n][k] = new]
                   /\ new = IF ~Allow(n, p).ok THEN buckets[n][k]
                            ELSE IF OfferOk(n, p, k, msg) /\ ~Duplicate(n, k, msg)
                                 THEN Reaped(n, k) \cup {[msg |-> msg, at |-> clock]}
                                 ELSE Reaped(n, k)
    BY DEF Offer, SignalingTypeOK
  <1>2. Reaped(n, k) \subseteq buckets[n][k] /\ Kept(buckets[n][k], Reaped(n, k))
    BY DEF Reaped, Kept
  <1>3. buckets[n][k] \in SUBSET Blobs /\ [msg |-> msg, at |-> clock] \in Blobs
    BY DEF SignalingTypeOK, Blobs
  <1>4. /\ new \in SUBSET Blobs /\ Kept(buckets[n][k], new)
        /\ \A b \in new : b \in buckets[n][k] \/ b = [msg |-> msg, at |-> clock]
    BY <1>1, <1>2, <1>3 DEF Kept
  <1>5. OfferOk(n, p, k, msg) => \E b \in new : b.msg = msg
    <2> SUFFICES ASSUME OfferOk(n, p, k, msg) PROVE \E b \in new : b.msg = msg
      OBVIOUS
    <2>1. Allow(n, p).ok
      BY DEF OfferOk
    <2>2. CASE Duplicate(n, k, msg)
      BY <1>1, <2>1, <2>2 DEF Duplicate
    <2>3. CASE ~Duplicate(n, k, msg)
      <3>1. [msg |-> msg, at |-> clock] \in new
        BY <1>1, <2>1, <2>3
      <3> QED BY <3>1
    <2> QED BY <2>2, <2>3
  <1>6. \A m \in Endpoints, l \in Keys : buckets'[m][l] = IF m = n /\ l = k THEN new ELSE buckets[m][l]
    BY <1>1 DEF SignalingTypeOK
  <1>7. buckets' \in [Endpoints -> [Keys -> SUBSET Blobs]]
    BY <1>1, <1>4 DEF SignalingTypeOK
  <1> QED BY <1>4, <1>5, <1>6, <1>7 DEF Kept

LEMMA CollectIs ==
    ASSUME SignalingTypeOK, NEW n \in Endpoints, NEW k \in Keys, NEW p, Collect(n, p, k)
    PROVE  /\ buckets' \in [Endpoints -> [Keys -> SUBSET Blobs]]
           /\ \A m \in Endpoints, l \in Keys :
                 Kept(buckets[m][l], buckets'[m][l]) /\ buckets'[m][l] \subseteq buckets[m][l]
  <1>1. PICK new : /\ buckets' = [buckets EXCEPT ![n][k] = new]
                   /\ new = IF Allow(n, p).ok THEN Reaped(n, k) ELSE buckets[n][k]
    BY DEF Collect, SignalingTypeOK
  <1>2. new \subseteq buckets[n][k] /\ Kept(buckets[n][k], new)
    BY <1>1 DEF Reaped, Kept
  <1>3. \A m \in Endpoints, l \in Keys : buckets'[m][l] = IF m = n /\ l = k THEN new ELSE buckets[m][l]
    BY <1>1 DEF SignalingTypeOK
  <1>4. buckets' \in [Endpoints -> [Keys -> SUBSET Blobs]]
    BY <1>1, <1>2 DEF SignalingTypeOK
  <1> QED BY <1>2, <1>3, <1>4 DEF Kept

(* Where the requests stand, blobs that are kept go on lying, and blobs    *)
(* that are new are not from before the request.                           *)
LEMMA LiesStays ==
    ASSUME SignalingTypeOK, Ttl \in Nat, NEW n \in Endpoints, NEW msg, Fresh(n), Lies(n, msg), Shared \in Keys,
           Kept(buckets[n][Shared], buckets'[n][Shared])
    PROVE  \E b \in buckets'[n][Shared] : b.msg = msg /\ b.at >= asking[n].at
  <1>1. PICK b \in buckets[n][Shared] : b.msg = msg /\ b.at >= asking[n].at
    BY DEF Lies
  <1>2. asking[n].at \in Nat /\ clock \in Nat /\ b.at \in Nat /\ clock < asking[n].at + Ttl
    BY <1>1 DEF SignalingTypeOK, Fresh, Blobs
  <1>3. b.at > clock - Ttl
    BY <1>1, <1>2
  <1>4. b \in buckets'[n][Shared]
    BY <1>1, <1>3 DEF Kept
  <1> QED BY <1>1, <1>4

LEMMA MetStays ==
    ASSUME SignalingTypeOK, Ttl \in Nat, NEW n \in Endpoints, MetAt(n), Shared \in Keys,
           Kept(buckets[n][Shared], buckets'[n][Shared]),
           \A b \in buckets'[n][Shared] : b \in buckets[n][Shared] \/ b.at = clock,
           UNCHANGED <<keyMode, clock>>, asking'[n] = asking[n], round'[n] = round[n], unanswered'[n] = unanswered[n]
    PROVE  MetAt(n)'
  <1>1. Shared' = Shared /\ (Fresh(n)' <=> Fresh(n)) /\ Mine(n)' = Mine(n) /\ Answer(n)' = Answer(n)
    BY DEF Shared, KeyOf, Fresh, Mine, Answer
  <1>2. Fresh(n) /\ Lies(n, Mine(n)) => Lies(n, Mine(n))'
    BY <1>1, LiesStays DEF Lies
  <1>3. Fresh(n) /\ Lies(n, Answer(n)) => Lies(n, Answer(n))'
    BY <1>1, LiesStays DEF Lies
  <1>4. asking[n] # Unset => \A b \in buckets'[n][Shared] : b.msg = Answer(n) => b.at >= asking[n].at
    <2>1. asking[n] # Unset => asking[n].at <= clock
      BY DEF SignalingTypeOK
    <2> QED BY <2>1 DEF MetAt
  <1> QED BY <1>1, <1>2, <1>3, <1>4 DEF MetAt

LEMMA TopIsNodes ==
    ASSUME SignalingAssumption, SignalingTypeOK, NEW p \in {Initiator, Responder}
    PROVE  SelectTop(p) \subseteq Endpoints
  <1>1. view[p] \in Views
    BY DEF SignalingTypeOK
  <1>2. \A m \in view[p] : m.endpoint \in Endpoints
    BY <1>1 DEF SignalingAssumption
  <1> QED BY <1>2 DEF SelectTop, LowestTier

LEMMA SignalingInvInit ==
    ASSUME SignalingAssumption, SignalingInit
    PROVE  SignalingInv
  <1>1. /\ keyMode \in Modes /\ view \in [{Initiator, Responder} -> Views]
        /\ OneApart(view[Initiator], view[Responder]) /\ Weighed
    BY DEF SignalingInit, OneApart, Weighed, Distinct
  <1>2. buckets = [n \in Endpoints |-> [k \in Keys |-> {}]]
    BY DEF SignalingInit
  <1>3. buckets \in [Endpoints -> [Keys -> SUBSET Blobs]]
    BY <1>2
  <1>4. lastNonce = 0 /\ clock = 0 /\ asking = [n \in Endpoints |-> Unset]
        /\ unanswered = [n \in Endpoints |-> {}] /\ round = [n \in Endpoints |-> "none"]
    BY DEF SignalingInit
  <1>5. SignalingTypeOK
    BY <1>1, <1>3, <1>4 DEF SignalingTypeOK
  <1>6. NoncesOnce
    BY <1>2, <1>4 DEF NoncesOnce
  <1>7. \A n \in Endpoints : MetAt(n)
    BY <1>4 DEF MetAt, Fresh
  <1> QED BY <1>5, <1>6, <1>7 DEF SignalingInv

(* A request nobody made before. *)
LEMMA InitiateStep ==
    ASSUME SignalingAssumption, SignalingInv, NEW n \in Endpoints, Initiate(n)
    PROVE  SignalingInv'
  <1> DEFINE msg == Request(Initiator, lastNonce + 1)
  <1>t. SignalingTypeOK /\ NoncesOnce /\ Ttl \in Nat /\ lastNonce \in Nat /\ clock \in Nat
    BY DEF SignalingInv, SignalingTypeOK, SignalingAssumption
  <1>1. /\ lastNonce' = lastNonce + 1 /\ Offer(n, Initiator, Shared, msg)
        /\ asking' = [asking EXCEPT ![n] = IF OfferOk(n, Initiator, Shared, msg)
                                           THEN [nonce |-> lastNonce + 1, at |-> clock] ELSE Unset]
        /\ round' = [round EXCEPT ![n] = IF @ \in {"open", "stale"} THEN "stale" ELSE "none"]
        /\ UNCHANGED <<keyMode, view, weight, unanswered, clock>>
    BY DEF Initiate, Shared
  <1>2. Shared \in Keys /\ Shared' = Shared
    BY <1>t, <1>1, KeysAgree DEF SignalingTypeOK, Shared, KeyOf
  <1>3. msg \in Notes /\ msg.nonce = lastNonce + 1 /\ msg.type = "request"
    BY <1>t DEF Notes, Request, Parties
  <1>4. /\ buckets' \in [Endpoints -> [Keys -> SUBSET Blobs]]
        /\ \A m \in Endpoints, l \in Keys :
              /\ Kept(buckets[m][l], buckets'[m][l])
              /\ \A b \in buckets'[m][l] :
                    b \in buckets[m][l] \/ (m = n /\ l = Shared /\ b = [msg |-> msg, at |-> clock])
        /\ OfferOk(n, Initiator, Shared, msg) => \E b \in buckets'[n][Shared] : b.msg = msg
    BY <1>t, <1>1, <1>2, <1>3, OfferIs
  <1>5. /\ \A m \in Endpoints \ {n} : asking'[m] = asking[m] /\ round'[m] = round[m]
        /\ round'[n] \notin {"open", "done"}
        /\ asking'[n] = IF OfferOk(n, Initiator, Shared, msg) THEN [nonce |-> lastNonce + 1, at |-> clock] ELSE Unset
        /\ DOMAIN asking' = Endpoints /\ DOMAIN round' = Endpoints
    BY <1>t, <1>1 DEF SignalingTypeOK
  <1>6. SignalingTypeOK'
    <2>1. ASSUME NEW m \in Endpoints, asking'[m] # Unset
          PROVE  asking'[m] \in [nonce : 1 .. lastNonce', at : 0 .. clock']
      <3>1. CASE m = n
        <4>1. asking'[m] = [nonce |-> lastNonce + 1, at |-> clock]
          BY <1>5, <2>1, <3>1
        <4> QED BY <1>t, <1>1, <4>1
      <3>2. CASE m # n
        <4>1. asking[m] \in [nonce : 1 .. lastNonce, at : 0 .. clock]
          BY <1>t, <1>5, <2>1, <3>2 DEF SignalingTypeOK
        <4>2. asking'[m] = asking[m]
          BY <1>5, <3>2
        <4>3. \A x \in 1 .. lastNonce : x \in 1 .. lastNonce + 1
          BY <1>t
        <4> QED BY <1>1, <4>1, <4>2, <4>3
      <3> QED BY <3>1, <3>2
    <2>2. lastNonce' \in Nat
      BY <1>t, <1>1
    <2> QED BY <1>t, <1>1, <1>4, <1>5, <2>1, <2>2 DEF SignalingTypeOK, Weighed, Distinct, OneApart
  <1>7. NoncesOnce'
    <2>1. ASSUME NEW m \in Endpoints, NEW l \in Keys, NEW b \in buckets'[m][l]
          PROVE  b.msg.nonce <= lastNonce + 1 /\ b.at <= clock
      <3>1. CASE b \in buckets[m][l]
        <4>1. b.msg.nonce <= lastNonce /\ b.at <= clock /\ b.msg.nonce \in Nat
          BY <1>t, <3>1 DEF NoncesOnce, SignalingTypeOK, Blobs, Notes
        <4> QED BY <1>t, <4>1
      <3>2. CASE b = [msg |-> msg, at |-> clock]
        <4>1. b.msg = msg /\ b.at = clock
          BY <3>2
        <4> QED BY <1>t, <1>3, <4>1
      <3> QED BY <1>4, <3>1, <3>2
    <2>2. ASSUME NEW m \in Endpoints, NEW r \in unanswered[m]
          PROVE  r.nonce <= lastNonce + 1
      <3>1. r.nonce \in Nat /\ r.nonce <= lastNonce
        BY <1>t DEF NoncesOnce, SignalingTypeOK, Notes
      <3> QED BY <1>t, <3>1
    <2> QED BY <1>1, <2>1, <2>2 DEF NoncesOnce
  <1>8. ASSUME NEW m \in Endpoints PROVE MetAt(m)'
    <2>1. CASE m # n
      <3>1. \A b \in buckets'[m][Shared] : b \in buckets[m][Shared] \/ b.at = clock
        BY <1>2, <1>4, <2>1
      <3>2. MetAt(m)
        BY DEF SignalingInv
      <3> QED BY <1>t, <1>1, <1>2, <1>4, <1>5, <2>1, <3>1, <3>2, MetStays
    <2>2. CASE m = n /\ OfferOk(n, Initiator, Shared, msg)
      <3>1. asking'[n] = [nonce |-> lastNonce + 1, at |-> clock]
        BY <1>5, <2>2
      <3>2. asking'[n].nonce = lastNonce + 1 /\ asking'[n].at = clock
        BY <3>1
      <3>3. \A b \in buckets[n][Shared] : b.msg.nonce # lastNonce + 1
        <4>1. \A b \in buckets[n][Shared] : b.msg.nonce \in Nat /\ b.msg.nonce <= lastNonce
          BY <1>t, <1>2 DEF NoncesOnce, SignalingTypeOK, Blobs, Notes
        <4> QED BY <1>t, <4>1
      <3>4. PICK b \in buckets'[n][Shared] : b.msg = msg
        BY <1>4, <2>2
      <3>5. b = [msg |-> msg, at |-> clock]
        BY <1>2, <1>3, <1>4, <3>3, <3>4
      <3>6. b.at = clock
        BY <3>5
      <3>7. Mine(n)' = msg /\ Answer(n)' = Response(Responder, lastNonce + 1)
        BY <3>2 DEF Mine, Answer
      <3>8. Lies(n, Mine(n))'
        BY <1>t, <1>2, <3>2, <3>4, <3>6, <3>7 DEF Lies
      <3>9. ASSUME NEW c \in buckets'[n][Shared] PROVE c.msg # Answer(n)'
        <4>1. CASE c \in buckets[n][Shared]
          BY <3>3, <3>7, <4>1 DEF Response
        <4>2. CASE c = [msg |-> msg, at |-> clock]
          <5>1. c.msg.type = "request"
            BY <1>3, <4>2
          <5> QED BY <3>7, <5>1 DEF Response
        <4> QED BY <1>2, <1>4, <4>1, <4>2
      <3> QED BY <1>2, <1>5, <2>2, <3>8, <3>9 DEF MetAt
    <2>3. CASE m = n /\ ~OfferOk(n, Initiator, Shared, msg)
      BY <1>5, <2>3 DEF MetAt, Fresh
    <2> QED BY <2>1, <2>2, <2>3
  <1> QED BY <1>6, <1>7, <1>8 DEF SignalingInv

(* What a poll finds is to be answered. *)
LEMMA PollStep ==
    ASSUME SignalingAssumption, SignalingInv, NEW n \in Endpoints, Poll(n)
    PROVE  SignalingInv'
  <1>t. SignalingTypeOK /\ NoncesOnce /\ Ttl \in Nat /\ Initiator # Responder
    BY DEF SignalingInv, SignalingAssumption
  <1>1. KeyOf(Responder) = Shared /\ Shared \in Keys
    BY <1>t, KeysAgree DEF SignalingTypeOK
  <1>2. /\ Collect(n, Responder, Shared)
        /\ unanswered' = [unanswered EXCEPT ![n] = FindRequests(Messages(n, Responder, Shared), Responder)]
        /\ round' = [round EXCEPT ![n] = IF ~Allow(n, Responder).ok THEN "none"
                                         ELSE IF unanswered'[n] = {} THEN "done" ELSE "open"]
        /\ UNCHANGED <<keyMode, view, weight, lastNonce, asking, clock>>
    BY <1>1 DEF Poll
  <1>3. /\ buckets' \in [Endpoints -> [Keys -> SUBSET Blobs]]
        /\ \A m \in Endpoints, l \in Keys :
              Kept(buckets[m][l], buckets'[m][l]) /\ buckets'[m][l] \subseteq buckets[m][l]
    BY <1>t, <1>1, <1>2, CollectIs
  <1>4. ASSUME NEW x \in Messages(n, Responder, Shared)
        PROVE  x \in Notes /\ x.nonce <= lastNonce
    <2>1. PICK b \in buckets[n][Shared] : x = b.msg
      BY DEF Messages, Reaped
    <2>2. b \in Blobs
      BY <1>t, <1>1 DEF SignalingTypeOK
    <2> QED BY <1>t, <1>1, <2>1, <2>2 DEF NoncesOnce, Blobs
  <1>5. /\ unanswered'[n] = FindRequests(Messages(n, Responder, Shared), Responder)
        /\ round'[n] = IF ~Allow(n, Responder).ok THEN "none"
                       ELSE IF unanswered'[n] = {} THEN "done" ELSE "open"
        /\ \A m \in Endpoints \ {n} : unanswered'[m] = unanswered[m] /\ round'[m] = round[m]
        /\ DOMAIN round' = Endpoints
    BY <1>t, <1>2 DEF SignalingTypeOK
  <1>6. SignalingTypeOK'
    <2>1. FindRequests(Messages(n, Responder, Shared), Responder) \in SUBSET Notes
      BY <1>4 DEF FindRequests
    <2>2. unanswered' \in [Endpoints -> SUBSET Notes]
      BY <1>t, <1>2, <2>1 DEF SignalingTypeOK
    <2> QED BY <1>t, <1>2, <1>3, <1>5, <2>2 DEF SignalingTypeOK, Weighed, Distinct, OneApart
  <1>7. NoncesOnce'
    <2>1. ASSUME NEW m \in Endpoints, NEW r \in unanswered'[m] PROVE r.nonce <= lastNonce
      <3>1. CASE m = n
        BY <1>4, <1>5, <2>1, <3>1 DEF FindRequests
      <3>2. CASE m # n
        BY <1>t, <1>5, <2>1, <3>2 DEF NoncesOnce
      <3> QED BY <3>1, <3>2
    <2>2. ASSUME NEW m \in Endpoints, NEW l \in Keys, NEW b \in buckets'[m][l]
          PROVE  b.msg.nonce <= lastNonce /\ b.at <= clock
      BY <1>t, <1>3, <2>2 DEF NoncesOnce
    <2> QED BY <1>2, <2>1, <2>2 DEF NoncesOnce
  <1>8. ASSUME NEW m \in Endpoints PROVE MetAt(m)'
    <2>0. MetAt(m) /\ Kept(buckets[m][Shared], buckets'[m][Shared]) /\ buckets'[m][Shared] \subseteq buckets[m][Shared]
      BY <1>1, <1>3 DEF SignalingInv
    <2>1. CASE m # n
      BY <1>t, <1>1, <1>2, <1>5, <2>0, <2>1, MetStays
    <2>2. CASE m = n
      <3>1. Shared' = Shared /\ (Fresh(n)' <=> Fresh(n)) /\ Mine(n)' = Mine(n) /\ Answer(n)' = Answer(n)
        BY <1>2 DEF Shared, KeyOf, Fresh, Mine, Answer
      <3>2. Fresh(n) => Lies(n, Mine(n))'
        <4>1. Fresh(n) => Lies(n, Mine(n))
          BY <2>0, <2>2 DEF MetAt
        <4> QED BY <1>t, <1>1, <1>2, <2>0, <2>2, <4>1, LiesStays, <3>1 DEF Lies
      <3>3. Fresh(n) /\ Allow(n, Responder).ok => Mine(n) \in unanswered'[n]
        <4> SUFFICES ASSUME Fresh(n), Allow(n, Responder).ok PROVE Mine(n) \in unanswered'[n]
          OBVIOUS
        <4>1. PICK b \in buckets[n][Shared] : b.msg = Mine(n) /\ b.at >= asking[n].at
          BY <2>0, <2>2 DEF MetAt, Lies
        <4>2. asking[n].at \in Nat /\ clock \in Nat /\ b.at \in Nat /\ clock < asking[n].at + Ttl
          BY <1>t, <1>1, <4>1 DEF SignalingTypeOK, Fresh, Blobs
        <4>3. b.at > clock - Ttl
          BY <1>t, <4>1, <4>2
        <4>4. Mine(n) \in Messages(n, Responder, Shared)
          BY <4>1, <4>3 DEF Messages, Reaped
        <4>5. Mine(n).type = "request" /\ Mine(n).peer = Initiator
          BY DEF Mine, Request
        <4> QED BY <1>t, <1>5, <4>4, <4>5 DEF FindRequests
      <3>4. asking[n] # Unset => \A b \in buckets'[n][Shared] : b.msg = Answer(n) => b.at >= asking[n].at
        BY <2>0, <2>2 DEF MetAt
      <3>5. Fresh(n) => round'[n] # "done"
        BY <1>5, <3>3
      <3>6. Fresh(n) /\ round'[n] = "open" => Mine(n) \in unanswered'[n]
        BY <1>5, <3>3
      <3> QED BY <1>2, <2>2, <3>1, <3>2, <3>4, <3>5, <3>6 DEF MetAt
    <2> QED BY <2>1, <2>2
  <1> QED BY <1>6, <1>7, <1>8 DEF SignalingInv

(* Only a request that is answered leaves the round. *)
LEMMA RespondStep ==
    ASSUME SignalingAssumption, SignalingInv, NEW n \in Endpoints, NEW r \in unanswered[n], Respond(n, r)
    PROVE  SignalingInv'
  <1> DEFINE msg == Response(Responder, r.nonce)
             ok == OfferOk(n, Responder, Shared, msg)
  <1>t. SignalingTypeOK /\ NoncesOnce /\ Ttl \in Nat
    BY DEF SignalingInv, SignalingAssumption
  <1>1. KeyOf(Responder) = Shared /\ Shared \in Keys
    BY <1>t, KeysAgree DEF SignalingTypeOK
  <1>2. /\ Offer(n, Responder, Shared, msg)
        /\ unanswered' = [unanswered EXCEPT ![n] = @ \ {r}]
        /\ round' = [round EXCEPT ![n] =
                IF ~ok THEN "stale" ELSE IF unanswered'[n] # {} THEN @ ELSE IF @ = "open" THEN "done" ELSE "none"]
        /\ UNCHANGED <<keyMode, view, weight, lastNonce, asking, clock>>
    BY <1>1 DEF Respond
  <1>3. r \in Notes /\ r.nonce \in Nat /\ r.nonce <= lastNonce /\ msg \in Notes /\ msg.nonce = r.nonce
    <2>1. r \in Notes /\ r.nonce <= lastNonce
      BY <1>t DEF SignalingTypeOK, NoncesOnce
    <2> QED BY <2>1 DEF Notes, Response, Parties
  <1>4. /\ buckets' \in [Endpoints -> [Keys -> SUBSET Blobs]]
        /\ \A m \in Endpoints, l \in Keys :
              /\ Kept(buckets[m][l], buckets'[m][l])
              /\ \A b \in buckets'[m][l] :
                    b \in buckets[m][l] \/ (m = n /\ l = Shared /\ b = [msg |-> msg, at |-> clock])
        /\ ok => \E b \in buckets'[n][Shared] : b.msg = msg
    BY <1>t, <1>1, <1>2, <1>3, OfferIs
  <1>5. /\ unanswered'[n] = unanswered[n] \ {r}
        /\ round'[n] = IF ~ok THEN "stale" ELSE IF unanswered'[n] # {} THEN round[n]
                       ELSE IF round[n] = "open" THEN "done" ELSE "none"
        /\ \A m \in Endpoints \ {n} : unanswered'[m] = unanswered[m] /\ round'[m] = round[m]
        /\ DOMAIN round' = Endpoints /\ unanswered' \in [Endpoints -> SUBSET Notes]
    BY <1>t, <1>2 DEF SignalingTypeOK
  <1>6. SignalingTypeOK'
    BY <1>t, <1>2, <1>4, <1>5 DEF SignalingTypeOK, Weighed, Distinct, OneApart
  <1>7. NoncesOnce'
    <2>1. ASSUME NEW m \in Endpoints, NEW l \in Keys, NEW b \in buckets'[m][l]
          PROVE  b.msg.nonce <= lastNonce /\ b.at <= clock
      <3>1. CASE b \in buckets[m][l]
        BY <1>t, <3>1 DEF NoncesOnce
      <3>2. CASE b = [msg |-> msg, at |-> clock]
        <4>1. b.msg = msg /\ b.at = clock /\ clock \in Nat
          BY <1>t, <3>2 DEF SignalingTypeOK
        <4> QED BY <1>3, <4>1
      <3> QED BY <1>4, <3>1, <3>2
    <2>2. ASSUME NEW m \in Endpoints, NEW x \in unanswered'[m] PROVE x.nonce <= lastNonce
      BY <1>t, <1>5, <2>2 DEF NoncesOnce
    <2> QED BY <1>2, <2>1, <2>2 DEF NoncesOnce
  <1>8. ASSUME NEW m \in Endpoints PROVE MetAt(m)'
    <2>0. /\ MetAt(m) /\ Kept(buckets[m][Shared], buckets'[m][Shared])
          /\ \A b \in buckets'[m][Shared] : b \in buckets[m][Shared] \/ b.at = clock
      BY <1>1, <1>4 DEF SignalingInv
    <2>1. CASE m # n
      BY <1>t, <1>1, <1>2, <1>5, <2>0, <2>1, MetStays
    <2>2. CASE m = n
      <3>1. Shared' = Shared /\ (Fresh(n)' <=> Fresh(n)) /\ Mine(n)' = Mine(n) /\ Answer(n)' = Answer(n)
        BY <1>2 DEF Shared, KeyOf, Fresh, Mine, Answer
      <3>2. Fresh(n) => Lies(n, Mine(n))'
        <4>1. Fresh(n) => Lies(n, Mine(n))
          BY <2>0, <2>2 DEF MetAt
        <4> QED BY <1>t, <1>1, <1>2, <2>0, <2>2, <4>1, LiesStays, <3>1 DEF Lies
      <3>3. Fresh(n) /\ Lies(n, Answer(n)) => Lies(n, Answer(n))'
        BY <1>t, <1>1, <1>2, <2>0, <2>2, LiesStays, <3>1 DEF Lies
      <3>4. asking[n] # Unset => \A b \in buckets'[n][Shared] : b.msg = Answer(n) => b.at >= asking[n].at
        <4>1. asking[n] # Unset => asking[n].at <= clock
          BY <1>t DEF SignalingTypeOK
        <4> QED BY <2>0, <2>2, <4>1 DEF MetAt
      <3>5. Fresh(n) /\ ok /\ r = Mine(n) => Lies(n, Answer(n))'
        <4> SUFFICES ASSUME Fresh(n), ok, r = Mine(n) PROVE Lies(n, Answer(n))'
          OBVIOUS
        <4>1. msg = Answer(n)
          BY DEF Mine, Answer, Request
        <4>2. PICK b \in buckets'[n][Shared] : b.msg = Answer(n)
          BY <1>4, <4>1
        <4>3. b.at >= asking[n].at
          BY <3>4, <4>2 DEF Fresh
        <4> QED BY <1>2, <3>1, <4>2, <4>3 DEF Lies
      <3>6. Fresh(n) /\ ok /\ round[n] = "open" => Mine(n) \in unanswered'[n] \/ Lies(n, Answer(n))'
        BY <1>5, <2>0, <2>2, <3>3, <3>5 DEF MetAt
      <3>7. Fresh(n) /\ round[n] = "done" => Lies(n, Answer(n))'
        BY <2>0, <2>2, <3>3 DEF MetAt
      <3>8. round'[n] = "open" => ok /\ round[n] = "open"
        BY <1>5
      <3>9. round'[n] = "done" => (ok /\ round[n] = "open" /\ unanswered'[n] = {}) \/ round[n] = "done"
        BY <1>5
      <3> QED BY <1>2, <2>2, <3>1, <3>2, <3>4, <3>6, <3>7, <3>8, <3>9 DEF MetAt
    <2> QED BY <2>1, <2>2
  <1> QED BY <1>6, <1>7, <1>8 DEF SignalingInv

(* What the third peer leaves is neither the request nor an answer. *)
LEMMA StrangerStep ==
    ASSUME SignalingAssumption, SignalingInv, NEW n \in Endpoints, NEW k \in Keys, NEW msg \in Notes, msg.nonce = 0,
           Offer(n, Stranger, k, msg),
           UNCHANGED <<keyMode, view, weight, lastNonce, asking, unanswered, round, clock>>
    PROVE  SignalingInv'
  <1>t. SignalingTypeOK /\ NoncesOnce /\ Ttl \in Nat /\ Shared \in Keys
    BY KeysAgree DEF SignalingInv, SignalingAssumption, SignalingTypeOK
  <1>1. /\ buckets' \in [Endpoints -> [Keys -> SUBSET Blobs]]
        /\ \A m \in Endpoints, l \in Keys :
              /\ Kept(buckets[m][l], buckets'[m][l])
              /\ \A b \in buckets'[m][l] :
                    b \in buckets[m][l] \/ (m = n /\ l = k /\ b = [msg |-> msg, at |-> clock])
    BY <1>t, OfferIs
  <1>2. SignalingTypeOK'
    BY <1>t, <1>1 DEF SignalingTypeOK, Weighed, Distinct, OneApart
  <1>3. NoncesOnce'
    <2>1. ASSUME NEW m \in Endpoints, NEW l \in Keys, NEW b \in buckets'[m][l]
          PROVE  b.msg.nonce <= lastNonce /\ b.at <= clock
      <3>1. CASE b \in buckets[m][l]
        BY <1>t, <3>1 DEF NoncesOnce
      <3>2. CASE b = [msg |-> msg, at |-> clock]
        <4>1. b.msg = msg /\ b.at = clock /\ clock \in Nat /\ lastNonce \in Nat
          BY <1>t, <3>2 DEF SignalingTypeOK
        <4> QED BY <4>1
      <3> QED BY <1>1, <3>1, <3>2
    <2> QED BY <1>t, <2>1 DEF NoncesOnce
  <1>4. ASSUME NEW m \in Endpoints PROVE MetAt(m)'
    <2>1. /\ MetAt(m) /\ Kept(buckets[m][Shared], buckets'[m][Shared])
          /\ \A b \in buckets'[m][Shared] : b \in buckets[m][Shared] \/ b.at = clock
      BY <1>t, <1>1 DEF SignalingInv
    <2> QED BY <1>t, <2>1, MetStays
  <1> QED BY <1>2, <1>3, <1>4 DEF SignalingInv

LEMMA SignalingInvStep ==
    ASSUME SignalingAssumption, SignalingInv, [SignalingNext]_signalingVars
    PROVE  SignalingInv'
  <1>t. SignalingTypeOK /\ NoncesOnce /\ clock \in Nat
    BY DEF SignalingInv, SignalingTypeOK
  <1>1. CASE UNCHANGED signalingVars
    BY <1>1 DEF signalingVars, SignalingInv, SignalingTypeOK, Weighed, Distinct, OneApart, NoncesOnce, MetAt, Fresh,
                Lies, Mine, Answer, Shared, KeyOf
  <1>2. ASSUME NEW n \in SelectTop(Initiator) \cup SelectTop(Responder),
               \/ Initiate(n) \/ Poll(n) \/ OtherKey(n)
               \/ \E r \in unanswered[n] : Respond(n, r)
               \/ \E m \in {Request(Stranger, 0), Blob} : Noise(n, m)
        PROVE  SignalingInv'
    <2>1. n \in Endpoints
      BY <1>t, TopIsNodes
    <2>2. Request(Stranger, 0) \in Notes /\ Request(Stranger, 0).nonce = 0 /\ Blob \in Notes /\ Blob.nonce = 0
      BY DEF Notes, Request, Blob, Parties
    <2>3. CASE OtherKey(n)
      <3>1. Derive("tag", "other") \in Keys
        BY DEF Keys
      <3> QED BY <2>1, <2>2, <2>3, <3>1, StrangerStep DEF OtherKey
    <2>4. ASSUME NEW m \in {Request(Stranger, 0), Blob}, Noise(n, m) PROVE SignalingInv'
      <3>1. KeyOf(Initiator) \in Keys
        BY <1>t, KeysAgree DEF SignalingTypeOK, Shared
      <3> QED BY <2>1, <2>2, <2>4, <3>1, StrangerStep DEF Noise
    <2> QED BY <1>2, <2>1, <2>3, <2>4, InitiateStep, PollStep, RespondStep
  <1>3. CASE ClockTicks
    <2>1. clock' = clock + 1 /\ UNCHANGED <<keyMode, view, weight, buckets, lastNonce, asking, unanswered, round>>
      BY <1>3 DEF ClockTicks
    <2>2. SignalingTypeOK'
      <3>1. \A n \in Endpoints : asking'[n] # Unset => asking'[n] \in [nonce : 1 .. lastNonce', at : 0 .. clock']
        <4>1. \A x \in 0 .. clock : x \in 0 .. clock + 1
          BY <1>t
        <4> QED BY <1>t, <2>1, <4>1 DEF SignalingTypeOK
      <3> QED BY <1>t, <2>1, <3>1 DEF SignalingTypeOK, Weighed, Distinct, OneApart
    <2>3. NoncesOnce'
      <3>1. ASSUME NEW n \in Endpoints, NEW k \in Keys, NEW b \in buckets[n][k]
            PROVE  b.msg.nonce <= lastNonce /\ b.at <= clock + 1
        <4>1. b.at \in Nat /\ b.at <= clock /\ b.msg.nonce <= lastNonce
          BY <1>t DEF NoncesOnce, SignalingTypeOK, Blobs
        <4> QED BY <1>t, <4>1
      <3> QED BY <1>t, <2>1, <3>1 DEF NoncesOnce
    <2>4. ASSUME NEW n \in Endpoints PROVE MetAt(n)'
      <3>1. Fresh(n)' => Fresh(n)
        <4>1. asking[n] # Unset => asking[n].at \in Nat
          BY <1>t DEF SignalingTypeOK
        <4> QED BY <1>t, <2>1, <4>1 DEF Fresh, SignalingAssumption
      <3>2. MetAt(n)
        BY DEF SignalingInv
      <3> QED BY <2>1, <3>1, <3>2 DEF MetAt, Lies, Mine, Answer, Shared, KeyOf
    <2> QED BY <2>2, <2>3, <2>4 DEF SignalingInv
  <1> QED BY <1>1, <1>2, <1>3 DEF SignalingNext

(* A fresh request lies where it was left, and whoever polls a node to the *)
(* end has answered it there (node.py offer(), client.py).                 *)
THEOREM SignalingInvCorrect == ASSUME SignalingAssumption PROVE SignalingSpec => []SignalingInv
  BY SignalingInvInit, SignalingInvStep, PTL DEF SignalingSpec

(* Two peers that each do their part meet, if their pools are of one tier  *)
(* and differ by at most one node (pool.py select_top(), client.py).       *)
THEOREM MeetCorrect == ASSUME SignalingAssumption PROVE SignalingSpec => []Meet
  <1>1. SignalingInv => Meet
    <2> SUFFICES ASSUME SignalingInv,
                        \A n \in SelectTop(Initiator) : asking[n] # Unset /\ clock < asking[n].at + Ttl,
                        \A n \in SelectTop(Responder) : round[n] = "done",
                        view[Initiator] # {}, view[Responder] # {}
                 PROVE  \E n \in SelectTop(Initiator) :
                          FindResponse({b.msg : b \in Reaped(n, KeyOf(Initiator))}, asking[n].nonce, Initiator) # {}
      BY DEF Meet
    <2>1. SignalingTypeOK /\ Ttl \in Nat /\ Initiator # Responder
      BY DEF SignalingInv, SignalingAssumption
    <2>2. PICK n \in Endpoints : n \in SelectTop(Initiator) /\ n \in SelectTop(Responder)
      BY <2>1, ChoicesIntersect DEF SignalingTypeOK
    <2>3. Fresh(n) /\ round[n] = "done"
      BY <2>2 DEF Fresh
    <2>4. PICK b \in buckets[n][Shared] : b.msg = Answer(n) /\ b.at >= asking[n].at
      BY <2>3 DEF SignalingInv, MetAt, Lies
    <2>5. asking[n].at \in Nat /\ clock \in Nat /\ b.at \in Nat /\ clock < asking[n].at + Ttl
      <3>1. Shared \in Keys
        BY <2>1, KeysAgree DEF SignalingTypeOK
      <3> QED BY <2>1, <2>3, <2>4, <3>1 DEF SignalingTypeOK, Fresh, Blobs
    <2>6. b \in Reaped(n, KeyOf(Initiator))
      <3>1. b.at > clock - Ttl
        BY <2>1, <2>4, <2>5
      <3> QED BY <2>4, <3>1 DEF Reaped, Shared
    <2>7. Answer(n).type = "response" /\ Answer(n).nonce = asking[n].nonce /\ Answer(n).peer = Responder
      BY DEF Answer, Response
    <2> QED BY <2>1, <2>2, <2>4, <2>6, <2>7 DEF FindResponse
  <1> QED BY <1>1, SignalingInvCorrect, PTL

=============================================================================
