-------------------------------- MODULE Compute --------------------------------
(***************************************************************************)
(* Reactive evaluation: the part of compute.py that keeps the results of   *)
(* installed subgraphs up to date from a hook of the EmitPathway.          *)
(*                                                                         *)
(* A write dispatches to the hook before it returns, and what the hook     *)
(* writes dispatches in turn, so a cascade is a stack of frames.  An       *)
(* expression adds up the paths it reads, modulo Modulus, and may store    *)
(* the sum with the store builtin before it returns it.  A stored error is *)
(* a value whose hash is its code, and the first error read is the result. *)
(***************************************************************************)
EXTENDS Naturals, Sequences, FiniteSets, SequencesExt

CONSTANTS
    Inputs,        \* paths written from outside
    Subs,          \* the subgraphs, one per root expression path
    Exprs,         \* the expressions
    Rooted,        \* Rooted[s]: the expressions that may be bound at s's root path
    Reads,         \* Reads[e]: the paths e looks up, in order of evaluation
    Adds,          \* Adds[e]: what e adds to their sum
    Stores,        \* Stores[e]: the path e stores the sum at, or None
    Out,           \* Out[s]: result_path
    Modulus,
    None, NotFound, LimitError, GrantError,
    Limit,         \* MAX_CASCADE_DEPTH
    Refuse,        \* SYSTEM_REFUSE_DEPTH of the emit pathway
    MaxCalls       \* bound: operations from outside

Outs == {Out[s] : s \in Subs}
Paths == Inputs \cup Outs
Values == 0..(Modulus - 1)
Errors == {NotFound, LimitError, GrantError}

(* What the constants are assumed to be. *)
ComputeAssumption ==
    /\ Limit \in Nat /\ Refuse \in Nat /\ Modulus \in Nat \ {0}
    /\ \A s, t \in Subs : Out[s] = Out[t] => s = t
    /\ Inputs \cap Outs = {}
    /\ \A s \in Subs : Rooted[s] \subseteq Exprs
    /\ \A e \in Exprs : Stores[e] \in Inputs \cup {None} /\ Reads[e] \in Seq(Paths)

VARIABLES
    tree,    \* path -> value, error or None
    expr,    \* subgraph -> the expression bound at its root path, or None
    status,  \* subgraph -> "none", "active" or "frozen": the entity at its process path
    expired, \* the subgraphs whose installation grant is no longer valid
    index,   \* dependency_index: [path, sub, full]; full if the entry names the whole URI
    stack,   \* the calls in progress, innermost last
    depth,   \* _cascade_depth
    fresh,   \* subgraphs evaluated since they were installed, with every read indexed
    calls    \* operations from outside so far

computeVars == <<tree, expr, status, expired, index, stack, depth, fresh, calls>>

ComputeInit ==
    /\ tree = [p \in Paths |-> None]
    /\ expr \in [Subs -> Exprs] /\ \A s \in Subs : expr[s] \in Rooted[s]
    /\ status = [s \in Subs |-> "none"]
    /\ expired = {} /\ index = {} /\ stack = <<>> /\ depth = 0
    /\ fresh = {} /\ calls = 0

-----------------------------------------------------------------------------
(* evaluate(): lookups in order, the first error short-circuits the rest. *)
Lookup(p) == IF tree[p] = None THEN NotFound ELSE tree[p]

Combine(e, read) ==
    LET bad == {i \in DOMAIN read : read[i] \in Errors}
    IN IF bad # {} THEN read[CHOOSE i \in bad : \A j \in bad : i <= j]
       ELSE (FoldLeft(LAMBDA x, y : x + y, Adds[e], read)) % Modulus

Evaluate(e) == Combine(e, [i \in DOMAIN Reads[e] |-> Lookup(Reads[e][i])])

(* walk_tree_lookups(): the paths named in the expression. *)
Dependencies(e) == {Reads[e][i] : i \in DOMAIN Reads[e]}

Entries(s, full) == [path : Dependencies(expr[s]), sub : {s}, full : {full}]
Covered(s) == \A p \in Dependencies(expr[s]) : \E n \in index : n.path = p /\ n.sub = s

(* DependencyIndex.match(), of the uri of an event. *)
MatchingMutant(p) == {n \in index : n.path = p /\ ~n.full}
Matching(p) == {n \in index : n.path = p}

-----------------------------------------------------------------------------
(* emit() from a call whose remaining frames are `rest': refused at the system      *)
(* threshold, nothing when the binding is the same, else the hook runs on the event. *)
Emitted(p, v) == depth < Refuse /\ tree[p] # v
Emit(p, v, rest) ==
    IF ~Emitted(p, v) THEN stack' = rest /\ UNCHANGED <<tree, depth>>
    ELSE /\ tree' = [tree EXCEPT ![p] = v]
         /\ stack' = Append(rest, [kind |-> "hook", todo |-> Matching(p), level |-> depth + 1, opened |-> 1])
         /\ depth' = depth + 1

Top == stack[Len(stack)]
Below == SubSeq(stack, 1, Len(stack) - 1)
Picked(n) == Append(Below, [Top EXCEPT !.todo = @ \ {n}])

(* The hook returns and with it the dispatch. *)
HookReturns ==
    /\ stack # <<>> /\ Top.kind = "hook" /\ Top.todo = {}
    /\ stack' = Below /\ depth' = depth - Top.opened
    /\ UNCHANGED <<tree, expr, status, expired, index, fresh, calls>>

(* remove_subgraph() with the whole URI; install has added the short one. *)
Unindex(s) == {n \in index : n.sub # s \/ ~n.full}

(* An entry whose subgraph is gone or frozen, or whose expression is gone. *)
Skip(n) ==
    /\ status[n.sub] # "active"
    /\ stack' = Picked(n)
    /\ UNCHANGED <<tree, expr, status, expired, index, depth, fresh, calls>>

(* _freeze_subgraph(): the error goes to the result path, then the status is written. *)
Freezes(n) ==
    CASE Top.level >= Limit -> LimitError
      [] Top.level < Limit /\ n.sub \in expired -> GrantError
      [] OTHER -> None
Freeze(n) ==
    /\ status[n.sub] = "active" /\ Freezes(n) # None
    /\ Emit(Out[n.sub], Freezes(n), Append(Picked(n), [kind |-> "status", sub |-> n.sub]))
    /\ UNCHANGED <<expr, status, expired, index, fresh, calls>>

WriteStatus ==
    /\ stack # <<>> /\ Top.kind = "status"
    /\ status' = IF depth < Refuse THEN [status EXCEPT ![Top.sub] = "frozen"] ELSE status
    /\ stack' = Below
    /\ fresh' = fresh \ {Top.sub}
    /\ UNCHANGED <<tree, expr, expired, index, depth, calls>>

Live(n) == status[n.sub] = "active" /\ Freezes(n) = None

Dangling(n) ==
    /\ Live(n) /\ expr[n.sub] = None
    /\ index' = Unindex(n.sub)
    /\ stack' = Picked(n)
    /\ UNCHANGED <<tree, expr, status, expired, depth, fresh, calls>>

(* _re_evaluate(): evaluate, store if the expression does, then write the result. *)
WriteResult(s, v, rest) ==
    /\ Emit(Out[s], v, rest)
    /\ fresh' = IF Covered(s) /\ (depth < Refuse \/ tree[Out[s]] = v)
                THEN fresh \cup {s} ELSE fresh \ {s}

ReEvaluate(n) ==
    /\ Live(n) /\ expr[n.sub] # None
    /\ LET e == expr[n.sub]
           v == Evaluate(e)
       IN IF Stores[e] = None
          THEN WriteResult(n.sub, v, Picked(n))
          ELSE /\ Emit(Stores[e], v, Append(Picked(n), [kind |-> "result", sub |-> n.sub, value |-> v]))
               /\ UNCHANGED fresh
    /\ UNCHANGED <<expr, status, expired, index, calls>>

FinishEvaluation ==
    /\ stack # <<>> /\ Top.kind = "result"
    /\ WriteResult(Top.sub, Top.value, Below)
    /\ UNCHANGED <<expr, status, expired, index, calls>>

OnChange ==
    /\ stack # <<>> /\ Top.kind = "hook"
    /\ \E n \in Top.todo : Skip(n) \/ Freeze(n) \/ Dangling(n) \/ ReEvaluate(n)

-----------------------------------------------------------------------------
(* Operations from outside run when no cascade is in progress. *)
Call == stack = <<>> /\ calls < MaxCalls /\ calls' = calls + 1

Owner(p) == {s \in Subs : Out[s] = p}

Put(p, v) ==
    /\ Call /\ Emit(p, v, <<>>)
    /\ fresh' = fresh \ Owner(p)
    /\ UNCHANGED <<expr, status, expired, index>>

(* delete() opens no cascade level; the event carries the level of its caller. *)
Delete(p) ==
    /\ Call /\ tree[p] # None
    /\ tree' = [tree EXCEPT ![p] = None]
    /\ stack' = <<[kind |-> "hook", todo |-> Matching(p), level |-> depth, opened |-> 0]>>
    /\ fresh' = fresh \ Owner(p)
    /\ UNCHANGED <<expr, status, expired, index, depth>>

(* The expression at a root path is replaced or removed; no dependency is re-indexed. *)
Rewrite(s, e) ==
    /\ Call /\ expr[s] # e
    /\ expr' = [expr EXCEPT ![s] = e]
    /\ fresh' = fresh \ {s}
    /\ UNCHANGED <<tree, status, expired, index, stack, depth>>

(* install: audits and records the subgraph; the first result waits for a change. *)
Install(s) ==
    /\ Call /\ expr[s] # None
    /\ status' = [status EXCEPT ![s] = "active"]
    /\ expired' = expired \ {s}
    /\ index' = index \cup Entries(s, FALSE)
    /\ fresh' = fresh \ {s}
    /\ UNCHANGED <<tree, expr, stack, depth>>

Uninstall(s) ==
    /\ Call /\ status[s] # "none"
    /\ index' = Unindex(s)
    /\ status' = [status EXCEPT ![s] = "none"]
    /\ fresh' = fresh \ {s}
    /\ UNCHANGED <<tree, expr, expired, stack, depth>>

Expire(s) ==
    /\ Call /\ s \notin expired /\ status[s] = "active"
    /\ expired' = expired \cup {s}
    /\ UNCHANGED <<tree, expr, status, index, stack, depth, fresh>>

(* A new process over the same tree: rebuild(). *)
Rebuild == UNION {Entries(s, TRUE) : s \in {x \in Subs : status[x] = "active" /\ expr[x] # None}}
Restart ==
    /\ Call /\ index' = Rebuild
    /\ UNCHANGED <<tree, expr, status, expired, stack, depth, fresh>>

Cascade == HookReturns \/ OnChange \/ WriteStatus \/ FinishEvaluation

Outside ==
    \/ \E p \in Paths : Delete(p) \/ \E v \in Values : Put(p, v)
    \/ \E s \in Subs : Install(s) \/ Uninstall(s) \/ Expire(s)
    \/ \E s \in Subs : \E e \in Rooted[s] \cup {None} : Rewrite(s, e)
    \/ Restart

ComputeNext == Cascade \/ Outside

ComputeSpec == ComputeInit /\ [][ComputeNext]_computeVars

-----------------------------------------------------------------------------
(* An expression that stores and reads nothing the hook may write, or does not store: *)
(* what the others store and the results are the paths the hook writes.              *)
Apart(e) ==
    Stores[e] = None \/ Dependencies(e) \cap (Outs \cup {Stores[x] : x \in Exprs}) = {}

(* Between cascades the result of an active subgraph is what its expression        *)
(* evaluates to now, once it has been evaluated with every read indexed: however   *)
(* the nested re-evaluations of _ComputeHook ordered themselves, across freezes,   *)
(* refusals and restarts.  An expression that is not Apart may read what its own   *)
(* store changes: its cascade evaluates it again inside, and the outer result is   *)
(* written last.                                                                   *)
ResultsCurrent ==
    stack = <<>> =>
        \A s \in fresh : status[s] = "active" /\ expr[s] # None /\ Apart(expr[s])
                            => tree[Out[s]] = Evaluate(expr[s])

================================================================================
