------------------------------ MODULE MCDerived ------------------------------
(* What is computed or looked up from the tree, and what follows it: name  *)
(* registration and resolution, the name matcher, signalling over nodes,   *)
(* reactive subgraphs, the evaluator, and files under a root mapping.      *)
(* The six share no state in the code but the tree that each has here      *)
(* itself, so a run takes one of them, `part`, and the others stand still: *)
(* one that this module extends, or the evaluator, whose variables are     *)
(* x1 to x4.                                                               *)
EXTENDS Registry, Compute, NameGlob, LocalFiles, Signaling, TLC

CONSTANTS Unused,
          p1, p2, n1, n2, n3         \* peers, nodes

VARIABLES part, x1, x2, x3, x4

others == <<x1, x2, x3, x4>>
all    == <<registryVars, computeVars, globVars, filesVars, signalingVars, part, others>>

(***************************************************************************)
(* Two peers that register one name under each kind of policy, and one     *)
(* that resolves it while it is issued, renewed and revoked.               *)
(***************************************************************************)
Issuing(mode, allow, default, most) ==
    [mode |-> mode, allow |-> allow, default |-> default, most |-> most]
IssuerPolicies ==
            {Issuing("open", {}, 1, 2), Issuing("manual", {}, 1, 1),
             Issuing("allowlist", {p1}, 1, 2), Issuing("allowlist", {p2}, 1, 2)}

(***************************************************************************)
(* Every pattern of three characters and a name of three.                  *)
(***************************************************************************)
NameLetters == {"a", "@", ":", ".eth"}

(***************************************************************************)
(* Three nodes of one priority, of which one side knows all and the other  *)
(* two.  Nothing but their weights tells nodes apart, so these are in one  *)
(* order.                                                                  *)
(***************************************************************************)
Nodes   == {n1, n2, n3}
Pools   == {{[endpoint |-> e, priority |-> 0] : e \in s} :
               s \in {t \in SUBSET Nodes : Cardinality(t) >= 2}}
KeyedBy == {"pair"}
Weights == (n1 :> 1 @@ n2 :> 2 @@ n3 :> 3)

(***************************************************************************)
(* Subgraph a feeds b twice, directly and through y; b and c are a cycle.  *)
(***************************************************************************)
Roots  == [a |-> {"ea"}, b |-> {"eb", "eb2"}, c |-> {"ec"}]
Lookups == [ea |-> <<"x">>, eb |-> <<"oa", "y">>, eb2 |-> <<"oa", "oc">>, ec |-> <<"ob">>]
Added  == [ea |-> 0, eb |-> 0, eb2 |-> 0, ec |-> 1]
Storing == [ea |-> "y", eb |-> None, eb2 |-> None, ec |-> None]
Results == [a |-> "oa", b |-> "ob", c |-> "oc"]

(***************************************************************************)
(* Programs: every builtin over a range, with bodies and operands that     *)
(* fail, nest or spend.                                                    *)
(***************************************************************************)
Lit(n)            == [k |-> "literal", value |-> [t |-> "int", int |-> n]]
Name(n)           == [k |-> "scope", name |-> n]
Unknown           == [k |-> "missing"]
Arith(op, l, r)   == [k |-> "arithmetic", op |-> op, left |-> l, right |-> r]
Compare(op, l, r) == [k |-> "compare", op |-> op, left |-> l, right |-> r]
Cast(to, e)       == [k |-> "cast", to |-> to, of |-> e]
Lambda(ps, e)     == [k |-> "lambda", params |-> ps, body |-> e]
Use(b, args)      == [k |-> "apply", builtin |-> b, args |-> args]
RangeOf(e)        == Use("range", [n |-> e])
Let1(n, v, e)     == [k |-> "let", bindings |-> <<[name |-> n, value |-> v]>>, body |-> e]
When(c, t, f)     == [k |-> "if", cond |-> c, then |-> t, else |-> f]
CallF(f, args)    == [k |-> "call", fn |-> f, args |-> args]
Item(l, r)        == [k |-> "index", left |-> l, right |-> r]

X == Name("x")
Atoms == {Lit(0), Lit(2), Lit(5), Arith("div", Lit(1), Lit(0)), Unknown, [k |-> "err", code |-> "stored"]}
Bodies == {X, Unknown, Arith("mul", X, Lit(5)), Arith("div", Lit(2), X), RangeOf(X),
           When(Compare("lt", X, Cast("uint", Lit(-1))), Arith("sub", X, Lit(1)), Name("nowhere")),
           CallF(Lambda(<<"y">>, Arith("add", Name("y"), X)), [y |-> Arith("mod", X, Lit(2))]),
           Use("map", [fn |-> Lambda(<<"y">>, Arith("div", X, Name("y"))), collection |-> RangeOf(X)]),
           [k |-> "construct", fields |-> <<[name |-> "f", value |-> X]>>],
           [k |-> "not", of |-> X]}
Sums == {Arith("add", Name("a"), X), Name("a"), RangeOf(X),
         When(Compare("eq", X, Lit(1)), Arith("div", X, Lit(0)), X)}
Loops(b, e) == Use(b, [fn |-> Lambda(<<"x">>, e), collection |-> RangeOf(Lit(3))])
Programs ==
         {Loops(b, e) : b \in {"map", "filter", "group-by"}, e \in Bodies}
    \cup {Use("fold", [fn |-> Lambda(<<"a", "x">>, e), initial |-> i, collection |-> RangeOf(Lit(2))]) :
             e \in Sums, i \in Atoms \cup {RangeOf(Lit(4))}}
    \cup {Let1("x", a, e) : a \in Atoms, e \in Bodies}
    \cup {Use("concat", [collections |-> Loops("map", e)]) : e \in Bodies}
    \cup {Item(l, r) : l \in {Loops("map", e) : e \in Bodies}, r \in Atoms}
    \cup {[k |-> "length", of |-> Loops("filter", e)] : e \in Bodies}
    \cup {[k |-> "field", name |-> "key", of |-> Item(Loops("group-by", e), Lit(0))] : e \in Bodies}
    \cup {[k |-> "logic", op |-> o, left |-> l, right |-> r] : o \in {"and", "or"}, l \in Atoms, r \in Atoms}
    \cup {Use("assoc", [collection |-> c, index |-> i, value |-> v]) :
             c \in {RangeOf(Lit(2)), Lit(1)}, i \in {Lit(1), Lit(2), Unknown},
             v \in Atoms \cup {RangeOf(Lit(6))} \cup {Let1("x", Lit(2), e) : e \in Bodies}}
Depths == {1, 3, 9}

E == INSTANCE Evaluator WITH
        Width <- 3, MaxLength <- 6, MaxOps <- 60,
        program <- x1, depth <- x2, ops <- x3, result <- x4

(***************************************************************************)
(* Two contents of one size and the empty file; changes of the tree path   *)
(* come further apart than the window of the write tracker.                *)
(***************************************************************************)
FileContents == {"x", "y", "empty"}
FileSize(c) == IF c = "empty" THEN 0 ELSE 1

ASSUME RegistryAssumption /\ ComputeAssumption /\ GlobAssumption /\ FilesAssumption
       /\ SignalingAssumption

-----------------------------------------------------------------------------
(* The parts that are not taken: a registry that has issued nothing,       *)
(* subgraphs that are not installed, an empty name, no file, and two peers *)
(* that know every node.                                                   *)
RegistryIdle == RegistryInit
ComputeIdle  == ComputeInit /\ expr = [s \in Subs |-> CHOOSE e \in Rooted[s] : TRUE]
GlobIdle     == Begin /\ pattern = <<>> /\ name = <<>>
FilesIdle    == FilesInit /\ file = Absent
SignalingIdle ==
    /\ view = [p \in {Initiator, Responder} |-> {[endpoint |-> n, priority |-> 0] : n \in Nodes}]
    /\ weight = Weights
    /\ SignalingInit
Others == x1 = Unused /\ x2 = Unused /\ x3 = Unused /\ x4 = Unused

DerivedInit ==
    \/ /\ part = "registry" /\ RegistryInit
       /\ ComputeIdle /\ GlobIdle /\ FilesIdle /\ SignalingIdle /\ Others
    \/ /\ part = "compute" /\ ComputeInit
       /\ RegistryIdle /\ GlobIdle /\ FilesIdle /\ SignalingIdle /\ Others
    \/ /\ part = "glob" /\ Begin
       /\ RegistryIdle /\ ComputeIdle /\ FilesIdle /\ SignalingIdle /\ Others
    \/ /\ part = "files" /\ FilesInit
       /\ RegistryIdle /\ ComputeIdle /\ GlobIdle /\ SignalingIdle /\ Others
    \/ /\ part = "signaling" /\ weight = Weights /\ SignalingInit /\ view[Initiator] # view[Responder]
       /\ RegistryIdle /\ ComputeIdle /\ GlobIdle /\ FilesIdle /\ Others
    \/ /\ part = "evaluator" /\ E!Init
       /\ RegistryIdle /\ ComputeIdle /\ GlobIdle /\ FilesIdle /\ SignalingIdle

DerivedNext ==
    /\ part' = part
    /\ \/ /\ part = "registry" /\ RegistryNext
          /\ UNCHANGED <<computeVars, globVars, filesVars, signalingVars, others>>
       \/ /\ part = "compute" /\ ComputeNext
          /\ UNCHANGED <<registryVars, globVars, filesVars, signalingVars, others>>
       \/ /\ part = "glob" /\ GlobStep
          /\ UNCHANGED <<registryVars, computeVars, filesVars, signalingVars, others>>
       \/ /\ part = "files" /\ FilesNext
          /\ UNCHANGED <<registryVars, computeVars, globVars, signalingVars, others>>
       \/ /\ part = "signaling" /\ SignalingNext
          /\ UNCHANGED <<registryVars, computeVars, globVars, filesVars, others>>
       \/ /\ part = "evaluator" /\ E!Next
          /\ UNCHANGED <<registryVars, computeVars, globVars, filesVars, signalingVars>>

DerivedSpec == DerivedInit /\ [][DerivedNext]_all

-----------------------------------------------------------------------------
(* A larger budget never changes a result that was reached, but for an     *)
(* exhausted range that assoc placed (compute.py evaluate(), _eval_builtin *)
(* and _eval_builtin_assoc()).                                             *)
BudgetOnlyAborts == [][part = "evaluator" => E!LimitOrSame]_all
=============================================================================
