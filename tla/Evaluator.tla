------------------------------ MODULE Evaluator ------------------------------
(***************************************************************************)
(* The evaluator of compute expressions: evaluate() of compute.py and what *)
(* it calls.  An expression is a record, nested where the code follows a   *)
(* hash to another entity of the graph; Missing stands for a hash that     *)
(* does not resolve and [k |-> "err"] for a stored compute/error.  A value *)
(* carries its type in t and its content in a field named for that type.   *)
(* A word has Width bits.  A float is the quotient of an inexact division  *)
(* and nothing more is known of it; comparing or casting one is left out.  *)
(*                                                                         *)
(* Every call returns the value with the operations left.  The depth is    *)
(* restored on every return, so it is an argument only.                    *)
(***************************************************************************)
EXTENDS Integers, Sequences, FiniteSets, SequencesExt

CONSTANTS
    Programs,  \* the expressions evaluated
    Depths,    \* the depth limits they are evaluated with
    MaxOps,    \* bound: the largest budget tried
    Width,     \* the bits of a word: 64 in the code
    MaxLength  \* MAX_ARRAY_LENGTH

Int_(n)   == [t |-> "int", int |-> n]
Bool_(b)  == [t |-> "bool", bool |-> b]
List_(s)  == [t |-> "list", list |-> s]
Null_     == [t |-> "null"]
Float_    == [t |-> "float"]
Err(c)    == [t |-> "err", err |-> c]
Group(k, s) == [t |-> "group", key |-> k, members |-> s]
Record_(f)  == [t |-> "record", record |-> f]
Closure(ps, body, env) == [t |-> "closure", params |-> ps, body |-> body, env |-> env]

IsErr(v) == v.t = "err"
(* is_short_circuit_limit(); the cascade's own limit never comes out of an evaluation. *)
IsLimit(v) == IsErr(v) /\ v.err = "budget_exhausted"

Truthy(v) ==
    CASE v.t = "null" -> FALSE
      [] v.t = "bool" -> v.bool
      [] v.t = "int" -> v.int # 0
      [] v.t = "list" -> v.list # <<>>
      [] OTHER -> TRUE

Ret(v, ops) == [v |-> v, ops |-> ops]
Bind(scope, n, v) == [x \in DOMAIN scope \cup {n} |-> IF x = n THEN v ELSE scope[x]]

-----------------------------------------------------------------------------
(* Words: _bits64(), _signed64(), _operand_int(). *)
Words == 2 ^ Width
Bits(n) == n % Words
Signed(n) == IF Bits(n) >= Words \div 2 THEN Bits(n) - Words ELSE Bits(n)
OperandInt(n, unsigned) == IF unsigned THEN Bits(n) ELSE Signed(n)
Abs(n) == IF n < 0 THEN -n ELSE n

(* _apply_arithmetic() on two operands that are not errors. *)
ApplyArithmetic(op, l, r, lu, ru) ==
    LET a == OperandInt(l.int, lu)
        b == OperandInt(r.int, ru)
        m == Abs(a) % Abs(b)
        sign == IF (a < 0) = (b < 0) THEN 1 ELSE -1
    IN CASE {l.t, r.t} \ {"int", "float"} # {} -> Err("type_mismatch")
         [] "float" \in {l.t, r.t} -> IF op = "mod" THEN Err("type_mismatch") ELSE Float_
         [] op = "add" -> Int_(Signed(Bits(l.int) + Bits(r.int)))
         [] op = "sub" -> Int_(Signed(Bits(l.int) - Bits(r.int)))
         [] op = "mul" -> Int_(Signed(Bits(l.int) * Bits(r.int)))
         [] b = 0 -> Err("division_by_zero")
         [] op = "div" -> IF m = 0 THEN Int_(Signed(sign * (Abs(a) \div Abs(b)))) ELSE Float_
         [] op = "mod" -> Int_(Signed(IF a < 0 THEN -m ELSE m))

(* _apply_compare(): eq answers for any two values, an order only for numbers. *)
ApplyCompare(op, l, r, lu, ru) ==
    LET numbers == l.t = "int" /\ r.t = "int"
        a == OperandInt(l.int, lu)
        b == OperandInt(r.int, ru)
        equal == IF numbers THEN a = b ELSE l = r
    IN CASE op = "eq" -> Bool_(equal)
         [] op = "neq" -> Bool_(~equal)
         [] ~numbers -> Err("type_mismatch")
         [] op = "lt" -> Bool_(a < b)
         [] op = "lte" -> Bool_(a <= b)
         [] op = "gt" -> Bool_(a > b)
         [] op = "gte" -> Bool_(a >= b)

(* _apply_numeric_cast(). *)
ApplyCast(to, v) ==
    CASE v.t \notin {"int", "float"} -> Err("type_mismatch")
      [] to = "float" \/ v.t = "float" -> Float_
      [] to = "int" -> Int_(Signed(v.int))
      [] to = "uint" -> Int_(Bits(v.int))

IsUintCast(e) == e.k = "cast" /\ e.to = "uint"

-----------------------------------------------------------------------------
(* The collection builtins that call nothing back. *)
IsIndex(v) == v.t = "int"

(* range(n): charged for its length before it is built. *)
Range_(n, ops) ==
    CASE ~IsIndex(n) -> Ret(Err("type_mismatch"), ops)
      [] n.int < 0 \/ n.int > MaxLength -> Ret(Err("count_out_of_range"), ops)
      [] n.int > ops -> Ret(Err("budget_exhausted"), ops)
      [] OTHER -> Ret(List_([i \in 1..n.int |-> Int_(i - 1)]), ops - n.int)

(* concat: the elements of all the collections have the tag of the first that is no error. *)
Concat(cs) ==
    LET bad == SelectInSeq(cs.list, LAMBDA c : c.t # "list")
        all == FlattenSeq([i \in DOMAIN cs.list |-> cs.list[i].list])
        tags == {all[i].t : i \in DOMAIN all} \ {"err"}
    IN CASE cs.t # "list" -> Err("type_mismatch")
         [] cs.t = "list" /\ bad # 0 -> IF IsErr(cs.list[bad]) THEN cs.list[bad] ELSE Err("type_mismatch")
         [] OTHER -> IF Cardinality(tags) > 1 THEN Err("type_mismatch") ELSE List_(all)

Assoc(coll, index, value) ==
    CASE coll.t # "list" \/ ~IsIndex(index) -> Err("type_mismatch")
      [] index.int < 0 \/ index.int >= Len(coll.list) -> Err("index_out_of_range")
      [] OTHER -> List_([coll.list EXCEPT ![index.int + 1] = value])

IndexOf(coll, index) ==
    CASE coll.t # "list" \/ ~IsIndex(index) -> Err("type_mismatch")
      [] index.int < 0 \/ index.int >= Len(coll.list) -> Err("index_out_of_range")
      [] OTHER -> coll.list[index.int + 1]

(* The groups, in the order in which their keys first appear. *)
Grouped(keys, els) ==
    LET first(i) == \A j \in 1..(i - 1) : keys[j] # keys[i]
        heads == SelectSeq([i \in DOMAIN keys |-> i], first)
        members(k) == SelectSeq([i \in DOMAIN els |-> i], LAMBDA i : keys[i] = k)
        taken(is) == [i \in DOMAIN is |-> els[is[i]]]
    IN List_([g \in DOMAIN heads |-> Group(keys[heads[g]], taken(members(keys[heads[g]])))])

(* canonical_sorted() of argument names: by encoded length, then by bytes. *)
Canonical == <<"n", "fn", "index", "value", "initial", "collection", "collections">>

(* _CONTAINED_ARGS: an error is a value there, and no operand. *)
Contained(fn, name) == <<fn, name>> \in {<<"assoc", "value">>, <<"fold", "initial">>}

-----------------------------------------------------------------------------
RECURSIVE Loop(_, _, _, _)

Missing == [k |-> "missing"]

(* evaluate(): the depth bounds the calls, the operations every turn of the loop. *)
Evaluate(e, scope, depth, ops) ==
    IF depth <= 0 THEN Ret(Err("depth_exceeded"), ops) ELSE Loop(e, scope, depth - 1, ops)

(* resolve_or_error(), then evaluate(): an error found at the hash is never evaluated. *)
Operand(e, scope, depth, ops) ==
    CASE e = Missing -> Ret(Err("not_found"), ops)
      [] e.k = "err" -> Ret(Err(e.code), ops)
      [] OTHER -> Evaluate(e, scope, depth, ops)

(* resolve_or_error(), then a _TailCall: the loop goes round at the same depth. *)
TailCall(e, scope, depth, ops) ==
    CASE e = Missing -> Ret(Err("not_found"), ops)
      [] e.k = "err" -> Ret(Err(e.code), ops)
      [] OTHER -> Loop(e, scope, depth, ops)

(* An argument of a handler: a stored error in a contained one is evaluated, to itself. *)
Argument(e, contained, scope, depth, ops) ==
    IF e # Missing /\ contained THEN Evaluate(e, scope, depth, ops) ELSE Operand(e, scope, depth, ops)

(* Evaluates the items in order, binding each value to its key, until one on which it stops. *)
InOrder(items, key(_), eval(_, _, _), stop(_, _), start, ops) ==
    FoldLeft(LAMBDA r, n : IF r.stopped THEN r
                           ELSE LET x == eval(n, r.env, r.ops)
                                IN [v |-> x.v, ops |-> x.ops, stopped |-> stop(n, x.v),
                                    env |-> Bind(r.env, key(n), x.v), seen |-> Append(r.seen, x.v)],
             [v |-> Null_, ops |-> ops, stopped |-> FALSE, env |-> start, seen |-> <<>>], items)

Itself(x) == x
NoNames == [n \in {} |-> Null_]

(* _invoke_closure(). *)
Invoke(fn, args, depth, ops) ==
    CASE fn.t # "closure" -> Ret(Err("type_mismatch"), ops)
      [] fn.t = "closure" /\ Len(fn.params) # Len(args) -> Ret(Err("missing_argument"), ops)
      [] OTHER -> Operand(fn.body, FoldLeft(LAMBDA s, i : Bind(s, fn.params[i], args[i]),
                                            fn.env, [i \in DOMAIN args |-> i]), depth, ops)

(* map, filter, group-by: fn over every element, up to a result on which they stop. *)
StopsMutant(builtin, v) == builtin # "map" /\ IsErr(v)
Stops(builtin, v) == IF builtin = "map" THEN IsLimit(v) ELSE IsErr(v)

Over(builtin, fn, els, depth, ops) ==
    InOrder([i \in DOMAIN els |-> i], Itself, LAMBDA i, env, o : Invoke(fn, <<els[i]>>, depth, o),
            LAMBDA i, v : Stops(builtin, v), NoNames, ops)

(* _eval_builtin(), with the arguments evaluated. *)
Builtin(fn, a, depth, ops) ==
    LET els == a["collection"].list
        r == Over(fn, a["fn"], els, depth, ops)
        folded == FoldLeft(LAMBDA x, el : IF IsLimit(x.v) THEN x
                                          ELSE Invoke(a["fn"], <<x.v, el>>, depth, x.ops),
                           Ret(a["initial"], ops), els)
    IN CASE fn = "range" -> Range_(a["n"], ops)
         [] fn = "concat" -> Ret(Concat(a["collections"]), ops)
         [] fn = "assoc" -> Ret(Assoc(a["collection"], a["index"], a["value"]), ops)
         [] fn \in {"map", "filter", "fold", "group-by"} /\ a["collection"].t # "list" ->
                Ret(Err("type_mismatch"), ops)
         [] fn = "fold" -> folded
         [] fn \in {"map", "filter", "group-by"} /\ r.stopped -> Ret(r.v, r.ops)
         [] fn = "map" -> Ret(List_(r.seen), r.ops)
         [] fn = "filter" ->
                Ret(List_(LET kept == SelectSeq([i \in DOMAIN els |-> i], LAMBDA i : Truthy(r.seen[i]))
                          IN [i \in DOMAIN kept |-> els[kept[i]]]), r.ops)
         [] fn = "group-by" -> Ret(Grouped(r.seen, els), r.ops)

(* _eval_apply_handler() on a builtin. *)
Apply(e, scope, depth, ops) ==
    LET r == InOrder(SelectSeq(Canonical, LAMBDA n : n \in DOMAIN e.args), Itself,
                     LAMBDA n, env, o : Argument(e.args[n], Contained(e.builtin, n), scope, depth, o),
                     LAMBDA n, v : IsErr(v) /\ ~Contained(e.builtin, n), NoNames, ops)
    IN IF r.stopped THEN Ret(r.v, r.ops) ELSE Builtin(e.builtin, r.env, depth, r.ops)

(* _eval_apply_closure(): the arguments in the order of the parameters, the body in the loop. *)
Call(e, scope, depth, ops) ==
    LET f == Operand(e.fn, scope, depth, ops)
        r == InOrder(f.v.params, Itself,
                     LAMBDA p, env, o : IF p \in DOMAIN e.args THEN Operand(e.args[p], scope, depth, o)
                                        ELSE Ret(Err("missing_argument"), o),
                     LAMBDA p, v : IsErr(v), f.v.env, f.ops)
    IN CASE IsErr(f.v) -> f
         [] f.v.t \notin {"err", "closure"} -> Ret(Err("type_mismatch"), f.ops)
         [] f.v.t = "closure" -> IF r.stopped THEN Ret(r.v, r.ops) ELSE TailCall(f.v.body, r.env, depth, r.ops)

(* _eval_let(): each value sees the names bound before it. *)
Let(e, scope, depth, ops) ==
    LET r == InOrder(e.bindings, LAMBDA b : b.name, LAMBDA b, env, o : Operand(b.value, env, depth, o),
                     LAMBDA b, v : IsErr(v), scope, ops)
    IN IF r.stopped THEN Ret(r.v, r.ops) ELSE TailCall(e.body, r.env, depth, r.ops)

(* _eval_construct(): fields in canonical order, none of them contained. *)
Construct(e, scope, depth, ops) ==
    LET r == InOrder(e.fields, LAMBDA f : f.name, LAMBDA f, env, o : Operand(f.value, scope, depth, o),
                     LAMBDA f, v : IsErr(v), NoNames, ops)
    IN IF r.stopped THEN Ret(r.v, r.ops) ELSE Ret(Record_(r.env), r.ops)

If(e, scope, depth, ops) ==
    LET c == Operand(e.cond, scope, depth, ops)
    IN CASE IsErr(c.v) -> c
         [] ~IsErr(c.v) /\ Truthy(c.v) -> TailCall(e.then, scope, depth, c.ops)
         [] ~IsErr(c.v) /\ ~Truthy(c.v) -> TailCall(e.else, scope, depth, c.ops)

(* What two operands make: _eval_arithmetic(), _eval_compare(),            *)
(* _eval_logic(), _eval_index().                                           *)
Combined(e, l, r) ==
    CASE e.k = "arithmetic" -> ApplyArithmetic(e.op, l, r, IsUintCast(e.left), IsUintCast(e.right))
      [] e.k = "compare" -> ApplyCompare(e.op, l, r, IsUintCast(e.left), IsUintCast(e.right))
      [] e.k = "logic" -> Bool_(IF e.op = "and" THEN Truthy(l) /\ Truthy(r) ELSE Truthy(l) \/ Truthy(r))
      [] e.k = "index" -> IndexOf(l, r)

(* Both operands are evaluated: _resolve_binary_operands(), _eval_logic(). *)
Binary(e, scope, depth, ops) ==
    LET l == Operand(e.left, scope, depth, ops)
        r == Operand(e.right, scope, depth, l.ops)
    IN CASE IsErr(l.v) -> l
         [] ~IsErr(l.v) /\ IsErr(r.v) -> r
         [] OTHER -> Ret(Combined(e, l.v, r.v), r.ops)

(* _eval_index(): the index is not evaluated for what is no array. *)
Index(e, scope, depth, ops) ==
    LET l == Operand(e.left, scope, depth, ops)
    IN CASE IsErr(l.v) -> l
         [] ~IsErr(l.v) /\ l.v.t # "list" -> Ret(Err("type_mismatch"), l.ops)
         [] OTHER -> Binary(e, scope, depth, ops)

Field(name, v) ==
    CASE v.t = "record" -> IF name \in DOMAIN v.record THEN v.record[name] ELSE Err("not_found")
      [] v.t = "group" -> IF name = "key" THEN v.key ELSE List_(v.members)
      [] OTHER -> Err("type_mismatch")

Length(v) == IF v.t = "list" THEN Int_(Len(v.list)) ELSE Err("type_mismatch")

(* What one operand makes. *)
Derived(e, v) ==
    CASE e.k = "not" -> Bool_(~Truthy(v))
      [] e.k = "cast" -> ApplyCast(e.to, v)
      [] e.k = "length" -> Length(v)
      [] e.k = "field" -> Field(e.name, v)

Unary(e, scope, depth, ops) ==
    LET x == Operand(e.of, scope, depth, ops)
    IN IF IsErr(x.v) THEN x ELSE Ret(Derived(e, x.v), x.ops)

(* _evaluate_inner(). *)
Inner(e, scope, depth, ops) ==
    CASE e.k = "literal" -> Ret(e.value, ops)
      [] e.k = "err" -> Ret(Err(e.code), ops)
      [] e.k = "scope" -> Ret(IF e.name \in DOMAIN scope THEN scope[e.name] ELSE Err("not_found"), ops)
      [] e.k = "if" -> If(e, scope, depth, ops)
      [] e.k = "let" -> Let(e, scope, depth, ops)
      [] e.k = "lambda" -> Ret(Closure(e.params, e.body, scope), ops)
      [] e.k = "apply" -> Apply(e, scope, depth, ops)
      [] e.k = "call" -> Call(e, scope, depth, ops)
      [] e.k = "construct" -> Construct(e, scope, depth, ops)
      [] e.k = "index" -> Index(e, scope, depth, ops)
      [] e.k \in {"arithmetic", "compare", "logic"} -> Binary(e, scope, depth, ops)
      [] e.k \in {"not", "cast", "length", "field"} -> Unary(e, scope, depth, ops)

Loop(e, scope, depth, ops) ==
    IF ops - 1 <= 0 THEN Ret(Err("budget_exhausted"), ops - 1) ELSE Inner(e, scope, depth, ops - 1)
-----------------------------------------------------------------------------
(* One program evaluated with ever larger budgets, as a caller that raises its limit retries it. *)
VARIABLES program, depth, ops, result

vars == <<program, depth, ops, result>>

Init ==
    /\ program \in Programs /\ depth \in Depths
    /\ ops = 0 /\ result = Err("budget_exhausted")

Retry ==
    /\ ops < MaxOps
    /\ ops' = ops + 1
    /\ result' = Evaluate(program, NoNames, depth, ops + 1).v
    /\ UNCHANGED <<program, depth>>

Next == Retry
Spec == Init /\ [][Next]_vars

(***************************************************************************)
(* Once a budget suffices, a larger one gives the same value: exhaustion   *)
(* ends a closure primitive, also where another error would be an element  *)
(* or the accumulator (the carve-out for limit codes in map and fold of    *)
(* _eval_builtin()), so it is no part of what an evaluation returns.       *)
(*                                                                         *)
(* The value of assoc is contained and has no such carve-out               *)
(* (_CONTAINED_ARGS, _eval_builtin_assoc()): an exhausted range there is   *)
(* placed like any other error, and what it would have cost is left for    *)
(* the collection.  Such a result promises nothing for a larger budget.    *)
(***************************************************************************)
ExhaustionPlaced ==
    LET i == Operand(program.args["index"], NoNames, depth - 1, ops - 1)
        v == Argument(program.args["value"], TRUE, NoNames, depth - 1, i.ops)
    IN  program.k = "apply" /\ program.builtin = "assoc" /\ IsLimit(v.v)

LimitOrSame == IsLimit(result) \/ ExhaustionPlaced \/ result' = result
=============================================================================
