-------------------------------- MODULE Outcome --------------------------------
(* What the evaluation of an expression comes to: a value, something thrown,  *)
(* a return from the function, or an end that no program the compiler accepts *)
(* reaches (stuck), and the effects up to there: what was printed, the cells  *)
(* of mutable variables, and the calls that are left.                         *)
EXTENDS Values

CONSTANTS
    MaxCalls    \* bound: calls of functions in one run

NoEffects == [printed |-> <<>>, cells |-> <<>>, calls |-> MaxCalls, vars |-> <<>>,
              this |-> Nil, pubs |-> <<>>]

Outcome(how, v, s) == [how |-> how, v |-> v, s |-> s]
Value(v, s) == Outcome("val", v, s)
Throw(v, s) == Outcome("throw", v, s)
Stuck(s) == Outcome("stuck", Nil, s)
Diverge(s) == Outcome("diverge", Nil, s)
IsValue(r) == r.how = "val"
Returned(r) == IF r.how = "return" THEN [r EXCEPT !.how = "val"] ELSE r

\* The procedures that programs call: the three behind mutable variables, and
\* two whose calls can be observed.
Prim(name) == [kind |-> "prim", prim |-> name]
CallPrim(name, args, s) ==
    CASE name = "show" -> Value(args[1], [s EXCEPT !.printed = Append(@, args[1])])
      [] name = "throw" -> Throw(Exn(args[1]), s)
      [] name = "create_ref" ->
            Value([kind |-> "ref", cell |-> Len(s.cells) + 1],
                  [s EXCEPT !.cells = Append(@, args[1])])
      [] name = "dereference" -> Value(s.cells[args[1].cell], s)
      [] name = "assign" -> Value(Nil, [s EXCEPT !.cells[args[1].cell] = args[2]])

Operate(op, x, y, s) ==
    IF BadOperands(op, x, y) THEN Throw(TypeError, s) ELSE Value(Compute(op, x, y), s)
Negate(op, x, s) ==
    IF op = "not" THEN Value(Boolean(x = False), s)
    ELSE IF x.kind = "num" THEN Value(Num(-x.n - 1), s) ELSE Throw(TypeError, s)
Updated(v, names, vals, s) ==
    IF \E f \in ToSet(names) : ~HasField(v, f) THEN Throw(UpdateError, s)
    ELSE Value([v EXCEPT !.vals =
                    [i \in DOMAIN @ |->
                        IF v.type.fields[i] \in ToSet(names)
                        THEN vals[SelectInSeq(names, LAMBDA f : f = v.type.fields[i])]
                        ELSE @[i]]], s)

\* What a program can tell of a value: functions by their number of arguments.
RECURSIVE Seen(_)
Seen(v) ==
    CASE v.kind = "fn" -> [kind |-> "fn", arity |-> v.arity]
      [] v.kind = "tup" -> [v EXCEPT !.vals = [i \in DOMAIN @ |-> Seen(@[i])]]
      [] OTHER -> v
===============================================================================
