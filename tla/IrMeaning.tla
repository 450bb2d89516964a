------------------------------- MODULE IrMeaning -------------------------------
(* What a tree of the intermediate representation computes, as the SSA        *)
(* builder orders its parts (build and build_pattern in src/ssa-builder.c).   *)
(* A function has one set of variables; a pattern gives values to those it    *)
(* names, the variable of an UNPACK or RECORD pattern included.               *)
EXTENDS IrNode, Outcome, TLC

Set(vid, v, s) == [s EXCEPT !.vars = (vid :> v) @@ @]
Known(vid, s) == vid \in DOMAIN s.vars

\* Does v match, and the variables afterwards.
RECURSIVE Bind(_, _, _), BindAll(_, _, _)
BindAll(subpats, vals, s) ==
    IF subpats = <<>> THEN [ok |-> TRUE, s |-> s]
    ELSE LET first == Bind(Head(subpats), Head(vals), s)
         IN  IF first.ok THEN BindAll(Tail(subpats), Tail(vals), first.s) ELSE first
Bind(p, v, s) ==
    CASE p.pat = "DUMMY" -> [ok |-> TRUE, s |-> s]
      [] p.pat = "IDENT" -> [ok |-> TRUE, s |-> Set(p.varid, v, s)]
      [] p.pat = "CONSTANT" -> [ok |-> v = p.val, s |-> s]
      [] p.pat = "UNPACK" ->
            IF IsPlain(v) /\ v.type = p.type
            THEN BindAll(p.subpats, [i \in DOMAIN p.offs |-> v.vals[p.offs[i]]],
                         Set(p.varid, v, s))
            ELSE [ok |-> FALSE, s |-> Set(p.varid, v, s)]
      [] p.pat = "RECORD" ->
            IF \A i \in DOMAIN p.ids : HasField(v, p.ids[i])
            THEN BindAll(p.subpats, [i \in DOMAIN p.ids |-> FieldOf(v, p.ids[i])],
                         Set(p.varid, v, s))
            ELSE [ok |-> FALSE, s |-> Set(p.varid, v, s)]

\* A closure is one of a group of functions made together; each has the values
\* it captured and sees the whole group.
Made(fn, s) == [fn |-> fn, caps |-> [i \in DOMAIN fn.caps |-> s.vars[fn.caps[i]]]]
Closure(group, i) ==
    [kind |-> "fn", arity |-> group[i].fn.arity, group |-> group, i |-> i]
CanMake(fn, s) == \A i \in DOMAIN fn.caps : Known(fn.caps[i], s)

Frame(f, args) ==
    LET made == f.group[f.i]
        fn == made.fn
    IN  [x \in 0..(fn.arity - 1) |-> args[x + 1]]
            @@ [x \in ToSet(fn.capvars) |-> made.caps[SelectInSeq(fn.capvars, LAMBDA y : y = x)]]
            @@ [x \in ToSet(fn.scpvars) |->
                    Closure(f.group, SelectInSeq(fn.scpvars, LAMBDA y : y = x))]

RECURSIVE Eval(_, _), EvalAll(_, _), Call(_, _, _)

\* The values of es in order, or what stopped them.
EvalAll(es, s) ==
    IF es = <<>> THEN Value(<<>>, s)
    ELSE LET first == Eval(Head(es), s)
         IN  IF ~IsValue(first) THEN first
             ELSE LET rest == EvalAll(Tail(es), first.s)
                  IN  IF IsValue(rest) THEN [rest EXCEPT !.v = <<first.v>> \o @] ELSE rest

Leave(r, s) ==
    [Returned(r) EXCEPT !.s.vars = s.vars, !.s.this = s.this]
Call(f, args, s) ==
    CASE f.kind = "prim" -> CallPrim(f.prim, args, s)
      [] f.kind = "fn" ->
            IF s.calls = 0 THEN Diverge(s)
            ELSE IF f.arity # Len(args) THEN Stuck(s)
            ELSE Leave(Eval(f.group[f.i].fn.body,
                            [s EXCEPT !.vars = Frame(f, args), !.this = f, !.calls = @ - 1]), s)
      [] OTHER -> Throw(TypeError, s)

\* r stops the evaluation, or its value goes on.
Then(r, Go(_)) == IF IsValue(r) THEN Go(r) ELSE r

EvalMatch(e, r) ==
    LET b == Bind(e.pat, r.v, r.s)
    IN  IF b.ok THEN Eval(e.then, b.s) ELSE Eval(e.els, b.s)
EvalTry(e, r) ==
    IF r.how = "throw" THEN Eval(e.catchbr, Set(e.exnvar, r.v, r.s)) ELSE r
EvalLetrec(e, s) ==
    IF \E i \in DOMAIN e.fns : ~CanMake(e.fns[i], s) THEN Stuck(s)
    ELSE LET group == [i \in DOMAIN e.fns |-> Made(e.fns[i], s)]
             members == [x \in ToSet(e.varids) |->
                            Closure(group, SelectInSeq(e.varids, LAMBDA y : y = x))]
         IN  Eval(e.body, [s EXCEPT !.vars = members @@ @])
EvalRecord(e, s) == Then(EvalAll(e.vals, s), LAMBDA r : Value(Tup(e.type, r.v), r.s))
EvalUpdate(e, s) ==
    Then(EvalAll(<<e.src>> \o e.vals, s), LAMBDA r : Updated(Head(r.v), e.ids, Tail(r.v), r.s))

Eval(e, s) ==
    CASE e.op = "CVAL" -> Value(e.val, s)
      [] e.op = "VAR" -> IF Known(e.vid, s) THEN Value(s.vars[e.vid], s) ELSE Stuck(s)
      [] e.op = "APPLY" ->
            Then(EvalAll(<<e.fn>> \o e.args, s), LAMBDA r : Call(Head(r.v), Tail(r.v), r.s))
      [] e.op = "IF" ->
            Then(Eval(e.cond, s), LAMBDA r : Eval(IF Truth(r.v) THEN e.then ELSE e.els, r.s))
      [] e.op = "SEQ" -> Then(Eval(e.e1, s), LAMBDA r : Eval(e.e2, r.s))
      [] e.op = "BINOP" ->
            Then(EvalAll(<<e.lhs, e.rhs>>, s), LAMBDA r : Operate(e.bop, r.v[1], r.v[2], r.s))
      [] e.op = "UNOP" -> Then(Eval(e.expr, s), LAMBDA r : Negate(e.uop, r.v, r.s))
      [] e.op = "FN" ->
            IF CanMake(e, s) THEN Value(Closure(<<Made(e, s)>>, 1), s) ELSE Stuck(s)
      [] e.op = "LETREC" -> EvalLetrec(e, s)
      [] e.op = "MATCH" -> Then(Eval(e.expr, s), LAMBDA r : EvalMatch(e, r))
      [] e.op = "TRY" -> EvalTry(e, Eval(e.trybr, s))
      [] e.op = "MKRCRD" -> EvalRecord(e, s)
      [] e.op = "UPDATE" -> EvalUpdate(e, s)
      [] e.op = "THROW" -> Then(Eval(e.exn, s), LAMBDA r : Throw(r.v, r.s))
      [] e.op = "RETURN" -> Then(Eval(e.expr, s), LAMBDA r : [r EXCEPT !.how = "return"])
      [] e.op = "THIS" -> Value(s.this, s)
      [] e.op = "ERROR" -> Stuck(s)
===============================================================================
