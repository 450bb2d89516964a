------------------------------- MODULE AstMeaning -------------------------------
(* What a program means, by the names it is written with: the reference that  *)
(* its translation is compared with.  A scope maps names to values and their  *)
(* attributes; inner names hide outer ones.  pubs collects what a module      *)
(* makes public, in order.                                                    *)
EXTENDS Ast, Outcome, TLC

CONSTANTS
    Builtins    \* the entries of the builtin module: name, value, attributes

Entry(v, attr) == [val |-> v, attr |-> attr]
Global ==
    [x \in {Builtins[i].ident : i \in DOMAIN Builtins} |->
        LET i == CHOOSE j \in DOMAIN Builtins :
                    Builtins[j].ident = x /\ \A k \in DOMAIN Builtins :
                        Builtins[k].ident = x => k <= j
        IN  Entry(Builtins[i].val, Builtins[i].attr)]

Named(env, x, v, attr, s) ==
    [ok |-> TRUE, env |-> (x :> Entry(v, attr)) @@ env,
     s |-> IF "PUB" \in attr THEN [s EXCEPT !.pubs = Append(@, <<x, v>>)] ELSE s]
Alias(env, p, v) == IF p.alias = "" THEN env ELSE (p.alias :> Entry(v, {})) @@ env

Matched(ok, env, s) == [ok |-> ok, env |-> env, s |-> s]

RECURSIVE Matches(_, _, _, _), MatchFields(_, _, _, _), StarNames(_, _, _, _)
\* The fields from i on, until one does not match.
MatchFields(m, p, v, i) ==
    IF ~m.ok \/ i > Len(p.fields) THEN m
    ELSE MatchFields(Matches(p.subpats[i], FieldOf(v, p.fields[i]), m.env, m.s), p, v, i + 1)
\* The names of the first n fields, the last one first.
StarNames(m, p, v, n) ==
    IF n = 0 THEN Matched(TRUE, Alias(m.env, p, v), m.s)
    ELSE StarNames(Named(m.env, v.type.fields[n], v.vals[n], p.attr, m.s), p, v, n - 1)
Matches(p, v, env, s) ==
    CASE p.pat = "DUMMY" -> Matched(TRUE, env, s)
      [] p.pat = "IDENT" -> Named(env, p.str, v, p.attr, s)
      [] p.pat = "CONSTANT" -> Matched(v = p.val, env, s)
      [] p.pat = "UNPACK" ->
            IF IsPlain(v) /\ v.type = p.type
            THEN MatchFields(Matched(TRUE, Alias(env, p, v), s), p, v, 1)
            ELSE Matched(FALSE, env, s)
      [] p.pat = "RECORD" ->
            IF \A i \in DOMAIN p.fields : HasField(v, p.fields[i])
            THEN MatchFields(Matched(TRUE, Alias(env, p, v), s), p, v, 1)
            ELSE Matched(FALSE, env, s)
      [] p.pat = "STAR" ->
            IF IsRecord(v) THEN StarNames(Matched(TRUE, env, s), p, v, Len(v.vals))
            ELSE Matched(FALSE, env, s)

\* Closures remember their scope and the functions declared together with them.
Func(fns, names, env, i) ==
    [kind |-> "fn", arity |-> Len(fns[i].args), fns |-> fns, names |-> names, env |-> env, i |-> i]
Group(fns, names, env) ==
    [x \in ToSet(names) |->
        Entry(Func(fns, names, env, SelectInSeq(names, LAMBDA y : y = x)), {})] @@ env

RECURSIVE Mean(_, _, _), MeanAll(_, _, _), MeanLet(_, _, _, _, _), Apply(_, _, _),
          BindArgs(_, _, _, _)

\* r stops the evaluation, or its value goes on.
Then(r, Go(_)) == IF IsValue(r) THEN Go(r) ELSE r
OrTypeError(m, r, Go(_)) == IF m.ok THEN Go(m) ELSE Throw(TypeError, r.s)

\* The values of es in order, after those in done.
MeanAll(es, env, done) ==
    IF es = <<>> THEN done
    ELSE Then(Mean(Head(es), env, done.s),
              LAMBDA r : MeanAll(Tail(es), env, Value(Append(done.v, r.v), r.s)))

\* The bindings of one LET see the scope around it, not each other.
MeanLet(e, i, env, inner, s) ==
    IF i > Len(e.vals) THEN Mean(e.body, inner, s)
    ELSE Then(Mean(e.vals[i], env, s),
              LAMBDA r : OrTypeError(Matches(e.pats[i], r.v, inner, r.s), r,
                                     LAMBDA m : MeanLet(e, i + 1, env, m.env, m.s)))

BindArgs(m, fn, args, i) ==
    IF ~m.ok \/ i > Len(args) THEN m
    ELSE BindArgs(Matches(fn.args[i], args[i], m.env, m.s), fn, args, i + 1)
Enter(f, args, s) ==
    BindArgs(Matched(TRUE, Group(f.fns, f.names, f.env), [s EXCEPT !.this = f, !.calls = @ - 1]),
             f.fns[f.i], args, 1)
MeanBody(fn, m) == IF m.ok THEN Mean(fn.body, m.env, m.s) ELSE Throw(TypeError, m.s)
Apply(f, args, s) ==
    CASE f.kind = "prim" -> CallPrim(f.prim, args, s)
      [] f.kind = "fn" ->
            IF s.calls = 0 THEN Diverge(s)
            ELSE IF f.arity # Len(args) THEN Stuck(s)
            ELSE [Returned(MeanBody(f.fns[f.i], Enter(f, args, s))) EXCEPT !.s.this = s.this]
      [] OTHER -> Throw(TypeError, s)

\* try ... except: what was thrown is matched, but a handler that takes
\* anything lets the exit object through.
Handle(e, r, m) ==
    IF m.ok /\ ~(e.checkexit /\ r.v.vals[1] = ExitObject)
    THEN Mean(e.catchbr, m.env, m.s) ELSE r
MeanTry(e, env, r) ==
    IF r.how = "throw" THEN Handle(e, r, Matches(e.pat, r.v, env, r.s)) ELSE r

Branch(m, e, env, r) == IF m.ok THEN Mean(e.then, m.env, m.s) ELSE Mean(e.els, env, r.s)
MeanLetrec(e, names, inner, s) ==
    Mean(e.body, inner,
         [s EXCEPT !.pubs = @ \o
             LET pub == SelectSeq([i \in DOMAIN names |-> i], LAMBDA i : "PUB" \in e.pats[i].attr)
             IN  [j \in DOMAIN pub |-> <<names[pub[j]], inner[names[pub[j]]].val>>]])
NamesOf(pats) == [i \in DOMAIN pats |-> pats[i].str]
ByOffset(e) ==
    Permute(e.vals, [i \in DOMAIN e.type.fields |->
                        SelectInSeq(e.fields, LAMBDA f : f = e.type.fields[i])])
MeanUpdate(e, order, env, s) ==
    Then(MeanAll(<<e.src>> \o Permute(e.vals, order), env, Value(<<>>, s)),
         LAMBDA r : Updated(Head(r.v), Permute(e.fields, order), Tail(r.v), r.s))
MeanMacro(r, s) == IF IsValue(r) THEN Value(r.v, s) ELSE Stuck(s)

Mutable(env, x) == x \in DOMAIN env /\ "MUT" \in env[x].attr
Redefined(env, e) ==
    LET x == CASE e.op = "AND" -> "&&" [] e.op = "OR" -> "||"
               [] e.op = "BINOP" -> e.bop [] e.op = "UNOP" -> e.uop
    IN  IF x \in DOMAIN env /\ "BUILTIN" \notin env[x].attr THEN x ELSE ""

Mean(e, env, s) ==
    CASE e.op = "CVAL" -> Value(e.val, s)
      [] e.op = "IDENT" ->
            IF e.str \notin DOMAIN env THEN Stuck(s)
            ELSE IF Mutable(env, e.str) THEN Value(s.cells[env[e.str].val.cell], s)
            ELSE Value(env[e.str].val, s)
      [] e.op = "APPLY" ->
            Then(MeanAll(<<e.fn>> \o e.args, env, Value(<<>>, s)), LAMBDA r : Apply(Head(r.v), Tail(r.v), r.s))
      [] e.op = "IF" ->
            Then(Mean(e.cond, env, s),
                 LAMBDA r : Mean(IF Truth(r.v) THEN e.then ELSE e.els, env, r.s))
      [] e.op = "SEQ" -> Then(Mean(e.e1, env, s), LAMBDA r : Mean(e.e2, env, r.s))
      [] e.op = "LET" -> MeanLet(e, 1, env, env, s)
      [] e.op = "LETREC" ->
            MeanLetrec(e, NamesOf(e.pats), Group(e.vals, NamesOf(e.pats), env), s)
      [] e.op \in {"BINOP", "UNOP", "AND", "OR"} /\ Redefined(env, e) # "" ->
            Mean(ApplyAst(IdentAst(Redefined(env, e)),
                          IF e.op = "UNOP" THEN <<e.expr>> ELSE <<e.lhs, e.rhs>>), env, s)
      [] e.op = "BINOP" ->
            Then(MeanAll(<<e.lhs, e.rhs>>, env, Value(<<>>, s)),
                 LAMBDA r : Operate(e.bop, r.v[1], r.v[2], r.s))
      [] e.op = "UNOP" -> Then(Mean(e.expr, env, s), LAMBDA r : Negate(e.uop, r.v, r.s))
      [] e.op = "AND" ->
            Then(Mean(e.lhs, env, s), LAMBDA r : IF Truth(r.v) THEN Mean(e.rhs, env, r.s) ELSE r)
      [] e.op = "OR" ->
            Then(Mean(e.lhs, env, s), LAMBDA r : IF Truth(r.v) THEN r ELSE Mean(e.rhs, env, r.s))
      [] e.op = "FN" -> Value(Func(<<e>>, <<>>, env, 1), s)
      [] e.op = "MATCH" ->
            Then(Mean(e.expr, env, s),
                 LAMBDA r : Branch(Matches(e.pat, r.v, env, r.s), e, env, r))
      [] e.op = "ACCESS" ->
            Then(Mean(e.expr, env, s),
                 LAMBDA r : IF HasField(r.v, e.field) THEN Value(FieldOf(r.v, e.field), r.s)
                            ELSE Throw(TypeError, r.s))
      [] e.op = "TRY" -> MeanTry(e, env, Mean(e.trybr, env, s))
      [] e.op = "MKRCRD" ->
            Then(MeanAll(ByOffset(e), env, Value(<<>>, s)),
                 LAMBDA r : Value(Tup(e.type, r.v), r.s))
      [] e.op = "UPDATE" -> MeanUpdate(e, BySymbol(e.fields), env, s)
      [] e.op = "ASSERT" ->
            Then(Mean(e.expr, env, s),
                 LAMBDA r : IF Truth(r.v) THEN Value(Nil, r.s) ELSE Throw(AssertionFailed, r.s))
      [] e.op = "DEFINED" -> Value(Boolean(e.ident \in DOMAIN env), s)
      [] e.op = "EVMAC" -> MeanMacro(Returned(Mean(e.expr, Global, NoEffects)), s)
      [] e.op = "ASSIGN" ->
            IF ~Mutable(env, e.ident) THEN Stuck(s)
            ELSE Then(Mean(e.val, env, s),
                      LAMBDA r : CallPrim("assign", <<env[e.ident].val, r.v>>, r.s))
      [] e.op = "RETURN" -> Then(Mean(e.expr, env, s), LAMBDA r : [r EXCEPT !.how = "return"])
      [] e.op = "THIS" -> Value(s.this, s)
===============================================================================
