----------------------------- MODULE SsaBuilder -----------------------------
(* Translation of the tree IR into SSA instructions (build in                 *)
(* src/ssa-builder.c).  The state of the builder is a tape with               *)
(*   rules   for each SSA value, how its references are managed               *)
(*   loc     for each SSA value, the instruction that creates it (creatloc)   *)
(*   movs    the instructions that move references into what they make        *)
(*   var     the SSA value of each variable of the IR                         *)
(*   try     the innermost TRY around the code being built, 0 if none         *)
(*   ntries  the number of TRYs so far                                        *)
(*   this    the value that is the function itself (isthis)                   *)
(*   last    the last instruction that loads arguments and captures           *)
(*   res     the results of what was built, last one last.                    *)
(* Types and constants known at compile time only leave out tests; they and   *)
(* arithmetic are not modelled.                                               *)
EXTENDS SsaTape, TLC

NewVal(b, rule) ==
    [b EXCEPT !.rules = Append(@, rule), !.loc = Append(@, 0)]

LastVal(b) == Len(b.rules)

\* The instruction just written creates the value just made.
Created(b) ==
    [b EXCEPT !.loc[LastVal(b)] = Len(b.ins), !.ins[Len(b.ins)].out = LastVal(b)]
Define(b, k, insn, rule) == Created(NewVal(Write(b, k, insn), rule))

\* trace_mov of the instruction just written.
TraceMov(b) == [b EXCEPT !.movs = Append(@, Len(b.ins))]

\* The result v takes the place of the last n.
Yield(b, n, v) == [b EXCEPT !.res = Append(SubSeq(@, 1, Len(@) - n), v)]
Result(b) == Last(b.res)
Results(b, n) == SubSeq(b.res, Len(b.res) - n + 1, Len(b.res))

\* write_throw: a tracer (the constant function 0) adds the location, then
\* control goes to the handler or out of the function.
Leave(b, k, exn) ==
    IF b.try = 0 THEN Write(b, k, Insn("RET", 0, <<exn>>))
    ELSE TraceMov(Write(b, k, [Insn("CATCH", 0, <<exn>>) EXCEPT !.try = b.try]))
Thrown(b, k) == Leave(b, k, LastVal(b))
WriteThrow(b, k, exn) == Thrown(Define(b, k, Insn("APPLY", 0, <<exn>>), "DEFAULT"), k)

\* Constants are never deleted.
Constant(b, k) == Define(b, k, Insn("CVAL", 0, <<>>), "DISABLE")

-----------------------------------------------------------------------------
(* APPLY *)

WithNop(b) == Write(NewBlock(b), Len(b.blk) + 1, Nop)

\* An exception that a call returns is thrown on.
TestException(b, k, v) ==
    Write(WithNop(WriteThrow(NewBlock(b), Len(b.blk) + 1, v)), k,
          [If("TYPE", v, Len(b.blk) + 1, Len(b.blk) + 2) EXCEPT !.likely = -1])

Applied(b, k, fn, args, tag) ==
    TestException(Define(b, k, Insn(tag, fn, args), "DEFAULT"), k, LastVal(b) + 1)

\* b has the results of the function and of its n arguments.  A function that
\* calls itself last goes back to its own entry.
Apply(b, k, n, istc) ==
    LET fn == b.res[Len(b.res) - n]
        tail == istc /\ b.rules[fn] = "DISABLE"
    IN  IF tail /\ fn = b.this THEN Yield(Write(b, k, Insn("LOOP", 0, Results(b, n))), n + 1, 0)
        ELSE Yield(Applied(b, k, fn, Results(b, n), IF tail THEN "APPLYTC" ELSE "APPLY"),
              n + 1, LastVal(b) + 1)

-----------------------------------------------------------------------------
(* Branches *)

\* resolve_phi: r1 and r2 of blocks k1 and k2 become one value.
MovTo(b, k, phi, r) == Write(b, k, [Insn("MOV", 0, <<r>>) EXCEPT !.out = phi])
MovsTo(b, k1, r1, k2, r2, phi, rule) ==
    IF rule = "DISABLE" THEN MovTo(MovTo(b, k1, phi, r1), k2, phi, r2)
    ELSE TraceMov(MovTo(TraceMov(MovTo(b, k1, phi, r1)), k2, phi, r2))
PhiRule(b, r1, r2) ==
    IF b.rules[r1] = "DISABLE" /\ b.rules[r2] = "DISABLE" THEN "DISABLE" ELSE "PHI"
ResolvePhi(b, k1, r1, k2, r2) ==
    MovsTo(NewVal(b, PhiRule(b, r1, r2)), k1, r1, k2, r2, LastVal(b) + 1, PhiRule(b, r1, r2))

\* The instruction insn joins its branches, whose results are the last two.  In
\* tail position each branch returns by itself.
Return(b, k, v) == Write(b, k, Insn("RET", 0, <<v>>))
Owner(b, k, insn) ==
    [Write(b, k, [insn EXCEPT !.out = LastVal(b)]) EXCEPT !.loc[LastVal(b)] = Len(b.ins) + 1]
Join(b, k, insn, istc) ==
    LET r1 == Results(b, 2)[1]
        r2 == Results(b, 2)[2]
    IN  IF istc
        THEN Yield(Write(Return(Return(b, insn.then, r1), insn.els, r2), k, insn), 2, 0)
        ELSE Yield(Owner(ResolvePhi(b, insn.then, r1, insn.els, r2), k, insn), 2, LastVal(b) + 1)

-----------------------------------------------------------------------------
(* Expressions are records; op says which.  Build adds the code of e to      *)
(* block k and leaves its result.  istc: e is in tail position.              *)

RECURSIVE Build(_, _, _, _), BuildAll(_, _, _)

BuildAll(b, k, es) ==
    IF es = <<>> THEN b ELSE BuildAll(Build(b, k, Head(es), FALSE), k, Tail(es))

\* IF: b has the condition.
BuildElse(b, k, e, istc, cond, then) ==
    Join(Build(NewBlock(b), Len(b.blk) + 1, e.els, istc), k,
         If("NOTFALSE", cond, then, Len(b.blk) + 1), istc)
BuildThen(b, k, e, istc) ==
    BuildElse(Build(NewBlock(b), Len(b.blk) + 1, e.then, istc),
              k, e, istc, Result(b), Len(b.blk) + 1)
DropCondition(b) ==
    [b EXCEPT !.res = Append(SubSeq(@, 1, Len(@) - 2), Last(@))]

\* build_pattern: a name stands for the value v that is matched; the fields of
\* an UNPACK become values of their own.
Matched(b, p) == [b |-> b, pat |-> p]
RECURSIVE BuildPattern(_, _, _), BuildFields(_, _, _)
BuildFields(b, subs, done) ==
    IF subs = <<>> THEN Matched(b, done)
    ELSE LET field == LastVal(b) + 1
             sub == BuildPattern(NewVal(b, "DEFAULT"), Head(subs), field)
         IN  BuildFields(sub.b, Tail(subs),
                         [done EXCEPT !.vids = Append(@, field), !.subs = Append(@, sub.pat)])
BuildPattern(b, p, v) ==
    CASE p.pat \in {"DUMMY", "CONSTANT"} -> Matched(b, p)
      [] p.pat = "IDENT" -> Matched([b EXCEPT !.var = (p.name :> v) @@ @], Dummy)
      [] p.pat = "UNPACK" ->
            BuildFields(b, p.subs, [pat |-> "UNPACK", vids |-> <<>>, subs |-> <<>>])

\* MATCH: b has the value that is matched.  The fields exist from the head of
\* the branch on, where nothing may be inserted before the first instruction.
ThenHead(b, k, n) ==
    [Write(b, k, Ctor) EXCEPT
        !.loc = [v \in DOMAIN @ |-> IF v > n THEN Len(b.ins) + 1 ELSE @[v]]]
MatchElse(b, k, e, istc, insn) ==
    Join(Build(NewBlock(b), Len(b.blk) + 1, e.els, istc), k,
         [insn EXCEPT !.els = Len(b.blk) + 1], istc)
MatchThen(b, k, e, istc) ==
    LET p == BuildPattern(b, e.pat, Result(b))
        then == Len(b.blk) + 1
    IN  MatchElse(Build(ThenHead(NewBlock(p.b), then, LastVal(b)), then, e.then, istc), k, e, istc,
                  [If("MATCH", Result(b), then, 0) EXCEPT !.pat = p.pat, !.likely = e.likely])

\* TRY: the handler gets the exception with a reference on it.
GetExn(b, k, e) ==
    LET got == Define(b, k, Insn("GETEXN", 0, <<>>), "UNREF")
    IN  [got EXCEPT !.var = (e.exnvar :> LastVal(got)) @@ @]
TryCatch(b, k, e, istc, outer, id, then) ==
    LET els == Len(b.blk) + 1
        insn == [Insn("TRY", 0, <<>>) EXCEPT !.then = then, !.els = els, !.try = id]
    IN  Join(Build(GetExn([NewBlock(b) EXCEPT !.try = outer], els, e), els, e.els, istc),
             k, insn, istc)
BuildTry(b, k, e, istc) ==
    LET inner == [NewBlock(b) EXCEPT !.try = b.ntries + 1, !.ntries = @ + 1]
    IN  TryCatch(Build(inner, Len(b.blk) + 1, e.then, FALSE), k, e, istc,
                 b.try, b.ntries + 1, Len(b.blk) + 1)

\* UPDATE: b has the record and the new field.  The result is referenced by the
\* instruction itself; the other branch throws.
UpdateIf(b, k, src, field, out) ==
    [Write(WithNop(b), k, [If("UPDATE", src, Len(b.blk) + 1, Len(b.blk)) EXCEPT
                              !.args = <<field>>, !.out = out, !.likely = 1])
        EXCEPT !.loc[out] = Len(b.ins) + 2]
UpdateError(b, k) == WriteThrow(Constant(b, k), k, LastVal(b) + 1)
BuildUpdate(b, k) ==
    Yield(UpdateIf(UpdateError(NewVal(NewBlock(b), "PHI"), Len(b.blk) + 1), k,
                   Results(b, 2)[1], Results(b, 2)[2], LastVal(b) + 1),
          2, LastVal(b) + 1)

Made(b, k, insn, n) == Yield(TraceMov(Define(b, k, insn, "DEFAULT")), n, LastVal(b) + 1)

Bind(b, name) == [b EXCEPT !.res = Front(@), !.var = (name :> Result(b)) @@ @]

Build(b, k, e, istc) ==
    CASE e.op = "cval"   -> Yield(Constant(b, k), 0, LastVal(b) + 1)
      [] e.op = "var"    -> Yield(b, 0, b.var[e.name])
      [] e.op = "apply"  -> Apply(BuildAll(b, k, <<e.fn>> \o e.args), k, Len(e.args), istc)
      [] e.op = "if"     -> DropCondition(BuildThen(Build(b, k, e.on, FALSE), k, e, istc))
      [] e.op = "try"    -> BuildTry(b, k, e, istc)
      [] e.op = "seq"    -> Build([Build(b, k, e.e1, FALSE) EXCEPT !.res = Front(@)], k, e.e2, istc)
      [] e.op = "cons"   ->
           LET both == BuildAll(b, k, <<e.lhs, e.rhs>>)
           IN  Made(both, k, Insn("CONS", 0, Results(both, 2)), 2)
      [] e.op = "fn"     ->
           Made(b, k, Insn("FN", 0, [i \in DOMAIN e.caps |-> b.var[e.caps[i]]]), 0)
      [] e.op = "let"    -> Build(Bind(Build(b, k, e.e1, FALSE), e.name), k, e.e2, istc)
      [] e.op = "match"  -> DropCondition(MatchThen(Build(b, k, e.on, FALSE), k, e, istc))
      [] e.op = "update" -> BuildUpdate(BuildAll(b, k, <<e.src, e.field>>), k)
      [] e.op = "throw"  -> LET v == Build(b, k, e.exn, FALSE) IN WriteThrow(v, k, Result(v))
      [] e.op = "return" -> LET v == Build(b, k, e.e1, istc) IN Return(v, k, Result(v))

Bound(names, vals) ==
    [x \in Range(names) |-> vals[SelectInSeq(names, LAMBDA y : y = x)]]

\* eth_build_fn_body up to the insertion of reference counting: arguments are
\* popped, then captures and the members of the recursive scope are loaded (the
\* first of scps is the function itself), and the arguments count as created
\* by the last of these.
Empty == [ins |-> <<>>, blk |-> << <<>> >>, rules |-> <<>>, loc |-> <<>>, movs |-> <<>>,
          var |-> <<>>, try |-> 0, ntries |-> 0, this |-> 0, last |-> 0, res |-> <<>>]

Load(b, tag, outs) ==
    IF outs = <<>> /\ tag # "POP" THEN b ELSE Write(b, 1, [Insn(tag, 0, <<>>) EXCEPT !.outs = outs])

ArgsCreated(b) == Len(b.ins)

Enter(args, caps, scps) ==
    LET n == Len(args)
        names == args \o caps \o scps
        vals == [i \in DOMAIN names |-> i]
        loaded == Load(Load(Load(Empty, "POP", SubSeq(vals, 1, n)),
                            "CAP", SubSeq(vals, n + 1, n + Len(caps))),
                       "LDSCP", SubSeq(vals, n + Len(caps) + 1, Len(vals)))
    IN  [loaded EXCEPT
            !.rules = [i \in DOMAIN names |-> IF i <= n THEN "DEFAULT" ELSE "DISABLE"],
            !.loc = [i \in DOMAIN names |-> ArgsCreated(loaded)],
            !.last = Len(loaded.ins),
            !.var = Bound(names, vals),
            !.this = IF scps = <<>> THEN 0 ELSE n + Len(caps) + 1]

BuildBody(body, args, caps, scps) ==
    LET b == Build(Enter(args, caps, scps), 1, body, TRUE) IN Return(b, 1, Result(b))

=============================================================================
