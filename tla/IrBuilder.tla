------------------------------- MODULE IrBuilder -------------------------------
(* Translation of the abstract syntax tree into the intermediate              *)
(* representation (src/ir-builder.c): names become variables, functions learn *)
(* what they capture, and what is constant is computed.                       *)
(* The builders of the functions around the code being built are a stack,     *)
(* innermost last; each has                                                   *)
(*   vars     the names in scope, nearest first; captured ones at the end     *)
(*   capoffs  the number of captured ones                                     *)
(*   nvars    the number of variables so far                                  *)
(*   top      building the body of a module                                   *)
(*   defs     what the module makes public.                                   *)
(* err is the error flag, asserted says that an assertion of the builder      *)
(* failed, which ends the process.                                            *)
EXTENDS Ast, IrMeaning

CONSTANTS
    Builtins    \* the entries of the builtin module: name, value, attributes

-----------------------------------------------------------------------------
(* Variables (src/ast-var.c) *)

NoCval == [kind |-> "none"]
DynVar(x, vid, attr) == [ident |-> x, cval |-> NoCval, vid |-> vid, attr |-> attr]
ConstVar(x, v, attr) == [ident |-> x, cval |-> v, vid |-> -1, attr |-> attr]
CopyVar(var, vid) == [var EXCEPT !.vid = vid]
IsConst(var) == var.cval.kind # "none"

Missing == DynVar("", -1, {})
FindVar(vars, x) ==
    IF \E i \in DOMAIN vars : vars[i].ident = x
    THEN vars[SelectInSeq(vars, LAMBDA v : v.ident = x)] ELSE Missing

NewBuilder ==
    [vars |-> <<>>, capoffs |-> 0, nvars |-> 0, top |-> FALSE, defs |-> <<>>]
Top(b) == Last(b.stack)
SetTop(b, t) == [b EXCEPT !.stack[Len(b.stack)] = t]
Fail(b) == [b EXCEPT !.err = TRUE]

NewVid(b) == SetTop(b, [Top(b) EXCEPT !.nvars = @ + 1])
Prepend(b, var) == SetTop(b, [Top(b) EXCEPT !.vars = <<var>> \o @])
Pop(b, n) ==
    IF n > Len(Top(b).vars) THEN [b EXCEPT !.asserted = TRUE]
    ELSE SetTop(b, [Top(b) EXCEPT !.vars = SubSeq(@, n + 1, Len(@))])

\* The variables that are not captured.
NumLocals(b) == Len(Top(b).vars) - Top(b).capoffs

\* import: the later entries are found first.
Import(b, defs) ==
    SetTop(b, [Top(b) EXCEPT !.vars =
        Reverse([i \in DOMAIN defs |-> ConstVar(defs[i].ident, defs[i].val, defs[i].attr)]) \o @])

TracePub(b, x, attr, def) ==
    IF "PUB" \notin attr THEN b
    ELSE IF Top(b).top THEN SetTop(b, [Top(b) EXCEPT !.defs = Append(@, def)])
    ELSE Fail(b)
TracePubVar(b, x, vid, attr) ==
    TracePub(b, x, attr, [ident |-> x, cval |-> NoCval, vid |-> vid])
TracePubCval(b, x, v, attr) ==
    TracePub(b, x, attr, [ident |-> x, cval |-> v, vid |-> -1])

\* require_var at level i of the stack: a variable of a function around becomes
\* a captured variable of every function in between; a constant does not.
\* Mutant of Capture: the captured variable keeps the number it had outside.
CaptureSameVid(stack, i, var) ==
    [var |-> var,
     stack |-> [stack EXCEPT ![i].nvars = @ + 1, ![i].capoffs = @ + 1,
                             ![i].vars = Append(@, var)]]
Capture(stack, i, var) ==
    [var |-> CopyVar(var, stack[i].nvars),
     stack |-> [stack EXCEPT ![i].nvars = @ + 1, ![i].capoffs = @ + 1,
                             ![i].vars = Append(@, CopyVar(var, stack[i].nvars))]]
CaptureFrom(up, i) ==
    IF up.var = Missing \/ IsConst(up.var) THEN up ELSE Capture(up.stack, i, up.var)
RECURSIVE RequireVar(_, _, _)
RequireVar(stack, i, x) ==
    IF FindVar(stack[i].vars, x) # Missing \/ i = 1
    THEN [var |-> FindVar(stack[i].vars, x), stack |-> stack]
    ELSE CaptureFrom(RequireVar(stack, i - 1, x), i)
Require(b, x) == RequireVar(b.stack, Len(b.stack), x)
Required(b, req) == [b EXCEPT !.stack = req.stack]

RECURSIVE FindVarDeep(_, _, _)
FindVarDeep(stack, i, x) ==
    LET own == FindVar(stack[i].vars, x)
    IN  IF own # Missing \/ i = 1 THEN own ELSE FindVarDeep(stack, i - 1, x)
FoundVar(b, x) == FindVarDeep(b.stack, Len(b.stack), x)
IsRedefined(b, x) == FoundVar(b, x) # Missing /\ "BUILTIN" \notin FoundVar(b, x).attr

-----------------------------------------------------------------------------
(* Patterns *)

\* A builder and what it built.
Built(b, node) == [b |-> b, node |-> node]
Joined(first, rest) == Built(rest.b, <<first.node>> \o rest.node)

\* The variable of an UNPACK or RECORD pattern has a name if there is an alias.
AliasVar(b, p) ==
    IF p.alias = "" THEN NewVid(b)
    ELSE Prepend(NewVid(b), DynVar(p.alias, Top(b).nvars, {}))
IdentVar(b, p) ==
    Prepend(TracePubVar(NewVid(b), p.str, Top(b).nvars, p.attr),
            DynVar(p.str, Top(b).nvars, p.attr))

RECURSIVE BuildPattern(_, _), BuildPatterns(_, _)
BeforePatterns(first, ps) == Joined(first, BuildPatterns(first.b, ps))
BuildPatterns(b, ps) ==
    IF ps = <<>> THEN Built(b, <<>>) ELSE BeforePatterns(BuildPattern(b, Head(ps)), Tail(ps))
\* A field the type does not have: the patterns after it are not built.
KnownFields(p) == SelectInSeq(p.fields \o <<"">>, LAMBDA f : f \notin ToSet(p.type.fields)) - 1
UnpackNode(subs, p, vid) ==
    IF Len(subs.node) < Len(p.fields) THEN Built(Fail(subs.b), IrIdentPat(-1))
    ELSE Built(subs.b, IrUnpackPat(vid, p.type,
                 [i \in DOMAIN p.fields |-> FieldIdx(p.type, p.fields[i])], subs.node))
BuildUnpack(b, p, vid) ==
    UnpackNode(BuildPatterns(b, SubSeq(p.subpats, 1, KnownFields(p))), p, vid)
BuildRecord(subs, p, vid, order) ==
    Built(subs.b, IrRecordPat(vid, Permute(p.fields, order), Permute(subs.node, order)))
BuildPattern(b, p) ==
    CASE p.pat = "DUMMY" -> Built(b, IrDummyPat)
      [] p.pat = "IDENT" -> Built(IdentVar(b, p), IrIdentPat(Top(b).nvars))
      [] p.pat = "UNPACK" -> BuildUnpack(AliasVar(b, p), p, Top(b).nvars)
      [] p.pat = "CONSTANT" -> Built(b, IrConstantPat(p.val))
      [] p.pat = "RECORD" ->
            BuildRecord(BuildPatterns(AliasVar(b, p), p.subpats), p, Top(b).nvars,
                        BySymbol(p.fields))
      [] p.pat = "STAR" -> Built(Fail(b), IrIdentPat(-1))

\* The same against a constant: node says whether it matches.
ConstIdent(b, x, v, attr) == Prepend(TracePubCval(b, x, v, attr), ConstVar(x, v, attr))
ConstAlias(b, p, v) == IF p.alias = "" THEN b ELSE Prepend(b, ConstVar(p.alias, v, {}))
\* The first field is bound last, and found first.
RECURSIVE StarFields(_, _, _, _)
StarFields(b, p, v, n) ==
    IF n = 0 THEN b
    ELSE StarFields(ConstIdent(b, v.type.fields[n], v.vals[n], p.attr), p, v, n - 1)
BuildRecordStar(b, p, v) ==
    IF ~IsRecord(v) THEN Built(Fail(b), FALSE)
    ELSE Built(ConstAlias(StarFields(b, p, v, Len(v.vals)), p, v), TRUE)

RECURSIVE BuildConst(_, _, _), BuildConsts(_, _, _, _)
\* The fields from i on, until one does not match.
BuildConsts(m, p, v, i) ==
    IF ~m.node \/ i > Len(p.fields) THEN m
    ELSE IF ~HasField(v, p.fields[i]) THEN Built(Fail(m.b), FALSE)
    ELSE BuildConsts(BuildConst(m.b, p.subpats[i], FieldOf(v, p.fields[i])), p, v, i + 1)
ConstFields(b, p, v) == BuildConsts(Built(ConstAlias(b, p, v), TRUE), p, v, 1)
BuildConst(b, p, v) ==
    CASE p.pat = "DUMMY" -> Built(b, TRUE)
      [] p.pat = "IDENT" -> Built(ConstIdent(b, p.str, v, p.attr), TRUE)
      [] p.pat = "UNPACK" ->
            IF IsPlain(v) /\ v.type = p.type THEN ConstFields(b, p, v) ELSE Built(b, FALSE)
      [] p.pat = "CONSTANT" -> Built(b, v = p.val)
      [] p.pat = "RECORD" -> IF IsRecord(v) THEN ConstFields(b, p, v) ELSE Built(b, FALSE)
      [] p.pat = "STAR" -> BuildRecordStar(b, p, v)

-----------------------------------------------------------------------------
(* Constants *)

\* constexpr_binop, constexpr_unop.  Only the former checks its operands.
ConstBinop(b, bop, x, y) ==
    IF BadOperands(bop, x, y) THEN Built(Fail(b), IrError)
    ELSE Built(b, IrCval(Compute(bop, x, y)))
ConstUnop(b, uop, x) ==
    Built(b, IrCval(IF uop = "not" THEN Boolean(x = False) ELSE Num(-x.n - 1)))
ConstAccess(b, v, f) ==
    IF HasField(v, f) THEN Built(b, IrCval(FieldOf(v, f))) ELSE Built(Fail(b), IrError)

\* A macro is a program of its own, run while the code around it is built.
MacroValue(b, r) == IF IsValue(r) THEN Built(b, IrCval(r.v)) ELSE Built(Fail(b), IrError)
Macro(b, m) ==
    IF m.b.err \/ m.b.asserted THEN Built(Fail(b), IrError)
    ELSE MacroValue(b, Returned(Eval(m.node, NoEffects)))

-----------------------------------------------------------------------------
(* Expressions *)

\* try_resolve_ident.  A mutable variable is a cell.
Resolved(b, var) ==
    Built(b, IF IsConst(var) THEN IrCval(var.cval)
             ELSE IF "MUT" \in var.attr
             THEN IrApply(IrCval(Prim("dereference")), <<IrVar(var.vid)>>)
             ELSE IrVar(var.vid))
BuildIdent(b, req) ==
    IF req.var = Missing THEN Built(Fail(b), IrError) ELSE Resolved(Required(b, req), req.var)

OnlyClosures(e) ==
    \A i \in DOMAIN e.vals : e.vals[i].op = "FN" /\ e.pats[i].pat = "IDENT"

NewModule ==
    Import([stack |-> <<[NewBuilder EXCEPT !.top = TRUE]>>, err |-> FALSE, asserted |-> FALSE],
           Builtins)

RECURSIVE Build(_, _), BuildSub(_, _), BuildAll(_, _), BuildLet(_, _, _, _, _),
          BuildFn(_, _, _), BuildFns(_, _, _)

\* build_with_toplvl: an inner expression is not the body of the module.
WithTop(r, top) == Built(SetTop(r.b, [Top(r.b) EXCEPT !.top = top]), r.node)
BuildSub(b, e) == WithTop(Build(SetTop(b, [Top(b) EXCEPT !.top = FALSE]), e), Top(b).top)
BeforeExprs(first, es) == Joined(first, BuildAll(first.b, es))
BuildAll(b, es) ==
    IF es = <<>> THEN Built(b, <<>>) ELSE BeforeExprs(BuildSub(b, Head(es)), Tail(es))

\* Names leave the scope, a node stays.
Popped(r, n) == Built(Pop(r.b, n), r.node)
OrTypeError(pat, val, r) == Built(r.b, IrMatch(pat, val, r.node, IrThrow(IrCval(TypeError))))

\* build_let from binding i on.  A constant that does not match leaves the
\* names that were bound before it.
LetConst(m, i, e, vals, n0) ==
    IF m.node THEN BuildLet(m.b, i + 1, e, vals, n0) ELSE Built(Fail(m.b), IrError)
LetPattern(p, i, e, vals, n0) ==
    OrTypeError(p.node, vals[i], BuildLet(p.b, i + 1, e, vals, n0))
BuildLet(b, i, e, vals, n0) ==
    IF i > Len(vals) THEN Popped(Build(b, e.body), NumLocals(b) - n0)
    ELSE IF vals[i].op = "CVAL"
    THEN LetConst(BuildConst(b, e.pats[i], vals[i].val), i, e, vals, n0)
    ELSE LetPattern(BuildPattern(b, e.pats[i]), i, e, vals, n0)
LetBindings(vals, e) == BuildLet(vals.b, 1, e, vals.node, NumLocals(vals.b))

\* build_fn.  The arguments are variables 0, 1, ...; the names of the recursive
\* scope are declared after the names of the arguments.
RECURSIVE MatchArgs(_, _, _)
MatchArgs(pats, i, body) ==
    IF i > Len(pats) THEN body
    ELSE IrMatch(pats[i], IrVar(i - 1), MatchArgs(pats, i + 1, body),
                 IrThrow(IrCval(TypeError)))
ScopeVars(b, names) ==
    SetTop(b, [Top(b) EXCEPT
        !.nvars = @ + Len(names),
        !.vars = Reverse([i \in DOMAIN names |-> DynVar(names[i], Top(b).nvars + i - 1, {})]) \o @])
\* The captured variables are what is left when the others are popped.
VidsOf(vars) == [i \in DOMAIN vars |-> vars[i].vid]
FnNode(outer, inner, captured, fn, args, scpvars, body) ==
    IF \E vid \in ToSet(VidsOf(inner.vars) \o VidsOf(captured)) : vid < 0
    THEN Built([outer EXCEPT !.asserted = TRUE], IrError)
    ELSE Built(outer, IrFn(Len(fn.args), VidsOf(captured), VidsOf(inner.vars), scpvars,
                           MatchArgs(args, 1, body), inner.nvars))
CloseFn(body, fn, args, scpvars) ==
    FnNode([body.b EXCEPT !.stack = Front(@)], Top(body.b),
           [i \in DOMAIN Top(body.b).vars |->
               FindVar(body.b.stack[Len(body.b.stack) - 1].vars, Top(body.b).vars[i].ident)],
           fn, args, scpvars, body.node)
FnBody(args, fn, names) ==
    CloseFn(Popped(Popped(BuildSub(ScopeVars(args.b, names), fn.body), Len(names)),
                   Len(Top(args.b).vars)),
            fn, args.node, [i \in DOMAIN names |-> Top(args.b).nvars + i - 1])
BuildFn(b, fn, names) ==
    FnBody(BuildPatterns([b EXCEPT !.stack = Append(@, [NewBuilder EXCEPT !.nvars = Len(fn.args)])],
                         fn.args),
           fn, names)
BeforeFns(first, fns, names) == Joined(first, BuildFns(first.b, fns, names))
BuildFns(b, fns, names) ==
    IF fns = <<>> THEN Built(b, <<>>)
    ELSE BeforeFns(BuildFn(b, Head(fns), names), Tail(fns), names)

\* LETREC: the functions, then their names, then the body.
DeclareScope(b, e) ==
    FoldLeft(LAMBDA c, p : TracePubVar(Prepend(NewVid(c), DynVar(p.str, Top(c).nvars, {})),
                                       p.str, Top(c).nvars, p.attr),
             b, e.pats)
LetrecNode(fns, body) ==
    Built(body.b, IrLetrec([i \in DOMAIN fns.node |-> Top(fns.b).nvars + i - 1],
                           fns.node, body.node))
LetrecBody(fns, e) ==
    LetrecNode(fns, Popped(Build(DeclareScope(fns.b, e), e.body), Len(e.pats)))
BuildLetrec(b, e) ==
    LetrecBody(BuildFns(b, e.vals, [i \in DOMAIN e.pats |-> e.pats[i].str]), e)

\* The names of a pattern are in scope in one branch only.
\* Mutant of BuildArm: the names stay in scope.
BuildArmLeaks(p, n1, e) == BuildSub(p.b, e)
BuildArm(p, n1, e) == Popped(BuildSub(p.b, e), NumLocals(p.b) - n1)
MatchElse(expr, p, then, els) == Built(els.b, IrMatch(p.node, expr.node, then.node, els.node))
MatchThen(expr, p, then, e) == MatchElse(expr, p, then, BuildSub(then.b, e.els))
MatchPattern(expr, p, e) == MatchThen(expr, p, BuildArm(p, NumLocals(expr.b), e.then), e)
BuildMatch(expr, e) == MatchPattern(expr, BuildPattern(expr.b, e.pat), e)

\* What was thrown is in a variable of its own; the exit object is thrown on.
Handler(catch, thrown, exnvar) ==
    Built(NewVid(catch.b),
          IrMatch(IrUnpackPat(Top(catch.b).nvars, ExitType, <<>>, <<>>), IrVar(thrown),
                  IrThrow(IrVar(exnvar)), catch.node))
TryNode(try, p, handler, exnvar) ==
    Built(handler.b, IrTry(exnvar, try.node,
                           IrMatch(p.node, IrVar(exnvar), handler.node, IrThrow(IrVar(exnvar)))))
TryHandler(try, p, catch, exnvar, checkexit) ==
    TryNode(try, p, IF checkexit THEN Handler(catch, p.node.subpats[1].varid, exnvar) ELSE catch,
            exnvar)
TryPattern(try, p, e) ==
    TryHandler(try, p, BuildArm(p, NumLocals(try.b), e.catchbr), Top(try.b).nvars, e.checkexit)
BuildTry(try, e) == TryPattern(try, BuildPattern(NewVid(try.b), e.pat), e)

\* A constant condition leaves one branch, the other one is not even built.
IfNode(cond, br) == Built(br.b, IrIf(cond.node, br.node[1], br.node[2]))
BuildIf(cond, e) ==
    IF cond.node.op = "CVAL"
    THEN BuildSub(cond.b, IF Truth(cond.node.val) THEN e.then ELSE e.els)
    ELSE IfNode(cond, BuildAll(cond.b, <<e.then, e.els>>))
BuildBinop(ops, bop) ==
    IF ops.node[1].op = "CVAL" /\ ops.node[2].op = "CVAL"
    THEN ConstBinop(ops.b, bop, ops.node[1].val, ops.node[2].val)
    ELSE Built(ops.b, IrBinop(bop, ops.node[1], ops.node[2]))
BuildUnop(r, uop) ==
    IF r.node.op = "CVAL" THEN ConstUnop(r.b, uop, r.node.val)
    ELSE Built(r.b, IrUnop(uop, r.node))
\* AND, OR: the first operand gets a variable.
ShortNode(tmp, lhs, rhs, op) ==
    IrBind(tmp, lhs, IF op = "AND" THEN IrIf(IrVar(tmp), rhs, IrCval(False))
                     ELSE IrIf(IrVar(tmp), IrVar(tmp), rhs))
BuildShort(ops, op) ==
    Built(NewVid(ops.b), ShortNode(Top(ops.b).nvars, ops.node[1], ops.node[2], op))
\* The pattern of an access has variable 0.
BuildAccess(r, f) ==
    IF r.node.op = "CVAL" THEN ConstAccess(r.b, r.node.val, f)
    ELSE OrTypeError(IrRecordPat(0, <<f>>, <<IrIdentPat(Top(r.b).nvars)>>), r.node,
                     Built(NewVid(r.b), IrVar(Top(r.b).nvars)))
\* The fields of a new record in the order of their offsets.
MkrcrdNode(type, r) == Built(r.b, IrMkrcrd(type, r.node))
BuildMkrcrd(b, e) ==
    MkrcrdNode(e.type, BuildAll(b, [i \in DOMAIN e.type.fields |->
                                      e.vals[SelectInSeq(e.fields, LAMBDA f : f = e.type.fields[i])]]))
UpdateNode(src, r, fields) == Built(r.b, IrUpdate(src.node, r.node, fields))
BuildUpdate(src, e, order) ==
    UpdateNode(src, BuildAll(src.b, Permute(e.vals, order)), Permute(e.fields, order))
AssignNode(var, val) ==
    Built(val.b, IrApply(IrCval(Prim("assign")), <<IrVar(var.vid), val.node>>))
BuildAssign(b, req, e) ==
    IF req.var = Missing \/ "MUT" \notin req.var.attr
    THEN Built(Fail(Required(b, req)), IrError)
    ELSE AssignNode(req.var, BuildSub(Required(b, req), e.val))

\* An operator the program defines is applied like any function.
Operator(e) == CASE e.op = "AND" -> "&&" [] e.op = "OR" -> "||"
                 [] e.op = "BINOP" -> e.bop [] e.op = "UNOP" -> e.uop
Operands(e) == IF e.op = "UNOP" THEN <<e.expr>> ELSE <<e.lhs, e.rhs>>

ApplyNode(r) == Built(r.b, IrApply(Head(r.node), Tail(r.node)))
SeqNode(e1, e2) == Built(e2.b, IrSeq(e1.node, e2.node))
BuildSeq(e1, e) == SeqNode(e1, Build(e1.b, e.e2))
AssertNode(r) == Built(r.b, IrIf(r.node, IrCval(Nil), IrThrow(IrCval(AssertionFailed))))
ReturnNode(r) == Built(r.b, IrReturn(r.node))

Build(b, e) ==
    CASE e.op = "CVAL" -> Built(b, IrCval(e.val))
      [] e.op = "IDENT" -> BuildIdent(b, Require(b, e.str))
      [] e.op = "APPLY" -> ApplyNode(BuildAll(b, <<e.fn>> \o e.args))
      [] e.op = "IF" -> BuildIf(BuildSub(b, e.cond), e)
      [] e.op = "SEQ" -> BuildSeq(BuildSub(b, e.e1), e)
      [] e.op = "LET" -> LetBindings(BuildAll(b, e.vals), e)
      [] e.op = "LETREC" -> IF OnlyClosures(e) THEN BuildLetrec(b, e) ELSE Built(Fail(b), IrError)
      [] e.op \in {"BINOP", "UNOP", "AND", "OR"} ->
            IF IsRedefined(b, Operator(e))
            THEN BuildSub(b, ApplyAst(IdentAst(Operator(e)), Operands(e)))
            ELSE IF e.op = "UNOP" THEN BuildUnop(BuildSub(b, e.expr), e.uop)
            ELSE IF e.op = "BINOP" THEN BuildBinop(BuildAll(b, Operands(e)), e.bop)
            ELSE BuildShort(BuildAll(b, Operands(e)), e.op)
      [] e.op = "FN" -> BuildFn(b, e, <<>>)
      [] e.op = "MATCH" -> BuildMatch(BuildSub(b, e.expr), e)
      [] e.op = "ACCESS" -> BuildAccess(BuildSub(b, e.expr), e.field)
      [] e.op = "TRY" -> BuildTry(BuildSub(b, e.trybr), e)
      [] e.op = "MKRCRD" -> BuildMkrcrd(b, e)
      [] e.op = "UPDATE" -> BuildUpdate(BuildSub(b, e.src), e, BySymbol(e.fields))
      [] e.op = "ASSERT" -> AssertNode(BuildSub(b, e.expr))
      [] e.op = "DEFINED" -> Built(b, IrCval(Boolean(FoundVar(b, e.ident) # Missing)))
      [] e.op = "EVMAC" -> Macro(b, Build(NewModule, e.expr))
      [] e.op = "ASSIGN" -> BuildAssign(b, Require(b, e.ident), e)
      [] e.op = "RETURN" -> ReturnNode(BuildSub(b, e.expr))
      [] e.op = "THIS" -> Built(b, IrThis)

\* build_ir: the tree, the number of its variables and the module's definitions.
ModuleIr(r) ==
    [ok |-> ~r.b.err /\ ~r.b.asserted, asserted |-> r.b.asserted,
     body |-> r.node, nvars |-> Top(r.b).nvars, defs |-> Top(r.b).defs]
BuildModuleIr(e) == ModuleIr(Build(NewModule, e))
===============================================================================
