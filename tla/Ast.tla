---------------------------------- MODULE Ast ----------------------------------
(* The abstract syntax tree (src/ast.c): what each constructor keeps of what  *)
(* the parser gives it.  Reference counts of the nodes are left out.          *)
EXTENDS Values

Dummy == [pat |-> "DUMMY"]
IdentPat(x, attr) == [pat |-> "IDENT", str |-> x, attr |-> attr]
UnpackPat(type, fields, subpats) ==
    [pat |-> "UNPACK", type |-> type, fields |-> fields, subpats |-> subpats, alias |-> ""]
RecordPat(fields, subpats) ==
    [pat |-> "RECORD", fields |-> fields, subpats |-> subpats, alias |-> ""]
ConstantPat(v) == [pat |-> "CONSTANT", val |-> v]
RecordStarPat(attr) == [pat |-> "STAR", attr |-> attr, alias |-> ""]
\* The other patterns take no alias (abort).
WithAlias(p, x) == [p EXCEPT !.alias = x]
IsWildcard(p) == p.pat \in {"DUMMY", "IDENT"}

CvalAst(v) == [op |-> "CVAL", val |-> v]
IdentAst(x) == [op |-> "IDENT", str |-> x]
ApplyAst(f, args) == [op |-> "APPLY", fn |-> f, args |-> args]
AppendArg(ast, arg) == [ast EXCEPT !.args = Append(@, arg)]
IfAst(c, t, e) == [op |-> "IF", cond |-> c, then |-> t, els |-> e]
SeqAst(e1, e2) == [op |-> "SEQ", e1 |-> e1, e2 |-> e2]
LetAst(pats, vals, body) == [op |-> "LET", pats |-> pats, vals |-> vals, body |-> body]
LetrecAst(pats, vals, body) == [LetAst(pats, vals, body) EXCEPT !.op = "LETREC"]
BinopAst(bop, l, r) == [op |-> "BINOP", bop |-> bop, lhs |-> l, rhs |-> r]
UnopAst(uop, e) == [op |-> "UNOP", uop |-> uop, expr |-> e]
FnWithPatterns(args, body) == [op |-> "FN", args |-> args, body |-> body]
FnAst(names, body) == FnWithPatterns([i \in DOMAIN names |-> IdentPat(names[i], {})], body)
MatchAst(p, e, t, f) == [op |-> "MATCH", pat |-> p, expr |-> e, then |-> t, els |-> f]
AndAst(l, r) == [op |-> "AND", lhs |-> l, rhs |-> r]
OrAst(l, r) == [op |-> "OR", lhs |-> l, rhs |-> r]
AccessAst(e, f) == [op |-> "ACCESS", expr |-> e, field |-> f]

\* A handler without a pattern gets one that binds a name nobody can write.
\* What was thrown is inside an exception.
HandlerPat(p) == IF p.pat = "DUMMY" THEN IdentPat("", {}) ELSE p
TryAst(p, try, catch) ==
    [op |-> "TRY", pat |-> UnpackPat(Exception, <<"what">>, <<HandlerPat(p)>>),
     trybr |-> try, catchbr |-> catch, checkexit |-> IsWildcard(HandlerPat(p))]

MakeRecordAst(type, fields, vals) ==
    [op |-> "MKRCRD", type |-> type, fields |-> fields, vals |-> vals]
UpdateAst(src, vals, fields) ==
    [op |-> "UPDATE", src |-> src, vals |-> vals, fields |-> fields]
AssertAst(e) == [op |-> "ASSERT", expr |-> e]
DefinedAst(x) == [op |-> "DEFINED", ident |-> x]
EvmacAst(e) == [op |-> "EVMAC", expr |-> e]
AssignAst(x, e) == [op |-> "ASSIGN", ident |-> x, val |-> e]
ReturnAst(e) == [op |-> "RETURN", expr |-> e]
ThisAst == [op |-> "THIS"]

\* The pattern that an expression looks like, NotPattern if it looks like none.
NotPattern == [pat |-> "NONE"]
RECURSIVE AstToPattern(_)
AstToPattern(e) ==
    CASE e.op = "CVAL" -> ConstantPat(e.val)
      [] e.op = "IDENT" -> IF e.str = "_" THEN Dummy ELSE IdentPat(e.str, {})
      [] e.op = "BINOP" /\ e.bop = "::" ->
            LET subs == <<AstToPattern(e.lhs), AstToPattern(e.rhs)>>
            IN  IF NotPattern \in ToSet(subs) THEN NotPattern
                ELSE UnpackPat(Pair, Pair.fields, subs)
      [] e.op = "MKRCRD" ->
            LET subs == [i \in DOMAIN e.vals |-> AstToPattern(e.vals[i])]
            IN  IF NotPattern \in ToSet(subs) THEN NotPattern
                ELSE IF e.type.class = "tuple" THEN UnpackPat(e.type, e.fields, subs)
                ELSE RecordPat(e.fields, subs)
      [] OTHER -> NotPattern
===============================================================================
