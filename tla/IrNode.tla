-------------------------------- MODULE IrNode --------------------------------
(* The intermediate representation (src/ir-node.c): variables are numbers of  *)
(* the function they belong to, patterns name fields by offset or by symbol.  *)
(* Reference counts and source locations are left out.                        *)
EXTENDS Values

IrDummyPat == [pat |-> "DUMMY"]
IrIdentPat(vid) == [pat |-> "IDENT", varid |-> vid]
IrUnpackPat(vid, type, offs, subpats) ==
    [pat |-> "UNPACK", varid |-> vid, type |-> type, offs |-> offs, subpats |-> subpats]
IrConstantPat(v) == [pat |-> "CONSTANT", val |-> v]
IrRecordPat(vid, ids, subpats) ==
    [pat |-> "RECORD", varid |-> vid, ids |-> ids, subpats |-> subpats]

IrError == [op |-> "ERROR"]
IrCval(v) == [op |-> "CVAL", val |-> v]
IrVar(vid) == [op |-> "VAR", vid |-> vid]
IrApply(f, args) == [op |-> "APPLY", fn |-> f, args |-> args]
IrIf(c, t, e) == [op |-> "IF", cond |-> c, then |-> t, els |-> e]
IrTry(exnvar, t, c) == [op |-> "TRY", exnvar |-> exnvar, trybr |-> t, catchbr |-> c]
IrSeq(e1, e2) == [op |-> "SEQ", e1 |-> e1, e2 |-> e2]
IrBinop(bop, l, r) == [op |-> "BINOP", bop |-> bop, lhs |-> l, rhs |-> r]
IrUnop(uop, e) == [op |-> "UNOP", uop |-> uop, expr |-> e]
IrFn(arity, caps, capvars, scpvars, body, nvars) ==
    [op |-> "FN", arity |-> arity, caps |-> caps, capvars |-> capvars,
     scpvars |-> scpvars, body |-> body, nvars |-> nvars]
IrMatch(p, e, t, f) == [op |-> "MATCH", pat |-> p, expr |-> e, then |-> t, els |-> f]
IrLetrec(varids, fns, body) ==
    [op |-> "LETREC", varids |-> varids, fns |-> fns, body |-> body]
IrMkrcrd(type, vals) == [op |-> "MKRCRD", type |-> type, vals |-> vals]
IrUpdate(src, vals, ids) == [op |-> "UPDATE", src |-> src, vals |-> vals, ids |-> ids]
IrThrow(e) == [op |-> "THROW", exn |-> e]
IrReturn(e) == [op |-> "RETURN", expr |-> e]
IrThis == [op |-> "THIS"]

\* A value gets a name by a pattern that always matches.
IrBind(vid, val, body) == IrMatch(IrIdentPat(vid), val, body, IrError)
===============================================================================
