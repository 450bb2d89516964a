------------------------------- MODULE ModuleBuild -------------------------------
(* The load of a program (eth_load_module_from_ast2): its tree is translated  *)
(* into the intermediate representation and, if that succeeds, run.  What the *)
(* run does is compared with what the program means.                          *)
EXTENDS IrBuilder

CONSTANTS
    Parts,          \* bound: expressions to put into programs
    Programs(_)     \* bound: the trees with an expression in them that the parser may hand over

Meaning == INSTANCE AstMeaning

VARIABLES
    ast,    \* the program
    ir,     \* what BuildModuleIr made of it
    run     \* what its run came to

vars == <<ast, ir, run>>

NotBuilt == [ok |-> FALSE, asserted |-> FALSE, body |-> IrError, nvars |-> 0, defs |-> <<>>]
NotRun == Outcome("none", Nil, NoEffects)

Init ==
    /\ \E part \in Parts : ast \in Programs(part)
    /\ ir = NotBuilt
    /\ run = NotRun

BuildModule ==
    /\ ir = NotBuilt
    /\ ir' = BuildModuleIr(ast)
    /\ UNCHANGED <<ast, run>>

RunModule ==
    /\ ir.ok
    /\ run = NotRun
    /\ run' = Eval(ir.body, NoEffects)
    /\ UNCHANGED <<ast, ir>>

Next == BuildModule \/ RunModule

Spec == Init /\ [][Next]_vars

-----------------------------------------------------------------------------

SeenAll(vals) == [i \in DOMAIN vals |-> Seen(vals[i])]

\* make_module: the values of the public names, when the end is reached.
Exports ==
    [i \in DOMAIN ir.defs |->
        <<ir.defs[i].ident,
          Seen(IF IsConst(ir.defs[i]) THEN ir.defs[i].cval ELSE run.s.vars[ir.defs[i].vid])>>]

DoesAs(ref) ==
    /\ run.how = ref.how
    /\ Seen(run.v) = Seen(ref.v)
    /\ SeenAll(run.s.printed) = SeenAll(ref.s.printed)
    /\ run.how = "val" =>
          Exports = [i \in DOMAIN ref.s.pubs |-> <<ref.s.pubs[i][1], Seen(ref.s.pubs[i][2])>>]

\* A program that the builder accepts does what it means: it ends in the same
\* way, with the same value, prints the same in the same order, and makes the
\* same names public with the same values - whatever was a constant or a
\* variable, local or captured, hidden by another name, or folded away.
MeaningKept == run # NotRun => DoesAs(Meaning!Mean(ast, Meaning!Global, NoEffects))

RECURSIVE PatVars(_)
PatVars(p) ==
    CASE p.pat \in {"UNPACK", "RECORD"} ->
            {p.varid} \cup UNION {PatVars(p.subpats[i]) : i \in DOMAIN p.subpats}
      [] p.pat = "IDENT" -> {p.varid}
      [] OTHER -> {}

RECURSIVE VarsSet(_, _, _)
FnSet(fn, known, set(_, _, _)) ==
    LET own == (0..(fn.arity - 1)) \cup ToSet(fn.capvars) \cup ToSet(fn.scpvars)
    IN  /\ ToSet(fn.caps) \subseteq known
        /\ Cardinality(own) = fn.arity + Len(fn.capvars) + Len(fn.scpvars)
        /\ set(fn.body, own, fn.nvars)
VarsSet(e, known, n) ==
    LET All(es) == \A i \in DOMAIN es : VarsSet(es[i], known, n)
        Fn(fn) == FnSet(fn, known, VarsSet)
        New(vids) == vids \subseteq 0..(n - 1)
    IN
    CASE e.op = "VAR" -> e.vid \in known
      [] e.op = "APPLY" -> All(<<e.fn>> \o e.args)
      [] e.op = "IF" -> All(<<e.cond, e.then, e.els>>)
      [] e.op = "SEQ" -> All(<<e.e1, e.e2>>)
      [] e.op = "BINOP" -> All(<<e.lhs, e.rhs>>)
      [] e.op \in {"UNOP", "RETURN"} -> VarsSet(e.expr, known, n)
      [] e.op = "THROW" -> VarsSet(e.exn, known, n)
      [] e.op = "MKRCRD" -> All(e.vals)
      [] e.op = "UPDATE" -> All(<<e.src>> \o e.vals)
      [] e.op = "FN" -> Fn(e)
      [] e.op = "LETREC" ->
            /\ \A i \in DOMAIN e.fns : Fn(e.fns[i])
            /\ New(ToSet(e.varids))
            /\ VarsSet(e.body, known \cup ToSet(e.varids), n)
      [] e.op = "MATCH" ->
            /\ New(PatVars(e.pat))
            /\ All(<<e.expr, e.els>>)
            /\ VarsSet(e.then, known \cup PatVars(e.pat), n)
      [] e.op = "TRY" ->
            /\ New({e.exnvar})
            /\ VarsSet(e.trybr, known, n)
            /\ VarsSet(e.catchbr, known \cup {e.exnvar}, n)
      [] OTHER -> TRUE

\* In every function of an accepted program, on paths that no run takes as on
\* those it takes, a variable is read only where an argument, a capture, the
\* recursive scope or a pattern around has set it: the SSA builder looks its
\* value up in a table with an entry per variable that nothing initialises.
VariablesAreSet == ir.ok => VarsSet(ir.body, {}, ir.nvars)
===============================================================================
