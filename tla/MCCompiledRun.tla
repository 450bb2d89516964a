---------------------------- MODULE MCCompiledRun ----------------------------
(* The small functions as programs of the machine.                            *)
EXTENDS CompiledRun, MCBodies

\* Guarded blocks, branches, updates and self-calls inside each other.
Inner ==
    {Try(If3(Var("a"), Throw(Var("b")), Update(Var("b"), Var("a"))), Var("e")),
     Match(Call(<<"a">>), Parts(Parts(Ident("x"), Constant1), Dummy), Pair("x", "a"), Call(<<"b">>)),
     If3(Call(<<"b">>), Update(Var("a"), Var("b")), Return1(Var("b"))),
     Seq2(Call(<<"a">>), Try(Call(<<"b">>), Throw(Var("e"))))}
Outer(e) ==
    {Try(e, Pair("e", "b")), Try(Throw(Cv), e),
     If3(Var("a"), e, Throw(Var("b"))), Match(Var("a"), Constant1, Throw(Var("a")), e),
     Argument("b", Parts(Ident("x"), Dummy), e), Update(Var("a"), e)}
Nests == UNION {{o} \union {Let("z", o, e) : e \in {Var("z"), Call(<<"z", "a">>)}} :
                    o \in UNION {Outer(e) : e \in Inner}}
Twice == UNION {Outer(o) : o \in UNION {Outer(e) : e \in Inner}}

\* The branch for a failed match is put off once for each of two tests.  A
\* match that always fits leaves two registers over, which the second copy takes.
TwoTests == {Unnamed("b", Argument("a", Parts(p, q), e)) :
    p \in {Parts(Ident("x"), Dummy), Parts(Ident("x"), Ident("y")), Constant1},
    q \in {Dummy, Ident("z")},
    e \in {Var("b"), Call(<<"b", "a">>)} \union {Seq2(Call(<<"b">>), o) : o \in Inner}}
MCFnBodies == Programs \union TwoTests \union {Use(e) : e \in Nests \union Twice}
==============================================================================
