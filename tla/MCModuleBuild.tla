------------------------------ MODULE MCModuleBuild ------------------------------
(* Programs for ModuleBuild: every expression of one operation, in every       *)
(* context that binds names, hides them, captures them or leaves them.         *)
EXTENDS ModuleBuild

MCSymbolId == [f \in {"a", "b", "car", "cdr", "what"} |->
                 CASE f = "a" -> 2 [] f = "b" -> 1 [] f = "car" -> 3 [] f = "cdr" -> 4
                   [] f = "what" -> 5]

AB == RecordType(<<"a", "b">>)
R == Tup(AB, <<Num(1), Num(2)>>)
MCBuiltins ==
    << [ident |-> "show", val |-> Prim("show"), attr |-> {"BUILTIN"}],
       [ident |-> "throw", val |-> Prim("throw"), attr |-> {"BUILTIN"}],
       [ident |-> "+", val |-> Prim("show"), attr |-> {"BUILTIN"}],
       [ident |-> "y", val |-> Num(7), attr |-> {}] >>

X == IdentAst("x")
Y == IdentAst("y")
One == CvalAst(Num(1))
No == CvalAst(False)
Rec == CvalAst(R)
App(f, e) == ApplyAst(IdentAst(f), <<e>>)
Show(e) == App("show", e)
Bound(x) == IdentPat(x, {})
Let(x, v, body) == LetAst(<<Bound(x)>>, <<v>>, body)

Atoms == {X, Y, No, Show(One)}
RecordPatterns ==
    {RecordPat(<<"a", "b">>, <<Bound("x"), Bound("y")>>),
     RecordPat(<<"b">>, <<Bound("x")>>),
     WithAlias(RecordPat(<<"a">>, <<ConstantPat(Num(1))>>), "x"),
     UnpackPat(Pair, <<"cdr", "car">>, <<Bound("y"), Dummy>>),
     Bound("y"), ConstantPat(Num(1))}

Binary == {BinopAst(op, l, r) : op \in {"+", "<", "eq", "::"}, l \in Atoms, r \in Atoms}
Logic == {AndAst(l, r) : l \in Atoms, r \in Atoms} \cup {OrAst(l, r) : l \in Atoms, r \in Atoms}
Branch == {IfAst(c, X, Show(Y)) : c \in Atoms}
            \cup {MatchAst(p, e, SeqAst(Show(X), Y), X) : p \in RecordPatterns, e \in {X, Show(Rec)}}
Local == {LetAst(<<Bound("x"), Bound("y")>>, <<v, X>>, BinopAst("::", X, Y)) : v \in Atoms \cup {Y}}
Records == {MakeRecordAst(AB, <<"b", "a">>, <<l, r>>) : l \in Atoms, r \in Atoms}
            \cup {UpdateAst(e, <<Show(X), Show(Y)>>, <<"a", "b">>) : e \in {X, Rec}}
            \cup {AccessAst(Rec, f) : f \in {"a", "car"}}
Throwing == {App("throw", e) : e \in {X, CvalAst(ExitObject)}}
            \cup {TryAst(p, App("throw", e), Show(X)) :
                    p \in {Dummy, Bound("x"), ConstantPat(Num(1))}, e \in {X, Y, CvalAst(ExitObject)}}
            \cup {AssertAst(e) : e \in Atoms} \cup {ReturnAst(Show(X))}
Other == {UnopAst("not", e) : e \in Atoms} \cup {DefinedAst(x) : x \in {"x", "z"}}
            \cup {EvmacAst(e) : e \in {Y, Show(Y), X, FnAst(<<"x">>, BinopAst("+", X, Y))}}
            \cup {AssignAst("x", Y), IdentAst("z"), ThisAst, UnopAst("~", Show(Y))}
Functions == {FnAst(<<"p">>, e) : e \in {X, BinopAst("+", X, IdentAst("p"))}}
            \cup {ApplyAst(FnAst(<<"x">>, e), <<Y>>) : e \in {X, Show(X)}}
Simple == Binary \cup Logic \cup Branch \cup Local \cup Records \cup Throwing \cup Other \cup Functions

\* Access to a value that is not constant: in functions with an argument.
Accesses == {BinopAst("::", AccessAst(X, f), SeqAst(AccessAst(Y, "b"), X)) : f \in {"a", "car"}}

On(f, e) == ApplyAst(f, <<e>>)
InFunction(h) ==
    {On(FnAst(<<"p">>, h), Y),
     On(FnAst(<<"x">>, h), Y),
     On(FnWithPatterns(<<UnpackPat(Pair, <<"car", "cdr">>, <<Bound("x"), Bound("y")>>)>>, h),
          BinopAst("::", Show(Y), X)),
     ApplyAst(FnAst(<<"x", "y">>, h), <<Show(Y), X>>),
     On(On(FnAst(<<"p">>, FnAst(<<"q">>, SeqAst(Show(IdentAst("p")), h))), X), Y),
     Let("f", FnAst(<<"y">>, h), SeqAst(App("f", One), App("f", X))),
     LetrecAst(<<Bound("f")>>,
               <<FnAst(<<"n">>, IfAst(BinopAst("!=", IdentAst("n"), One), h,
                                      App("f", CvalAst(Num(2)))))>>,
               App("f", One)),
     LetrecAst(<<Bound("x"), Bound("g")>>,
               <<FnAst(<<"n">>, IdentAst("n")), FnAst(<<"n">>, h)>>, App("g", Y)),
     On(FnAst(<<"p">>, SeqAst(ReturnAst(h), Show(One))), Y)}
InPlace(h) ==
    {h, SeqAst(Show(Y), h), SeqAst(h, Show(X)), Show(h),
     ApplyAst(FnAst(<<>>, h), <<>>),
     Let("x", h, BinopAst("::", X, Y)),
     LetAst(<<IdentPat("x", {"PUB"}), IdentPat("p", {"PUB"})>>, <<h, X>>, SeqAst(Show(X), IdentAst("p"))),
     LetAst(<<IdentPat("x", {"MUT"})>>, <<ApplyAst(CvalAst(Prim("create_ref")), <<One>>)>>,
            BinopAst("::", h, X)),
     LetAst(<<Bound("+")>>, <<FnAst(<<"p", "q">>, BinopAst("::", IdentAst("p"), IdentAst("q")))>>, h),
     MatchAst(RecordPat(<<"b", "a">>, <<Bound("x"), Bound("p")>>), Show(Rec), h, Y),
     MatchAst(ConstantPat(Num(1)), X, SeqAst(Show(X), h), h),
     LetAst(<<RecordStarPat({})>>, <<Rec>>, BinopAst("::", h, IdentAst("b"))),
     TryAst(Bound("x"), BinopAst("::", h, App("throw", Y)), BinopAst("::", X, Y)),
     TryAst(Dummy, App("throw", Y), h),
     TryAst(Dummy, h, X),
     AndAst(h, Show(X)), OrAst(Y, h)}

\* x is a constant or not; both can be seen from outside.
Prefixed(e) ==
    {LetAst(<<IdentPat("x", {"PUB"})>>, <<v>>, e) : v \in {One, Show(Rec)}}
        \cup {LetAst(<<Bound("x"), IdentPat("y", {"PUB"})>>, <<Show(One), Show(No)>>, e)}
MCParts == Simple \cup Accesses
MCPrograms(h) ==
    UNION {Prefixed(c) : c \in InFunction(h) \cup IF h \in Accesses THEN {} ELSE InPlace(h)}

\* let x = show 1 in let y = show {a = 1, b = 2} in y.a :: x
AccessAtTop == {BinopAst("::", AccessAst(Y, f), X) : f \in {"a", "b"}}
AtTop(h) ==
    {LetAst(<<Bound("x")>>, <<Show(One)>>, LetAst(<<Bound("y")>>, <<Show(Rec)>>, h))}
===============================================================================
