------------------------------- MODULE MCBodies -------------------------------
(* Small function bodies with the arguments a and b, the captures f and c and  *)
(* the name self of the function itself.                                       *)
EXTENDS RcInsertion

Cv == [op |-> "cval"]
Var(x) == [op |-> "var", name |-> x]
Vars(xs) == [i \in DOMAIN xs |-> Var(xs[i])]
Call(xs) == [op |-> "apply", fn |-> Var("f"), args |-> Vars(xs)]
Self(e1, e2) == [op |-> "apply", fn |-> Var("self"), args |-> <<e1, e2>>]
Pair(x, y) == [op |-> "cons", lhs |-> Var(x), rhs |-> Var(y)]
Closure(xs) == [op |-> "fn", caps |-> xs]
Let(x, e1, e2) == [op |-> "let", name |-> x, e1 |-> e1, e2 |-> e2]
Seq2(e1, e2) == [op |-> "seq", e1 |-> e1, e2 |-> e2]
If3(on, then, els) == [op |-> "if", on |-> on, then |-> then, els |-> els]
Ident(x) == [pat |-> "IDENT", name |-> x]
Parts(p, q) == [pat |-> "UNPACK", subs |-> <<p, q>>]
Constant1 == [pat |-> "CONSTANT"]
Match(on, pat, then, els) ==
    [op |-> "match", on |-> on, pat |-> pat, then |-> then, els |-> els, likely |-> 0]
Try(then, els) == [op |-> "try", then |-> then, exnvar |-> "e", els |-> els]
Throw(e) == [op |-> "throw", exn |-> e]
Return1(e) == [op |-> "return", e1 |-> e]
Update(src, field) == [op |-> "update", src |-> src, field |-> field]

\* An argument with a pattern; one without a name has one that always fits.
Argument(x, pat, e) == [Match(Var(x), pat, e, Throw(Cv)) EXCEPT !.likely = 1]
Unnamed(x, e) == Argument(x, Dummy, e)
Use(e) == Unnamed("a", Unnamed("b", e))

\* The functions that use both arguments, and the others with them unnamed.
UsesBoth(b) == \A v \in {1, 2} : \E i \in DOMAIN b.ins : Uses(b, i, v)
Bodies(es) == {Use(e) : e \in es}
    \union {e \in es : UsesBoth(BuildBody(e, <<"a", "b">>, <<"f", "c">>, <<"self">>))}

\* Straight-line steps that make a value of the values in xs.
Simple(xs) ==
    {Var(x) : x \in xs} \union {Call(<<x>>) : x \in xs}
    \union {Call(<<x, y>>) : x, y \in xs} \union {Pair(x, y) : x, y \in xs}

\* What a branch does.
Leaf(xs) == {Cv, Throw(Cv)} \union {Var(x) : x \in xs} \union {Call(<<x>>) : x \in xs}

Chains == {Let("x", e1, e2) :
    e1 \in Simple({"a", "b"}) \union {Closure(<<"a", "a">>), Closure(<<"a", "c">>)},
    e2 \in {Var("x"), Pair("x", "a"), Pair("x", "x"), Call(<<"x", "b">>), Seq2(Call(<<"x">>), Var("a"))}}

Branches == {If3(on, then, els) : on \in {Var("a"), Call(<<"b">>)},
                                  then, els \in Leaf({"a", "b"})}
Fields == {Match(Var("a"), Parts(Ident("x"), Ident("y")), then, els) :
    then \in Leaf({"a", "x"}) \union {Pair("y", "x"), Call(<<"x", "b">>), Seq2(Call(<<"a">>), Var("y"))},
    els \in {Var("b"), Call(<<"a">>), Throw(Cv)}}
Deep == {Match(Var("a"), Parts(p, Ident("z")), then, els) :
    p \in {Parts(Ident("x"), Ident("y")), Constant1},
    then \in {Var("z"), Call(<<"z", "a">>), Pair("b", "z")}, els \in {Var("b"), Call(<<"a">>), Throw(Cv)}}
    \union {Match(Var("a"), Parts(Parts(Ident("x"), Ident("y")), Dummy), then, Var("b")) :
                then \in {Pair("y", "x"), Seq2(Call(<<"b">>), Var("x")), Throw(Var("y"))}}
    \union {Argument("a", Parts(Ident("x"), Ident("y")), then) :
                then \in {Var("x"), Pair("y", "b"), Seq2(Call(<<"y">>), Var("a"))}}
Nested == {If3(Var("a"), If3(Var("b"), then, els), Cv) : then, els \in Leaf({"a", "b"})}
Joined == {Let("z", e, e2) : e \in Branches \union Nested \union Fields,
                             e2 \in {Var("z"), Pair("z", "a")}}
Guarded == {Let("z", Try(then, els), e2) :
    then \in Leaf({"a", "b"}) \union {If3(Var("a"), Throw(Cv), Call(<<"b">>))},
    els \in {Cv, Var("a"), Var("e"), Call(<<"e", "b">>), Throw(Var("e"))},
    e2 \in {Var("z"), Pair("z", "b"), Call(<<"z", "a">>)}}
Updated == {Let("z", Update(Var("a"), Var("b")), e2) : e2 \in {Var("z"), Pair("z", "a"), Pair("z", "z")}}

\* Self-calls whose second argument is not the old first one.
Self2(xs) == {Self(e1, e2) : e1 \in {Var(x) : x \in xs} \union {Call(<<"b">>), Pair("a", "b")},
                             e2 \in {Var(x) : x \in xs \ {"a"}} \union {Cv, Call(<<"a">>), Pair("b", "a")}}
Loops == {If3(Var("a"), then, els) : then \in Self2({"a", "b", "c"}), els \in {Var("b"), Throw(Cv)}}
    \union {Match(Var("a"), Parts(Ident("x"), Ident("y")), then, Var("b")) : then \in Self2({"b", "x", "y"})}
    \union {Let("z", Self(Var("a"), Var("b")), e2) : e2 \in {Var("z"), Pair("z", "a"), Self(Var("z"), Var("b"))}}

Programs == Bodies(UNION {Chains, Updated, Branches, Fields, Deep, Joined, Guarded, Loops})

=============================================================================
