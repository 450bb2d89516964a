---------------------------- MODULE MCFunctionRun ----------------------------
(* The ways to call the small functions.                                      *)
EXTENDS FunctionRun, MCBodies

\* Objects: 1 and 2 are the arguments, 3 is captured, 4 and 5 are the parts of
\* a pair.  An argument is given up by the caller or held, alone or by many,
\* and both may be one object.
Obj(held, kind, refs) == [rc |-> held, kind |-> kind, refs |-> refs, held |-> held]
Part(held) == [rc |-> held + 1, kind |-> "atom", refs |-> <<>>, held |-> held]
Heap(ka, ha, hb, hc, hp) ==
    << Obj(ha, ka, IF ka = "pair" THEN <<4, 5>> ELSE <<>>), Obj(hb, "atom", <<>>),
       Obj(hc, "atom", <<>>) >> \o (IF ka = "pair" THEN <<Part(hp), Part(0)>> ELSE <<>>)
Distinct == {[heap |-> Heap(k, ha, 0, 1, 0), args |-> <<1, 2>>, cap |-> 3] :
                    k \in {"atom", "pair"}, ha \in {0, 1}}
Aliased == {[heap |-> Heap("pair", h, 1, 1, 1), args |-> <<1, 1>>, cap |-> 3] :
                    h \in {0, 1}}
Captured == {[heap |-> Heap("atom", 1, 0, 1, 0), args |-> <<1, 2>>, cap |-> 1]}
\* The first part of the pair is a pair of parts 6 and 7.
Deepened == {[heap |-> [Heap("pair", h, 0, 1, 0) EXCEPT ![4] = [Part(0) EXCEPT !.kind = "pair", !.refs = <<6, 7>>]]
                        \o <<Part(0), Part(1)>>,
              args |-> <<1, 2>>, cap |-> 3] : h \in {0, 1}}
Entries == Distinct \union Aliased \union Captured \union Deepened

=============================================================================
