---------------------------- MODULE MCLazyRecords ----------------------------
(* Small instances of LazyRecords: one type with two fields, of which the     *)
(* second may be assigned, and patterns and updates that ask for one of them, *)
(* for both, and for a third that it does not have.                           *)
EXTENDS LazyRecords

MCShapes == {{1, 2}}
MCWanted == {<<2>>, <<1, 2>>, <<1, 3>>}
MCMutable == {2}

Held(o, n) == [o EXCEPT !.rc = n]

\* A lazy value, and a record that holds it; a record with a lazy value whose
\* body looks at another record.
Shared ==
    [heap |-> <<Held(Object("fun", <<>>, {}), 1), Held(Object("lazy", <<1>>, {}), 2),
                Held(Object("rec", <<2, Const>>, {1, 2}), 1)>>,
     own |-> <<2, 3>>]
Looking ==
    [heap |-> <<Held(Object("rec", <<Const, Const>>, {1, 2}), 1),
                Held(Object("fun", <<1>>, {}), 1), Held(Object("lazy", <<2>>, {}), 1),
                Held(Object("rec", <<3, Const>>, {1, 2}), 1)>>,
     own |-> <<4>>]
MCStart == {Shared, Looking}
=============================================================================
