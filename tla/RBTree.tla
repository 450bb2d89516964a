------------------------------- MODULE RBTree -------------------------------
(* Dictionaries (src/rbtree.c): red-black trees of counted nodes.  A node     *)
(* never changes once it is reachable; `set` builds new nodes on the way from *)
(* the root and shares the rest with its argument.                            *)
(*                                                                            *)
(* An entry of a tree is a pair of a key and a payload, an object of its own  *)
(* with a count (all references to equal pairs are counted together).  Keys   *)
(* are numbers, compared by a method that may throw.                          *)
EXTENDS Integers, Sequences, FiniteSets, SequencesExt

CONSTANTS Handle,       \* the trees the program can hold at a time: numbers
          Key,          \* keys: numbers
          Payload,      \* what a key is mapped to
          Nil,          \* eth_nil, the value of an empty tree's node
          Free,         \* no tree under this handle
          Null,         \* the null pointer
          SharedKey,    \* bound: the keys of trees while there are two, and
                        \* of a tree with a payload that is not plain
          Plain,        \* payloads a tree with any keys may hold
          MaxNode       \* number of node addresses

ASSUME RBTreeAssumption ==
    /\ Handle = 1 .. Cardinality(Handle)
    /\ Key \subseteq Int /\ SharedKey \subseteq Key
    /\ Plain \subseteq Payload
    /\ Null \notin Nat
    /\ MaxNode \in Nat

VARIABLES mem,          \* node: the allocated nodes; val: references to each
                        \* pair (and to nil) from nodes
          tree,         \* the root of the tree under each handle
          call          \* the last call; read by no action

vars == <<mem, tree, call>>

\* What tells states apart: the calls are the same whatever the last one was.
View == <<mem, tree>>

Address == 1 .. MaxNode
Pair == Key \X Payload
Color == {"EMPTY", "RED", "BLACK"}
NodeOver(child) == [rc : Nat, color : Color, value : Pair \union {Nil},
                    left : child \union {Null}, right : child \union {Null}]

TypeOK ==
    /\ DOMAIN mem.node \subseteq Address
    /\ \A n \in DOMAIN mem.node : mem.node[n] \in NodeOver(DOMAIN mem.node)
    /\ mem.val \in [Pair \union {Nil} -> Nat]
    /\ tree \in [Handle -> DOMAIN mem.node \union {Free}]

Live == {h \in Handle : tree[h] # Free}

-----------------------------------------------------------------------------
(* Nodes.  Operators take a memory m and return a new one; those that make a *)
(* node return it, too.                                                      *)

Left(m, n) == m.node[n].left
Right(m, n) == m.node[n].right
Val(m, n) == m.node[n].value
IsRed(m, n) == n # Null /\ m.node[n].color = "RED"
IsTree(m, n) == n # Null /\ m.node[n].color # "EMPTY"

RefNode(m, n) == IF n = Null THEN m ELSE [m EXCEPT !.node[n].rc = @ + 1]

Fresh(m) == CHOOSE a \in Address \ DOMAIN m.node :
                \A b \in Address \ DOMAIN m.node : a <= b

Allocate(m, a, node) ==
    [n |-> a, m |-> [m EXCEPT !.node = [b \in DOMAIN @ \union {a} |->
                                           IF b = a THEN node ELSE @[b]]]]

\* Mutant of MakeNode: the new node does not count its value.
MakeNodeUncounted(m, color, x, a, b) ==
    Allocate(RefNode(RefNode(m, a), b), Fresh(m),
             [rc |-> 0, color |-> color, value |-> x, left |-> a, right |-> b])

MakeNode(m, color, x, a, b) ==
    Allocate([RefNode(RefNode(m, a), b) EXCEPT !.val[x] = @ + 1], Fresh(m),
             [rc |-> 0, color |-> color, value |-> x, left |-> a, right |-> b])

\* eth_unref of a node, and destroy when that was the last reference.
RECURSIVE Unref(_, _), Destroyed(_, _)

\* Mutant of Unref: a node that one other pointer leads to goes as well.
UnrefEager(m, n) ==
    IF n = Null THEN m
    ELSE IF m.node[n].rc > 2 THEN [m EXCEPT !.node[n].rc = @ - 1]
    ELSE Destroyed(m, n)

Unref(m, n) ==
    IF n = Null THEN m
    ELSE IF m.node[n].rc > 1 THEN [m EXCEPT !.node[n].rc = @ - 1]
    ELSE Destroyed(m, n)

Destroyed(m, n) ==
    [Unref(Unref(m, Left(m, n)), Right(m, n)) EXCEPT
        !.val[Val(m, n)] = @ - 1,
        !.node = [b \in DOMAIN @ \ {n} |-> @[b]]]

\* eth_drop: only a node nobody refers to goes.
Drop(m, n) == IF m.node[n].rc = 0 THEN Destroyed(m, n) ELSE m

-----------------------------------------------------------------------------
(* Insertion *)

\* What a node is made of.
Parts(x, a, b) == [x |-> x, a |-> a, b |-> b]
PartsOf(m, n) == Parts(Val(m, n), Left(m, n), Right(m, n))

\* The rotation balance makes of a black node with value x, left a, right b:
\* the parts of the two black children, the value above them and the red node
\* that is dropped.  Empty when there is nothing to rotate: the right side is
\* only looked at when the left child is not red.
RotateLeftSide(m, x, a, b) ==
    IF IsRed(m, Left(m, a))
    THEN {[top |-> Val(m, a), left |-> PartsOf(m, Left(m, a)),
           right |-> Parts(x, Right(m, a), b), old |-> a]}
    ELSE IF IsRed(m, Right(m, a))
    THEN {[top |-> Val(m, Right(m, a)),
           left |-> Parts(Val(m, a), Left(m, a), Left(m, Right(m, a))),
           right |-> Parts(x, Right(m, Right(m, a)), b), old |-> a]}
    ELSE {}

RotateRightSide(m, x, a, b) ==
    IF IsRed(m, Left(m, b))
    THEN {[top |-> Val(m, Left(m, b)), left |-> Parts(x, a, Left(m, Left(m, b))),
           right |-> Parts(Val(m, b), Right(m, Left(m, b)), Right(m, b)), old |-> b]}
    ELSE IF IsRed(m, Right(m, b))
    THEN {[top |-> Val(m, b), left |-> Parts(x, a, Left(m, b)),
           right |-> PartsOf(m, Right(m, b)), old |-> b]}
    ELSE {}

Rotations(m, color, x, a, b) ==
    IF color # "BLACK" THEN {}
    ELSE IF IsRed(m, a) THEN RotateLeftSide(m, x, a, b)
    ELSE IF IsRed(m, b) THEN RotateRightSide(m, x, a, b)
    ELSE {}

Black(m, parts) == MakeNode(m, "BLACK", parts.x, parts.a, parts.b)

\* Mutant of Top: the node that is not needed any more stays.
TopKept(l, r, top, old) == MakeNode(r.m, "RED", top, l.n, r.n)

\* The two black nodes, the red one above them, and the end of the old one.
Top(l, r, top, old) ==
    LET made == MakeNode(r.m, "RED", top, l.n, r.n)
    IN  [made EXCEPT !.m = Drop(@, old)]

RightThen(l, rot) == Top(l, Black(l.m, rot.right), rot.top, rot.old)
Rotated(m, rot) == RightThen(Black(m, rot.left), rot)

\* Mutant of Balance: a rotation forgets to colour the new children black.
BalanceByOne(m, color, x, a, b) ==
    IF Rotations(m, color, x, a, b) = {} THEN MakeNode(m, color, x, a, b)
    ELSE LET rot == CHOOSE r \in Rotations(m, color, x, a, b) : TRUE
             l == MakeNode(m, "RED", rot.left.x, rot.left.a, rot.left.b)
         IN  RightThen(l, rot)

Balance(m, color, x, a, b) ==
    IF Rotations(m, color, x, a, b) = {} THEN MakeNode(m, color, x, a, b)
    ELSE Rotated(m, CHOOSE r \in Rotations(m, color, x, a, b) : TRUE)

RECURSIVE InsertAux(_, _, _, _)

RightGrown(m, t, sub) ==
    IF sub.n = Null THEN sub
    ELSE Balance(sub.m, m.node[t].color, Val(m, t), Left(m, t), sub.n)
LeftGrown(m, t, sub) ==
    IF sub.n = Null THEN sub
    ELSE Balance(sub.m, m.node[t].color, Val(m, t), sub.n, Right(m, t))

\* Mutant of InsertAux: an entry that is already there stays as it is.
InsertAuxKept(m, t, x, broken) ==
    IF ~IsTree(m, t) THEN MakeNode(m, "RED", x, Null, Null)
    ELSE IF Val(m, t)[1] \in broken THEN [n |-> Null, m |-> m]
    ELSE IF x[1] > Val(m, t)[1] THEN RightGrown(m, t, InsertAux(m, Right(m, t), x, broken))
    ELSE IF x[1] < Val(m, t)[1] THEN LeftGrown(m, t, InsertAux(m, Left(m, t), x, broken))
    ELSE MakeNode(m, m.node[t].color, Val(m, t), Left(m, t), Right(m, t))

\* insert_aux.  The comparison with the keys in broken throws, which leaves
\* before anything is made: the node of the result is Null then.
InsertAux(m, t, x, broken) ==
    IF ~IsTree(m, t) THEN MakeNode(m, "RED", x, Null, Null)
    ELSE IF Val(m, t)[1] \in broken THEN [n |-> Null, m |-> m]
    ELSE IF x[1] > Val(m, t)[1] THEN RightGrown(m, t, InsertAux(m, Right(m, t), x, broken))
    ELSE IF x[1] < Val(m, t)[1] THEN LeftGrown(m, t, InsertAux(m, Left(m, t), x, broken))
    ELSE MakeNode(m, m.node[t].color, x, Left(m, t), Right(m, t))

\* insert
Blackened(r) == IF r.n = Null THEN r ELSE [r EXCEPT !.m.node[r.n].color = "BLACK"]
Insert(m, t, x, broken) == Blackened(InsertAux(m, t, x, broken))

\* find: the pair, or Null when there is none or a comparison threw.
RECURSIVE Find(_, _, _, _)
Find(m, t, k, broken) ==
    IF ~IsTree(m, t) \/ (IsTree(m, t) /\ Val(m, t)[1] \in broken) THEN Null
    ELSE IF k < Val(m, t)[1] THEN Find(m, Left(m, t), k, broken)
    ELSE IF k > Val(m, t)[1] THEN Find(m, Right(m, t), k, broken)
    ELSE Val(m, t)

RECURSIVE Foreach(_, _)

\* Mutant of Foreach: the right side is left out under a node without a left one.
ForeachLeft(m, t) ==
    IF ~IsTree(m, t) THEN <<>>
    ELSE IF Left(m, t) = Null THEN <<Val(m, t)>>
    ELSE <<Val(m, t)>> \o Foreach(m, Left(m, t)) \o Foreach(m, Right(m, t))

\* foreach, forward: a node, what is left of it, what is right of it.
Foreach(m, t) ==
    IF ~IsTree(m, t) THEN <<>>
    ELSE <<Val(m, t)>> \o Foreach(m, Left(m, t)) \o Foreach(m, Right(m, t))

-----------------------------------------------------------------------------
\* Addresses mean nothing: nodes are renumbered in the order in which the
\* trees reach them, those that no tree reaches last.
RECURSIVE Visit(_, _, _)
Visit(m, seen, n) ==
    IF n \notin DOMAIN m.node \/ n \in Range(seen) THEN seen
    ELSE Visit(m, Visit(m, Append(seen, n), Left(m, n)), Right(m, n))

RECURSIVE Order(_, _, _, _)
Order(m, ts, seen, h) ==
    IF h \notin Handle THEN seen \o SetToSortSeq((DOMAIN m.node) \ Range(seen), <)
    ELSE Order(m, ts, Visit(m, seen, ts[h]), h + 1)

Moved(place, n) == IF n \in DOMAIN place THEN place[n] ELSE n

Settle(m, ts) ==
    \E order \in {Order(m, ts, <<>>, 1)} : \E place \in {AntiFunction(order)} :
        /\ mem' = [m EXCEPT !.node = [a \in DOMAIN order |->
              [@[order[a]] EXCEPT !.left = Moved(place, @), !.right = Moved(place, @)]]]
        /\ tree' = [h \in Handle |-> Moved(place, ts[h])]

Init ==
    /\ mem = [node |-> <<>>, val |-> [x \in Pair \union {Nil} |-> 0]]
    /\ tree = [h \in Handle |-> Free]
    /\ call = [turn |-> 0, did |-> [op |-> "none"]]

\* The call w is made.
Made(w) == call' = [turn |-> 1 - call.turn, did |-> w]
SetOf(g, h, x, broken, r) ==
    [op |-> "set", to |-> g, of |-> h, entry |-> x, broken |-> broken, threw |-> r.n = Null]

\* Handle g holds the tree r; r.n is Null when there is none to hold.
Held(r, g) == Settle(RefNode(r.m, r.n), [tree EXCEPT ![g] = r.n])

Keys(m, t) == {x[1] : x \in Range(Foreach(m, t))}
Payloads(m, t) == {x[2] : x \in Range(Foreach(m, t))}
Small(h) == tree[h] # Free => Keys(mem, tree[h]) \subseteq SharedKey
Stays(h, x) ==
    \/ Small(h) /\ x[1] \in SharedKey
    \/ Cardinality(Live) = 1 /\ Payloads(mem, tree[h]) \union {x[2]} \subseteq Plain

\* eth_create_rbtree
Create(g) ==
    /\ tree[g] = Free /\ \A h \in Handle : Small(h)
    /\ Held(MakeNode(mem, "EMPTY", Nil, Null, Null), g)
    /\ Made([op |-> "create", to |-> g])

\* set_impl while the program keeps the argument: the result is a tree of its
\* own.  When a comparison throws there is no result.
Set(g, h, x, broken) ==
    /\ tree[g] = Free /\ Small(h) /\ x[1] \in SharedKey
    /\ \E r \in {Insert(mem, tree[h], x, broken)} :
           /\ IF r.n = Null THEN Settle(r.m, tree) ELSE Held(r, g)
           /\ Made(SetOf(g, h, x, broken, r))

\* set_impl on the last reference to the argument: the result replaces it.
SetLast(h, x, broken) ==
    /\ Stays(h, x)
    /\ \E r \in {Insert(mem, tree[h], x, broken)} :
           /\ IF r.n = Null THEN Settle(r.m, tree)
              ELSE Held([r EXCEPT !.m = Unref(@, tree[h])], h)
           /\ Made(SetOf(h, h, x, broken, r))

Forget(h) ==
    /\ Settle(Unref(mem, tree[h]), [tree EXCEPT ![h] = Free])
    /\ Made([op |-> "forget", of |-> h])

Next ==
    \/ \E g \in Handle : Create(g)
    \/ \E h \in Live, x \in Pair :
           \E broken \in {{}} \union {{k} : k \in Keys(mem, tree[h])} :
               \/ SetLast(h, x, broken)
               \/ \E g \in Handle : Set(g, h, x, broken)
    \/ \E h \in Live : Forget(h)

Spec == Init /\ [][Next]_vars

-----------------------------------------------------------------------------
(* Properties *)

Pointers(n) ==
    Cardinality({p \in DOMAIN mem.node : Left(mem, p) = n})
  + Cardinality({p \in DOMAIN mem.node : Right(mem, p) = n})
  + Cardinality({h \in Live : tree[h] = n})

\* The count of a node is the number of its parents and handles, so the nodes
\* a rotation makes superfluous are gone, and none that a tree still shares.
NodeCountsExact ==
    \A n \in DOMAIN mem.node : mem.node[n].rc = Pointers(n) /\ mem.node[n].rc > 0

\* Every entry is referenced once by each node that holds it: an entry that was
\* overwritten or whose insertion threw is not kept alive.
ValueCountsExact ==
    \A x \in Pair \union {Nil} :
        mem.val[x] = Cardinality({n \in DOMAIN mem.node : Val(mem, n) = x})

RECURSIVE BlackHeights(_, _)
BlackHeights(m, t) ==
    IF ~IsTree(m, t) THEN {0}
    ELSE {d + (IF IsRed(m, t) THEN 0 ELSE 1) :
             d \in BlackHeights(m, Left(m, t)) \union BlackHeights(m, Right(m, t))}

\* Every path from a root to its leaves passes the same number of black nodes,
\* whatever rotations the versions went through.
EqualBlackHeights ==
    \A h \in Live : Cardinality(BlackHeights(mem, tree[h])) = 1

\* What iteration delivers: every key once, and with the payload find gives.
IterationMatchesFind ==
    \A h \in Live :
        /\ Len(Foreach(mem, tree[h])) = Cardinality(Keys(mem, tree[h]))
        /\ \A k \in Key :
              LET found == Find(mem, tree[h], k, {})
              IN  IF k \in Keys(mem, tree[h]) THEN found \in Range(Foreach(mem, tree[h]))
                  ELSE found = Null

-----------------------------------------------------------------------------
(* Refinement *)

\* A tree as the map that find makes of it.
MapOf(t) ==
    LET found == [k \in Key |-> Find(mem, t, k, {})]
    IN  [k \in {j \in Key : found[j] # Null} |-> found[k][2]]

Contents == [h \in Handle |-> IF tree[h] = Free THEN Free ELSE MapOf(tree[h])]

Abstract == INSTANCE PersistentMap WITH content <- Contents

\* Every tree is a map of its own, and every call does to the maps what it is
\* asked to: an insertion puts this payload under this key in this tree and shows
\* in no other version, and one throws only where a comparison on its way may,
\* and changes nothing then.
ImplementsMaps == Abstract!MapSpec

=============================================================================
