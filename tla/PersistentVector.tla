-------------------------- MODULE PersistentVector --------------------------
(* Vectors (src/vector.c): a tree of nodes with N slots each, and a tail that *)
(* is a node of its own and moves into the tree when it is full.  Nodes are   *)
(* counted and shared between vectors; a node that others share is copied     *)
(* before it is written, one that nobody shares is written in place.          *)
(*                                                                            *)
(* Slots are filled from the left, as the code relies on.  Only what a node   *)
(* holds and its count is kept; NODE_SIZE is the constant N.                  *)
EXTENDS Naturals, Sequences, FiniteSets, SequencesExt

CONSTANTS N,            \* NODE_SIZE
          Handle,       \* the vectors the program can hold at a time: numbers
          Value,        \* elements
          Rare,         \* the elements that MaxRare bounds
          Free,         \* no vector under this handle
          Null,         \* an empty slot, and the root of an empty tree
          MaxLen,       \* bound on the length of a vector that is alone
          Together,     \* bound: the lengths of vectors while there are two
          MaxNode,      \* number of node addresses
          Admitted,     \* the calls that go wrong and are made all the same:
                        \* "insert", "push"
          MaxRare       \* a rare element is only written while fewer leaf
                        \* slots hold it (elements are never compared, so a
                        \* few marked slots show every write that goes astray)

ASSUME VectorAssumption ==
    /\ N \in Nat /\ N > 1
    /\ Handle = 1 .. Cardinality(Handle)
    /\ Null \notin Nat \union Value
    /\ Rare \subseteq Value /\ Admitted \subseteq {"insert", "push"}
    /\ MaxLen \in Nat /\ Together \subseteq Nat /\ MaxNode \in Nat /\ MaxRare \in Nat

VARIABLES mem,          \* node: the allocated nodes; val: references to each
                        \* value from leaf nodes; ub: what is undefined in C
          vec,          \* the vector under each handle
          call          \* the last call; read by no action

vars == <<mem, vec, call>>

\* What tells states apart: the calls are the same whatever the last one was.
View == <<mem, vec>>

\* A recursion runs past the leaves (it has no end, or shifts by less than 0);
\* a pointer leads to a node that was freed.  The program stops there.
Undefined == {"recursion", "dangling"}

Slot == 0 .. N - 1
Address == 1 .. MaxNode
Node == [rc : Nat, sub : [Slot -> Address \union Value \union {Null}]]
Vector == [size : Nat, depth : Nat, root : Address \union {Null},
           tailsize : 0 .. N, tail : Address]

TypeOK ==
    /\ DOMAIN mem.node \subseteq Address
    /\ \A n \in DOMAIN mem.node : mem.node[n] \in Node
    /\ mem.val \in [Value -> Nat]
    /\ mem.ub \subseteq Undefined
    /\ vec \in [Handle -> Vector \union {Free}]

Live == {h \in Handle : vec[h] # Free}

-----------------------------------------------------------------------------
(* Nodes.  Every operator takes a memory m and returns a new one; one that   *)
(* makes a node returns it, too.                                             *)

Pow(d) == N ^ d
Sub(m, n, i) == IF n \in DOMAIN m.node THEN m.node[n].sub[i] ELSE Null

\* Slots that are read before the first empty one.
Leading(m, n) == {i \in Slot : \A j \in 0 .. i : Sub(m, n, j) # Null}

RefNode(m, n) == [m EXCEPT !.node[n].rc = @ + 1]
DecNode(m, n) == [m EXCEPT !.node[n].rc = @ - 1]
Store(m, n, i, c) == [m EXCEPT !.node[n].sub[i] = c]
RefVal(m, x) == [m EXCEPT !.val[x] = @ + 1]
UnrefVal(m, x) == [m EXCEPT !.val[x] = @ - 1]

Fresh(m) == CHOOSE a \in Address \ DOMAIN m.node :
                \A b \in Address \ DOMAIN m.node : a <= b

Allocate(m, sub) ==
    LET a == Fresh(m)
    IN  [n |-> a,
         m |-> [m EXCEPT !.node = [b \in DOMAIN @ \union {a} |->
                    IF b = a THEN [rc |-> 0, sub |-> sub] ELSE @[b]]]]

CreateNode(m) == Allocate(m, [i \in Slot |-> Null])

CopiedSub(m, n) == [i \in Slot |-> IF i \in Leading(m, n) THEN Sub(m, n, i) ELSE Null]

\* Mutant of CopyLeaf: the copy does not count its elements.
CopyLeafUncounted(m, n) == Allocate(m, CopiedSub(m, n))

CopyLeaf(m, n) ==
    LET taken(x) == Cardinality({i \in Leading(m, n) : Sub(m, n, i) = x})
        held == [m EXCEPT !.val = [x \in Value |-> @[x] + taken(x)]]
    IN  Allocate(held, CopiedSub(m, n))

CopyBranch(m, n) ==
    LET children == {Sub(m, n, i) : i \in Leading(m, n)}
        held == [m EXCEPT !.node = [c \in DOMAIN @ |->
                    IF c \in children THEN [@[c] EXCEPT !.rc = @ + 1] ELSE @[c]]]
    IN  Allocate(held, CopiedSub(m, n))

RECURSIVE UnrefNode(_, _, _), UnrefSlots(_, _, _, _)

UnrefNode(m, n, depth) ==
    LET less == DecNode(m, n)
    IN  IF less.node[n].rc # 0 THEN less
        ELSE LET empty == UnrefSlots(less, n, depth, 0)
             IN  [empty EXCEPT !.node = [c \in DOMAIN @ \ {n} |-> @[c]]]

UnrefSlots(m, n, depth, i) ==
    IF i \notin Leading(m, n) THEN m
    ELSE UnrefSlots(IF depth = 1 THEN UnrefVal(m, Sub(m, n, i))
                    ELSE UnrefNode(m, Sub(m, n, i), depth - 1), n, depth, i + 1)

\* The slot of a node at this depth under which index k lies, and the index
\* that remains below it.
Which(k, depth) == k \div Pow(depth - 1)
Rest(k, depth) == k % Pow(depth - 1)

\* A counted child takes the place of another one.
Replace(m, n, i, c) == RefNode(Store(DecNode(m, Sub(m, n, i)), n, i, c), c)
Adopt(m, n, i, c) == RefNode(Store(m, n, i, c), c)

-----------------------------------------------------------------------------
(* The tree *)

RECURSIVE FindNode(_, _, _, _)

FindNode(m, n, depth, k) ==
    IF depth <= 1 THEN [n |-> n, k |-> k]
    ELSE FindNode(m, Sub(m, n, Which(k, depth)), depth - 1, Rest(k, depth))

\* copy_path_aux: copies of n and of everything on the way to the leaf.
RECURSIVE CopyDown(_, _, _, _)
CopyDown(m, n, depth, k) ==
    IF depth = 1
    THEN LET c == CopyLeaf(m, n) IN [n |-> c.n, m |-> c.m, leaf |-> c.n, k |-> k]
    ELSE LET i == Which(k, depth)
             c == CopyBranch(m, n)
             below == CopyDown(c.m, Sub(m, n, i), depth - 1, Rest(k, depth))
         IN  [below EXCEPT !.n = c.n, !.m = Replace(below.m, c.n, i, below.n)]

\* copy_path: nothing is copied down to the first shared node (prev is its
\* parent, Null at the root).  Gives the memory, the root, the leaf to be
\* written and the index in it.  When a branch below the root is shared, the
\* count of the old branch goes down and the parent keeps pointing to it.
RECURSIVE CopyPath(_, _, _, _, _, _, _)
CopyPath(m, root, n, depth, k, prev, i) ==
    IF depth > 1 /\ m.node[n].rc = 1
    THEN LET j == Which(k, depth)
         IN  CopyPath(m, root, Sub(m, n, j), depth - 1, Rest(k, depth), n, j)
    ELSE IF m.node[n].rc = 1
    THEN [m |-> m, root |-> root, leaf |-> n, k |-> k]
    ELSE LET c == CopyDown(m, n, depth, k)
             less == RefNode(DecNode(c.m, n), c.n)
         IN  [leaf |-> c.leaf, k |-> c.k,
              root |-> IF prev = Null THEN c.n ELSE root,
              m |-> IF prev # Null /\ depth = 1 THEN Store(less, prev, i, c.n) ELSE less]

\* append_node and append_node_pers.
RECURSIVE AppendNode(_, _, _, _, _), AppendNodePers(_, _, _, _, _)

AppendNode(m, n, k, depth, leaf) ==
    LET i == Which(k, depth)
    IN  IF depth < 2 \/ m.ub # {} THEN [m EXCEPT !.ub = {"recursion"}]
        ELSE IF Sub(m, n, i) = Null /\ depth = 2 THEN Adopt(m, n, i, leaf)
        ELSE LET c == CreateNode(m)
                 p == AppendNodePers(m, Sub(m, n, i), Rest(k, depth), depth - 1, leaf)
                 next == IF Sub(m, n, i) = Null THEN Adopt(c.m, n, i, c.n)
                         ELSE IF m.node[Sub(m, n, i)].rc > 1 THEN Replace(p.m, n, i, p.n)
                         ELSE m
             IN  AppendNode(next, Sub(next, n, i), Rest(k, depth), depth - 1, leaf)

\* Mutant of AppendNodePers: a new branch is taken for a level lower.
AppendNodePersLow(m, n, k, depth, leaf) ==
    IF depth = 1 THEN [m |-> m, n |-> leaf]
    ELSE LET i == Which(k, depth)
             r == CopyBranch(m, n)
             c == CreateNode(r.m)
             p == AppendNodePers(r.m, Sub(r.m, r.n, i), Rest(k, depth), depth - 1, leaf)
         IN  [n |-> r.n,
              m |-> IF Sub(r.m, r.n, i) = Null
                    THEN AppendNode(Adopt(c.m, r.n, i, c.n), c.n, Rest(k, depth), depth - 2, leaf)
                    ELSE Replace(p.m, r.n, i, p.n)]

AppendNodePers(m, n, k, depth, leaf) ==
    IF depth = 1 THEN [m |-> m, n |-> leaf]
    ELSE LET i == Which(k, depth)
             r == CopyBranch(m, n)
             c == CreateNode(r.m)
             p == AppendNodePers(r.m, Sub(r.m, r.n, i), Rest(k, depth), depth - 1, leaf)
         IN  [n |-> r.n,
              m |-> IF Sub(r.m, r.n, i) = Null
                    THEN AppendNode(Adopt(c.m, r.n, i, c.n), c.n, Rest(k, depth), depth - 1, leaf)
                    ELSE Replace(p.m, r.n, i, p.n)]

\* push_node: the vector v gets one more leaf.
PushNode(m, v, leaf) ==
    LET full == v.size >= Pow(v.depth)
        top == CreateNode(m)
        grown == RefNode(Store(top.m, top.n, 0, v.root), top.n)
        copy == AppendNodePers(m, v.root, v.size, v.depth, leaf)
    IN  IF v.depth = 0
        THEN [m |-> RefNode(m, leaf), v |-> [v EXCEPT !.root = leaf, !.depth = 1, !.size = N]]
        ELSE IF full
        THEN [m |-> AppendNode(grown, top.n, v.size, v.depth + 1, leaf),
              v |-> [v EXCEPT !.root = top.n, !.depth = @ + 1, !.size = @ + N]]
        ELSE IF m.node[v.root].rc > 1
        THEN [m |-> RefNode(DecNode(copy.m, v.root), copy.n),
              v |-> [v EXCEPT !.root = copy.n, !.size = @ + N]]
        ELSE [m |-> AppendNode(m, v.root, v.size, v.depth, leaf),
              v |-> [v EXCEPT !.size = @ + N]]

-----------------------------------------------------------------------------
(* Vectors *)

\* Mutant of OwnTail: the copied tail keeps the reference.
OwnTailHeld(m, v) ==
    IF m.node[v.tail].rc > 1
    THEN LET c == CopyLeaf(m, v.tail)
         IN  [m |-> RefNode(c.m, c.n), v |-> [v EXCEPT !.tail = c.n]]
    ELSE [m |-> m, v |-> v]

\* A tail somebody shares is copied.
OwnTail(m, v) ==
    IF m.node[v.tail].rc > 1
    THEN LET c == CopyLeaf(m, v.tail)
         IN  [m |-> DecNode(RefNode(c.m, c.n), v.tail), v |-> [v EXCEPT !.tail = c.n]]
    ELSE [m |-> m, v |-> v]

\* A full tail moves into the tree.
EmptyTail(c, v) ==
    [m |-> RefNode(c.m, c.n), v |-> [v EXCEPT !.tail = c.n, !.tailsize = 0]]
TailMoved(p, old) == EmptyTail(CreateNode(DecNode(p.m, old)), p.v)
FreshTail(m, v) == TailMoved(PushNode(m, v, v.tail), v.tail)

Put(t, x) ==
    [m |-> RefVal(Store(t.m, t.v.tail, t.v.tailsize, x), x),
     v |-> [t.v EXCEPT !.tailsize = @ + 1]]
Push(m, v, x) == Put(IF v.tailsize = N THEN FreshTail(m, v) ELSE OwnTail(m, v), x)

\* Mutant of Overwrite: the new element is not referenced.
OverwriteUncounted(m, n, i, x) == Store(UnrefVal(m, Sub(m, n, i)), n, i, x)

Overwrite(m, n, i, x) == Store(UnrefVal(RefVal(m, x), Sub(m, n, i)), n, i, x)

\* Mutant of Insert: a vector whose root was copied keeps the old one.
InsertUnseen(m, v, k, x) ==
    IF k >= v.size
    THEN LET t == OwnTail(m, v)
         IN  [m |-> Overwrite(t.m, t.v.tail, k - v.size, x), v |-> t.v]
    ELSE LET c == CopyPath(m, v.root, v.root, v.depth, k, Null, 0)
         IN  [m |-> Overwrite(c.m, c.leaf, c.k, x), v |-> v]

Insert(m, v, k, x) ==
    IF k >= v.size
    THEN LET t == OwnTail(m, v)
         IN  [m |-> Overwrite(t.m, t.v.tail, k - v.size, x), v |-> t.v]
    ELSE LET c == CopyPath(m, v.root, v.root, v.depth, k, Null, 0)
         IN  [m |-> Overwrite(c.m, c.leaf, c.k, x), v |-> [v EXCEPT !.root = c.root]]

\* copy_vector: both vectors share the root and the tail.
Share(m, v) ==
    RefNode(IF v.root = Null THEN m ELSE RefNode(m, v.root), v.tail)

Length(v) == v.size + v.tailsize

Get(m, v, k) ==
    IF k >= v.size THEN Sub(m, v.tail, k - v.size)
    ELSE LET f == FindNode(m, v.root, v.depth, k) IN Sub(m, f.n, f.k)

First(m, v) == IF v.size > 0 THEN Get(m, v, 0) ELSE Sub(m, v.tail, 0)
Final(m, v) == Sub(m, v.tail, v.tailsize - 1)

-----------------------------------------------------------------------------
\* Addresses mean nothing, so states are told apart up to their choice: nodes
\* are renumbered in the order in which the vectors reach them.
RECURSIVE Visit(_, _, _, _), VisitSlots(_, _, _, _, _)

Visit(m, seen, n, depth) ==
    IF n \notin DOMAIN m.node \/ n \in Range(seen) THEN seen
    ELSE IF depth <= 1 THEN Append(seen, n)
    ELSE VisitSlots(m, Append(seen, n), n, depth - 1, 0)

VisitSlots(m, seen, n, depth, i) ==
    IF i = N THEN seen
    ELSE VisitSlots(m, Visit(m, seen, Sub(m, n, i), depth), n, depth, i + 1)

RECURSIVE Order(_, _, _, _)
Order(m, vs, seen, h) ==
    IF h \notin Handle THEN seen \o SetToSortSeq((DOMAIN m.node) \ Range(seen), <)
    ELSE IF vs[h] = Free THEN Order(m, vs, seen, h + 1)
    ELSE LET tree == Visit(m, seen, vs[h].root, vs[h].depth)
         IN  Order(m, vs, Visit(m, tree, vs[h].tail, 1), h + 1)

Moved(place, c) == IF c \in DOMAIN place THEN place[c] ELSE c

\* Where branches and vectors point.
Targets(m, vs) ==
    UNION {{vs[h].root, vs[h].tail} : h \in {g \in Handle : vs[g] # Free}}
    \union UNION {{Sub(m, n, i) : i \in Slot} : n \in DOMAIN m.node}

Freed(m, vs) == {a \in Targets(m, vs) : a \in Address /\ a \notin DOMAIN m.node}

Settle(m, vs) ==
    \E order \in {Order(m, vs, <<>>, 1)} : \E place \in {AntiFunction(order)} :
        /\ mem' = [m EXCEPT
              !.ub = IF Freed(m, vs) = {} THEN @ ELSE {"dangling"},
              !.node = [a \in DOMAIN order |->
                  [@[order[a]] EXCEPT !.sub = [i \in Slot |-> Moved(place, @[i])]]]]
        /\ vec' = [h \in Handle |->
              IF vs[h] = Free THEN Free
              ELSE [vs[h] EXCEPT !.root = Moved(place, @), !.tail = Moved(place, @)]]

\* The call w was made, and handle g has a new value.
Becomes(g, result, w) ==
    /\ \E r \in {result} : Settle(r.m, [vec EXCEPT ![g] = r.v])
    /\ call' = [turn |-> 1 - call.turn, did |-> w]

Init ==
    /\ mem = [node |-> <<>>, val |-> [x \in Value |-> 0], ub |-> {}]
    /\ vec = [h \in Handle |-> Free]
    /\ call = [turn |-> 0, did |-> [op |-> "none"]]

\* Bounds on the length of a vector: alone, and beside another one.
Alone(h) == Live = {h}
MayGrow(h) ==
    IF Alone(h) THEN Length(vec[h]) < MaxLen ELSE Length(vec[h]) + 1 \in Together
MayBeShared(h) == vec[h] # Free => Length(vec[h]) \in Together

\* The nodes from n towards index k, down to the leaf or to the last there is.
RECURSIVE Way(_, _, _, _)
Way(m, n, depth, k) ==
    IF n = Null THEN <<>>
    ELSE IF depth <= 1 THEN <<n>>
    ELSE <<n>> \o Way(m, Sub(m, n, Which(k, depth)), depth - 1, Rest(k, depth))

\* The places on a way where nodes are shared.
SharedAt(m, way) == {i \in DOMAIN way : m.node[way[i]].rc > 1}

\* copy_path meets the first shared node between the root and the leaf: it
\* copies from there on and does not hook the copy in.
WriteIsLost(m, v, k) ==
    LET way == Way(m, v.root, v.depth, k)
        shared == SharedAt(m, way)
    IN  k < v.size /\ 1 \notin shared /\ ~(shared \subseteq {Len(way)})

\* A full tail goes into a tree with room for it, and on its way a branch below
\* the root is shared, or the root is and the lowest branch is there: the
\* recursion passes the leaves.
PushRunsOn(m, v) ==
    LET way == Way(m, v.root, v.depth, v.size)
        shared == SharedAt(m, way)
    IN  /\ v.tailsize = N /\ v.size \in 1 .. Pow(v.depth) - 1
        /\ shared # {} /\ (1 \in shared => Len(way) = v.depth - 1)

\* Excluded: the calls that go wrong, but for those a run is about.
Inserts(m, v, k) == WriteIsLost(m, v, k) => "insert" \in Admitted
Pushes(m, v) == PushRunsOn(m, v) => "push" \in Admitted

\* eth_create_vector
Create(h) ==
    /\ vec[h] = Free
    /\ 0 \in Together \/ Live = {}
    /\ \A g \in Handle : MayBeShared(g)
    /\ LET c == CreateNode(mem)
       IN  Becomes(h, [m |-> RefNode(c.m, c.n),
                       v |-> [size |-> 0, depth |-> 0, root |-> Null,
                              tailsize |-> 0, tail |-> c.n]],
                   [op |-> "create", to |-> h])

Writable == {x \in Value : x \in Rare => mem.val[x] < MaxRare}

PushOf(g, h, x) == [op |-> "push", to |-> g, of |-> h, value |-> x]
InsertOf(g, h, k, x) == [op |-> "insert", to |-> g, of |-> h, at |-> k, value |-> x]

\* The program lets go of its last reference to the argument (push and insert
\* of libs/vector/lib.c look at its count): the vector is changed in place.
PushMut(h, x) ==
    /\ MayGrow(h) /\ Pushes(mem, vec[h])
    /\ Becomes(h, Push(mem, vec[h], x), PushOf(h, h, x))

InsertMut(h, k, x) ==
    /\ Inserts(mem, vec[h], k)
    /\ Becomes(h, Insert(mem, vec[h], k, x), InsertOf(h, h, k, x))

\* Somebody still holds the argument: a copy is changed.
PushPers(g, h, x) ==
    /\ vec[g] = Free /\ MayBeShared(h) /\ Length(vec[h]) + 1 \in Together
    /\ \E m \in {Share(mem, vec[h])} :
           Pushes(m, vec[h]) /\ Becomes(g, Push(m, vec[h], x), PushOf(g, h, x))

InsertPers(g, h, k, x) ==
    /\ vec[g] = Free /\ MayBeShared(h)
    /\ \E m \in {Share(mem, vec[h])} :
           Inserts(m, vec[h], k) /\ Becomes(g, Insert(m, vec[h], k, x), InsertOf(g, h, k, x))

\* destroy_vector
Destroy(h) ==
    LET v == vec[h]
        tree == IF v.root = Null THEN mem ELSE UnrefNode(mem, v.root, v.depth)
    IN  Becomes(h, [m |-> UnrefNode(tree, v.tail, 1), v |-> Free], [op |-> "forget", of |-> h])

Next ==
    /\ mem.ub = {}
    /\ \/ \E h \in Handle : Create(h)
       \/ \E h \in Live, x \in Writable :
              \/ PushMut(h, x)
              \/ \E k \in 0 .. Length(vec[h]) - 1 : InsertMut(h, k, x)
       \/ \E h \in Live, g \in Handle, x \in Writable :
              \/ PushPers(g, h, x)
              \/ \E k \in 0 .. Length(vec[h]) - 1 : InsertPers(g, h, k, x)
       \/ \E h \in Live : Destroy(h)

Spec == Init /\ [][Next]_vars

-----------------------------------------------------------------------------
(* Properties *)

\* The pointers to a node: from the branches above it and from vectors.
Pointers(n) ==
    LET parents == {p \in DOMAIN mem.node : \E i \in Slot : Sub(mem, p, i) = n}
        slots == UNION {{<<p, i>> : i \in {j \in Slot : Sub(mem, p, j) = n}} : p \in parents}
    IN  Cardinality(slots) + Cardinality({h \in Live : vec[h].root = n})
                           + Cardinality({h \in Live : vec[h].tail = n})

\* The count of a node is the number of pointers to it, so a node is freed
\* exactly when the last one goes, and one with the count 1 may be written in
\* place: this is what every test of rc in src/vector.c relies on.
NodeCountsExact ==
    \A n \in DOMAIN mem.node : mem.node[n].rc = Pointers(n) /\ mem.node[n].rc > 0

\* Every element is referenced once by every leaf slot that holds it.
ValueCountsExact ==
    \A x \in Value : mem.val[x] =
        Cardinality({s \in (DOMAIN mem.node) \X Slot : Sub(mem, s[1], s[2]) = x})

\* A push, also one that copies a shared tree of several levels, ends its
\* recursion at the leaves (src/vector.c:237, 268), whatever levels and branches
\* the tree still lacks.
RecursionEnds == "recursion" \notin mem.ub

\* The slices that eth_vector_begin and eth_vector_next deliver, as sequences,
\* from the given start; "misaligned" is the failure of assert(k == 0).
TailSlice(v, i) == [j \in 1 .. v.tailsize |->
    IF i + j - 1 \in Slot THEN Sub(mem, v.tail, i + j - 1) ELSE Null]
LeafSlice(v, k) ==
    LET f == FindNode(mem, v.root, v.depth, k)
    IN  [j \in 1 .. N - f.k |-> Sub(mem, f.n, f.k + j - 1)]

RECURSIVE NextSlices(_, _)

\* Mutant of NextSlices: the iteration ends with the tree.
NextSlicesInTree(v, offset) ==
    IF offset >= v.size THEN <<>>
    ELSE LeafSlice(v, offset) \o NextSlices(v, offset + N)

NextSlices(v, offset) ==
    IF offset >= Length(v) THEN <<>>
    ELSE IF offset >= v.size THEN TailSlice(v, 0)
    ELSE IF FindNode(mem, v.root, v.depth, offset).k # 0 THEN <<"misaligned">>
    ELSE LeafSlice(v, offset) \o NextSlices(v, offset + N)

Slices(v, start) ==
    IF start >= Length(v) THEN <<>>
    ELSE IF start >= v.size
    THEN TailSlice(v, start - v.size) \o NextSlices(v, v.size + v.tailsize)
    ELSE LET k == FindNode(mem, v.root, v.depth, start).k
         IN  LeafSlice(v, start) \o NextSlices(v, (start - k) + (N - k))

Content(v) == [k \in 1 .. Length(v) |-> Get(mem, v, k - 1)]

IteratesFrom(v, start) == Slices(v, start) = SubSeq(Content(v), start + 1, Length(v))

\* The other ways to read a vector agree with get: iteration from the first
\* element of any leaf visits what follows once and in order, front and back are
\* the ends.
ReadsAgree ==
    \A h \in Live : LET v == vec[h] IN
        /\ \A start \in {k \in 0 .. v.size : k % N = 0} : IteratesFrom(v, start)
        /\ Length(v) > 0 => /\ First(mem, v) = Content(v)[1]
                            /\ Final(mem, v) = Content(v)[Length(v)]

-----------------------------------------------------------------------------
(* Refinement *)

Contents == [h \in Handle |-> IF vec[h] = Free THEN Free ELSE Content(vec[h])]

Abstract == INSTANCE PersistentSeq WITH content <- Contents

\* Every vector is a sequence of its own, and every call does to the sequences
\* what it is asked to: this element comes to this place of this vector, and no
\* write shows through a shared node.
ImplementsSequences == Abstract!SeqSpec

=============================================================================
