------------------------ MODULE ApplicationRefinement ------------------------
(* Application implements UncurriedCalls, for every set of functions, whatever *)
(* their arities, and every program within the bounds.                        *)
(*                                                                            *)
(* What the mapping reads in a state is what the values wait to be, in the    *)
(* heap, and what waits for results, in the frames.  The lemmas say what a    *)
(* step leaves of either.                                                     *)
EXTENDS ApplicationProofs

-----------------------------------------------------------------------------
(* The inductive invariant *)

\* Functions made by partial application
Curries(h) == {o \in Address : h[o].kind = "curried"}

\* Whichever of them are taken, one is made of none of them.
Grounded(h) ==
    \A S \in SUBSET Curries(h) : S # {} => \E o \in S : Head(h[o].refs) \notin S

\* What one has got and what it waits for is what the function behind it takes.
ArityKept(h) ==
    \A o \in Curries(h) : h[o].arity + Len(Tail(h[o].refs)) = ArityIn(h, Head(h[o].refs))

\* Behind "over" and "again" nothing waits, and "over" keeps something waiting.
Stacked(fs) ==
    \A i \in 2 .. Len(fs) :
        /\ fs[i].fr \in {"over", "again"} => fs[i - 1].fr \in {"body", "again"}
        /\ fs[i].fr = "over" => fs[i].n > 0

\* In "over" and "curried" a function gets exactly what it takes.
Exactly(h, fs, c) ==
    c.op = "apply" /\ Last(fs).fr \in {"over", "curried"} => c.n = ArityIn(h, c.val)

Shape(h, fs, c) == Grounded(h) /\ ArityKept(h) /\ Stacked(fs) /\ Exactly(h, fs, c)
ShapeInv == Shape(heap, frames, ctl)
-----------------------------------------------------------------------------
(* What functions made by partial application wait to be *)

\* A heap in which the functions can be followed to their beginnings
Followed(h) == Grounded(h) /\ \A o \in Curries(h) : Head(h[o].refs) \in Fn \union Curries(h)

\* One step of Den: what v waits to be if f says it of the function behind v.
DenStep(h, f, v) ==
    IF v \in Fn THEN [fn |-> v, args |-> <<>>]
    ELSE IF h[v].kind # "curried" THEN [fn |-> NoFn, args |-> <<>>]
    ELSE [fn |-> f[Head(h[v].refs)].fn, args |-> f[Head(h[v].refs)].args \o Tail(h[v].refs)]

\* f says it of everything that is not made by partial application, and of C.
Settles(h, C, f) ==
    /\ C \subseteq Curries(h)
    /\ \A o \in C : Head(h[o].refs) \in Fn \union C
    /\ \A v \in (Value \ Curries(h)) \union C : f[v] = DenStep(h, f, v)

\* A step only looks at the function behind.
LEMMA StepLocal ==
    ASSUME NEW h, NEW f, NEW g, NEW v \in Value,
           v \in Curries(h) => f[Head(h[v].refs)] = g[Head(h[v].refs)]
    PROVE  DenStep(h, f, v) = DenStep(h, g, v)
<1>1. CASE v \in Fn
  BY <1>1, SMTT(30) DEF DenStep
<1>2. CASE v \notin Fn
  <2>1. v \in Address
    BY <1>2 DEF Value
  <2> QED
    BY <1>2, <2>1 DEF DenStep, Curries
<1> QED
  BY <1>1, <1>2

\* Two that say it of some functions say the same of them.
LEMMA SettledOnce ==
    ASSUME NEW h, Grounded(h), NEW C, NEW f, Settles(h, C, f), NEW D, NEW g, Settles(h, D, g)
    PROVE  \A v \in (Value \ Curries(h)) \union (C \intersect D) : f[v] = g[v]
<1>1. Address \subseteq Value /\ Fn \subseteq Value /\ Curries(h) \subseteq Address
      /\ Fn \intersect Curries(h) = {}
  BY AddressFacts DEF Value, Curries
<1>2. \A v \in Value \ Curries(h) : f[v] = g[v]
  <2> TAKE v \in Value \ Curries(h)
  <2>1. DenStep(h, f, v) = DenStep(h, g, v)
    BY StepLocal
  <2> QED
    BY <2>1 DEF Settles
<1> DEFINE Bad == {o \in C \intersect D : f[o] # g[o]}
<1>3. ASSUME Bad # {}
      PROVE  FALSE
  <2>1. Bad \in SUBSET Curries(h)
    BY DEF Settles
  <2>2. PICK o \in Bad : Head(h[o].refs) \notin Bad
    BY <1>3, <2>1 DEF Grounded
  <2> DEFINE b == Head(h[o].refs)
  <2>3. o \in C /\ o \in D /\ b \in Fn \union (C \intersect D)
    BY <1>1 DEF Settles
  <2>4. f[b] = g[b]
    <3>1. CASE b \in Fn
      BY <1>1, <1>2, <3>1
    <3>2. CASE b \notin Fn
      BY <2>2, <2>3, <3>2
    <3> QED
      BY <3>1, <3>2
  <2>5. o \in Value
    BY <1>1, <2>1
  <2>6. DenStep(h, f, o) = DenStep(h, g, o)
    BY <2>4, <2>5, StepLocal
  <2>7. f[o] = DenStep(h, f, o) /\ g[o] = DenStep(h, g, o)
    BY <2>3 DEF Settles
  <2> QED
    BY <2>2, <2>6, <2>7
<1> QED
  BY <1>2, <1>3

\* There is one that says it of o,
LEMMA SettledFor ==
    ASSUME NEW h, Followed(h)
    PROVE  \A o \in Curries(h) : \E C, f : Settles(h, C, f) /\ o \in C
<1> DEFINE Found(o) == \E C, f : Settles(h, C, f) /\ o \in C
           Bad == {o \in Curries(h) : ~Found(o)}
<1>1. Address \subseteq Value /\ Fn \subseteq Value /\ Curries(h) \subseteq Address
      /\ Fn \intersect Curries(h) = {}
  BY AddressFacts DEF Value, Curries
<1>2. \E f : Settles(h, {}, f)
  <2> DEFINE f == [v \in Value |-> DenStep(h, <<>>, v)]
  <2>1. ASSUME NEW v \in Value \ Curries(h)
        PROVE  f[v] = DenStep(h, f, v)
    <3> HIDE DEF f
    <3>1. DenStep(h, <<>>, v) = DenStep(h, f, v)
      BY StepLocal
    <3>2. f[v] = DenStep(h, <<>>, v)
      BY DEF f
    <3> QED
      BY <3>1, <3>2
  <2> QED
    BY <2>1 DEF Settles
<1>3. ASSUME Bad # {}
      PROVE  FALSE
  <2> HIDE DEF Found
  <2>1. PICK o \in Bad : Head(h[o].refs) \notin Bad
    BY <1>3 DEF Followed, Grounded
  <2> DEFINE b == Head(h[o].refs)
  <2>2. o \in Curries(h) /\ ~Found(o) /\ b \in Fn \union Curries(h)
    BY DEF Followed
  <2>3. PICK C, f : Settles(h, C, f) /\ b \in Fn \union C
    <3>1. CASE b \in Fn
      BY <1>2, <3>1
    <3>2. CASE b \notin Fn
      <4>1. Found(b)
        BY <2>1, <2>2, <3>2
      <4> QED
        BY <4>1 DEF Found
    <3> QED
      BY <3>1, <3>2
  <2>4. o \notin C
    BY <2>2, <2>3 DEF Found
  <2> DEFINE g == [v \in Value |-> IF v = o THEN DenStep(h, f, o) ELSE f[v]]
             D == C \union {o}
  <2>5. b # o
    BY <1>1, <2>2, <2>3, <2>4
  <2>6. o \in Value /\ b \in Value /\ C \subseteq Curries(h)
    BY <1>1, <2>2, <2>3 DEF Settles
  <2>7. g[o] = DenStep(h, f, o) /\ \A v \in Value : v # o => g[v] = f[v]
    BY <2>6
  <2> HIDE DEF g
  <2>8. ASSUME NEW v \in (Value \ Curries(h)) \union D
        PROVE  g[v] = DenStep(h, g, v)
    <3>1. CASE v = o
      <4>1. f[b] = g[b]
        BY <2>5, <2>6, <2>7
      <4>2. DenStep(h, f, o) = DenStep(h, g, o)
        BY <2>6, <4>1, StepLocal
      <4> QED
        BY <2>7, <3>1, <4>2
    <3>2. CASE v # o
      <4>1. v \in Value /\ f[v] = DenStep(h, f, v) /\ g[v] = f[v]
        BY <1>1, <2>3, <2>6, <2>7, <3>2 DEF Settles
      <4>2. v \in Curries(h) => Head(h[v].refs) \in Fn \union C
        BY <2>3, <3>2 DEF Settles
      <4>3. v \in Curries(h) => Head(h[v].refs) # o /\ Head(h[v].refs) \in Value
        BY <1>1, <2>2, <2>4, <2>6, <4>2
      <4>4. v \in Curries(h) => f[Head(h[v].refs)] = g[Head(h[v].refs)]
        BY <2>7, <4>3
      <4>5. DenStep(h, f, v) = DenStep(h, g, v)
        BY <4>1, <4>4, StepLocal
      <4> QED
        BY <4>1, <4>5
    <3> QED
      BY <3>1, <3>2
  <2>9. Settles(h, D, g)
    <3>1. \A p \in D : Head(h[p].refs) \in Fn \union D
      BY <2>3 DEF Settles
    <3> QED
      BY <2>2, <2>6, <2>8, <3>1 DEF Settles
  <2> QED
    BY <2>2, <2>9 DEF Found
<1> QED
  BY <1>3

\* and so there is one that says it of all, which is Den.
LEMMA DenSettles ==
    ASSUME NEW h, Followed(h)
    PROVE  Settles(h, Curries(h), Den(h))
<1> DEFINE Sol(o, p) == Settles(h, p[1], p[2]) /\ o \in p[1]
           One(o) == CHOOSE p : Sol(o, p)
           F == [v \in Value |-> IF v \in Curries(h) THEN One(v)[2][v] ELSE DenStep(h, <<>>, v)]
           Solves(f) == f = [v \in Value |->
                IF v \in Fn THEN [fn |-> v, args |-> <<>>]
                ELSE IF h[v].kind # "curried" THEN [fn |-> NoFn, args |-> <<>>]
                ELSE [fn |-> f[Head(h[v].refs)].fn, args |-> f[Head(h[v].refs)].args \o Tail(h[v].refs)]]
<1>1. Address \subseteq Value /\ Fn \subseteq Value /\ Curries(h) \subseteq Address
      /\ Fn \intersect Curries(h) = {} /\ Grounded(h)
  BY AddressFacts DEF Value, Curries, Followed
<1>2. ASSUME NEW o \in Curries(h)
      PROVE  /\ Settles(h, One(o)[1], One(o)[2]) /\ o \in One(o)[1] /\ F[o] = One(o)[2][o]
  <2>1. PICK C, f : Settles(h, C, f) /\ o \in C
    BY SettledFor
  <2>2. Sol(o, <<C, f>>)
    BY <2>1
  <2>3. Sol(o, One(o))
    <3> HIDE DEF Sol
    <3> QED
      BY <2>2
  <2> HIDE DEF One
  <2>4. o \in Value
    BY <1>1
  <2> QED
    BY <2>3, <2>4
<1>3. \A v \in Value \ Curries(h) : F[v] = DenStep(h, <<>>, v)
  OBVIOUS
<1> HIDE DEF F, One, Sol
<1>4. ASSUME NEW v \in Value
      PROVE  F[v] = DenStep(h, F, v)
  <2>1. CASE v \notin Curries(h)
    <3>1. DenStep(h, <<>>, v) = DenStep(h, F, v)
      BY <2>1, StepLocal
    <3> QED
      BY <1>3, <2>1, <3>1
  <2>2. CASE v \in Curries(h)
    <3> DEFINE C == One(v)[1]
               f == One(v)[2]
               b == Head(h[v].refs)
    <3>1. Settles(h, C, f) /\ v \in C /\ F[v] = f[v]
      BY <1>2, <2>2
    <3>2. b \in Fn \union C /\ C \subseteq Curries(h) /\ f[v] = DenStep(h, f, v)
      BY <3>1 DEF Settles
    <3>3. f[b] = F[b]
      <4>1. CASE b \in Fn
        <5>1. b \in Value \ Curries(h)
          BY <1>1, <4>1
        <5>2. f[b] = DenStep(h, f, b)
          BY <3>1, <5>1 DEF Settles
        <5>3. DenStep(h, <<>>, b) = DenStep(h, f, b)
          BY <5>1, StepLocal
        <5> QED
          BY <1>3, <5>1, <5>2, <5>3
      <4>2. CASE b \in C
        <5>1. b \in Curries(h)
          BY <3>2, <4>2
        <5>2. Settles(h, One(b)[1], One(b)[2]) /\ b \in One(b)[1] /\ F[b] = One(b)[2][b]
          BY <1>2, <5>1
        <5>3. f[b] = One(b)[2][b]
          <6> HIDE DEF C, f
          <6> QED
            BY <1>1, <3>1, <4>2, <5>2, SettledOnce
        <5> QED
          BY <5>2, <5>3
      <4> QED
        BY <3>2, <4>1, <4>2
    <3>4. DenStep(h, f, v) = DenStep(h, F, v)
      BY <3>3, StepLocal, SMTT(30)
    <3> QED
      BY <3>1, <3>2, <3>4
  <2> QED
    BY <2>1, <2>2
<1>5. Solves(F)
  <2>1. F = [v \in Value |-> F[v]]
    BY DEF F
  <2>2. F = [v \in Value |-> DenStep(h, F, v)]
    BY <1>4, <2>1
  <2> QED
    BY <2>2 DEF DenStep
<1> DEFINE d == CHOOSE f : Solves(f)
<1>6. Solves(d)
  <2> HIDE DEF Solves
  <2> QED
    BY <1>5
<1>7. Den(h) = d
  BY SMTT(30) DEF Den
<1> HIDE DEF d
<1>8. \A v \in Value : d[v] = DenStep(h, d, v)
  BY <1>6 DEF DenStep
<1>9. Settles(h, Curries(h), d)
  <2>1. (Value \ Curries(h)) \union Curries(h) \subseteq Value
    BY <1>1, SMTT(30)
  <2> HIDE DEF Solves
  <2> QED
    BY <1>8, <2>1 DEF Settles, Followed
<1> QED
  BY <1>7, <1>9

\* What the model says of values, unfolded once
LEMMA DenFacts ==
    ASSUME NEW h, Followed(h)
    PROVE  /\ \A v \in Fn : Den(h)[v].fn = v /\ Den(h)[v].args = <<>>
           /\ \A o \in Curries(h) : /\ Den(h)[o].fn = Den(h)[Head(h[o].refs)].fn
                                    /\ Den(h)[o].args = Den(h)[Head(h[o].refs)].args \o Tail(h[o].refs)
<1>1. Settles(h, Curries(h), Den(h))
  BY DenSettles
<1>2. Address \subseteq Value /\ Fn \subseteq Value /\ Curries(h) \subseteq Address
      /\ Fn \intersect Curries(h) = {}
  BY AddressFacts DEF Value, Curries
<1> DEFINE d == Den(h)
<1>3. ASSUME NEW v \in Fn
      PROVE  d[v].fn = v /\ d[v].args = <<>>
  <2>1. d[v] = DenStep(h, d, v)
    BY <1>1, <1>2 DEF Settles
  <2> HIDE DEF d
  <2>2. d[v] = [fn |-> v, args |-> <<>>]
    BY <2>1, SMTT(30) DEF DenStep
  <2> QED
    BY <2>2
<1>4. ASSUME NEW o \in Curries(h)
      PROVE  /\ d[o].fn = d[Head(h[o].refs)].fn
             /\ d[o].args = d[Head(h[o].refs)].args \o Tail(h[o].refs)
  <2>1. d[o] = DenStep(h, d, o)
    BY <1>1 DEF Settles
  <2>2. o \notin Fn /\ h[o].kind = "curried"
    BY <1>2, SMTT(30) DEF Curries
  <2> HIDE DEF d
  <2> DEFINE fn == d[Head(h[o].refs)].fn
             args == d[Head(h[o].refs)].args \o Tail(h[o].refs)
  <2>3. d[o] = [fn |-> fn, args |-> args]
    BY <2>1, <2>2 DEF DenStep
  <2>4. d[o].fn = fn /\ d[o].args = args
    <3> HIDE DEF fn, args
    <3> QED
      BY <2>3
  <2> QED
    BY <2>4
<1> HIDE DEF d
<1> QED
  BY <1>3, <1>4 DEF d

-----------------------------------------------------------------------------
(* What a heap must be for that *)

Sound(h) ==
    /\ h \in [Address -> Object] /\ \A o \in Address : ObjectOK(h, o)
    /\ Grounded(h) /\ ArityKept(h)

\* A function made by partial application refers to a function.
LEMMA SoundFacts ==
    ASSUME NEW h, Sound(h)
    PROVE  /\ Followed(h) /\ \A v : Callable(h, v) <=> v \in Fn \union Curries(h)
           /\ \A o \in Curries(h) :
                /\ o \in Address /\ o \notin Fn /\ o \in Value
                /\ h[o].arity \in Nat /\ h[o].arity > 0
                /\ Callable(h, Head(h[o].refs)) /\ Head(h[o].refs) \in Value
                /\ Tail(h[o].refs) \in Seq(Value) /\ Len(Tail(h[o].refs)) \in Nat
<1>1. \A v : Callable(h, v) <=> v \in Fn \union Curries(h)
  BY DEF Callable, Curries
<1>2. ASSUME NEW o \in Curries(h)
      PROVE  /\ o \in Address /\ o \notin Fn /\ o \in Value
             /\ h[o].arity \in Nat /\ h[o].arity > 0
             /\ Callable(h, Head(h[o].refs)) /\ Head(h[o].refs) \in Value
             /\ Tail(h[o].refs) \in Seq(Value) /\ Len(Tail(h[o].refs)) \in Nat
  <2>1. o \in Address /\ h[o].kind = "curried"
    BY DEF Curries
  <2>2. o \notin Fn /\ o \in Value
    BY <2>1, AddressFacts DEF Value
  <2>3. h[o] \in Object
    BY <2>1, HeapFacts DEF Sound
  <2>4. h[o].refs \in Seq(Value) /\ h[o].arity \in Nat
    BY <2>3, ObjectFacts
  <2>5. h[o].arity > 0 /\ h[o].refs # <<>> /\ Callable(h, Head(h[o].refs))
    BY <2>1 DEF Sound, ObjectOK
  <2>6. Head(h[o].refs) \in Value /\ Tail(h[o].refs) \in Seq(Value)
    BY <2>4, <2>5, HeadTailProperties
  <2>7. Len(Tail(h[o].refs)) \in Nat
    BY <2>6, LenProperties
  <2> QED
    BY <2>1, <2>2, <2>4, <2>5, <2>6, <2>7
<1>3. Followed(h)
  BY <1>1, <1>2 DEF Sound, Followed
<1> QED
  BY <1>1, <1>2, <1>3

\* It waits to be the call of a function of the program, whose parameters are the
\* arguments it has got and those it waits for.
Waits(h, v) ==
    /\ Den(h)[v].fn \in Fn /\ Den(h)[v].args \in Seq(Value) /\ Len(Den(h)[v].args) \in Nat
    /\ ArityIn(h, v) \in Nat /\ ArityIn(h, v) > 0
    /\ ArityIn(h, v) + Len(Den(h)[v].args) = Arity[Den(h)[v].fn]

LEMMA DenTypes ==
    ASSUME NEW h, Sound(h)
    PROVE  \A v : Callable(h, v) => Waits(h, v)
<1>1. Followed(h) /\ Grounded(h)
  BY SoundFacts DEF Followed
<1>2. ASSUME NEW v \in Fn
      PROVE  Waits(h, v)
  <2>1. Den(h)[v].fn = v /\ Den(h)[v].args = <<>>
    BY <1>1, DenFacts
  <2>2. <<>> \in Seq(Value) /\ Len(<<>>) = 0
    BY EmptySeq
  <2>3. ArityIn(h, v) = Arity[v] /\ Arity[v] \in Nat \ {0}
    BY ApplicationAssumption DEF ArityIn
  <2> QED
    BY <2>1, <2>2, <2>3 DEF Waits
<1> DEFINE Bad == {o \in Curries(h) : ~Waits(h, o)}
<1>3. ASSUME Bad # {}
      PROVE  FALSE
  <2>1. PICK o \in Bad : Head(h[o].refs) \notin Bad
    BY <1>1, <1>3 DEF Grounded
  <2> DEFINE b == Head(h[o].refs)
             t == Tail(h[o].refs)
  <2>2. o \in Curries(h) /\ ~Waits(h, o)
    BY <2>1
  <2>3. /\ o \notin Fn /\ h[o].arity \in Nat /\ h[o].arity > 0
        /\ b \in Fn \union Curries(h) /\ t \in Seq(Value) /\ Len(t) \in Nat
    BY <2>2, SoundFacts
  <2>4. Waits(h, b)
    BY <1>2, <2>1, <2>3, SMTT(30)
  <2>5. Den(h)[o].fn = Den(h)[b].fn /\ Den(h)[o].args = Den(h)[b].args \o t
    BY <1>1, <2>2, DenFacts
  <2>6. h[o].arity + Len(t) = ArityIn(h, b)
    BY <2>2 DEF Sound, ArityKept
  <2>7. ArityIn(h, o) = h[o].arity
    BY <2>3 DEF ArityIn
  <2> HIDE DEF b, t
  <2>8. /\ Den(h)[b].fn \in Fn /\ Den(h)[b].args \in Seq(Value) /\ Len(Den(h)[b].args) \in Nat
        /\ ArityIn(h, b) \in Nat /\ ArityIn(h, b) + Len(Den(h)[b].args) = Arity[Den(h)[b].fn]
    BY <2>4 DEF Waits
  <2>9. Den(h)[o].args \in Seq(Value) /\ Len(Den(h)[o].args) = Len(Den(h)[b].args) + Len(t)
    BY <2>3, <2>5, <2>8, ConcatProperties
  <2>10. ArityIn(h, o) + Len(Den(h)[o].args) = Arity[Den(h)[o].fn] /\ Len(Den(h)[o].args) \in Nat
    <3>1. ArityIn(h, o) + Len(Den(h)[o].args) = ArityIn(h, b) + Len(Den(h)[b].args)
      BY <2>3, <2>6, <2>7, <2>8, <2>9
    <3> QED
      BY <2>3, <2>5, <2>8, <2>9, <3>1
  <2> QED
    BY <2>2, <2>3, <2>5, <2>7, <2>8, <2>9, <2>10 DEF Waits
<1> QED
  BY <1>2, <1>3, SoundFacts

\* What a step leaves of a heap: an object stays or goes, another may come in the
\* place of none, or an exception in the place of one in A.
Moves(h, g, A) ==
    \A o \in Address : \/ Same(h, g, o) \/ g[o].kind = "freed"
                       \/ h[o].kind = "freed" /\ g[o].kind \in {"atom", "exn"}
                       \/ o \in A /\ g[o].kind = "exn"

\* The functions of both heaps that were made by partial application are the same.
Alters(h, g) ==
    \A o \in Curries(h) \intersect Curries(g) : g[o].refs = h[o].refs /\ g[o].arity = h[o].arity

LEMMA MovesAlters ==
    ASSUME NEW h, NEW g, NEW A, Moves(h, g, A)
    PROVE  Alters(h, g) /\ Curries(g) \subseteq Curries(h)
BY DEF Moves, Alters, Curries, Same

\* What stays waits to be the same.
LEMMA DenSame ==
    ASSUME NEW h, NEW g, Sound(h), Sound(g), Alters(h, g), NEW v, Callable(h, v), Callable(g, v)
    PROVE  /\ Den(g)[v].fn = Den(h)[v].fn /\ Den(g)[v].args = Den(h)[v].args
           /\ ArityIn(g, v) = ArityIn(h, v)
<1> DEFINE Alike2(o) == Den(g)[o].fn = Den(h)[o].fn /\ Den(g)[o].args = Den(h)[o].args
           P == Curries(h) \intersect Curries(g)
           Bad == {o \in P : ~Alike2(o)}
<1>1. Followed(h) /\ Grounded(h) /\ Followed(g)
  BY SoundFacts DEF Followed
<1>2. \A f \in Fn : Alike2(f)
  BY <1>1, DenFacts, ZenonT(40)
<1>3. ASSUME Bad # {}
      PROVE  FALSE
  <2> HIDE DEF Alike2
  <2>1. PICK o \in Bad : Head(h[o].refs) \notin Bad
    BY <1>1, <1>3 DEF Grounded
  <2> DEFINE b == Head(h[o].refs)
  <2>2. o \in Curries(h) /\ o \in Curries(g) /\ ~Alike2(o) /\ g[o].refs = h[o].refs
    BY <2>1 DEF Alters
  <2>3. b \in Fn \union P
    BY <2>2, SoundFacts
  <2>4. Alike2(b)
    BY <1>2, <2>1, <2>3
  <2>5. Den(h)[o].fn = Den(h)[b].fn /\ Den(h)[o].args = Den(h)[b].args \o Tail(h[o].refs)
    BY <1>1, <2>2, DenFacts, ZenonT(40)
  <2>6. Den(g)[o].fn = Den(g)[b].fn /\ Den(g)[o].args = Den(g)[b].args \o Tail(h[o].refs)
    <3>1. /\ Den(g)[o].fn = Den(g)[Head(g[o].refs)].fn
          /\ Den(g)[o].args = Den(g)[Head(g[o].refs)].args \o Tail(g[o].refs)
      BY <1>1, <2>2, DenFacts
    <3> QED
      BY <2>2, <3>1, ZenonT(40)
  <2> QED
    BY <2>2, <2>4, <2>5, <2>6 DEF Alike2
<1>4. v \in Fn \union P
  BY SoundFacts
<1>5. ArityIn(g, v) = ArityIn(h, v)
  BY <1>4 DEF ArityIn, Alters
<1> QED
  BY <1>2, <1>3, <1>4, <1>5

\* A heap stays sound when one function is made by partial application of another
\* one that is there, at n, and the others are what they were.
Grows(h, g, n) ==
    \A o \in Curries(g) \ Curries(h) :
        /\ o = n /\ Callable(h, Head(g[n].refs))
        /\ g[n].arity + Len(Tail(g[n].refs)) = ArityIn(h, Head(g[n].refs))

LEMMA SoundKept ==
    ASSUME NEW h, NEW g, Sound(h), Alters(h, g), NEW n, Grows(h, g, n),
           g \in [Address -> Object], \A o \in Address : ObjectOK(g, o)
    PROVE  Sound(g)
<1>1. \A o \in Curries(h) : Callable(h, Head(h[o].refs))
  BY SoundFacts
<1>2. \A v : Callable(h, v) <=> v \in Fn \union Curries(h)
  BY SoundFacts
<1>3. \A o \in Curries(g) : Callable(g, Head(g[o].refs))
  BY DEF ObjectOK, Curries
<1>4. Fn \intersect Address = {} /\ Curries(h) \subseteq Address /\ Curries(g) \subseteq Address
  BY AddressFacts DEF Curries
<1>5. ASSUME NEW S \in SUBSET Curries(g), S # {}
      PROVE  \E o \in S : Head(g[o].refs) \notin S
  <2> DEFINE T == S \intersect Curries(h)
  <2>1. CASE T = {}
    <3>1. PICK o \in S : o \in Curries(g) \ Curries(h)
      BY <1>5, <2>1
    <3>2. \A p \in S : p = n /\ p \notin Curries(h)
      BY <2>1 DEF Grows
    <3>3. Head(g[o].refs) \in Fn \union Curries(h)
      BY <1>2, <3>1 DEF Grows
    <3>4. Head(g[o].refs) \notin S
      BY <1>4, <3>2, <3>3
    <3> QED
      BY <3>4
  <2>2. CASE T # {}
    <3>1. T \in SUBSET Curries(h)
      OBVIOUS
    <3>2. PICK o \in T : Head(h[o].refs) \notin T
      BY <2>2, <3>1 DEF Sound, Grounded
    <3>3. o \in S /\ o \in Curries(h) /\ g[o].refs = h[o].refs
      BY <3>2 DEF Alters
    <3>4. Head(h[o].refs) \in Fn \union Curries(h)
      BY <1>1, <1>2, <3>3
    <3>5. Head(h[o].refs) \notin S
      BY <1>4, <3>2, <3>4
    <3> QED
      BY <3>3, <3>5
  <2> QED
    BY <2>1, <2>2
<1>6. ASSUME NEW o \in Curries(g)
      PROVE  g[o].arity + Len(Tail(g[o].refs)) = ArityIn(g, Head(g[o].refs))
  <2> DEFINE b == Head(g[o].refs)
  <2>1. Callable(h, b) /\ Callable(g, b) /\ g[o].arity + Len(Tail(g[o].refs)) = ArityIn(h, b)
    <3>1. CASE o \in Curries(h)
      BY <1>1, <1>3, <3>1 DEF Alters, Sound, ArityKept
    <3>2. CASE o \notin Curries(h)
      BY <1>3, <3>2 DEF Grows
    <3> QED
      BY <3>1, <3>2
  <2> HIDE DEF b
  <2>2. b \in Fn \union (Curries(h) \intersect Curries(g))
    BY <1>2, <1>4, <2>1 DEF Callable, Curries
  <2>3. ArityIn(g, b) = ArityIn(h, b)
    BY <2>2 DEF ArityIn, Alters
  <2> QED
    BY <2>1, <2>3 DEF b
<1>7. Grounded(g)
  BY <1>5 DEF Grounded
<1>8. ArityKept(g)
  BY <1>6 DEF ArityKept
<1> QED
  BY <1>7, <1>8 DEF Sound

-----------------------------------------------------------------------------
(* What the steps do to a heap *)

Fields == {"rc", "kind", "refs", "arity"}
Shell(h) == DOMAIN h = Address /\ \A o \in Address : DOMAIN h[o] = Fields

\* Objects only go.
Thins(h, g) == Shell(h) /\ Shell(g) /\ \A o \in Address : Same(h, g, o) \/ g[o].kind = "freed"

LEMMA ThinsOn ==
    ASSUME NEW h, NEW g, NEW k, Thins(h, g), Thins(g, k)
    PROVE  Thins(h, k)
<1>1. ASSUME NEW o \in Address
      PROVE  Same(h, k, o) \/ k[o].kind = "freed"
  BY DEF Thins, Same
<1> QED
  BY <1>1 DEF Thins

LEMMA HeapShell ==
    ASSUME NEW h \in [Address -> Object]
    PROVE  Shell(h) /\ Thins(h, h)
<1>1. Shell(h)
  BY DEF Shell, Object, Fields
<1> QED
  BY <1>1 DEF Thins, Same

LEMMA RcOnly ==
    \A x : \A n : \A y : DOMAIN x = Fields /\ y = [x EXCEPT !.rc = n] =>
        DOMAIN y = Fields /\ y.kind = x.kind /\ y.refs = x.refs /\ y.arity = x.arity
BY DEF Fields

LEMMA IncThins ==
    ASSUME NEW h, Shell(h), NEW os
    PROVE  Thins(h, IncAll(h, os)) /\ \A o \in Address : Same(h, IncAll(h, os), o)
<1> DEFINE g == IncAll(h, os)
<1>1. DOMAIN g = Address /\ \A o \in Address : g[o] = [h[o] EXCEPT !.rc = h[o].rc + Occurs(os, o)]
  BY DEF IncAll, Shell
<1> HIDE DEF g
<1>2. \A o \in Address : DOMAIN g[o] = Fields /\ Same(h, g, o)
  BY <1>1, RcOnly DEF Shell, Same
<1> QED
  BY <1>1, <1>2 DEF Thins, Shell, g

LEMMA DecThins ==
    ASSUME NEW h, Shell(h), NEW os
    PROVE  Thins(h, DecAll(h, os)) /\ \A o \in Address : Same(h, DecAll(h, os), o)
<1> DEFINE g == DecAll(h, os)
<1>1. DOMAIN g = Address /\ \A o \in Address : g[o] = [h[o] EXCEPT !.rc = h[o].rc - Occurs(os, o)]
  BY DEF DecAll, Shell
<1> HIDE DEF g
<1>2. \A o \in Address : DOMAIN g[o] = Fields /\ Same(h, g, o)
  BY <1>1, RcOnly DEF Shell, Same
<1> QED
  BY <1>1, <1>2 DEF Thins, Shell, g

LEMMA UnrefThins ==
    ASSUME NEW h, Shell(h), NEW os
    PROVE  Thins(h, UnrefAll(h, os))
<1> DEFINE r == Release(h, os)
           D == Deleted(h, os)
           g == UnrefAll(h, os)
<1>1. /\ DOMAIN r = Address
      /\ \A o \in Address : r[o] = IF o \in D THEN [h[o] EXCEPT !.rc = 0, !.kind = "freed", !.refs = <<>>]
                                   ELSE IF Dead(h, o) THEN h[o]
                                   ELSE [h[o] EXCEPT !.rc = h[o].rc - GivenUp(h, os, D, o)]
  BY DEF Release, Shell
<1>2. DOMAIN g = Address /\ \A o \in Address : g[o] = IF Dead(r, o) THEN Nothing ELSE r[o]
  <2>1. DOMAIN h = Address
    BY DEF Shell
  <2> QED
    BY <2>1 DEF UnrefAll
<1>3. \A o \in Address : o # Const
  BY AddressFacts
<1> HIDE DEF r, D, g
<1>4. DOMAIN Nothing = Fields /\ Nothing.kind = "freed"
  BY DEF Nothing, Fields
<1>5. ASSUME NEW o \in Address
      PROVE  DOMAIN g[o] = Fields /\ (Same(h, g, o) \/ g[o].kind = "freed")
  <2>1. CASE Dead(r, o)
    BY <1>2, <1>4, <2>1
  <2>2. CASE ~Dead(r, o)
    <3>1. g[o] = r[o] /\ r[o].kind # "freed"
      BY <1>2, <1>3, <2>2 DEF Dead
    <3>2. o \notin D
      <4>1. ASSUME o \in D PROVE FALSE
        <5>1. r[o] = [h[o] EXCEPT !.rc = 0, !.kind = "freed", !.refs = <<>>]
          BY <1>1, <4>1
        <5>2. r[o].kind = "freed"
          BY <5>1 DEF Shell, Fields
        <5> QED
          BY <3>1, <5>2
      <4> QED
        BY <4>1
    <3>3. CASE Dead(h, o)
      BY <1>1, <3>1, <3>2, <3>3 DEF Dead
    <3>4. CASE ~Dead(h, o)
      <4>1. r[o] = [h[o] EXCEPT !.rc = h[o].rc - GivenUp(h, os, D, o)]
        BY <1>1, <3>2, <3>4
      <4> QED
        BY <3>1, <4>1, RcOnly DEF Shell, Same
    <3> QED
      BY <3>3, <3>4
  <2> QED
    BY <2>1, <2>2
<1> QED
  BY <1>2, <1>5 DEF Thins, Shell, g

LEMMA DropThins ==
    ASSUME NEW h, Shell(h), NEW v
    PROVE  Thins(h, Drop(h, v))
<1>1. Thins(h, h)
  BY DEF Thins, Same
<1>2. Thins(h, Inc(h, v))
  BY IncThins DEF Inc
<1>3. Thins(Inc(h, v), UnrefAll(Inc(h, v), <<v>>))
  BY <1>2, UnrefThins DEF Thins
<1>4. Thins(h, UnrefAll(Inc(h, v), <<v>>))
  BY <1>2, <1>3, ThinsOn
<1> QED
  BY <1>1, <1>4 DEF Drop

\* A new object
LEMMA WithFacts ==
    ASSUME NEW h, Shell(h), Free(h) # {}, NEW x, DOMAIN x = Fields
    PROVE  /\ Shell(With(h, x)) /\ With(h, x)[Fresh(h)] = x
           /\ Fresh(h) \in Address /\ h[Fresh(h)].kind = "freed"
           /\ \A o \in Address \ {Fresh(h)} : With(h, x)[o] = h[o]
<1>1. Fresh(h) \in Address /\ h[Fresh(h)].kind = "freed"
  BY FreshFacts
<1> DEFINE a == Fresh(h)
<1> HIDE DEF a
<1>2. With(h, x) = [h EXCEPT ![a] = x]
  BY DEF With, a
<1> QED
  BY <1>1, <1>2 DEF Shell, a

LEMMA NewFields ==
    \A kind : DOMAIN New(kind) = Fields /\ New(kind).kind = kind
BY NewIs DEF Fields

\* w is h, perhaps with a new object that is not a function.
Offers(h, w) ==
    w = h \/ (Free(h) # {} /\ \E kind \in {"atom", "exn"} : w = With(h, New(kind)))

LEMMA OfferMoves ==
    ASSUME NEW h, Shell(h), NEW w, Offers(h, w), NEW g, Shell(w) => Thins(w, g)
    PROVE  Moves(h, g, {}) /\ Shell(g)
<1>1. CASE w = h
  BY <1>1 DEF Moves, Thins
<1>2. CASE w # h
  <2>1. PICK kind \in {"atom", "exn"} : Free(h) # {} /\ w = With(h, New(kind))
    BY <1>2 DEF Offers
  <2>2. DOMAIN New(kind) = Fields /\ New(kind).kind = kind
    BY NewFields
  <2>3. /\ Shell(w) /\ w[Fresh(h)].kind = kind /\ h[Fresh(h)].kind = "freed"
        /\ \A o \in Address \ {Fresh(h)} : w[o] = h[o]
    BY <2>1, <2>2, WithFacts
  <2>4. ASSUME NEW o \in Address
        PROVE  \/ Same(h, g, o) \/ g[o].kind = "freed"
               \/ h[o].kind = "freed" /\ g[o].kind \in {"atom", "exn"}
    <3>1. Same(w, g, o) \/ g[o].kind = "freed"
      BY <2>3 DEF Thins
    <3> QED
      BY <2>3, <3>1 DEF Same
  <2> QED
    BY <2>3, <2>4 DEF Moves, Thins
<1> QED
  BY <1>1, <1>2

\* and an exception in the end
LEMMA LastMoves ==
    ASSUME NEW h, NEW k, Moves(h, k, {}), Shell(k), Free(k) # {}, NEW g, g = With(k, New("exn"))
    PROVE  Moves(h, g, {Fresh(k)}) /\ g[Fresh(k)].kind = "exn" /\ Fresh(k) \in Address
<1>1. DOMAIN New("exn") = Fields /\ New("exn").kind = "exn"
  BY NewFields
<1>2. /\ g[Fresh(k)].kind = "exn" /\ Fresh(k) \in Address
      /\ \A o \in Address \ {Fresh(k)} : g[o] = k[o]
  BY <1>1, WithFacts
<1> QED
  BY <1>2 DEF Moves, Same

\* The objects of both heaps are the same, but for exceptions in A.
Keeps(h, g, A) ==
    \A o \in Address : h[o].kind # "freed" /\ g[o].kind # "freed" =>
        Same(h, g, o) \/ (o \in A /\ g[o].kind = "exn")

LEMMA KeepsFacts ==
    ASSUME NEW h, NEW g, NEW A
    PROVE  /\ Moves(h, g, A) => Keeps(h, g, A)
           /\ Keeps(h, g, A) => Alters(h, g)
           /\ Thins(h, g) => Moves(h, g, {})
<1>1. Moves(h, g, A) => Keeps(h, g, A)
  BY DEF Moves, Keeps
<1>2. Keeps(h, g, A) => Alters(h, g)
  BY DEF Keeps, Alters, Curries, Same
<1>3. Thins(h, g) => Moves(h, g, {})
  BY DEF Thins, Moves
<1> QED
  BY <1>1, <1>2, <1>3

LEMMA ObjFacts ==
    ASSUME NEW h
    PROVE  /\ \A o : o \in DOMAIN ObjBar(h) <=> o \in Address /\ h[o].kind # "freed"
           /\ \A o \in DOMAIN ObjBar(h) :
                ObjBar(h)[o] = IF h[o].kind = "curried"
                               THEN [kind |-> "fn", fn |-> Den(h)[o].fn, args |-> Den(h)[o].args]
                               ELSE [kind |-> h[o].kind]
BY DEF ObjBar, ObjectBar, Free

LEMMA ObjectsKept ==
    ASSUME NEW h, NEW g, Sound(h), Sound(g), NEW A, Keeps(h, g, A),
           NEW o \in DOMAIN ObjBar(h) \intersect DOMAIN ObjBar(g), o \notin A
    PROVE  ObjBar(g)[o] = ObjBar(h)[o]
<1>1. o \in Address /\ h[o].kind # "freed" /\ g[o].kind # "freed" /\ Same(h, g, o)
  BY ObjFacts DEF Keeps
<1>2. g[o].kind = h[o].kind
  BY <1>1 DEF Same
<1>3. CASE h[o].kind = "curried"
  <2>1. Callable(h, o) /\ Callable(g, o) /\ Alters(h, g)
    BY <1>1, <1>2, <1>3, KeepsFacts DEF Callable
  <2>2. Den(g)[o].fn = Den(h)[o].fn /\ Den(g)[o].args = Den(h)[o].args
    BY <2>1, DenSame
  <2>3. ObjBar(h)[o] = [kind |-> "fn", fn |-> Den(h)[o].fn, args |-> Den(h)[o].args]
    BY <1>3, ObjFacts
  <2>4. ObjBar(g)[o] = [kind |-> "fn", fn |-> Den(g)[o].fn, args |-> Den(g)[o].args]
    BY <1>2, <1>3, ObjFacts
  <2> QED
    BY <2>2, <2>3, <2>4
<1>4. CASE h[o].kind # "curried"
  <2>1. ObjBar(h)[o] = [kind |-> h[o].kind]
    BY <1>4, ObjFacts
  <2>2. ObjBar(g)[o] = [kind |-> g[o].kind]
    BY <1>2, <1>4, ObjFacts
  <2> QED
    BY <1>2, <2>1, <2>2
<1> QED
  BY <1>3, <1>4

-----------------------------------------------------------------------------
(* What waits for results *)

\* The first k frames, and what they have of the stack, are the same.
Common(fs, gs, s, t, k) ==
    /\ fs \in Seq(FrameType) /\ gs \in Seq(FrameType)
    /\ k \in Nat /\ k <= Len(fs) /\ k <= Len(gs)
    /\ \A i \in 1 .. k : /\ fs[i].fr = gs[i].fr /\ fs[i].fn = gs[i].fn /\ fs[i].args = gs[i].args
                         /\ fs[i].n = gs[i].n /\ Share(fs, s, i) = Share(gs, t, i)

\* i is where "over" waits.
WaitsAt(fs, i, j) == j \in 1 .. i - 1 /\ fs[j].fr = "over" /\ \A k \in j + 1 .. i - 1 : fs[k].fr # "body"

LEMMA OversAre == \A fs, i, j : j \in Overs(fs, i) <=> WaitsAt(fs, i, j)
BY DEF Overs, WaitsAt

LEMMA CommonAwaiting ==
    ASSUME NEW fs, NEW gs, NEW s, NEW t, NEW k, Common(fs, gs, s, t, k), NEW i \in 1 .. k + 1
    PROVE  Awaiting(fs, s, i) = Awaiting(gs, t, i)
<1>1. k \in Nat /\ \A j \in 1 .. k : fs[j].fr = gs[j].fr /\ Share(fs, s, j) = Share(gs, t, j)
  BY DEF Common
<1>2. \A j \in 1 .. i - 1 : j \in 1 .. k
  BY <1>1
<1>3. Overs(fs, i) = Overs(gs, i)
  <2>1. ASSUME NEW j
        PROVE  WaitsAt(fs, i, j) <=> WaitsAt(gs, i, j)
    <3>1. CASE j \in 1 .. i - 1
      <4>1. \A l \in j + 1 .. i - 1 : l \in 1 .. i - 1
        BY <3>1
      <4> QED
        BY <1>1, <1>2, <3>1, <4>1 DEF WaitsAt
    <3>2. CASE j \notin 1 .. i - 1
      BY <3>2 DEF WaitsAt
    <3> QED
      BY <3>1, <3>2
  <2> QED
    BY <2>1, OversAre
<1> DEFINE J == CHOOSE j \in Overs(fs, i) : TRUE
<1>4. CASE Overs(fs, i) = {}
  BY <1>3, <1>4 DEF Awaiting
<1>5. CASE Overs(fs, i) # {}
  <2>1. J \in Overs(fs, i)
    BY <1>5
  <2>2. J \in 1 .. k
    BY <1>2, <2>1, OversAre DEF WaitsAt
  <2>3. Awaiting(fs, s, i) = Share(fs, s, J)
    BY <1>5 DEF Awaiting
  <2>4. Awaiting(gs, t, i) = Share(gs, t, J)
    BY <1>3, <1>5 DEF Awaiting
  <2> QED
    BY <1>1, <2>2, <2>3, <2>4
<1> QED
  BY <1>4, <1>5

\* Behind a frame
LEMMA OversNext ==
    ASSUME NEW fs, NEW i \in Nat \ {0}
    PROVE  /\ fs[i].fr = "body" => Overs(fs, i + 1) = {}
           /\ fs[i].fr \in {"again", "curried"} => Overs(fs, i + 1) = Overs(fs, i)
           /\ fs[i].fr = "over" => Overs(fs, i + 1) = Overs(fs, i) \union {i}
<1>1. ASSUME NEW j, fs[i].fr = "body"
      PROVE  ~WaitsAt(fs, i + 1, j)
  BY <1>1 DEF WaitsAt
<1>2. ASSUME NEW j, fs[i].fr # "body", fs[i].fr # "over" \/ j # i
      PROVE  WaitsAt(fs, i + 1, j) <=> WaitsAt(fs, i, j)
  <2>1. CASE j \in 1 .. i - 1
    <3>1. \A l : l \in j + 1 .. (i + 1) - 1 <=> l \in j + 1 .. i - 1 \/ l = i
      BY <2>1
    <3>2. j \in 1 .. (i + 1) - 1
      BY <2>1
    <3> QED
      BY <1>2, <2>1, <3>1, <3>2 DEF WaitsAt
  <2>2. CASE j \notin 1 .. i - 1
    BY <1>2, <2>2 DEF WaitsAt
  <2> QED
    BY <2>1, <2>2
<1>3. fs[i].fr = "over" => WaitsAt(fs, i + 1, i)
  BY DEF WaitsAt
<1>4. fs[i].fr = "body" => Overs(fs, i + 1) = {}
  BY <1>1, OversAre
<1>5. fs[i].fr \in {"again", "curried"} => Overs(fs, i + 1) = Overs(fs, i)
  BY <1>2, OversAre
<1>6. fs[i].fr = "over" => Overs(fs, i + 1) = Overs(fs, i) \union {i}
  BY <1>2, <1>3, OversAre
<1> QED
  BY <1>4, <1>5, <1>6

\* Frames that the program begins with, stacked as they are
Piled(fs) == fs \in Seq(FrameType) /\ Stacked(fs) /\ fs # <<>> /\ fs[1].fr = "body"

LEMMA OversQuiet ==
    ASSUME NEW fs, Piled(fs), NEW i \in DOMAIN fs, fs[i].fr \in {"body", "again"}
    PROVE  Overs(fs, i + 1) = {}
<1>0. DOMAIN fs = 1 .. Len(fs) /\ Len(fs) \in Nat
  BY FramesFacts DEF Piled
<1> DEFINE Bad == {j \in DOMAIN fs : fs[j].fr = "again" /\ Overs(fs, j + 1) # {}}
<1>1. ASSUME Bad # {}
      PROVE  FALSE
  <2>1. Bad \in SUBSET Nat
    BY <1>0
  <2>2. PICK m \in Bad : \A x \in Bad : m <= x
    <3> HIDE DEF Bad
    <3> QED
      BY <1>1, <2>1, SmallestNumber
  <2>3. m \in 2 .. Len(fs) /\ fs[m].fr = "again" /\ Overs(fs, m + 1) # {}
    <3>1. m \in 1 .. Len(fs) /\ fs[m].fr = "again" /\ Overs(fs, m + 1) # {}
      BY <1>0, <2>2
    <3>2. m # 1
      BY <3>1 DEF Piled
    <3> QED
      BY <3>1, <3>2
  <2>4. fs[m - 1].fr \in {"body", "again"}
    BY <2>3 DEF Piled, Stacked
  <2>5. m - 1 \in DOMAIN fs /\ m - 1 \in Nat \ {0} /\ (m - 1) + 1 = m /\ m \in Nat \ {0} /\ ~(m <= m - 1)
    BY <1>0, <2>3
  <2>6. Overs(fs, m) = {}
    <3>1. CASE fs[m - 1].fr = "body"
      BY <2>5, <3>1, OversNext
    <3>2. CASE fs[m - 1].fr = "again"
      <4>1. m - 1 \notin Bad
        <5> HIDE DEF Bad
        <5> QED
          BY <2>2, <2>5
      <4> QED
        BY <2>5, <3>2, <4>1
    <3> QED
      BY <2>4, <3>1, <3>2
  <2> QED
    BY <2>3, <2>5, <2>6, OversNext
<1>2. i \in Nat \ {0}
  BY <1>0
<1> QED
  BY <1>1, <1>2, OversNext

\* What waits behind a frame
LEMMA AwaitingNext ==
    ASSUME NEW fs, Piled(fs), NEW s, NEW i \in DOMAIN fs
    PROVE  /\ fs[i].fr \in {"body", "again"} => Awaiting(fs, s, i + 1) = <<>>
           /\ fs[i].fr = "curried" => Awaiting(fs, s, i + 1) = Awaiting(fs, s, i)
           /\ fs[i].fr = "over" => Awaiting(fs, s, i + 1) = Share(fs, s, i)
<1>0. i \in Nat \ {0} /\ DOMAIN fs = 1 .. Len(fs) /\ Len(fs) \in Nat
  BY FramesFacts DEF Piled
<1>1. CASE fs[i].fr \in {"body", "again"}
  <2>1. Overs(fs, i + 1) = {}
    BY <1>1, OversQuiet
  <2>2. Awaiting(fs, s, i + 1) = <<>>
    BY <2>1 DEF Awaiting
  <2> QED
    BY <1>1, <2>2
<1>2. CASE fs[i].fr = "curried"
  <2>1. Overs(fs, i + 1) = Overs(fs, i)
    BY <1>0, <1>2, OversNext
  <2>2. Awaiting(fs, s, i + 1) = Awaiting(fs, s, i)
    <3> DEFINE W(S) == IF S = {} THEN <<>> ELSE Share(fs, s, CHOOSE j \in S : TRUE)
    <3>1. Awaiting(fs, s, i + 1) = W(Overs(fs, i + 1)) /\ Awaiting(fs, s, i) = W(Overs(fs, i))
      BY DEF Awaiting
    <3> HIDE DEF W
    <3> QED
      BY <2>1, <3>1
  <2> QED
    BY <1>2, <2>2
<1>3. CASE fs[i].fr = "over"
  <2>1. i \in 2 .. Len(fs)
    BY <1>0, <1>3 DEF Piled
  <2>2. fs[i - 1].fr \in {"body", "again"} /\ i - 1 \in DOMAIN fs /\ (i - 1) + 1 = i
    BY <1>0, <1>3, <2>1 DEF Piled, Stacked
  <2>3. Overs(fs, i) = {}
    BY <2>2, OversQuiet
  <2>4. Overs(fs, i + 1) = {i}
    BY <1>0, <1>3, <2>3, OversNext
  <2>5. Awaiting(fs, s, i + 1) = Share(fs, s, i)
    BY <2>4 DEF Awaiting
  <2> QED
    BY <1>3, <2>5
<1> QED
  BY <1>1, <1>2, <1>3

-----------------------------------------------------------------------------
(* Bodies, in the order in which they began *)

Rank(B, i) == Cardinality({j \in B : j <= i})

LEMMA Ranks ==
    ASSUME NEW B \in SUBSET Nat, IsFiniteSet(B), NEW n, n = Cardinality(B)
    PROVE  /\ n \in Nat
           /\ \A i \in B : Rank(B, i) \in 1 .. n
           /\ \A i, j \in B : Rank(B, i) = Rank(B, j) => i = j
           /\ \A k \in 1 .. n : \E i \in B : Rank(B, i) = k
<1> DEFINE Upto(i) == {j \in B : j <= i}
<1>1. ASSUME NEW i \in B
      PROVE  /\ Upto(i) \in SUBSET B /\ IsFiniteSet(Upto(i)) /\ i \in Upto(i)
             /\ Rank(B, i) = Cardinality(Upto(i)) /\ Rank(B, i) \in 1 .. n
  <2>1. Upto(i) \in SUBSET B /\ i \in Upto(i)
    OBVIOUS
  <2>2. Rank(B, i) = Cardinality(Upto(i))
    BY DEF Rank
  <2> HIDE DEF Upto
  <2>3. IsFiniteSet(Upto(i)) /\ Cardinality(Upto(i)) <= n
    BY <2>1, FS_Subset
  <2>4. Cardinality(Upto(i)) \in Nat /\ n \in Nat
    BY <2>3, FS_CardinalityType
  <2>5. Cardinality(Upto(i)) # 0
    BY <2>1, <2>3, FS_EmptySet
  <2> QED
    BY <2>1, <2>2, <2>3, <2>4, <2>5
<1>2. ASSUME NEW i \in B, NEW j \in B, i < j
      PROVE  Rank(B, i) # Rank(B, j)
  <2>0. i \in Nat /\ j \in Nat /\ \A l \in B : l \in Nat
    OBVIOUS
  <2>1. Upto(i) \in SUBSET Upto(j) /\ j \in Upto(j) /\ j \notin Upto(i)
    <3>1. \A l \in B : l <= i => l <= j
      BY <1>2, <2>0
    <3>2. ~(j <= i) /\ j <= j
      BY <1>2, <2>0
    <3> QED
      BY <3>1, <3>2
  <2>2. IsFiniteSet(Upto(j)) /\ Rank(B, i) = Cardinality(Upto(i)) /\ Rank(B, j) = Cardinality(Upto(j))
    BY <1>1
  <2> HIDE DEF Upto
  <2>3. Cardinality(Upto(i)) = Cardinality(Upto(j)) => Upto(i) = Upto(j)
    BY <2>1, <2>2, FS_Subset
  <2> QED
    BY <2>1, <2>2, <2>3
<1>3. ASSUME NEW i \in B, NEW j \in B, Rank(B, i) = Rank(B, j)
      PROVE  i = j
  <2>1. i < j \/ j < i \/ i = j
    OBVIOUS
  <2> QED
    BY <1>2, <1>3, <2>1
<1>4. n \in Nat
  BY FS_CardinalityType
<1> DEFINE f == [i \in B |-> Rank(B, i)]
<1>5. f \in Injection(B, 1 .. n)
  <2>1. f \in [B -> 1 .. n]
    BY <1>1
  <2>2. \A i, j \in B : f[i] = f[j] => i = j
    BY <1>3
  <2> QED
    BY <2>1, <2>2 DEF Injection, IsInjective
<1>6. IsFiniteSet(1 .. n) /\ Cardinality(1 .. n) = n
  <2>0. 1 \in Int /\ n \in Int
    BY <1>4
  <2> HIDE DEF f
  <2>1. Cardinality(1 .. n) = IF 1 > n THEN 0 ELSE n - 1 + 1
    BY ONLY <2>0, FS_Interval
  <2> QED
    BY <1>4, <2>1, FS_Interval
<1>7. f \in Surjection(B, 1 .. n)
  <2> HIDE DEF f
  <2> QED
    BY <1>5, <1>6, FS_Injection
<1>8. \A k \in 1 .. n : \E i \in B : Rank(B, i) = k
  BY <1>7 DEF Surjection
<1> QED
  BY <1>1, <1>3, <1>4, <1>8

LEMMA BodiesFacts ==
    ASSUME NEW fs \in Seq(FrameType)
    PROVE  /\ Bodies(fs) \in SUBSET Nat /\ IsFiniteSet(Bodies(fs)) /\ Cardinality(Bodies(fs)) \in Nat
           /\ \A i : i \in Bodies(fs) <=> i \in 2 .. Len(fs) /\ fs[i].fr = "body"
           /\ \A k \in 1 .. Cardinality(Bodies(fs)) :
                Body(fs, k) \in Bodies(fs) /\ Rank(Bodies(fs), Body(fs, k)) = k
<1> DEFINE B == Bodies(fs)
<1>1. Len(fs) \in Nat /\ DOMAIN fs = 1 .. Len(fs)
  BY FramesFacts
<1>2. \A i : i \in B <=> i \in 2 .. Len(fs) /\ fs[i].fr = "body"
  BY <1>1 DEF Bodies
<1> HIDE DEF B
<1>3. B \in SUBSET (2 .. Len(fs)) /\ B \in SUBSET Nat
  BY <1>1, <1>2
<1>4. IsFiniteSet(B)
  <2>1. IsFiniteSet(2 .. Len(fs))
    BY <1>1, FS_Interval
  <2> QED
    BY <1>3, <2>1, FS_Subset
<1>5. ASSUME NEW k \in 1 .. Cardinality(B)
      PROVE  Body(fs, k) \in B /\ Rank(B, Body(fs, k)) = k
  <2>1. Body(fs, k) = CHOOSE i \in B : Rank(B, i) = k
    BY DEF Body, B, Rank
  <2>2. \E i \in B : Rank(B, i) = k
    BY <1>3, <1>4, Ranks
  <2> QED
    BY <2>1, <2>2
<1> QED
  BY <1>2, <1>3, <1>4, <1>5, FS_CardinalityType DEF B

\* Bodies above the common frames there are none.
LEMMA CommonBodies ==
    ASSUME NEW fs, NEW gs, NEW s, NEW t, NEW k, Common(fs, gs, s, t, k),
           \A i \in k + 1 .. Len(fs) : i > 1 => fs[i].fr # "body",
           \A i \in k + 1 .. Len(gs) : i > 1 => gs[i].fr # "body"
    PROVE  BodiesBar(gs, t) = BodiesBar(fs, s)
<1> DEFINE B == Bodies(fs)
<1>1. /\ fs \in Seq(FrameType) /\ gs \in Seq(FrameType) /\ Len(fs) \in Nat /\ Len(gs) \in Nat
      /\ k \in Nat /\ k <= Len(fs) /\ k <= Len(gs)
      /\ \A i \in 1 .. k : fs[i].fr = gs[i].fr /\ fs[i].fn = gs[i].fn /\ fs[i].args = gs[i].args
  BY FramesFacts DEF Common
<1>2. \A i : i \in Bodies(fs) <=> i \in 2 .. Len(fs) /\ fs[i].fr = "body"
  BY <1>1, BodiesFacts
<1>3. \A i : i \in Bodies(gs) <=> i \in 2 .. Len(gs) /\ gs[i].fr = "body"
  BY <1>1, BodiesFacts
<1>4. ASSUME NEW i
      PROVE  /\ i \in Bodies(fs) <=> i \in 2 .. k /\ fs[i].fr = "body"
             /\ i \in Bodies(gs) <=> i \in 2 .. k /\ fs[i].fr = "body"
  <2>1. i \in 2 .. Len(fs) /\ fs[i].fr = "body" => i \in 2 .. k
    BY <1>1
  <2>2. i \in 2 .. Len(gs) /\ gs[i].fr = "body" => i \in 2 .. k
    BY <1>1
  <2>3. i \in 2 .. k => i \in 2 .. Len(fs) /\ i \in 2 .. Len(gs) /\ i \in 1 .. k
    BY <1>1
  <2> QED
    BY <1>1, <1>2, <1>3, <2>1, <2>2, <2>3
<1>5. Bodies(gs) = Bodies(fs)
  BY <1>4
<1>6. ASSUME NEW i \in Bodies(fs)
      PROVE  BodyBar(gs, t, i) = BodyBar(fs, s, i)
  <2>1. i \in 1 .. k /\ i \in 1 .. k + 1
    BY <1>1, <1>4
  <2>2. Awaiting(fs, s, i) = Awaiting(gs, t, i)
    BY <2>1, CommonAwaiting
  <2> QED
    BY <1>1, <2>1, <2>2 DEF BodyBar
<1>7. ASSUME NEW m \in 1 .. Cardinality(Bodies(fs))
      PROVE  BodyBar(gs, t, Body(gs, m)) = BodyBar(fs, s, Body(fs, m))
  <2>1. Body(gs, m) = Body(fs, m)
    BY <1>5 DEF Body
  <2>2. Body(fs, m) \in Bodies(fs)
    BY <1>1, BodiesFacts
  <2> QED
    BY <1>6, <2>1, <2>2
<1> QED
  BY <1>5, <1>7 DEF BodiesBar

\* The frame above them is a body.
LEMMA BodyAbove ==
    ASSUME NEW fs, NEW gs, NEW s, NEW t, NEW k, Common(fs, gs, s, t, k), k > 0,
           Len(fs) = k, Len(gs) = k + 1, gs[k + 1].fr = "body"
    PROVE  BodiesBar(gs, t) = Append(BodiesBar(fs, s), BodyBar(gs, t, k + 1))
<1> DEFINE B == Bodies(fs)
           C == Bodies(gs)
           n == Cardinality(B)
<1>1. /\ fs \in Seq(FrameType) /\ gs \in Seq(FrameType)
      /\ k \in Nat /\ \A i \in 1 .. k : fs[i].fr = gs[i].fr /\ fs[i].fn = gs[i].fn /\ fs[i].args = gs[i].args
  BY DEF Common
<1>2. /\ B \in SUBSET Nat /\ IsFiniteSet(B) /\ n \in Nat
      /\ \A i : i \in B <=> i \in 2 .. k /\ fs[i].fr = "body"
  BY <1>1, BodiesFacts
<1>3. /\ C \in SUBSET Nat /\ IsFiniteSet(C)
      /\ \A i : i \in C <=> i \in 2 .. k + 1 /\ gs[i].fr = "body"
      /\ \A m \in 1 .. Cardinality(C) : Body(gs, m) \in C /\ Rank(C, Body(gs, m)) = m
  BY <1>1, BodiesFacts
<1>4. ASSUME NEW i
      PROVE  i \in C <=> i \in B \/ i = k + 1
  <2>1. i \in 2 .. k + 1 <=> i \in 2 .. k \/ i = k + 1
    BY <1>1
  <2>2. i \in 2 .. k => i \in 1 .. k
    BY <1>1
  <2> QED
    BY <1>1, <1>2, <1>3, <2>1, <2>2
<1>5. k + 1 \notin B /\ \A i \in B : i < k + 1
  BY <1>1, <1>2
<1>6. C = B \union {k + 1}
  BY <1>4
<1>7. Cardinality(C) = n + 1
  <2> HIDE DEF B, C
  <2>1. Cardinality(B \union {k + 1}) = Cardinality(B) + 1
    BY <1>2, <1>5, FS_AddElement
  <2> QED
    BY <1>6, <2>1
<1>8. ASSUME NEW i \in B
      PROVE  Rank(C, i) = Rank(B, i)
  <2>1. {j \in C : j <= i} = {j \in B : j <= i}
    <3>1. ~(k + 1 <= i)
      BY <1>1, <1>2, <1>5
    <3> HIDE DEF B, C
    <3> QED
      BY <1>4, <3>1
  <2> QED
    BY <2>1 DEF Rank
<1>9. Rank(C, k + 1) = n + 1
  <2>1. {j \in C : j <= k + 1} = C
    BY <1>1, <1>3
  <2> HIDE DEF C
  <2> QED
    BY <1>7, <2>1 DEF Rank
<1>10. \A i, j \in C : Rank(C, i) = Rank(C, j) => i = j
  <2> HIDE DEF C
  <2> QED
    BY <1>3, Ranks
<1>11. Body(gs, n + 1) = k + 1
  <2>1. n + 1 \in 1 .. Cardinality(C) /\ k + 1 \in C
    BY <1>2, <1>4, <1>7
  <2> HIDE DEF B, C, n
  <2> QED
    BY <1>3, <1>9, <1>10, <2>1
<1>12. ASSUME NEW m \in 1 .. n
       PROVE  Body(gs, m) = Body(fs, m) /\ Body(fs, m) \in B
  <2>1. Body(fs, m) \in B /\ Rank(B, Body(fs, m)) = m
    BY <1>1, BodiesFacts
  <2>2. m \in 1 .. Cardinality(C)
    BY <1>2, <1>7
  <2>3. Body(gs, m) \in C /\ Rank(C, Body(gs, m)) = m
    BY <1>3, <2>2
  <2>4. Body(fs, m) \in C /\ Rank(C, Body(fs, m)) = m
    BY <1>4, <1>8, <2>1
  <2> HIDE DEF B, C, n
  <2> QED
    BY <1>10, <2>1, <2>3, <2>4
<1>13. ASSUME NEW i \in B
       PROVE  BodyBar(gs, t, i) = BodyBar(fs, s, i)
  <2>1. i \in 1 .. k /\ i \in 1 .. k + 1
    BY <1>1, <1>2
  <2>2. Awaiting(fs, s, i) = Awaiting(gs, t, i)
    BY <2>1, CommonAwaiting
  <2> QED
    BY <1>1, <2>1, <2>2 DEF BodyBar
<1>14. BodiesBar(fs, s) = [m \in 1 .. n |-> BodyBar(fs, s, Body(fs, m))]
  BY DEF BodiesBar
<1>15. BodiesBar(gs, t) = [m \in 1 .. n + 1 |-> BodyBar(gs, t, Body(gs, m))]
  BY <1>7 DEF BodiesBar
<1> DEFINE e == BodyBar(gs, t, k + 1)
           b(m) == BodyBar(fs, s, Body(fs, m))
<1>16. ASSUME NEW m \in 1 .. n + 1
       PROVE  BodyBar(gs, t, Body(gs, m)) = IF m = n + 1 THEN e ELSE b(m)
  <2>1. m \in 1 .. n \/ m = n + 1
    BY <1>2
  <2>2. CASE m = n + 1
    BY <1>11, <2>2
  <2>3. CASE m \in 1 .. n
    <3>1. m # n + 1
      BY <1>2, <2>3
    <3> QED
      BY <1>12, <1>13, <2>3, <3>1
  <2> QED
    BY <2>1, <2>2, <2>3
<1> HIDE DEF n, e, b
<1>17. BodiesBar(fs, s) = [m \in 1 .. n |-> b(m)] /\ Len(BodiesBar(fs, s)) = n
  BY <1>2, <1>14 DEF b
<1>18. BodiesBar(gs, t) = [m \in 1 .. n + 1 |-> IF m = n + 1 THEN e ELSE b(m)]
  BY <1>15, <1>16
<1>19. Append([m \in 1 .. n |-> b(m)], e) = [m \in 1 .. n + 1 |-> IF m = n + 1 THEN e ELSE b(m)]
  BY <1>2
<1> QED
  BY <1>17, <1>18, <1>19 DEF e

-----------------------------------------------------------------------------
(* States and steps *)

LEMMA AtFacts ==
    ASSUME NEW h, NEW s, NEW fs, NEW c, NEW th, InvAt(h, s, fs, c, th),
           NEW a, a = (IF c.op = "apply" THEN c.n ELSE 0)
    PROVE  /\ h \in [Address -> Object] /\ Shell(h) /\ \A o \in Address : ObjectOK(h, o)
           /\ Fits(fs, s) /\ fs \in Seq(FrameType) /\ fs # <<>> /\ Len(fs) \in Nat \ {0}
           /\ DOMAIN fs = 1 .. Len(fs) /\ Last(fs) = fs[Len(fs)] /\ Last(fs) \in FrameType
           /\ fs[1].fr = "body" /\ fs[1].fn = NoFn
           /\ s \in Seq(Value) /\ Len(s) \in Nat /\ a \in Nat /\ Slots(fs, DOMAIN fs) \in Nat
           /\ Len(s) = a + Slots(fs, DOMAIN fs)
           /\ \A k \in 0 .. Len(fs) :
                Slots(fs, 1 .. k) \in Nat /\ Slots(fs, 1 .. k) <= Slots(fs, DOMAIN fs)
<1>1. /\ Good(h, s, fs, None) /\ fs \in Seq(FrameType) /\ fs # <<>> /\ Len(fs) \in Nat \ {0}
      /\ s \in Seq(Value) /\ Len(s) \in Nat /\ a \in Nat
      /\ Len(s) = a + Slots(fs, DOMAIN fs) /\ Slots(fs, DOMAIN fs) \in Nat
      /\ Last(fs) \in FrameType /\ Last(fs) = fs[Len(fs)]
  BY InvFacts
<1>2. h \in [Address -> Object] /\ Fits(fs, s) /\ DOMAIN fs = 1 .. Len(fs)
  BY <1>1, GoodFacts
<1>3. Shell(h)
  BY <1>2, HeapShell
<1>4. (\A o \in Address : ObjectOK(h, o)) /\ \A i \in DOMAIN fs : FrameOK(h, fs, s, i)
  BY <1>1 DEF Good
<1>5. fs[1].fr = "body" /\ fs[1].fn = NoFn
  <2>1. 1 \in DOMAIN fs
    BY <1>1, <1>2
  <2>2. FrameOK(h, fs, s, 1)
    BY <1>4, <2>1
  <2> QED
    BY <2>2 DEF FrameOK
<1>6. ASSUME NEW k \in 0 .. Len(fs)
      PROVE  Slots(fs, 1 .. k) \in Nat /\ Slots(fs, 1 .. k) <= Slots(fs, DOMAIN fs)
  <2>1. 1 .. k \in SUBSET DOMAIN fs /\ Len(fs) \in 0 .. Len(fs) /\ k <= Len(fs)
    BY <1>1, <1>2
  <2>2. Slots(fs, 1 .. k) \in Nat
    BY <1>1, <2>1, SlotsFacts
  <2>3. Slots(fs, 1 .. k) <= Slots(fs, 1 .. Len(fs))
    BY <1>1, <2>1, SlotsFacts
  <2> QED
    BY <1>2, <2>2, <2>3
<1> QED
  BY <1>1, <1>2, <1>3, <1>4, <1>5, <1>6

\* The first k frames are the same.
Likes(fs, gs, k) ==
    \A i \in 1 .. k : fs[i].fr = gs[i].fr /\ fs[i].fn = gs[i].fn /\ fs[i].args = gs[i].args /\ fs[i].n = gs[i].n
Twin(f, g) == f.fr = g.fr /\ f.fn = g.fn /\ f.args = g.args /\ f.n = g.n

LEMMA Likely ==
    ASSUME NEW fs \in Seq(FrameType), NEW f
    PROVE  /\ Len(Append(fs, f)) = Len(fs) + 1 /\ Likes(fs, Append(fs, f), Len(fs))
           /\ Append(fs, f)[Len(fs) + 1] = f
           /\ fs # <<>> =>
                /\ Len(Front(fs)) = Len(fs) - 1 /\ Likes(fs, Front(fs), Len(fs) - 1)
                /\ Len(Append(Front(fs), f)) = Len(fs) /\ Likes(fs, Append(Front(fs), f), Len(fs) - 1)
                /\ Append(Front(fs), f)[Len(fs)] = f
                /\ Twin(Last(fs), f) => Likes(fs, Append(Front(fs), f), Len(fs))
<1>1. Len(fs) \in Nat /\ DOMAIN fs = 1 .. Len(fs)
  BY FramesFacts
<1>2. ASSUME NEW gs \in Seq(FrameType)
      PROVE  /\ Len(Append(gs, f)) = Len(gs) + 1 /\ Append(gs, f)[Len(gs) + 1] = f
             /\ \A i \in 1 .. Len(gs) : Append(gs, f)[i] = gs[i]
  <2>1. Len(gs) \in Nat
    BY LenProperties
  <2> QED
    BY <2>1
<1>3. Likes(fs, Append(fs, f), Len(fs))
  BY <1>2 DEF Likes
<1>4. ASSUME fs # <<>>
      PROVE  /\ Len(Front(fs)) = Len(fs) - 1 /\ Likes(fs, Front(fs), Len(fs) - 1)
             /\ Len(Append(Front(fs), f)) = Len(fs) /\ Likes(fs, Append(Front(fs), f), Len(fs) - 1)
             /\ Append(Front(fs), f)[Len(fs)] = f
             /\ Twin(Last(fs), f) => Likes(fs, Append(Front(fs), f), Len(fs))
  <2> DEFINE gs == Front(fs)
             hs == Append(gs, f)
  <2>1. /\ gs \in Seq(FrameType) /\ Len(gs) = Len(fs) - 1 /\ Len(fs) \in Nat \ {0}
        /\ Last(fs) = fs[Len(fs)] /\ \A d \in 1 .. Len(fs) - 1 : gs[d] = fs[d]
    BY <1>4, FrontFacts
  <2> HIDE DEF gs
  <2>2. /\ Len(hs) = Len(gs) + 1 /\ hs[Len(gs) + 1] = f
        /\ \A i \in 1 .. Len(gs) : hs[i] = gs[i]
    BY <1>2, <2>1
  <2>3. Len(gs) + 1 = Len(fs)
    BY <2>1
  <2> HIDE DEF hs
  <2>4. Likes(fs, gs, Len(fs) - 1) /\ Likes(fs, hs, Len(fs) - 1)
    BY <2>1, <2>2 DEF Likes
  <2>5. Twin(Last(fs), f) => Likes(fs, hs, Len(fs))
    <3>1. \A i \in 1 .. Len(fs) : i \in 1 .. Len(fs) - 1 \/ i = Len(fs)
      BY <2>1
    <3> QED
      BY <2>1, <2>2, <2>3, <2>4, <3>1 DEF Likes, Twin
  <2> QED
    BY <2>1, <2>2, <2>3, <2>4, <2>5 DEF gs, hs
<1> QED
  BY <1>2, <1>3, <1>4

LEMMA CommonMade ==
    ASSUME NEW fs, NEW gs, NEW s, NEW t, Fits(fs, s), Fits(gs, t),
           NEW k \in Nat, k <= Len(fs), k <= Len(gs), Likes(fs, gs, k), Bottom(s, t, Slots(fs, 1 .. k))
    PROVE  Common(fs, gs, s, t, k)
<1>1. Agree(fs, gs, s, t, k)
  BY DEF Agree, Likes
<1>2. \A i \in 1 .. k : Share(fs, s, i) = Share(gs, t, i)
  BY <1>1, SameShares
<1> QED
  BY <1>2 DEF Common, Likes, Fits

LEMMA StackedOn ==
    ASSUME NEW fs, NEW gs, NEW k \in Nat, Stacked(fs), k <= Len(fs), Len(gs) \in Nat, Len(gs) <= k + 1,
           Likes(fs, gs, k),
           Len(gs) = k + 1 /\ k > 0 =>
                /\ gs[k + 1].fr \in {"over", "again"} => gs[k].fr \in {"body", "again"}
                /\ gs[k + 1].fr = "over" => gs[k + 1].n > 0
    PROVE  Stacked(gs)
<1>1. ASSUME NEW i \in 2 .. Len(gs)
      PROVE  /\ gs[i].fr \in {"over", "again"} => gs[i - 1].fr \in {"body", "again"}
             /\ gs[i].fr = "over" => gs[i].n > 0
  <2>1. CASE i <= k
    <3>1. i \in 2 .. Len(fs) /\ i \in 1 .. k /\ i - 1 \in 1 .. k
      BY <2>1, LenProperties DEF Stacked
    <3> QED
      BY <3>1 DEF Stacked, Likes
  <2>2. CASE ~(i <= k)
    <3>1. i = k + 1 /\ Len(gs) = k + 1 /\ k > 0 /\ i - 1 = k
      BY <2>2
    <3> QED
      BY <3>1
  <2> QED
    BY <2>1, <2>2
<1> QED
  BY <1>1 DEF Stacked

\* What is so in every state
Sane(h, s, fs, c, th) == InvAt(h, s, fs, c, th) /\ Shape(h, fs, c)

LEMMA SaneFacts ==
    ASSUME NEW h, NEW s, NEW fs, NEW c, NEW th, Sane(h, s, fs, c, th)
    PROVE  Sound(h) /\ Piled(fs) /\ Stacked(fs) /\ Exactly(h, fs, c)
<1>1. /\ h \in [Address -> Object] /\ \A o \in Address : ObjectOK(h, o)
  BY AtFacts DEF Sane
<1>2. fs \in Seq(FrameType) /\ fs # <<>> /\ fs[1].fr = "body"
  BY AtFacts DEF Sane
<1> QED
  BY <1>1, <1>2 DEF Sane, Shape, Sound, Piled

LEMMA ShapeMade ==
    ASSUME NEW h, NEW s, NEW fs, NEW c, NEW th, Sane(h, s, fs, c, th),
           NEW g, NEW t, NEW gs, NEW d, NEW ti, InvAt(g, t, gs, d, ti),
           Alters(h, g), NEW n, Grows(h, g, n), Stacked(gs), Exactly(g, gs, d)
    PROVE  Sane(g, t, gs, d, ti) /\ Sound(g) /\ Piled(gs)
<1>1. Sound(h)
  BY SaneFacts
<1>2. g \in [Address -> Object] /\ \A o \in Address : ObjectOK(g, o)
  BY AtFacts
<1>3. Sound(g)
  BY <1>1, <1>2, SoundKept
<1>4. Sane(g, t, gs, d, ti)
  BY <1>3 DEF Sane, Shape, Sound
<1> QED
  BY <1>3, <1>4, SaneFacts

\* A heap that a step moves
LEMMA MovedSound ==
    ASSUME NEW h, NEW g, NEW A, Moves(h, g, A)
    PROVE  Alters(h, g) /\ \A n : Grows(h, g, n)
BY MovesAlters DEF Grows

\* What a step does with the stack, so that the first k frames keep what they have
Drawn(fs, s, t, k) ==
    \/ t = s
    \/ \E p \in Seq(Value) : t = p \o s
    \/ \E n \in Nat : t = SubSeq(s, n + 1, Len(s)) /\ n + Slots(fs, 1 .. k) <= Len(s)

LEMMA CommonStep ==
    ASSUME NEW h, NEW s, NEW fs, NEW c, NEW th, InvAt(h, s, fs, c, th),
           NEW g, NEW t, NEW gs, NEW d, NEW ti, InvAt(g, t, gs, d, ti),
           NEW k \in Nat, k <= Len(fs), k <= Len(gs), Likes(fs, gs, k), Drawn(fs, s, t, k)
    PROVE  Common(fs, gs, s, t, k) /\ Common(gs, fs, t, s, k)
<1> DEFINE m == Slots(fs, 1 .. k)
<1>1. Fits(fs, s) /\ s \in Seq(Value) /\ Len(s) \in Nat /\ fs \in Seq(FrameType)
  BY AtFacts
<1>2. Fits(gs, t)
  BY AtFacts
<1>3. m \in Nat /\ m <= Len(s)
  <2> DEFINE a == IF c.op = "apply" THEN c.n ELSE 0
             z == Slots(fs, DOMAIN fs)
  <2>1. k \in 0 .. Len(fs)
    BY <1>1, LenProperties
  <2>2. m \in Nat /\ m <= z
    BY <2>1, AtFacts
  <2>3. a \in Nat /\ z \in Nat /\ Len(s) = a + z
    BY AtFacts
  <2> HIDE DEF a, z, m
  <2> QED
    BY <2>2, <2>3
<1> HIDE DEF m
<1>4. Bottom(s, t, m)
  <2>1. CASE t = s
    BY <1>1, <1>3, <2>1 DEF Bottom
  <2>2. CASE \E p \in Seq(Value) : t = p \o s
    <3>1. PICK p \in Seq(Value) : t = p \o s
      BY <2>2
    <3> QED
      BY <1>1, <1>3, <3>1, Higher
  <2>3. CASE \E n \in Nat : t = SubSeq(s, n + 1, Len(s)) /\ n + m <= Len(s)
    <3>1. PICK n \in Nat : t = SubSeq(s, n + 1, Len(s)) /\ n + m <= Len(s)
      BY <2>3
    <3>2. n <= Len(s) /\ m <= Len(s) - n
      BY <1>1, <1>3, <3>1
    <3> QED
      BY <1>1, <1>3, <3>1, <3>2, Lower
  <2> QED
    BY <2>1, <2>2, <2>3 DEF Drawn, m
<1>5. Common(fs, gs, s, t, k)
  BY <1>1, <1>2, <1>4, CommonMade DEF m
<1>6. Common(gs, fs, t, s, k)
  BY <1>5 DEF Common
<1> QED
  BY <1>5, <1>6

\* The innermost frame ends.
LEMMA PopView ==
    ASSUME NEW h, NEW s, NEW fs, NEW c, NEW th, Sane(h, s, fs, c, th),
           NEW g, NEW t, NEW gs, NEW d, NEW ti, InvAt(g, t, gs, d, ti),
           gs = Front(fs), Drawn(fs, s, t, Len(fs) - 1)
    PROVE  /\ Len(fs) \in Nat /\ Len(fs) > 1 /\ Len(gs) = Len(fs) - 1 /\ Len(gs) + 1 = Len(fs)
           /\ Stacked(gs) /\ Piled(gs) /\ Last(fs) = fs[Len(fs)] /\ Last(gs) = fs[Len(fs) - 1]
           /\ Awaiting(gs, t, Len(gs) + 1) = Awaiting(fs, s, Len(fs))
           /\ Last(fs).fr # "body" => BodiesBar(gs, t) = BodiesBar(fs, s)
           /\ Last(fs).fr = "body" =>
                BodiesBar(fs, s) = Append(BodiesBar(gs, t), BodyBar(fs, s, Len(fs)))
<1> DEFINE k == Len(fs) - 1
<1>1. /\ fs \in Seq(FrameType) /\ fs # <<>> /\ Len(fs) \in Nat \ {0} /\ Last(fs) = fs[Len(fs)]
      /\ fs[1].fr = "body"
  BY AtFacts DEF Sane
<1>2. gs # <<>> /\ gs \in Seq(FrameType) /\ Len(gs) \in Nat \ {0} /\ gs[1].fr = "body" /\ Last(gs) = gs[Len(gs)]
  BY AtFacts
<1>3. Len(gs) = Len(fs) - 1 /\ Likes(fs, gs, Len(fs) - 1)
  BY <1>1, Likely
<1>4. k \in Nat /\ k <= Len(fs) /\ k <= Len(gs) /\ k > 0 /\ Len(gs) = k /\ Len(fs) = k + 1
  BY <1>1, <1>2, <1>3
<1>5. Stacked(fs)
  BY SaneFacts
<1>6. Common(fs, gs, s, t, k) /\ Common(gs, fs, t, s, k)
  BY <1>3, <1>4, CommonStep DEF Sane
<1>7. Stacked(gs)
  <2>1. Len(gs) # k + 1 /\ Len(gs) <= k + 1
    BY <1>4
  <2> QED
    BY <1>3, <1>4, <1>5, <2>1, StackedOn
<1>8. Awaiting(gs, t, Len(gs) + 1) = Awaiting(fs, s, Len(fs))
  <2>1. k + 1 \in 1 .. k + 1
    BY <1>4
  <2> HIDE DEF k
  <2> QED
    BY <1>4, <1>6, <2>1, CommonAwaiting
<1>9. ASSUME Last(fs).fr # "body"
      PROVE  BodiesBar(gs, t) = BodiesBar(fs, s)
  <2>1. \A i \in k + 1 .. Len(fs) : i = Len(fs)
    BY <1>4
  <2>2. \A i \in k + 1 .. Len(gs) : FALSE
    BY <1>4
  <2> HIDE DEF k
  <2> QED
    BY <1>1, <1>6, <1>9, <2>1, <2>2, CommonBodies
<1>10. ASSUME Last(fs).fr = "body"
       PROVE  BodiesBar(fs, s) = Append(BodiesBar(gs, t), BodyBar(fs, s, Len(fs)))
  <2> HIDE DEF k
  <2>1. fs[k + 1].fr = "body"
    BY <1>1, <1>4, <1>10
  <2>2. BodiesBar(fs, s) = Append(BodiesBar(gs, t), BodyBar(fs, s, k + 1))
    BY <1>4, <1>6, <2>1, BodyAbove
  <2> QED
    BY <1>4, <2>2
<1>11. Last(gs) = fs[Len(fs) - 1]
  BY <1>1, <1>2, <1>4, FrontFacts
<1> QED
  BY <1>1, <1>2, <1>3, <1>4, <1>7, <1>8, <1>9, <1>10, <1>11 DEF Piled

\* A frame begins.
Pushes(h, s, fs, c, th, g, t, gs, d, ti, f) ==
    /\ Sane(h, s, fs, c, th) /\ InvAt(g, t, gs, d, ti)
    /\ gs = Append(fs, f) /\ Drawn(fs, s, t, Len(fs))
    /\ f.fr \in {"over", "again"} => Last(fs).fr \in {"body", "again"}
    /\ f.fr = "over" => f.n > 0

LEMMA PushView ==
    ASSUME NEW h, NEW s, NEW fs, NEW c, NEW th, NEW g, NEW t, NEW gs, NEW d, NEW ti, NEW f,
           Pushes(h, s, fs, c, th, g, t, gs, d, ti, f)
    PROVE  /\ Len(fs) \in Nat /\ Len(gs) = Len(fs) + 1 /\ Last(gs) = f /\ gs[Len(gs)] = f
           /\ Len(gs) \in DOMAIN gs
           /\ Stacked(gs) /\ Piled(gs)
           /\ Awaiting(gs, t, Len(gs)) = Awaiting(fs, s, Len(fs) + 1)
           /\ f.fr # "body" => BodiesBar(gs, t) = BodiesBar(fs, s)
           /\ f.fr = "body" =>
                BodiesBar(gs, t) = Append(BodiesBar(fs, s), BodyBar(gs, t, Len(gs)))
<1>0. /\ Sane(h, s, fs, c, th) /\ InvAt(g, t, gs, d, ti)
      /\ gs = Append(fs, f) /\ Drawn(fs, s, t, Len(fs))
      /\ f.fr \in {"over", "again"} => Last(fs).fr \in {"body", "again"}
      /\ f.fr = "over" => f.n > 0
  BY DEF Pushes
<1> DEFINE k == Len(fs)
<1>1. fs \in Seq(FrameType) /\ fs # <<>> /\ k \in Nat \ {0} /\ Last(fs) = fs[k]
  BY <1>0, AtFacts DEF Sane
<1>2. gs # <<>> /\ gs \in Seq(FrameType) /\ Len(gs) \in Nat \ {0} /\ gs[1].fr = "body"
      /\ Last(gs) = gs[Len(gs)] /\ DOMAIN gs = 1 .. Len(gs)
  BY <1>0, AtFacts
<1>3. Len(gs) = k + 1 /\ Likes(fs, gs, k) /\ gs[k + 1] = f
  BY <1>0, <1>1, Likely
<1>4. k \in Nat /\ k <= Len(fs) /\ k <= Len(gs) /\ k > 0 /\ Len(gs) <= k + 1
  BY <1>1, <1>3
<1>5. Stacked(fs)
  BY <1>0, SaneFacts
<1>6. Common(fs, gs, s, t, k)
  BY <1>0, <1>3, <1>4, CommonStep DEF Sane
<1>7. Stacked(gs)
  <2>1. gs[k].fr = fs[k].fr
    BY <1>1, <1>3 DEF Likes
  <2> HIDE DEF k
  <2>2. /\ gs[k + 1].fr \in {"over", "again"} => gs[k].fr \in {"body", "again"}
        /\ gs[k + 1].fr = "over" => gs[k + 1].n > 0
    BY <1>0, <1>1, <1>3, <2>1
  <2>3. Len(gs) \in Nat
    BY <1>2
  <2> QED
    BY ONLY <1>3, <1>4, <1>5, <2>2, <2>3, StackedOn
<1>8. Awaiting(gs, t, Len(gs)) = Awaiting(fs, s, Len(fs) + 1)
  <2>1. k + 1 \in 1 .. k + 1
    BY <1>4
  <2>2. Awaiting(gs, t, k + 1) = Awaiting(fs, s, k + 1)
    <3> HIDE DEF k
    <3> QED
      BY <1>6, <2>1, CommonAwaiting
  <2> QED
    BY <1>3, <2>2
<1>9. ASSUME f.fr # "body"
      PROVE  BodiesBar(gs, t) = BodiesBar(fs, s)
  <2>1. \A i \in k + 1 .. Len(gs) : i = k + 1
    BY <1>3, <1>4
  <2>2. \A i \in k + 1 .. Len(fs) : FALSE
    BY <1>4
  <2> HIDE DEF k
  <2>3. \A i \in k + 1 .. Len(gs) : i > 1 => gs[i].fr # "body"
    BY <1>3, <1>9, <2>1
  <2>4. \A i \in k + 1 .. Len(fs) : i > 1 => fs[i].fr # "body"
    BY <2>2
  <2> QED
    BY ONLY <1>6, <2>3, <2>4, CommonBodies
<1>10. ASSUME f.fr = "body"
       PROVE  BodiesBar(gs, t) = Append(BodiesBar(fs, s), BodyBar(gs, t, Len(gs)))
  <2>1. Len(fs) = k
    OBVIOUS
  <2> HIDE DEF k
  <2>2. gs[k + 1].fr = "body"
    BY <1>3, <1>10
  <2>3. BodiesBar(gs, t) = Append(BodiesBar(fs, s), BodyBar(gs, t, k + 1))
    BY ONLY <1>3, <1>4, <1>6, <2>1, <2>2, BodyAbove
  <2> QED
    BY <1>3, <2>3
<1> QED
  BY <1>1, <1>2, <1>3, <1>7, <1>8, <1>9, <1>10 DEF Piled

\* The frames stay, though a body may have other values.
LEMMA StillView ==
    ASSUME NEW h, NEW s, NEW fs, NEW c, NEW th, Sane(h, s, fs, c, th),
           NEW g, NEW t, NEW gs, NEW d, NEW ti, InvAt(g, t, gs, d, ti),
           Len(gs) = Len(fs), Likes(fs, gs, Len(fs)), Drawn(fs, s, t, Len(fs))
    PROVE  /\ Stacked(gs) /\ Piled(gs)
           /\ Awaiting(gs, t, Len(gs) + 1) = Awaiting(fs, s, Len(fs) + 1)
           /\ BodiesBar(gs, t) = BodiesBar(fs, s)
<1> DEFINE k == Len(fs)
<1>1. fs \in Seq(FrameType) /\ fs # <<>> /\ k \in Nat \ {0}
  BY AtFacts DEF Sane
<1>2. gs # <<>> /\ gs \in Seq(FrameType) /\ gs[1].fr = "body"
  BY AtFacts
<1>3. k \in Nat /\ k <= Len(fs) /\ k <= Len(gs) /\ Len(gs) # k + 1 /\ Len(gs) <= k + 1 /\ Len(gs) \in Nat
  BY <1>1
<1>4. Common(fs, gs, s, t, k)
  BY <1>3, CommonStep DEF Sane
<1>5. Stacked(fs)
  BY SaneFacts
<1>6. Stacked(gs)
  <2> HIDE DEF k
  <2> QED
    BY <1>3, <1>5, StackedOn DEF k
<1>7. k + 1 \in 1 .. k + 1
  BY <1>3
<1>8. (\A i \in k + 1 .. Len(fs) : FALSE) /\ \A i \in k + 1 .. Len(gs) : FALSE
  BY <1>3
<1>9. Awaiting(gs, t, k + 1) = Awaiting(fs, s, k + 1)
  <2> HIDE DEF k
  <2> QED
    BY <1>4, <1>7, CommonAwaiting
<1>10. BodiesBar(gs, t) = BodiesBar(fs, s)
  <2> HIDE DEF k
  <2> QED
    BY <1>4, <1>8, CommonBodies
<1> QED
  BY <1>2, <1>6, <1>9, <1>10 DEF Piled

\* One frame takes the place of another, a body that of a body.
Swaps(h, s, fs, c, th, g, t, gs, d, ti, f) ==
    /\ Sane(h, s, fs, c, th) /\ InvAt(g, t, gs, d, ti)
    /\ gs = Append(Front(fs), f) /\ Len(fs) > 1 /\ Drawn(fs, s, t, Len(fs) - 1)
    /\ \/ Last(fs).fr = "over" /\ f.fr = "again"
       \/ Last(fs).fr = "body" /\ f.fr = "body"

\* Two stacks of frames have the same bodies, but for the innermost.
SameBelow(fs, s, gs, t) ==
    \E low \in Seq(FrameType) :
        /\ BodiesBar(fs, s) = Append(BodiesBar(low, s), BodyBar(fs, s, Len(fs)))
        /\ BodiesBar(gs, t) = Append(BodiesBar(low, s), BodyBar(gs, t, Len(gs)))

LEMMA SwapView ==
    ASSUME NEW h, NEW s, NEW fs, NEW c, NEW th, NEW g, NEW t, NEW gs, NEW d, NEW ti, NEW f,
           Swaps(h, s, fs, c, th, g, t, gs, d, ti, f)
    PROVE  /\ Len(fs) \in Nat /\ Len(gs) = Len(fs) /\ Last(gs) = f /\ gs[Len(gs)] = f
           /\ Len(gs) \in DOMAIN gs
           /\ Stacked(gs) /\ Piled(gs)
           /\ Awaiting(gs, t, Len(gs)) = Awaiting(fs, s, Len(fs))
           /\ f.fr # "body" => BodiesBar(gs, t) = BodiesBar(fs, s)
           /\ f.fr = "body" => SameBelow(fs, s, gs, t)
<1>0. /\ Sane(h, s, fs, c, th) /\ InvAt(h, s, fs, c, th) /\ InvAt(g, t, gs, d, ti)
      /\ gs = Append(Front(fs), f) /\ Len(fs) > 1 /\ Drawn(fs, s, t, Len(fs) - 1)
      /\ \/ Last(fs).fr = "over" /\ f.fr = "again"
         \/ Last(fs).fr = "body" /\ f.fr = "body"
  BY DEF Swaps, Sane
<1> DEFINE k == Len(fs) - 1
           low == Front(fs)
<1>1. fs \in Seq(FrameType) /\ fs # <<>> /\ Len(fs) \in Nat \ {0} /\ Last(fs) = fs[Len(fs)]
  BY <1>0, AtFacts
<1>2. gs # <<>> /\ gs \in Seq(FrameType) /\ gs[1].fr = "body" /\ Last(gs) = gs[Len(gs)]
      /\ DOMAIN gs = 1 .. Len(gs)
  BY <1>0, AtFacts
<1>3. Len(gs) = Len(fs) /\ Likes(fs, gs, Len(fs) - 1) /\ gs[Len(fs)] = f
      /\ Len(low) = Len(fs) - 1 /\ Likes(fs, low, Len(fs) - 1)
  BY <1>0, <1>1, Likely
<1>4. k \in Nat /\ k > 0 /\ k <= Len(fs) /\ k <= Len(gs) /\ k <= Len(low) /\ Len(fs) = k + 1 /\ Len(gs) = k + 1
      /\ Len(low) = k /\ Len(gs) \in Nat /\ Len(gs) <= k + 1
  BY <1>0, <1>1, <1>3
<1>5. Likes(fs, gs, k) /\ Likes(fs, low, k) /\ gs[k + 1] = f /\ Last(fs) = fs[k + 1] /\ Drawn(fs, s, t, k)
  BY <1>0, <1>1, <1>3, <1>4
<1>6. low \in Seq(FrameType)
  BY <1>1, FrontFacts
<1>7. Common(fs, low, s, s, k)
  <2>1. Fits(fs, s) /\ s \in Seq(Value) /\ Len(s) \in Nat
    BY <1>0, AtFacts
  <2>2. Slots(low, DOMAIN low) \in Nat /\ Slots(low, DOMAIN low) <= Len(s)
    <3> DEFINE a == IF c.op = "apply" THEN c.n ELSE 0
    <3>1. a = (IF c.op = "apply" THEN c.n ELSE 0)
      OBVIOUS
    <3> HIDE DEF a
    <3>2. a \in Nat /\ Len(s) = a + Slots(fs, DOMAIN fs)
      BY <1>0, <3>1, AtFacts
    <3>3. /\ Last(fs).n \in Nat /\ a + Last(fs).n <= Len(s)
          /\ Slots(low, DOMAIN low) = Len(s) - (a + Last(fs).n)
          /\ Slots(low, DOMAIN low) \in Nat
      BY <1>1, <2>1, <3>2, TopShare
    <3> HIDE DEF low
    <3> QED
      BY <2>1, <3>2, <3>3
  <2>3. Fits(low, s)
    BY <1>6, <2>1, <2>2 DEF Fits
  <2>4. Bottom(s, s, Slots(fs, 1 .. k))
    <3>1. Slots(fs, 1 .. k) <= Len(s)
      <4>1. k \in 0 .. Len(fs)
        BY <1>4
      <4>2. Slots(fs, DOMAIN fs) \in Nat /\ Slots(fs, DOMAIN fs) <= Len(s)
        BY <1>1, <2>1, SlotsFacts DEF Fits
      <4>3. Slots(fs, 1 .. k) \in Nat /\ Slots(fs, 1 .. k) <= Slots(fs, DOMAIN fs)
        BY <1>0, <4>1, AtFacts
      <4> QED
        BY <2>1, <4>2, <4>3
    <3> QED
      BY <3>1 DEF Bottom
  <2> HIDE DEF k, low
  <2> QED
    BY <1>4, <1>5, <2>1, <2>3, <2>4, CommonMade
<1> HIDE DEF k, low
<1>8. Common(fs, gs, s, t, k)
  BY <1>0, <1>4, <1>5, CommonStep
<1>9. Common(low, fs, s, s, k) /\ Common(low, gs, s, t, k)
  BY <1>7, <1>8 DEF Common
<1>10. Stacked(gs)
  <2>1. Stacked(fs)
    BY <1>0, SaneFacts
  <2>2. gs[k].fr = fs[k].fr
    BY <1>4, <1>5 DEF Likes
  <2>3. fs[k + 1].fr = "over" => fs[k].fr \in {"body", "again"}
    <3>1. k + 1 \in 2 .. Len(fs) /\ (k + 1) - 1 = k
      BY <1>4
    <3> QED
      BY <2>1, <3>1 DEF Stacked
  <2>4. /\ gs[k + 1].fr \in {"over", "again"} => gs[k].fr \in {"body", "again"}
        /\ gs[k + 1].fr = "over" => gs[k + 1].n > 0
    BY <1>0, <1>5, <2>2, <2>3
  <2> QED
    BY ONLY <1>4, <1>5, <2>1, <2>4, StackedOn
<1>11. Awaiting(gs, t, Len(gs)) = Awaiting(fs, s, Len(fs))
  <2>1. k + 1 \in 1 .. k + 1
    BY <1>4
  <2>2. Awaiting(fs, s, k + 1) = Awaiting(gs, t, k + 1)
    BY <1>8, <2>1, CommonAwaiting
  <2> QED
    BY <1>4, <2>2
<1>12. ASSUME f.fr # "body"
       PROVE  BodiesBar(gs, t) = BodiesBar(fs, s)
  <2>1. \A i \in k + 1 .. Len(gs) : i = k + 1
    BY <1>4
  <2>2. \A i \in k + 1 .. Len(fs) : i = k + 1
    BY <1>4
  <2>3. \A i \in k + 1 .. Len(gs) : i > 1 => gs[i].fr # "body"
    BY <1>5, <1>12, <2>1
  <2>4. \A i \in k + 1 .. Len(fs) : i > 1 => fs[i].fr # "body"
    BY <1>0, <1>5, <1>12, <2>2
  <2> QED
    BY ONLY <1>8, <2>3, <2>4, CommonBodies
<1>13. ASSUME f.fr = "body"
       PROVE  SameBelow(fs, s, gs, t)
  <2>1. fs[k + 1].fr = "body" /\ gs[k + 1].fr = "body"
    BY <1>0, <1>5, <1>13
  <2>2. BodiesBar(fs, s) = Append(BodiesBar(low, s), BodyBar(fs, s, k + 1))
    BY ONLY <1>4, <1>9, <2>1, BodyAbove
  <2>3. BodiesBar(gs, t) = Append(BodiesBar(low, s), BodyBar(gs, t, k + 1))
    BY ONLY <1>4, <1>9, <2>1, BodyAbove
  <2> QED
    BY <1>4, <1>6, <2>2, <2>3 DEF SameBelow
<1>14. Len(fs) \in Nat /\ Len(gs) = Len(fs) /\ Last(gs) = f /\ gs[Len(gs)] = f /\ Len(gs) \in DOMAIN gs
  BY <1>2, <1>4, <1>5
<1>15. Piled(gs)
  BY <1>2, <1>10 DEF Piled
<1> QED
  BY <1>10, <1>11, <1>12, <1>13, <1>14, <1>15

-----------------------------------------------------------------------------
(* The mapped state *)

Obj == ObjBar(heap)
Begun == BodiesBar(frames, sp)
Later == Awaiting(frames, sp, Len(frames) + 1)
Now == NowBar(heap, sp, ctl, Later)

Refined == ShapeInv' /\ [Uncurried!AbsNext]_<<Obj, Begun, Now>>

LEMMA Stutters ==
    ASSUME ShapeInv', Obj' = Obj, Begun' = Begun, Now' = Now
    PROVE  Refined
BY DEF Refined

LEMMA StaysBar ==
    ASSUME Sound(heap), Sound(heap')
    PROVE  /\ Keeps(heap, heap', {}) => Uncurried!ObjectsStay
           /\ \A a : Keeps(heap, heap', {a}) => Uncurried!NewObject(a)
<1>1. ASSUME Keeps(heap, heap', {})
      PROVE  Uncurried!ObjectsStay
  <2>1. \A o \in DOMAIN ObjBar(heap) \intersect DOMAIN ObjBar(heap') : ObjBar(heap')[o] = ObjBar(heap)[o]
    BY <1>1, ObjectsKept
  <2> QED
    BY <2>1 DEF Uncurried!ObjectsStay
<1>2. ASSUME NEW a, Keeps(heap, heap', {a})
      PROVE  Uncurried!NewObject(a)
  <2>1. \A o \in DOMAIN ObjBar(heap) \intersect DOMAIN ObjBar(heap') : o = a \/ ObjBar(heap')[o] = ObjBar(heap)[o]
    BY <1>2, ObjectsKept
  <2> QED
    BY <2>1 DEF Uncurried!NewObject
<1> QED
  BY <1>1, <1>2

\* Objects that stay what they are
LEMMA ObjSame ==
    ASSUME Sound(heap), Sound(heap'), \A o \in Address : Same(heap, heap', o)
    PROVE  Obj' = Obj
<1>1. Keeps(heap, heap', {})
  BY DEF Keeps
<1>2. \A o \in DOMAIN ObjBar(heap) \intersect DOMAIN ObjBar(heap') : ObjBar(heap')[o] = ObjBar(heap)[o]
  <2> TAKE o \in DOMAIN ObjBar(heap) \intersect DOMAIN ObjBar(heap')
  <2>1. o \notin {}
    OBVIOUS
  <2> QED
    BY <1>1, <2>1, ObjectsKept
<1>3. DOMAIN ObjBar(heap') = DOMAIN ObjBar(heap)
  <2>1. \A o : o \in DOMAIN ObjBar(heap') <=> o \in DOMAIN ObjBar(heap)
    BY ObjFacts DEF Same
  <2> QED
    BY <2>1
<1>4. ObjBar(heap') = [o \in DOMAIN ObjBar(heap') |-> ObjBar(heap')[o]]
      /\ ObjBar(heap) = [o \in DOMAIN ObjBar(heap) |-> ObjBar(heap)[o]]
  BY DEF ObjBar
<1> QED
  BY <1>2, <1>3, <1>4 DEF Obj

\* The kinds of values
LEMMA ValueBar ==
    ASSUME Sound(heap), NEW v, Exists(heap, v)
    PROVE  /\ v \in Fn \union DOMAIN Obj /\ (v \notin Fn => v \in Address /\ v \in DOMAIN Obj)
           /\ Uncurried!IsFunction(v) <=> Callable(heap, v)
           /\ Callable(heap, v) => /\ Uncurried!Waiting(v).fn = Den(heap)[v].fn
                                   /\ Uncurried!Waiting(v).args = Den(heap)[v].args
           /\ ~Callable(heap, v) => /\ v \notin Fn /\ v \in DOMAIN Obj /\ Obj[v].kind = heap[v].kind
                                    /\ heap[v].kind \in {"atom", "exn"}
<1>1. v \notin Fn => v \in Address /\ v \in DOMAIN Obj
  BY ObjFacts DEF Exists, Obj
<1>2. CASE v \in Fn
  <2>1. Uncurried!Waiting(v) = [fn |-> v, args |-> <<>>]
    BY <1>2, SMTT(30) DEF Uncurried!Waiting
  <2>2. Den(heap)[v].fn = v /\ Den(heap)[v].args = <<>>
    BY <1>2, SoundFacts, DenFacts
  <2>3. Uncurried!IsFunction(v) /\ Callable(heap, v)
    BY <1>2 DEF Uncurried!IsFunction, Callable
  <2> QED
    BY <1>2, <2>1, <2>2, <2>3
<1>3. CASE v \notin Fn /\ heap[v].kind = "curried"
  <2>1. Obj[v] = [kind |-> "fn", fn |-> Den(heap)[v].fn, args |-> Den(heap)[v].args]
    BY <1>1, <1>3, ObjFacts DEF Obj
  <2>2. Uncurried!Waiting(v) = Obj[v]
    BY <1>3 DEF Uncurried!Waiting, Obj
  <2>3. Uncurried!Waiting(v).fn = Den(heap)[v].fn /\ Uncurried!Waiting(v).args = Den(heap)[v].args
    BY <2>1, <2>2
  <2>4. Obj[v].kind = "fn"
    BY <2>1
  <2>5. Uncurried!IsFunction(v) /\ Callable(heap, v)
    BY <1>1, <1>3, <2>4 DEF Uncurried!IsFunction, Callable, Obj
  <2> QED
    BY <1>1, <1>3, <2>3, <2>5
<1>4. CASE v \notin Fn /\ heap[v].kind # "curried"
  <2>1. Obj[v] = [kind |-> heap[v].kind]
    BY <1>1, <1>4, ObjFacts DEF Obj
  <2>2. Obj[v].kind = heap[v].kind
    BY <2>1
  <2>3. heap[v] \in Object
    BY <1>1, <1>4, HeapFacts DEF Sound
  <2>4. heap[v].kind \in {"atom", "exn"}
    BY <1>4, <2>3, ObjectFacts DEF Exists
  <2>5. ~Uncurried!IsFunction(v) /\ ~Callable(heap, v)
    BY <1>4, <2>2, <2>4 DEF Uncurried!IsFunction, Callable, Obj
  <2> QED
    BY <1>1, <1>4, <2>2, <2>4, <2>5
<1> QED
  BY <1>2, <1>3, <1>4


LEMMA Calling ==
    \A h, v, s : CallBar(h, v, s).op = "call" /\ CallBar(h, v, s).fn = Den(h)[v].fn
                 /\ CallBar(h, v, s).args = Den(h)[v].args \o s
BY DEF CallBar

LEMMA NowFacts ==
    ASSUME NEW h, NEW s, NEW c, NEW rest
    PROVE  /\ c.op = "body" => NowBar(h, s, c, rest) = [op |-> "body"]
           /\ c.op = "apply" => NowBar(h, s, c, rest) = CallBar(h, c.val, SubSeq(s, 1, c.n) \o rest)
           /\ c.op = "ret" => NowBar(h, s, c, rest) = ResultBar(h, c.val, rest)
BY DEF NowBar

LEMMA ResultIs ==
    ASSUME NEW h, NEW v, NEW rest
    PROVE  /\ rest = <<>> => ResultBar(h, v, rest) = [op |-> "ret", val |-> v]
           /\ v \notin Fn /\ h[v].kind = "exn" => ResultBar(h, v, rest) = [op |-> "ret", val |-> v]
           /\ rest # <<>> /\ (v \in Fn \/ h[v].kind = "curried") => ResultBar(h, v, rest) = CallBar(h, v, rest)
           /\ rest # <<>> /\ v \notin Fn /\ h[v].kind = "atom" => ResultBar(h, v, rest) = [op |-> "fail"]
BY DEF ResultBar, Counted

LEMMA Setting ==
    ASSUME Inv, ShapeInv, Inv'
    PROVE  /\ Sane(heap, sp, frames, ctl, this) /\ InvAt(heap', sp', frames', ctl', this')
           /\ frames \in Seq(FrameType) /\ frames # <<>> /\ Len(frames) \in Nat \ {0}
           /\ Len(frames) \in DOMAIN frames /\ Last(frames) = frames[Len(frames)]
           /\ Top = Last(frames) /\ Popped = Front(frames) /\ Last(frames) \in FrameType
           /\ Last(frames).n \in Nat
           /\ sp \in Seq(Value) /\ Len(sp) \in Nat /\ Fits(frames, sp)
           /\ Sound(heap) /\ Shell(heap) /\ Thins(heap, heap) /\ Piled(frames) /\ Stacked(frames)
           /\ Exactly(heap, frames, ctl)
           /\ Applied \in Nat /\ Slots(frames, 1 .. Len(frames)) \in Nat
           /\ Len(sp) = Applied + Slots(frames, 1 .. Len(frames))
           /\ Slots(frames, 1 .. Len(frames)) = Slots(frames, 1 .. Len(frames) - 1) + Last(frames).n
           /\ Slots(frames, 1 .. Len(frames) - 1) \in Nat
<1>1. Sane(heap, sp, frames, ctl, this) /\ InvAt(heap', sp', frames', ctl', this')
  BY DEF Inv, ShapeInv, Sane
<1>2. InvAt(heap, sp, frames, ctl, this) /\ Top = Last(frames) /\ Popped = Front(frames)
  BY DEF Inv, Top, Popped
<1>3. /\ frames \in Seq(FrameType) /\ frames # <<>> /\ Len(frames) \in Nat \ {0}
      /\ DOMAIN frames = 1 .. Len(frames) /\ Last(frames) = frames[Len(frames)] /\ Last(frames) \in FrameType
      /\ sp \in Seq(Value) /\ Len(sp) \in Nat /\ Fits(frames, sp) /\ Shell(heap) /\ heap \in [Address -> Object]
  BY <1>2, AtFacts
<1>4. Applied \in Nat /\ Slots(frames, DOMAIN frames) \in Nat /\ Len(sp) = Applied + Slots(frames, DOMAIN frames)
  <2>1. Applied = IF ctl.op = "apply" THEN ctl.n ELSE 0
    BY DEF Applied
  <2> QED
    BY <1>2, <2>1, AtFacts
<1>5. Sound(heap) /\ Piled(frames) /\ Stacked(frames) /\ Exactly(heap, frames, ctl)
  BY <1>1, SaneFacts
<1>6. Thins(heap, heap) /\ Last(frames).n \in Nat
  BY <1>3, HeapShell, FrameFacts
<1>7. /\ Len(frames) \in DOMAIN frames
      /\ Slots(frames, 1 .. Len(frames)) = Slots(frames, 1 .. Len(frames) - 1) + Last(frames).n
  BY <1>3, SlotsFacts
<1>8. Slots(frames, 1 .. Len(frames) - 1) \in Nat
  <2>1. Len(frames) - 1 \in 0 .. Len(frames)
    BY <1>3
  <2> QED
    BY <1>2, <2>1, AtFacts
<1> QED
  BY <1>1, <1>2, <1>3, <1>4, <1>5, <1>6, <1>7, <1>8

LEMMA Finish ==
    ASSUME Inv, ShapeInv, Inv', NEW A, Moves(heap, heap', A), Stacked(frames'),
           Exactly(heap', frames', ctl')
    PROVE  /\ ShapeInv' /\ Sound(heap') /\ Piled(frames') /\ Alters(heap, heap')
           /\ A = {} => Uncurried!ObjectsStay
           /\ \A a : A = {a} => Uncurried!NewObject(a)
<1>1. Sane(heap, sp, frames, ctl, this) /\ InvAt(heap', sp', frames', ctl', this')
  BY Setting
<1>2. Alters(heap, heap') /\ Grows(heap, heap', 0)
  BY MovedSound
<1>3. Sane(heap', sp', frames', ctl', this') /\ Sound(heap') /\ Piled(frames')
  BY <1>1, <1>2, ShapeMade
<1>4. ShapeInv'
  BY <1>3 DEF Sane, ShapeInv
<1>5. Sound(heap) /\ Keeps(heap, heap', A)
  BY Setting, KeepsFacts
<1> QED
  BY <1>2, <1>3, <1>4, <1>5, StaysBar

\* A result or a body: no function is about to get arguments.
LEMMA NotApplied == \A h, fs, c : c.op # "apply" => Exactly(h, fs, c)
BY DEF Exactly

-----------------------------------------------------------------------------
(* The steps *)

\* What the caller of a function made by partial application returns is its own.
LEMMA EndCurriedRefines ==
    ASSUME Inv, ShapeInv, Inv', EndCurried
    PROVE  Refined
<1>1. /\ ctl.op = "ret" /\ Last(frames).fr = "curried" /\ frames' = Front(frames)
      /\ heap' = heap /\ sp' = sp /\ ctl' = ctl
  BY DEF EndCurried, Top, Popped
<1>2. /\ Sane(heap, sp, frames, ctl, this) /\ InvAt(heap', sp', frames', ctl', this')
      /\ Piled(frames) /\ Len(frames) \in DOMAIN frames /\ Last(frames) = frames[Len(frames)]
      /\ Thins(heap, heap)
  BY Setting
<1>3. /\ Len(frames') + 1 = Len(frames) /\ Stacked(frames')
      /\ Awaiting(frames', sp', Len(frames') + 1) = Awaiting(frames, sp, Len(frames))
      /\ BodiesBar(frames', sp') = BodiesBar(frames, sp)
  <2>1. Drawn(frames, sp, sp', Len(frames) - 1)
    BY <1>1 DEF Drawn
  <2> QED
    BY <1>1, <1>2, <2>1, PopView
<1>4. Awaiting(frames, sp, Len(frames) + 1) = Awaiting(frames, sp, Len(frames))
  BY <1>1, <1>2, AwaitingNext
<1>5. Moves(heap, heap', {})
  BY <1>1, <1>2, KeepsFacts
<1>6. Exactly(heap', frames', ctl')
  BY <1>1, NotApplied
<1>7. ShapeInv'
  BY <1>3, <1>5, <1>6, Finish
<1>8. Obj' = Obj /\ Begun' = Begun /\ Later' = Later
  BY <1>1, <1>3, <1>4 DEF Obj, Begun, Later
<1>9. Now' = Now
  <2>1. Now = ResultBar(heap, ctl.val, Later) /\ Now' = ResultBar(heap', ctl'.val, Later')
    BY <1>1, NowFacts DEF Now
  <2> QED
    BY <1>1, <1>8, <2>1 DEF ResultBar
<1> QED
  BY <1>7, <1>8, <1>9, Stutters

\* The end of an application to more arguments: objects go.
LEMMA AgainRefines ==
    ASSUME Inv, ShapeInv, Inv', Again
    PROVE  Refined
<1>1. /\ ctl.op = "ret" /\ Last(frames).fr = "again" /\ frames' = Front(frames)
      /\ heap' = DecAll(UnrefAll(IncAll(heap, <<ctl.val>>), Top.held), <<ctl.val>>)
      /\ sp' = sp /\ ctl' = ctl
  BY DEF Again, Top, Popped
<1>2. /\ Sane(heap, sp, frames, ctl, this) /\ InvAt(heap', sp', frames', ctl', this')
      /\ Piled(frames) /\ Len(frames) \in DOMAIN frames /\ Last(frames) = frames[Len(frames)]
      /\ Shell(heap) /\ Stacked(frames) /\ Len(frames) \in Nat \ {0} /\ frames \in Seq(FrameType)
  BY Setting
<1>3. /\ Len(frames') + 1 = Len(frames) /\ Stacked(frames') /\ Len(frames) > 1
      /\ Awaiting(frames', sp', Len(frames') + 1) = Awaiting(frames, sp, Len(frames))
      /\ BodiesBar(frames', sp') = BodiesBar(frames, sp)
  <2>1. Drawn(frames, sp, sp', Len(frames) - 1)
    BY <1>1 DEF Drawn
  <2> QED
    BY <1>1, <1>2, <2>1, PopView
<1>4. Awaiting(frames, sp, Len(frames) + 1) = <<>>
  BY <1>1, <1>2, AwaitingNext
<1>5. Awaiting(frames, sp, Len(frames)) = <<>>
  <2>1. Len(frames) \in 2 .. Len(frames) /\ Len(frames) - 1 \in 1 .. Len(frames)
        /\ (Len(frames) - 1) + 1 = Len(frames) /\ DOMAIN frames = 1 .. Len(frames)
    BY <1>2, <1>3, LenProperties
  <2>2. frames[Len(frames) - 1].fr \in {"body", "again"}
    BY <1>1, <1>2, <2>1 DEF Stacked
  <2> QED
    BY <1>2, <2>1, <2>2, AwaitingNext
<1>6. Thins(heap, heap')
  <2> DEFINE g == IncAll(heap, <<ctl.val>>)
             k == UnrefAll(g, Top.held)
  <2>1. Thins(heap, g)
    BY <1>2, IncThins
  <2>2. Shell(g)
    BY <2>1 DEF Thins
  <2> HIDE DEF g
  <2>3. Thins(g, k)
    BY <2>2, UnrefThins
  <2>4. Shell(k)
    BY <2>3 DEF Thins
  <2> HIDE DEF k
  <2>5. Thins(k, heap')
    BY <1>1, <2>4, DecThins DEF g, k
  <2>6. Thins(heap, k)
    BY <2>1, <2>3, ThinsOn
  <2> QED
    BY <2>5, <2>6, ThinsOn
<1>7. Moves(heap, heap', {})
  BY <1>6, KeepsFacts
<1>8. Exactly(heap', frames', ctl')
  BY <1>1, NotApplied
<1>9. ShapeInv' /\ Uncurried!ObjectsStay
  BY <1>3, <1>7, <1>8, Finish
<1>10. Begun' = Begun /\ Later' = <<>> /\ Later = <<>>
  BY <1>3, <1>4, <1>5 DEF Begun, Later
<1>11. Now' = Now
  <2>1. Now = ResultBar(heap, ctl.val, Later) /\ Now' = ResultBar(heap', ctl'.val, Later')
    BY <1>1, NowFacts DEF Now
  <2> QED
    BY <1>1, <1>10, <2>1, ResultIs
<1>12. DOMAIN ObjBar(heap') \subseteq DOMAIN ObjBar(heap)
  <2>1. ASSUME NEW o \in DOMAIN ObjBar(heap')
        PROVE  o \in DOMAIN ObjBar(heap)
    <3>1. o \in Address /\ heap'[o].kind # "freed"
      BY ObjFacts
    <3>2. heap[o].kind # "freed"
      BY <1>6, <3>1 DEF Thins, Same
    <3> QED
      BY <3>1, <3>2, ObjFacts
  <2> QED
    BY <2>1
<1>13. Uncurried!Collect
  BY <1>10, <1>11, <1>12 DEF Uncurried!Collect, Begun, Now, Later
<1> QED
  BY <1>9, <1>13 DEF Refined, Uncurried!AbsNext

\* Sequences of values that wait
LEMMA AwaitingType ==
    ASSUME NEW fs, NEW s, Fits(fs, s), NEW i \in 1 .. Len(fs) + 1
    PROVE  Awaiting(fs, s, i) \in Seq(Value)
<1>1. fs \in Seq(FrameType) /\ Len(fs) \in Nat /\ DOMAIN fs = 1 .. Len(fs)
  BY FramesFacts DEF Fits
<1>2. CASE Overs(fs, i) = {}
  BY <1>2, EmptySeq DEF Awaiting
<1>3. CASE Overs(fs, i) # {}
  <2> DEFINE J == CHOOSE j \in Overs(fs, i) : TRUE
  <2>1. J \in Overs(fs, i)
    BY <1>3
  <2>2. J \in DOMAIN fs
    BY <1>1, <2>1, OversAre DEF WaitsAt
  <2>3. Awaiting(fs, s, i) = Share(fs, s, J)
    BY <1>3 DEF Awaiting
  <2> HIDE DEF J
  <2>4. Share(fs, s, J) \in Seq(Value)
    BY <2>2, ShareFacts
  <2> QED
    BY <2>3, <2>4
<1> QED
  BY <1>2, <1>3

LEMMA PushedOn ==
    ASSUME NEW p \in Seq(Value), NEW s \in Seq(Value), NEW n \in Nat, n <= Len(s)
    PROVE  SubSeq(p \o s, 1, n + Len(p)) = p \o SubSeq(s, 1, n)
<1>1. Len(p) \in Nat /\ Len(s) \in Nat
  BY LenProperties
<1>2. /\ p \o s \in Seq(Value) /\ Len(p \o s) = Len(p) + Len(s)
      /\ \A i \in 1 .. Len(p) : (p \o s)[i] = p[i]
      /\ \A i \in 1 .. Len(s) : (p \o s)[Len(p) + i] = s[i]
  BY Joined
<1>3. TopOf(p \o s, n + Len(p), SubSeq(p \o s, 1, n + Len(p))) /\ TopOf(s, n, SubSeq(s, 1, n))
  BY <1>1, <1>2 DEF TopOf
<1> DEFINE t == SubSeq(p \o s, 1, n + Len(p))
           u == SubSeq(s, 1, n)
<1>4. t \in Seq(Value) /\ Len(t) = n + Len(p) /\ \A i \in 1 .. n + Len(p) : t[i] = (p \o s)[i]
  BY <1>3, Topmost, SMTT(30)
<1>5. u \in Seq(Value) /\ Len(u) = n /\ \A i \in 1 .. n : u[i] = s[i]
  BY <1>3, Topmost
<1> HIDE DEF t, u
<1>6. /\ p \o u \in Seq(Value) /\ Len(p \o u) = Len(p) + Len(u)
      /\ \A i \in 1 .. Len(p) : (p \o u)[i] = p[i]
      /\ \A i \in 1 .. Len(u) : (p \o u)[Len(p) + i] = u[i]
  <2>1. p \in Seq(Value) /\ u \in Seq(Value)
    BY <1>5
  <2> QED
    BY ONLY <2>1, Joined
<1>7. ASSUME NEW i \in 1 .. n + Len(p)
      PROVE  t[i] = (p \o u)[i]
  <2>1. CASE i <= Len(p)
    <3>1. i \in 1 .. Len(p)
      BY <1>1, <2>1
    <3> QED
      BY <1>2, <1>4, <1>6, <3>1
  <2>2. CASE ~(i <= Len(p))
    <3> DEFINE k == i - Len(p)
    <3>1. k \in 1 .. n /\ k \in 1 .. Len(s) /\ Len(p) + k = i
      BY <1>1, <2>2
    <3> HIDE DEF k
    <3>2. t[i] = s[k]
      BY <1>2, <1>4, <3>1
    <3>3. (p \o u)[i] = u[k]
      BY <1>5, <1>6, <3>1
    <3> QED
      BY <1>5, <3>1, <3>2, <3>3
  <2> QED
    BY <2>1, <2>2
<1>8. Len(t) = Len(p \o u)
  BY <1>1, <1>4, <1>5, <1>6
<1>9. t = p \o u
  BY <1>4, <1>6, <1>7, <1>8, SeqEqual
<1> QED
  BY <1>9 DEF t, u

\* The arguments that waited come first: the call is the same.
LEMMA CurriedRefines ==
    ASSUME Inv, ShapeInv, Inv', Curried
    PROVE  Refined
<1> DEFINE f == ctl.val
           p == Waited(f)
           b == Behind(f)
           x == Frame("curried", f, <<>>, <<>>, 0, this)
           n == ctl.n + Len(p)
           t == SubSeq(sp, 1, ctl.n)
<1>0. ctl.op = "apply" /\ IsCurried(f) /\ ctl.n = ArityOf(f)
  BY DEF Curried
<1>1. ApplyState
  BY <1>0, ApplyFacts
<1>2. /\ Good(heap, sp, frames, None) /\ Len(frames) \in DOMAIN frames /\ ctl.n \in Nat /\ ctl.n <= Len(sp)
      /\ Callable(heap, f) /\ Calls(heap, frames, sp, Len(frames), f) /\ sp \in Seq(Value)
      /\ this \in Value \union {NoFn}
  BY <1>1 DEF ApplyState
<1>3. f \in Address /\ f \notin Fn /\ heap[f].kind = "curried" /\ heap[f].rc > 0 /\ f \in Curries(heap)
  <2>1. f \in Address /\ heap[f].kind = "curried" /\ f \notin Fn
    BY <1>0, <1>2 DEF IsCurried, Counted, Callable
  <2>2. heap[f].rc > 0
    BY <1>2, <2>1, CallLives
  <2> QED
    BY <2>1, <2>2 DEF Curries
<1>4. /\ heap' = heap /\ sp' = p \o sp /\ ctl' = Applying(b, n) /\ frames' = Append(frames, x)
  <2>1. heap[f].rc # 0
    BY <1>3
  <2> QED
    BY <1>0, <2>1 DEF Curried
<1>5. /\ Sane(heap, sp, frames, ctl, this) /\ InvAt(heap', sp', frames', ctl', this')
      /\ Sound(heap) /\ Thins(heap, heap) /\ Fits(frames, sp)
      /\ frames \in Seq(FrameType) /\ Len(frames) \in Nat \ {0}
  BY Setting
<1>6. /\ p \in Seq(Value) /\ Len(p) \in Nat /\ Callable(heap, b) /\ b \in Value
      /\ p = Tail(heap[f].refs) /\ b = Head(heap[f].refs)
      /\ heap[f].arity + Len(p) = ArityIn(heap, b)
  <2>1. p = Tail(heap[f].refs) /\ b = Head(heap[f].refs)
    BY DEF Waited, Behind
  <2>2. heap[f].arity + Len(Tail(heap[f].refs)) = ArityIn(heap, Head(heap[f].refs))
    BY <1>3, <1>5, SMTT(30) DEF Sound, ArityKept
  <2> HIDE DEF p, b
  <2> QED
    BY <1>3, <1>5, <2>1, <2>2, SoundFacts
<1>7. Den(heap)[f].fn = Den(heap)[b].fn /\ Den(heap)[f].args = Den(heap)[b].args \o p
  <2>1. Followed(heap)
    BY <1>5, SoundFacts, SMTT(30)
  <2>2. /\ Den(heap)[f].fn = Den(heap)[Head(heap[f].refs)].fn
        /\ Den(heap)[f].args = Den(heap)[Head(heap[f].refs)].args \o Tail(heap[f].refs)
    BY <1>3, <2>1, DenFacts
  <2> HIDE DEF f, p, b
  <2> QED
    BY <1>6, <2>2
<1>8. Den(heap)[b].args \in Seq(Value)
  BY <1>5, <1>6, DenTypes DEF Waits
<1>9. x.fr = "curried" /\ n = ArityIn(heap, b) /\ n \in Nat
  <2>1. ctl.n = heap[f].arity
    BY <1>0, <1>3 DEF ArityOf, Counted
  <2>2. x.fr = "curried"
    BY DEF Frame
  <2> HIDE DEF x, p, b
  <2> QED
    BY <1>2, <1>6, <2>1, <2>2
<1> HIDE DEF f, p, b, x, n
<1>10. /\ Len(frames') = Len(frames) + 1 /\ Stacked(frames') /\ Piled(frames') /\ Last(frames') = x
       /\ frames'[Len(frames')] = x /\ Len(frames') \in DOMAIN frames'
       /\ Awaiting(frames', sp', Len(frames')) = Awaiting(frames, sp, Len(frames) + 1)
       /\ BodiesBar(frames', sp') = BodiesBar(frames, sp)
  <2>1. Drawn(frames, sp, sp', Len(frames))
    BY <1>4, <1>6 DEF Drawn
  <2>2. x.fr # "over" /\ x.fr # "again" /\ x.fr # "body"
    BY <1>9
  <2>3. frames' = Append(frames, x)
    BY <1>4
  <2>4. Pushes(heap, sp, frames, ctl, this, heap', sp', frames', ctl', this', x)
    BY <1>5, <2>1, <2>2, <2>3 DEF Pushes
  <2> QED
    BY <2>2, <2>4, PushView
<1>11. Awaiting(frames', sp', Len(frames') + 1) = Awaiting(frames', sp', Len(frames'))
  BY <1>9, <1>10, AwaitingNext
<1>12. Obj' = Obj /\ Begun' = Begun /\ Later' = Later /\ Later \in Seq(Value)
  <2>1. Len(frames) + 1 \in 1 .. Len(frames) + 1
    BY <1>5
  <2>2. Later \in Seq(Value)
    BY <1>5, <2>1, AwaitingType DEF Later
  <2> QED
    BY <1>4, <1>10, <1>11, <2>2 DEF Obj, Begun, Later
<1>13. ctl'.op = "apply" /\ ctl'.val = b /\ ctl'.n = n
  BY <1>4 DEF Applying
<1>14. ShapeInv'
  <2>1. Moves(heap, heap', {})
    BY <1>4, <1>5, KeepsFacts
  <2>2. Exactly(heap', frames', ctl')
    BY <1>4, <1>9, <1>13 DEF Exactly
  <2> QED
    BY <1>10, <2>1, <2>2, Finish
<1>15. Now = CallBar(heap, f, t \o Later) /\ Now' = CallBar(heap, b, SubSeq(sp', 1, n) \o Later)
  <2>1. Now = CallBar(heap, ctl.val, SubSeq(sp, 1, ctl.n) \o Later)
    BY <1>0, NowFacts DEF Now
  <2>2. Now' = CallBar(heap', ctl'.val, SubSeq(sp', 1, ctl'.n) \o Later')
    BY <1>13, NowFacts DEF Now
  <2> QED
    BY <1>4, <1>12, <1>13, <2>1, <2>2 DEF f
<1>16. SubSeq(sp', 1, n) = p \o t /\ t \in Seq(Value)
  <2>1. TopOf(sp, ctl.n, t)
    BY <1>2 DEF TopOf
  <2>2. t \in Seq(Value)
    BY <2>1, Topmost
  <2>3. SubSeq(p \o sp, 1, ctl.n + Len(p)) = p \o t
    BY <1>2, <1>6, PushedOn
  <2> QED
    BY <1>4, <2>2, <2>3 DEF n
<1> HIDE DEF t
<1>17. Den(heap)[b].args \o ((p \o t) \o Later) = Den(heap)[f].args \o (t \o Later)
  <2> DEFINE a == Den(heap)[b].args
             r == Later
  <2>1. a \in Seq(Value) /\ p \in Seq(Value) /\ t \in Seq(Value) /\ r \in Seq(Value)
    BY <1>6, <1>8, <1>12, <1>16
  <2> HIDE DEF a, r
  <2>2. t \o r \in Seq(Value)
    BY <2>1, ConcatProperties
  <2>3. (p \o t) \o r = p \o (t \o r)
    BY <2>1, ConcatAssociative
  <2> DEFINE u == t \o r
  <2>4. u \in Seq(Value)
    BY <2>2
  <2> HIDE DEF u
  <2>5. (a \o p) \o u = a \o (p \o u)
    BY ONLY <2>1, <2>4, ConcatAssociative
  <2> QED
    BY <1>7, <2>3, <2>5 DEF a, r, u
<1>18. Now' = Now
  <2>1. CallBar(heap, b, (p \o t) \o Later) = CallBar(heap, f, t \o Later)
    BY <1>7, <1>17 DEF CallBar
  <2> QED
    BY <1>15, <1>16, <2>1
<1> QED
  BY <1>12, <1>14, <1>18, Stutters

LEMMA CallKept ==
    ASSUME NEW h, NEW g, Sound(h), Sound(g), Alters(h, g), NEW v, Callable(h, v), Callable(g, v)
    PROVE  \A s : CallBar(g, v, s) = CallBar(h, v, s)
<1>1. Den(g)[v].fn = Den(h)[v].fn /\ Den(g)[v].args = Den(h)[v].args
  BY DenSame
<1> QED
  BY <1>1 DEF CallBar

\* What is applied or returned
LEMMA Handed ==
    ASSUME NEW h, NEW s, NEW fs, NEW c, NEW th, InvAt(h, s, fs, c, th)
    PROVE  /\ c.op = "apply" => Callable(h, c.val)
           /\ c.op = "ret" => Exists(h, c.val)
BY DEF InvAt, ControlOK

\* A call: unless it is for exactly as many arguments as are waited for, nothing else
\* waits.
LEMMA CallNow ==
    ASSUME Inv, ShapeInv, Inv', ctl.op = "apply", NEW v, v = ctl.val, NEW t, t = SubSeq(sp, 1, ctl.n)
    PROVE  /\ Callable(heap, v) /\ ctl.n \in Nat /\ ctl.n <= Len(sp) /\ sp \in Seq(Value)
           /\ t \in Seq(Value) /\ Len(t) = ctl.n /\ Later \in Seq(Value)
           /\ Now = CallBar(heap, v, t \o Later) /\ Now.op = "call" /\ Now.fn = Den(heap)[v].fn
           /\ Now.args = Den(heap)[v].args \o (t \o Later)
           /\ Len(sp) = ctl.n + Slots(frames, 1 .. Len(frames))
           /\ ArityOf(v) = ArityIn(heap, v) /\ Waits(heap, v)
           /\ ctl.n # ArityOf(v) => Last(frames).fr \in {"body", "again"} /\ Later = <<>>
<1>1. ApplyState
  BY ApplyFacts
<1>2. Callable(heap, v) /\ ctl.n \in Nat /\ ctl.n <= Len(sp) /\ sp \in Seq(Value)
  BY <1>1 DEF ApplyState
<1>3. t \in Seq(Value) /\ Len(t) = ctl.n
  <2>1. TopOf(sp, ctl.n, t)
    BY <1>2 DEF TopOf
  <2> QED
    BY <2>1, Topmost
<1>4. /\ Fits(frames, sp) /\ Len(frames) \in Nat \ {0} /\ Piled(frames) /\ Len(frames) \in DOMAIN frames
      /\ Last(frames) = frames[Len(frames)] /\ Last(frames) \in FrameType
      /\ Exactly(heap, frames, ctl) /\ Sound(heap)
      /\ Len(sp) = Applied + Slots(frames, 1 .. Len(frames))
  BY Setting
<1>5. Later \in Seq(Value)
  <2>1. Len(frames) + 1 \in 1 .. Len(frames) + 1
    BY <1>4
  <2> QED
    BY <1>4, <2>1, AwaitingType DEF Later
<1>6. Now = CallBar(heap, v, t \o Later)
  BY NowFacts DEF Now
<1>7. Now.op = "call" /\ Now.fn = Den(heap)[v].fn /\ Now.args = Den(heap)[v].args \o (t \o Later)
  <2> DEFINE r == t \o Later
  <2>1. Now = CallBar(heap, v, r)
    BY <1>6
  <2> HIDE DEF r
  <2>2. CallBar(heap, v, r).op = "call" /\ CallBar(heap, v, r).fn = Den(heap)[v].fn
        /\ CallBar(heap, v, r).args = Den(heap)[v].args \o r
    BY Calling
  <2>3. Now.op = "call" /\ Now.fn = Den(heap)[v].fn /\ Now.args = Den(heap)[v].args \o r
    BY <2>1, <2>2
  <2> QED
    BY <2>3 DEF r
<1>8. ArityOf(v) = ArityIn(heap, v)
  BY DEF ArityOf, ArityIn, Counted
<1>9. Waits(heap, v)
  BY <1>2, <1>4, DenTypes
<1>10. Applied = ctl.n
  BY DEF Applied
<1>11. ASSUME ctl.n # ArityOf(v)
       PROVE  Last(frames).fr \in {"body", "again"} /\ Later = <<>>
  <2>1. Last(frames).fr \notin {"over", "curried"}
    BY <1>4, <1>8, <1>11 DEF Exactly
  <2>2. Last(frames).fr \in {"body", "again"}
    BY <1>4, <2>1, FrameFacts DEF Frames
  <2> QED
    BY <1>4, <2>2, AwaitingNext DEF Later
<1> QED
  BY <1>2, <1>3, <1>4, <1>5, <1>6, <1>7, <1>8, <1>9, <1>10, <1>11

\* The arguments that are too many wait: the call is the same.
LEMMA OverRefines ==
    ASSUME Inv, ShapeInv, Inv', Over
    PROVE  Refined
<1> DEFINE v == ctl.val
           m == ArityOf(v)
           x == Frame("over", v, <<>>, <<>>, ctl.n - m, this)
           t == SubSeq(sp, 1, ctl.n)
           u == SubSeq(sp, m + 1, ctl.n)
<1>1. /\ ctl.op = "apply" /\ ctl.n > m /\ heap' = IncAll(heap, u) /\ sp' = sp
      /\ frames' = Append(frames, x) /\ ctl' = Applying(v, m)
  BY DEF Over
<1>2. /\ Callable(heap, v) /\ ctl.n \in Nat /\ ctl.n <= Len(sp) /\ sp \in Seq(Value)
      /\ t \in Seq(Value) /\ Now = CallBar(heap, v, t \o Later)
      /\ Len(sp) = ctl.n + Slots(frames, 1 .. Len(frames))
      /\ m = ArityIn(heap, v) /\ Waits(heap, v)
  BY <1>1, CallNow
<1>3. Last(frames).fr \in {"body", "again"} /\ Later = <<>>
  <2>1. ctl.n # m
    BY <1>1, <1>2 DEF Waits
  <2> QED
    BY <1>1, <2>1, CallNow
<1>4. m \in Nat /\ m > 0
  BY <1>2 DEF Waits
<1>5. x.fr = "over" /\ x.n = ctl.n - m /\ x.n > 0 /\ x.n \in Nat /\ x.n <= ctl.n /\ ctl.n - x.n = m
  <2>1. x.fr = "over" /\ x.n = ctl.n - m
    BY DEF Frame
  <2> HIDE DEF x, m
  <2> QED
    BY <1>1, <1>2, <1>4, <2>1
<1>6. ctl'.op = "apply" /\ ctl'.val = v /\ ctl'.n = m
  BY <1>1 DEF Applying
<1> HIDE DEF x, m, v, t, u
<1>7. /\ Sane(heap, sp, frames, ctl, this) /\ InvAt(heap', sp', frames', ctl', this')
      /\ Shell(heap) /\ Sound(heap) /\ Fits(frames, sp) /\ DOMAIN frames = 1 .. Len(frames)
  BY Setting, LenProperties
<1>8. /\ Len(frames') = Len(frames) + 1 /\ Stacked(frames') /\ Piled(frames') /\ Last(frames') = x
      /\ frames'[Len(frames')] = x /\ Len(frames') \in DOMAIN frames'
      /\ BodiesBar(frames', sp') = BodiesBar(frames, sp)
  <2>1. Drawn(frames, sp, sp', Len(frames))
    BY <1>1 DEF Drawn
  <2>2. Pushes(heap, sp, frames, ctl, this, heap', sp', frames', ctl', this', x)
    BY <1>1, <1>3, <1>5, <1>7, <2>1 DEF Pushes
  <2>3. x.fr # "body"
    BY <1>5
  <2> QED
    BY <2>2, <2>3, PushView
<1>9. Later' = u
  <2>1. Awaiting(frames', sp', Len(frames') + 1) = Share(frames', sp', Len(frames'))
    BY <1>5, <1>8, AwaitingNext
  <2>2. x \in FrameType
    BY <1>7, <1>8, AtFacts
  <2>3. NewTop(frames, frames', sp, x, ctl.n)
    BY <1>1, <1>2, <1>5, <1>7, <2>2 DEF NewTop
  <2>4. Share(frames', sp, Len(frames')) = SubSeq(sp, (ctl.n - x.n) + 1, ctl.n)
    BY <2>3, NewTopFacts
  <2> QED
    BY <1>1, <1>5, <2>1, <2>4 DEF Later, u
<1>10. Thins(heap, heap')
  BY <1>1, <1>7, IncThins
<1>11. ShapeInv' /\ Sound(heap') /\ Alters(heap, heap') /\ Uncurried!ObjectsStay
  <2>1. Moves(heap, heap', {})
    BY <1>10, KeepsFacts
  <2>2. Callable(heap', v)
    BY <1>6, <1>7, Handed
  <2>3. ArityIn(heap', v) = ArityIn(heap, v)
    <3>1. \A o \in Address : Same(heap, heap', o)
      BY <1>1, <1>7, IncThins
    <3>2. Exists(heap, v)
      BY <1>2, ValueFacts
    <3> QED
      BY <3>1, <3>2, SameHeap
  <2>4. Exactly(heap', frames', ctl')
    BY <1>2, <1>6, <2>3 DEF Exactly
  <2> QED
    BY <1>8, <2>1, <2>4, Finish
<1>12. Now' = CallBar(heap, v, SubSeq(sp, 1, m) \o u)
  <2>1. Now' = CallBar(heap', v, SubSeq(sp', 1, m) \o Later')
    BY <1>6, NowFacts DEF Now
  <2>2. Callable(heap', v)
    BY <1>6, <1>7, Handed
  <2>3. CallBar(heap', v, SubSeq(sp', 1, m) \o Later') = CallBar(heap, v, SubSeq(sp', 1, m) \o Later')
    BY <1>2, <1>7, <1>11, <2>2, CallKept
  <2> QED
    BY <1>1, <1>9, <2>1, <2>3
<1>13. SubSeq(sp, 1, m) \o u = t /\ t \o Later = t
  <2>1. 1 \in 1 .. Len(sp) + 1 /\ m \in 1 - 1 .. Len(sp) /\ ctl.n \in m .. Len(sp)
    <3>1. Len(sp) \in Nat
      BY <1>2, LenProperties
    <3> QED
      BY <1>1, <1>2, <1>4, <3>1
  <2>2. SubSeq(sp, 1, m) \o SubSeq(sp, m + 1, ctl.n) = SubSeq(sp, 1, ctl.n)
    BY <1>2, <2>1, ConcatAdjacentSubSeq
  <2>3. t \o <<>> = t
    BY <1>2, ConcatEmptySeq
  <2> QED
    BY <1>3, <2>2, <2>3 DEF u, t
<1>14. Now' = Now /\ Begun' = Begun
  BY <1>2, <1>8, <1>12, <1>13 DEF Begun
<1>15. Obj' = Obj
  <2>1. \A o \in Address : Same(heap, heap', o)
    BY <1>1, <1>7, IncThins
  <2> QED
    BY <1>7, <1>11, <2>1, ObjSame
<1> QED
  BY <1>11, <1>14, <1>15, Stutters

\* The result takes the arguments that wait: the call is what was waited for.
LEMMA OverFunctionRefines ==
    ASSUME Inv, ShapeInv, Inv', OverFunction
    PROVE  Refined
<1> DEFINE f == ctl.val
           n == Last(frames).n
           t == SubSeq(sp, 1, n)
           g == DecAll(heap, t)
           x == Frame("again", f, <<>>, <<f>>, 0, this)
<1>1. /\ ctl.op = "ret" /\ Last(frames).fr = "over" /\ IsFunction(f)
      /\ heap' = IncAll(g, <<f>>) /\ frames' = Append(Front(frames), x) /\ ctl' = Applying(f, n)
      /\ sp' = sp
  BY DEF OverFunction, Top, Popped, Pushed
<1>2. /\ Sane(heap, sp, frames, ctl, this) /\ InvAt(heap', sp', frames', ctl', this')
      /\ InvAt(heap, sp, frames, ctl, this)
      /\ Sound(heap) /\ Shell(heap) /\ Piled(frames) /\ Len(frames) \in DOMAIN frames
      /\ Last(frames) = frames[Len(frames)] /\ Len(frames) \in Nat \ {0} /\ n \in Nat
      /\ sp \in Seq(Value) /\ Len(sp) \in Nat /\ Fits(frames, sp)
      /\ Stacked(frames) /\ frames[1].fr = "body" /\ frames # <<>>
      /\ Len(sp) = Applied + Slots(frames, 1 .. Len(frames)) /\ DOMAIN frames = 1 .. Len(frames)
  BY Setting, LenProperties DEF Piled, Sane
<1>3. Len(frames) > 1 /\ n > 0
  <2>1. Len(frames) # 1
    BY <1>1, <1>2
  <2>2. Len(frames) > 1 /\ Len(frames) \in 2 .. Len(frames)
    BY <1>2, <2>1
  <2> QED
    BY <1>1, <1>2, <2>2 DEF Stacked
<1>4. Exists(heap, f) /\ Callable(heap, f)
  <2>1. Exists(heap, f)
    BY <1>1, <1>2, Handed
  <2>2. f \in Fn \/ (f \in Address /\ f \notin Fn)
    BY <2>1, AddressFacts DEF Exists
  <2> QED
    BY <1>1, <2>1, <2>2 DEF IsFunction, IsCurried, Counted, Callable
<1>5. x.fr = "again"
  BY DEF Frame
<1>6. ctl'.op = "apply" /\ ctl'.val = f /\ ctl'.n = n
  BY <1>1 DEF Applying
<1> HIDE DEF f, n, t, g, x
<1>7. /\ Len(frames') = Len(frames) /\ Stacked(frames') /\ Piled(frames') /\ Last(frames') = x
      /\ frames'[Len(frames')] = x /\ Len(frames') \in DOMAIN frames'
      /\ BodiesBar(frames', sp') = BodiesBar(frames, sp)
  <2>1. Drawn(frames, sp, sp', Len(frames) - 1)
    BY <1>1 DEF Drawn
  <2>2. Swaps(heap, sp, frames, ctl, this, heap', sp', frames', ctl', this', x)
    BY <1>1, <1>2, <1>3, <1>5, <2>1 DEF Swaps
  <2>3. x.fr # "body"
    BY <1>5
  <2> QED
    BY <2>2, <2>3, SwapView
<1>8. Later' = <<>>
  BY <1>5, <1>7, AwaitingNext DEF Later
<1>9. Later = t /\ t \in Seq(Value) /\ Len(t) = n
  <2>1. Later = Share(frames, sp, Len(frames))
    BY <1>1, <1>2, AwaitingNext DEF Later
  <2> DEFINE a == 0
  <2>2. a \in Nat /\ Len(sp) = a + Slots(frames, DOMAIN frames)
    <3>1. Applied = 0
      BY <1>1 DEF Applied
    <3> QED
      BY <1>2, <3>1
  <2>3. a + 1 = 1 /\ a + n = n
    BY <1>2
  <2> HIDE DEF a
  <2>4. Share(frames, sp, Len(frames)) = SubSeq(sp, a + 1, a + Last(frames).n) /\ a + Last(frames).n <= Len(sp)
    BY <1>2, <2>2, TopShare
  <2>5. Share(frames, sp, Len(frames)) = t /\ n <= Len(sp)
    BY <2>3, <2>4 DEF n, t
  <2>6. TopOf(sp, n, t)
    BY <1>2, <2>5 DEF TopOf, t
  <2> QED
    BY <2>1, <2>5, <2>6, Topmost
<1>10. Thins(heap, heap') /\ \A o \in Address : Same(heap, heap', o)
  <2>1. Thins(heap, g) /\ \A o \in Address : Same(heap, g, o)
    BY <1>2, DecThins DEF g
  <2>2. Thins(g, heap') /\ \A o \in Address : Same(g, heap', o)
    BY <1>1, <2>1, IncThins DEF Thins
  <2>3. Thins(heap, heap')
    BY <2>1, <2>2, ThinsOn
  <2>4. \A o \in Address : Same(heap, heap', o)
    BY <2>1, <2>2 DEF Same
  <2> QED
    BY <2>3, <2>4
<1>11. ShapeInv' /\ Sound(heap') /\ Alters(heap, heap')
  <2>1. Moves(heap, heap', {})
    BY <1>10, KeepsFacts
  <2>2. Exactly(heap', frames', ctl')
    BY <1>5, <1>7 DEF Exactly
  <2> QED
    BY <1>7, <2>1, <2>2, Finish
<1>12. Now' = CallBar(heap, f, t)
  <2>1. Now' = CallBar(heap', f, SubSeq(sp', 1, n) \o Later')
    BY <1>6, NowFacts DEF Now
  <2>2. SubSeq(sp', 1, n) \o Later' = t
    <3>1. t \o <<>> = t
      BY <1>9, ConcatEmptySeq
    <3> QED
      BY <1>1, <1>8, <3>1 DEF t
  <2>3. Callable(heap', f)
    BY <1>4, <1>10, SameHeap
  <2>4. CallBar(heap', f, t) = CallBar(heap, f, t)
    BY <1>2, <1>4, <1>11, <2>3, CallKept
  <2> QED
    BY <2>1, <2>2, <2>4
<1>13. Now = CallBar(heap, f, t)
  <2>1. Now = ResultBar(heap, f, t)
    BY <1>1, <1>9, NowFacts DEF Now, f
  <2>2. t # <<>>
    <3>1. Len(<<>>) = 0
      BY EmptySeq
    <3> QED
      BY <1>3, <1>9, <3>1
  <2>3. f \in Fn \/ heap[f].kind = "curried"
    BY <1>4 DEF Callable
  <2> QED
    BY <2>1, <2>2, <2>3, ResultIs
<1>14. Begun' = Begun
  BY <1>7 DEF Begun
<1>15. Obj' = Obj
  BY <1>2, <1>10, <1>11, ObjSame
<1>16. Now' = Now
  BY <1>12, <1>13
<1> QED
  BY <1>11, <1>14, <1>15, <1>16, Stutters

\* Arguments that came together are taken apart again.
LEMMA Parted ==
    ASSUME NEW t \in Seq(Value), NEW r \in Seq(Value), NEW s, s = t \o r, NEW n, n = Len(t)
    PROVE  /\ s \in Seq(Value) /\ Len(s) = n + Len(r) /\ n \in Nat /\ Len(r) \in Nat
           /\ SubSeq(s, 1, n) = t /\ SubSeq(s, n + 1, Len(s)) = r
<1>1. n \in Nat /\ Len(r) \in Nat /\ Len(t) = n
  BY LenProperties
<1>2. /\ s \in Seq(Value) /\ Len(s) = Len(t) + Len(r)
      /\ \A i \in 1 .. Len(r) : s[Len(t) + i] = r[i]
  <2>1. /\ t \o r \in Seq(Value) /\ Len(t \o r) = Len(t) + Len(r)
        /\ \A i \in 1 .. Len(r) : (t \o r)[Len(t) + i] = r[i]
    BY Joined
  <2> QED
    BY <2>1
<1>3. SubSeq(s, 1, n) = t
  <2> DEFINE z == 0
  <2>1. z \in Nat /\ z <= Len(r) /\ z + Len(t) = n /\ z = 0
    BY <1>1
  <2> HIDE DEF z
  <2>2. SubSeq(t \o r, 1, z + Len(t)) = t \o SubSeq(r, 1, z)
    BY <2>1, PushedOn
  <2>3. SubSeq(r, 1, z) = <<>>
    BY <2>1, SubSeqEmpty
  <2>4. t \o <<>> = t
    BY ConcatEmptySeq
  <2> QED
    BY <2>1, <2>2, <2>3, <2>4
<1> DEFINE u == SubSeq(s, n + 1, Len(s))
           m == Len(r)
<1>4. m \in Nat /\ n <= Len(s) /\ m <= Len(s) - n /\ Len(s) - n = m /\ m = Len(r) /\ Len(s) - m = n
  BY <1>1, <1>2
<1> HIDE DEF m
<1>5. u \in Seq(Value) /\ Len(u) = Len(s) - n /\ Bottom(s, u, m)
  BY <1>1, <1>2, <1>4, Lower, ZenonT(40)
<1> HIDE DEF u
<1>6. Len(u) = m /\ \A j \in 1 .. m : u[j] = r[j]
  <2>1. ASSUME NEW j \in 1 .. m
        PROVE  u[j] = r[j]
    <3>1. Len(u) - m + j = j /\ Len(s) - m + j = n + j /\ n + j = Len(t) + j
      BY <1>1, <1>4, <1>5
    <3>2. s[Len(s) - m + j] = u[Len(u) - m + j]
      BY <1>5 DEF Bottom
    <3>3. s[Len(t) + j] = r[j]
      BY <1>2, <1>4
    <3> QED
      BY <3>1, <3>2, <3>3
  <2> QED
    BY <1>4, <1>5, <2>1
<1>7. u = r
  BY <1>4, <1>5, <1>6, SeqEqual
<1> QED
  BY <1>1, <1>2, <1>3, <1>7 DEF u

\* Enough arguments: the body begins, and what is too much waits for its result.
LEMMA BeginRefines ==
    ASSUME Inv, ShapeInv, Inv', NEW f \in Fn, Begin(f)
    PROVE  Refined
<1> DEFINE n == ctl.n
           t == SubSeq(sp, 1, n)
           x == IF f \in Islam THEN Frame("body", f, t, t, 0, this) ELSE Frame("body", f, t, <<>>, n, this)
<1>1. /\ ctl.op = "apply" /\ ctl.val = f /\ n = Arity[f] /\ heap' = IncAll(heap, t)
      /\ sp' = IF f \in Islam THEN SubSeq(sp, n + 1, Len(sp)) ELSE sp
      /\ frames' = Append(frames, x) /\ ctl' = Running
  BY DEF Begin, Pushed, Below
<1>2. /\ n \in Nat /\ n <= Len(sp) /\ t \in Seq(Value) /\ Len(t) = n /\ Later \in Seq(Value)
      /\ Now.op = "call" /\ Now.fn = Den(heap)[f].fn /\ Now.args = Den(heap)[f].args \o (t \o Later)
      /\ Len(sp) = n + Slots(frames, 1 .. Len(frames))
  BY <1>1, CallNow
<1>3. x.fr = "body" /\ x.fn = f /\ x.args = t
  BY DEF Frame
<1> HIDE DEF n, t, x
<1>4. /\ Sane(heap, sp, frames, ctl, this) /\ InvAt(heap', sp', frames', ctl', this')
      /\ Sound(heap) /\ Shell(heap)
  BY Setting
<1>5. /\ Stacked(frames') /\ frames'[Len(frames')] = x
      /\ Awaiting(frames', sp', Len(frames')) = Later
      /\ BodiesBar(frames', sp') = Append(BodiesBar(frames, sp), BodyBar(frames', sp', Len(frames')))
  <2>1. Drawn(frames, sp, sp', Len(frames))
    <3>1. n + Slots(frames, 1 .. Len(frames)) <= Len(sp)
      BY <1>2, <1>4, AtFacts
    <3>2. sp' = sp \/ sp' = SubSeq(sp, n + 1, Len(sp))
      BY <1>1
    <3> QED
      BY <1>2, <3>1, <3>2 DEF Drawn
  <2>2. x.fr \notin {"over", "again"}
    BY <1>3
  <2>3. Pushes(heap, sp, frames, ctl, this, heap', sp', frames', ctl', this', x)
    BY <1>1, <1>4, <2>1, <2>2 DEF Pushes
  <2> QED
    BY <1>3, <2>3, PushView DEF Later
<1>6. BodyBar(frames', sp', Len(frames')) = [fn |-> f, args |-> t, rest |-> Later]
  BY <1>3, <1>5 DEF BodyBar
<1>7. ShapeInv' /\ Uncurried!ObjectsStay
  <2>1. Moves(heap, heap', {})
    BY <1>1, <1>4, IncThins, KeepsFacts
  <2>2. Exactly(heap', frames', ctl')
    BY <1>1, NotApplied DEF Running
  <2> QED
    BY <1>5, <2>1, <2>2, Finish
<1>8. Now.fn = f /\ Now.args = t \o Later
  <2>1. Den(heap)[f].fn = f /\ Den(heap)[f].args = <<>>
    BY <1>4, SoundFacts, DenFacts
  <2>2. t \o Later \in Seq(Value)
    BY <1>2, ConcatProperties
  <2>3. <<>> \o (t \o Later) = t \o Later
    BY <2>2, ConcatEmptySeq
  <2> QED
    BY <1>2, <2>1, <2>3
<1>9. /\ Len(Now.args) >= Arity[Now.fn] /\ SubSeq(Now.args, 1, Arity[Now.fn]) = t
      /\ SubSeq(Now.args, Arity[Now.fn] + 1, Len(Now.args)) = Later
  <2> DEFINE a == Now.args
  <2>1. a = t \o Later /\ n = Len(t) /\ Arity[Now.fn] = n
    BY <1>1, <1>2, <1>8
  <2> HIDE DEF a
  <2>2. /\ Len(a) = n + Len(Later) /\ n \in Nat /\ Len(Later) \in Nat
        /\ SubSeq(a, 1, n) = t /\ SubSeq(a, n + 1, Len(a)) = Later
    BY <1>2, <2>1, Parted
  <2>3. Len(a) >= n
    BY <2>2
  <2> QED
    BY <2>1, <2>2, <2>3 DEF a
<1>10. Now' = [op |-> "body"]
  BY <1>1, NowFacts DEF Now, Running
<1>11. Begun' = Append(Begun, [fn |-> Now.fn, args |-> SubSeq(Now.args, 1, Arity[Now.fn]),
                               rest |-> SubSeq(Now.args, Arity[Now.fn] + 1, Len(Now.args))])
  BY <1>5, <1>6, <1>8, <1>9 DEF Begun
<1>12. Uncurried!Begin
  BY <1>2, <1>9, <1>10, <1>11 DEF Uncurried!Begin, Uncurried!Running, Begun, Now, Later
<1> QED
  BY <1>7, <1>12 DEF Refined, Uncurried!AbsNext

\* Not enough arguments: they wait, in a new function.
LEMMA PartialRefines ==
    ASSUME Inv, ShapeInv, Inv', Partial
    PROVE  Refined
<1> DEFINE v == ctl.val
           n == ctl.n
           t == SubSeq(sp, 1, n)
           g == IncAll(heap, <<v>> \o t)
           x == Suspended(v, t)
           a == Fresh(heap)
<1>1. /\ ctl.op = "apply" /\ n < ArityOf(v) /\ Free(heap) # {} /\ heap' = With(g, x)
      /\ sp' = SubSeq(sp, n + 1, Len(sp)) /\ ctl' = Returning(a) /\ frames' = frames
  BY DEF Partial, Pushed, Below
<1>2. /\ Callable(heap, v) /\ n \in Nat /\ n <= Len(sp) /\ t \in Seq(Value) /\ Len(t) = n
      /\ Now.op = "call" /\ Now.fn = Den(heap)[v].fn /\ Now.args = Den(heap)[v].args \o (t \o Later)
      /\ Len(sp) = n + Slots(frames, 1 .. Len(frames))
      /\ ArityOf(v) = ArityIn(heap, v) /\ Waits(heap, v)
  BY <1>1, CallNow
<1>3. Later = <<>>
  <2>1. n # ArityOf(v)
    BY <1>1, <1>2 DEF Waits
  <2> QED
    BY <1>1, <2>1, CallNow
<1>4. v \in Value
  BY <1>2, ValueFacts
<1>5. x.kind = "curried" /\ x.refs = <<v>> \o t /\ x.arity = ArityOf(v) - Len(t) /\ DOMAIN x = Fields
  <2> DEFINE r == <<v>> \o t
             k == ArityOf(v) - Len(t)
  <2>1. x = [rc |-> 0, kind |-> "curried", refs |-> r, arity |-> k]
    BY SuspendedIs
  <2> HIDE DEF x, r, k
  <2>2. x.kind = "curried" /\ x.refs = r /\ x.arity = k /\ DOMAIN x = Fields
    BY <2>1 DEF Fields
  <2> QED
    BY <2>2 DEF r, k
<1> HIDE DEF v, n, t, g, x, a
<1>6. Head(x.refs) = v /\ Tail(x.refs) = t
  <2>1. <<v>> \in Seq(Value) /\ Len(<<v>>) = 1 /\ <<v>>[1] = v
    BY <1>4
  <2>2. /\ <<v>> \o t \in Seq(Value) /\ Len(<<v>> \o t) = 1 + Len(t) /\ (<<v>> \o t)[1] = v
        /\ \A i \in 1 .. Len(t) : (<<v>> \o t)[1 + i] = t[i]
    BY <1>2, <2>1, Joined
  <2> DEFINE os == <<v>> \o t
  <2> HIDE DEF os
  <2>3. os \in Seq(Value) /\ Len(os) = 1 + n /\ os[1] = v /\ \A i \in 1 .. n : os[1 + i] = t[i]
    BY <1>2, <2>2 DEF os
  <2>4. os # <<>>
    BY <1>2, <2>3, EmptySeq
  <2>5. Head(os) = v /\ Tail(os) \in Seq(Value) /\ Len(Tail(os)) = n
        /\ \A i \in 1 .. n : Tail(os)[i] = t[i]
    <3>1. /\ Head(os) = os[1] /\ Tail(os) \in Seq(Value) /\ Len(Tail(os)) = Len(os) - 1
          /\ \A i \in 1 .. Len(Tail(os)) : Tail(os)[i] = os[i + 1]
      BY <2>3, <2>4, HeadTailProperties
    <3>2. Len(Tail(os)) = n /\ \A i \in 1 .. n : i + 1 = 1 + i
      BY <1>2, <2>3, <3>1
    <3> QED
      BY <2>3, <3>1, <3>2
  <2>6. Tail(os) = t
    BY <1>2, <2>5, SeqEqual
  <2> QED
    BY <1>5, <2>5, <2>6 DEF os
<1>7. /\ Sane(heap, sp, frames, ctl, this) /\ InvAt(heap', sp', frames', ctl', this')
      /\ Sound(heap) /\ Shell(heap) /\ Stacked(frames) /\ frames \in Seq(FrameType)
  BY Setting
<1>8. /\ Shell(g) /\ (\A o \in Address : Same(heap, g, o)) /\ Free(g) # {} /\ Fresh(g) = a
  <2>1. Shell(g) /\ \A o \in Address : Same(heap, g, o)
    BY <1>7, IncThins DEF Thins, g
  <2> QED
    BY <1>1, <2>1, SameHeap DEF a
<1>9. /\ a \in Address /\ heap[a].kind = "freed" /\ heap'[a] = x
      /\ \A o \in Address \ {a} : Same(heap, heap', o)
  <2>1. /\ heap'[a] = x /\ a \in Address /\ g[a].kind = "freed"
        /\ \A o \in Address \ {a} : heap'[o] = g[o]
    BY <1>1, <1>5, <1>8, WithFacts
  <2> QED
    BY <1>8, <2>1 DEF Same
<1>10. Keeps(heap, heap', {}) /\ Alters(heap, heap')
  <2>1. Keeps(heap, heap', {})
    BY <1>9 DEF Keeps
  <2> QED
    BY <2>1, KeepsFacts
<1>11. Grows(heap, heap', a)
  <2>1. ASSUME NEW o \in Curries(heap') \ Curries(heap)
        PROVE  o = a
    BY <1>9 DEF Curries, Same
  <2>2. heap'[a].arity + Len(Tail(heap'[a].refs)) = ArityIn(heap, Head(heap'[a].refs))
    <3>1. ArityIn(heap, v) \in Nat
      BY <1>2 DEF Waits
    <3>2. (ArityIn(heap, v) - n) + n = ArityIn(heap, v)
      BY <1>2, <3>1
    <3> QED
      BY <1>2, <1>5, <1>6, <1>9, <3>2
  <2>3. Callable(heap, Head(heap'[a].refs))
    BY <1>2, <1>6, <1>9
  <2> QED
    BY <2>1, <2>2, <2>3 DEF Grows
<1>12. Sane(heap', sp', frames', ctl', this') /\ Sound(heap')
  <2>1. Exactly(heap', frames', ctl')
    BY <1>1, NotApplied DEF Returning
  <2>2. Stacked(frames')
    BY <1>1, <1>7
  <2> QED
    BY <1>7, <1>10, <1>11, <2>1, <2>2, ShapeMade
<1>13. ShapeInv' /\ Uncurried!ObjectsStay
  BY <1>7, <1>10, <1>12, StaysBar DEF Sane, ShapeInv
<1>14. Later' = <<>> /\ Begun' = Begun
  <2>1. Drawn(frames, sp, sp', Len(frames))
    <3>1. n + Slots(frames, 1 .. Len(frames)) <= Len(sp)
      BY <1>2, <1>7, AtFacts
    <3> QED
      BY <1>1, <1>2, <3>1 DEF Drawn
  <2>2. Len(frames') = Len(frames) /\ Likes(frames, frames', Len(frames))
    BY <1>1 DEF Likes
  <2>3. /\ Awaiting(frames', sp', Len(frames') + 1) = Awaiting(frames, sp, Len(frames) + 1)
        /\ BodiesBar(frames', sp') = BodiesBar(frames, sp)
    BY <1>7, <2>1, <2>2, StillView
  <2> QED
    BY <1>3, <2>3 DEF Later, Begun
<1>15. Now' = [op |-> "ret", val |-> a]
  <2>1. ctl'.op = "ret" /\ ctl'.val = a
    BY <1>1 DEF Returning
  <2>2. Now' = ResultBar(heap', a, Later')
    BY <2>1, NowFacts DEF Now
  <2> QED
    BY <1>14, <2>2, ResultIs
<1>16. Now.args = Den(heap)[v].args \o t /\ Len(Now.args) < Arity[Now.fn]
  <2>1. t \o <<>> = t
    BY <1>2, ConcatEmptySeq
  <2>2. Now.args = Den(heap)[v].args \o t
    BY <1>2, <1>3, <2>1
  <2>3. Len(Now.args) = Len(Den(heap)[v].args) + n
    <3> DEFINE d == Den(heap)[v].args
    <3>1. d \in Seq(Value)
      BY <1>2 DEF Waits
    <3> HIDE DEF d
    <3>2. Len(d \o t) = Len(d) + Len(t)
      BY <1>2, <3>1, ConcatProperties
    <3> QED
      BY <1>2, <2>2, <3>2 DEF d
  <2>4. /\ n < ArityIn(heap, v) /\ ArityIn(heap, v) \in Nat /\ Len(Den(heap)[v].args) \in Nat
        /\ ArityIn(heap, v) + Len(Den(heap)[v].args) = Arity[Now.fn]
    BY <1>1, <1>2 DEF Waits
  <2>5. Len(Now.args) < Arity[Now.fn]
    BY <1>2, <2>3, <2>4
  <2> QED
    BY <2>2, <2>5
<1>17. a \in DOMAIN ObjBar(heap') /\ a \notin DOMAIN ObjBar(heap)
  BY <1>5, <1>9, ObjFacts
<1>18. ObjBar(heap')[a] = [kind |-> "fn", fn |-> Now.fn, args |-> Now.args]
  <2>1. a \in Curries(heap')
    BY <1>5, <1>9 DEF Curries
  <2>2. Den(heap')[a].fn = Den(heap')[v].fn /\ Den(heap')[a].args = Den(heap')[v].args \o t
    BY <1>6, <1>9, <1>12, <2>1, SoundFacts, DenFacts
  <2>3. Callable(heap', v)
    BY <1>2, <1>9 DEF Callable, Same
  <2>4. Den(heap')[v].fn = Den(heap)[v].fn /\ Den(heap')[v].args = Den(heap)[v].args
    BY <1>2, <1>7, <1>10, <1>12, <2>3, DenSame
  <2>5. ObjBar(heap')[a] = [kind |-> "fn", fn |-> Den(heap')[a].fn, args |-> Den(heap')[a].args]
    BY <1>5, <1>9, <1>17, ObjFacts
  <2>6. Den(heap')[a].fn = Now.fn /\ Den(heap')[a].args = Now.args
    BY <1>2, <1>16, <2>2, <2>4
  <2> QED
    BY <2>5, <2>6
<1>19. Now'.op = "ret" /\ Now'.val = a
  BY <1>15
<1>20. Uncurried!Suspend
  BY <1>2, <1>14, <1>16, <1>17, <1>18, <1>19 DEF Uncurried!Suspend, Begun, Now, Later
<1> QED
  BY <1>13, <1>20 DEF Refined, Uncurried!AbsNext

\* Objects go, and nothing else is different.
LEMMA Collects ==
    ASSUME ShapeInv', Uncurried!ObjectsStay, Thins(heap, heap'), Begun' = Begun, Now' = Now
    PROVE  Refined
<1>1. DOMAIN ObjBar(heap') \subseteq DOMAIN ObjBar(heap)
  <2>1. ASSUME NEW o \in DOMAIN ObjBar(heap')
        PROVE  o \in DOMAIN ObjBar(heap)
    <3>1. o \in Address /\ heap'[o].kind # "freed"
      BY ObjFacts
    <3>2. heap[o].kind # "freed"
      BY <3>1 DEF Thins, Same
    <3> QED
      BY <3>1, <3>2, ObjFacts
  <2> QED
    BY <2>1
<1>2. Uncurried!Collect
  BY <1>1 DEF Uncurried!Collect, Begun, Now, Later
<1> QED
  BY <1>2 DEF Refined, Uncurried!AbsNext

\* What comes back to "over" gets what waits there.
LEMMA OverReturns ==
    ASSUME Inv, ShapeInv, Inv', ctl.op = "ret", Last(frames).fr = "over", NEW n, n = Last(frames).n
    PROVE  /\ Len(frames) > 1 /\ n \in Nat /\ n > 0 /\ n <= Len(sp)
           /\ Later = SubSeq(sp, 1, n) /\ Later \in Seq(Value) /\ Len(Later) = n /\ Later # <<>>
           /\ Awaiting(frames, sp, Len(frames)) = <<>>
<1>1. /\ Piled(frames) /\ Len(frames) \in DOMAIN frames /\ Last(frames) = frames[Len(frames)]
      /\ Len(frames) \in Nat \ {0} /\ n \in Nat /\ sp \in Seq(Value) /\ Len(sp) \in Nat
      /\ Fits(frames, sp) /\ Stacked(frames) /\ frames[1].fr = "body" /\ frames # <<>>
      /\ Len(sp) = Applied + Slots(frames, 1 .. Len(frames)) /\ DOMAIN frames = 1 .. Len(frames)
  BY Setting, LenProperties DEF Piled
<1>2. Len(frames) > 1 /\ n > 0 /\ frames[Len(frames) - 1].fr \in {"body", "again"}
  <2>1. Len(frames) # 1
    BY <1>1
  <2>2. Len(frames) > 1 /\ Len(frames) \in 2 .. Len(frames)
    BY <1>1, <2>1
  <2> QED
    BY <1>1, <2>2 DEF Stacked
<1>3. Later = SubSeq(sp, 1, n) /\ n <= Len(sp)
  <2>1. Later = Share(frames, sp, Len(frames))
    BY <1>1, AwaitingNext DEF Later
  <2> DEFINE a == 0
  <2>2. a \in Nat /\ Len(sp) = a + Slots(frames, DOMAIN frames)
    <3>1. Applied = 0
      BY DEF Applied
    <3> QED
      BY <1>1, <3>1
  <2>3. a + 1 = 1 /\ a + n = n
    BY <1>1
  <2> HIDE DEF a
  <2>4. Share(frames, sp, Len(frames)) = SubSeq(sp, a + 1, a + Last(frames).n) /\ a + Last(frames).n <= Len(sp)
    BY <1>1, <2>2, TopShare
  <2> QED
    BY <2>1, <2>3, <2>4
<1>4. Later \in Seq(Value) /\ Len(Later) = n
  <2>1. TopOf(sp, n, Later)
    BY <1>1, <1>3 DEF TopOf
  <2> QED
    BY <2>1, Topmost
<1>5. Later # <<>>
  <2>1. Len(<<>>) = 0
    BY EmptySeq
  <2> QED
    BY <1>2, <1>4, <2>1
<1>6. Awaiting(frames, sp, Len(frames)) = <<>>
  <2>1. Len(frames) - 1 \in DOMAIN frames /\ (Len(frames) - 1) + 1 = Len(frames)
    BY <1>1, <1>2
  <2> QED
    BY <1>1, <1>2, <2>1, AwaitingNext
<1> QED
  BY <1>1, <1>2, <1>3, <1>4, <1>5, <1>6

\* An exception that has come
LEMMA ExceptionBar ==
    ASSUME NEW h, NEW a \in Address, h[a].kind = "exn"
    PROVE  a \in DOMAIN ObjBar(h) /\ ObjBar(h)[a].kind = "exn"
<1>1. a \in DOMAIN ObjBar(h)
  BY ObjFacts
<1>2. ObjBar(h)[a] = [kind |-> h[a].kind]
  BY <1>1, ObjFacts
<1> QED
  BY <1>1, <1>2

\* The result cannot take what waits: an exception stays what it is, and for
\* anything else one comes.
LEMMA OverOtherRefines ==
    ASSUME Inv, ShapeInv, Inv', OverOther
    PROVE  Refined
<1> DEFINE n == Last(frames).n
           v == ctl.val
           h == IncAll(heap, <<v>>)
           less == UnrefAll(h, SubSeq(sp, 1, n))
           back == DecAll(less, <<v>>)
           g == Drop(back, v)
<1>1. /\ ctl.op = "ret" /\ Last(frames).fr = "over" /\ ~IsFunction(v)
      /\ IF back[v].kind = "exn" THEN heap' = back /\ ctl' = ctl
         ELSE Free(g) # {} /\ heap' = With(g, New("exn")) /\ ctl' = Returning(Fresh(g))
      /\ sp' = SubSeq(sp, n + 1, Len(sp)) /\ frames' = Front(frames)
  BY DEF OverOther, Top, Popped, Pushed, Below
<1>2. /\ Sane(heap, sp, frames, ctl, this) /\ InvAt(heap', sp', frames', ctl', this')
      /\ InvAt(heap, sp, frames, ctl, this)
      /\ Sound(heap) /\ Shell(heap) /\ frames \in Seq(FrameType) /\ Len(frames) \in Nat \ {0}
      /\ Len(sp) \in Nat /\ Len(sp) = Applied + Slots(frames, 1 .. Len(frames))
      /\ Slots(frames, 1 .. Len(frames)) = Slots(frames, 1 .. Len(frames) - 1) + n
      /\ Slots(frames, 1 .. Len(frames) - 1) \in Nat
  BY Setting DEF Sane
<1>3. /\ n \in Nat /\ n > 0 /\ Later # <<>> /\ Awaiting(frames, sp, Len(frames)) = <<>>
  BY <1>1, OverReturns
<1>4. Exists(back, v) /\ Exists(heap, v)
  <2>1. Exists(back, v)
    BY OverOtherBack
  <2> QED
    BY <1>1, <1>2, <2>1, Handed
<1>5. v \notin Fn /\ v \in Address /\ heap[v].kind \in {"atom", "exn"}
  <2>1. v \notin Fn
    BY <1>1 DEF IsFunction, Counted
  <2>2. v \in Address /\ heap[v].kind # "freed"
    BY <1>4, <2>1 DEF Exists
  <2>3. heap[v].kind # "curried"
    BY <1>1, <2>1 DEF IsFunction, IsCurried, Counted
  <2>4. heap[v].kind \in {"freed", "atom", "exn", "curried"}
    BY <1>2, <2>2, HeapFacts, ObjectFacts DEF Sound
  <2> QED
    BY <2>1, <2>2, <2>3, <2>4
<1>6. Thins(heap, back)
  <2>1. Thins(heap, h)
    BY <1>2, IncThins
  <2> HIDE DEF h
  <2>2. Thins(h, less)
    BY <2>1, UnrefThins DEF Thins
  <2> HIDE DEF less
  <2>3. Thins(less, back)
    BY <2>2, DecThins DEF Thins
  <2> HIDE DEF back
  <2> QED
    BY <2>1, <2>2, <2>3, ThinsOn
<1> HIDE DEF n, v, back
<1>7. back[v].kind = heap[v].kind
  BY <1>4, <1>5, <1>6 DEF Thins, Exists, Same
<1>8. /\ Len(frames') + 1 = Len(frames) /\ Stacked(frames')
      /\ Later' = <<>> /\ Begun' = Begun
  <2>1. Drawn(frames, sp, sp', Len(frames) - 1)
    <3>1. n + Slots(frames, 1 .. Len(frames) - 1) <= Len(sp)
      <4>1. Applied = 0
        BY <1>1 DEF Applied
      <4> QED
        BY <1>2, <1>3, <4>1
    <3> QED
      BY <1>1, <1>3, <3>1 DEF Drawn
  <2>2. /\ Len(frames') + 1 = Len(frames) /\ Stacked(frames')
        /\ Awaiting(frames', sp', Len(frames') + 1) = Awaiting(frames, sp, Len(frames))
        /\ BodiesBar(frames', sp') = BodiesBar(frames, sp)
    BY <1>1, <1>2, <2>1, PopView
  <2> QED
    BY <1>3, <2>2 DEF Later, Begun
<1>9. Now = ResultBar(heap, v, Later)
  BY <1>1, NowFacts DEF Now, v
<1>10. CASE back[v].kind = "exn"
  <2>1. heap' = back /\ ctl' = ctl
    BY <1>1, <1>10
  <2>2. ShapeInv' /\ Uncurried!ObjectsStay
    <3>1. Moves(heap, heap', {})
      BY <1>6, <2>1, KeepsFacts
    <3>2. Exactly(heap', frames', ctl')
      BY <1>1, <2>1, NotApplied
    <3> QED
      BY <1>8, <3>1, <3>2, Finish
  <2>3. Now' = Now
    <3>1. Now' = ResultBar(heap', v, Later')
      BY <1>1, <2>1, NowFacts DEF Now, v
    <3>2. Now = [op |-> "ret", val |-> v]
      BY <1>5, <1>7, <1>9, <1>10, ResultIs
    <3>3. Now' = [op |-> "ret", val |-> v]
      BY <1>8, <3>1, ResultIs
    <3> QED
      BY <3>2, <3>3
  <2> QED
    BY <1>6, <1>8, <2>1, <2>2, <2>3, Collects
<1>11. CASE back[v].kind # "exn"
  <2>1. Free(g) # {} /\ heap' = With(g, New("exn")) /\ ctl' = Returning(Fresh(g))
    BY <1>1, <1>11
  <2> DEFINE a == Fresh(g)
  <2>2. Moves(heap, g, {}) /\ Shell(g)
    <3>1. Thins(back, g)
      BY <1>6, DropThins DEF Thins
    <3> HIDE DEF g
    <3>2. Thins(heap, g)
      BY <1>6, <3>1, ThinsOn
    <3> QED
      BY <3>2, KeepsFacts DEF Thins
  <2> HIDE DEF g
  <2>3. Moves(heap, heap', {a}) /\ heap'[a].kind = "exn" /\ a \in Address
    BY <2>1, <2>2, LastMoves
  <2> HIDE DEF a
  <2>4. ShapeInv' /\ Uncurried!NewObject(a)
    <3>1. Exactly(heap', frames', ctl')
      BY <2>1, NotApplied DEF Returning
    <3> QED
      BY <1>8, <2>3, <3>1, Finish
  <2>5. Now = [op |-> "fail"]
    BY <1>3, <1>5, <1>7, <1>9, <1>11, ResultIs
  <2>6. Now' = [op |-> "ret", val |-> a]
    <3>1. ctl'.op = "ret" /\ ctl'.val = a
      BY <2>1 DEF Returning, a
    <3>2. Now' = ResultBar(heap', a, Later')
      BY <3>1, NowFacts DEF Now
    <3> QED
      BY <1>8, <3>2, ResultIs
  <2>7. Now'.op = "ret" /\ Now'.val = a
    BY <2>6
  <2>8. a \in DOMAIN ObjBar(heap') /\ ObjBar(heap')[a].kind = "exn"
    BY <2>3, ExceptionBar
  <2>9. Uncurried!Fail
    BY <1>8, <2>5, <2>7, <2>8 DEF Uncurried!Fail, Uncurried!Failing, Begun, Now, Later
  <2>10. Uncurried!NewObject(Now'.val)
    BY <2>4, <2>7
  <2> QED
    BY <2>4, <2>9, <2>10 DEF Refined, Uncurried!AbsNext, Now, Later
<1> QED
  BY <1>10, <1>11

\* A body holds something else than before.
LEMMA Holding ==
    ASSUME NEW f \in FrameType, NEW held, NEW g, g = [f EXCEPT !.held = held]
    PROVE  Twin(f, g)
BY DEF FrameType, Twin

\* The frames stay.
LEMMA Stays ==
    ASSUME Inv, ShapeInv, Inv', Len(frames') = Len(frames), Likes(frames, frames', Len(frames)),
           Drawn(frames, sp, sp', Len(frames))
    PROVE  Stacked(frames') /\ Begun' = Begun /\ Later' = Later
<1>1. Sane(heap, sp, frames, ctl, this) /\ InvAt(heap', sp', frames', ctl', this')
  BY Setting
<1>2. /\ Stacked(frames')
      /\ Awaiting(frames', sp', Len(frames') + 1) = Awaiting(frames, sp, Len(frames) + 1)
      /\ BodiesBar(frames', sp') = BodiesBar(frames, sp)
  BY <1>1, StillView
<1> QED
  BY <1>2 DEF Begun, Later

\* In a body nothing waits.
LEMMA BodyNow ==
    ASSUME Inv, ShapeInv, Inv', Last(frames).fr = "body"
    PROVE  Later = <<>> /\ (ctl = Running => Now = [op |-> "body"])
<1>1. Piled(frames) /\ Len(frames) \in DOMAIN frames /\ Last(frames) = frames[Len(frames)]
  BY Setting
<1>2. Later = <<>>
  BY <1>1, AwaitingNext DEF Later
<1> QED
  BY <1>2, NowFacts DEF Now, Running

\* A body goes on.
LEMMA Goes ==
    ASSUME Inv, ShapeInv, Inv', Thins(heap, heap'), Len(frames') = Len(frames),
           Likes(frames, frames', Len(frames)), sp' = sp, ctl' = Running, Now.op \in {"ret", "body"}
    PROVE  Refined
<1>1. Stacked(frames') /\ Begun' = Begun
  <2>1. Drawn(frames, sp, sp', Len(frames))
    BY DEF Drawn
  <2> QED
    BY <2>1, Stays
<1>2. ShapeInv' /\ Uncurried!ObjectsStay
  <2>1. Moves(heap, heap', {})
    BY KeepsFacts
  <2>2. Exactly(heap', frames', ctl')
    BY NotApplied DEF Running
  <2> QED
    BY <1>1, <2>1, <2>2, Finish
<1>3. Now' = [op |-> "body"]
  BY NowFacts DEF Now, Running
<1>4. Uncurried!Take
  BY <1>1, <1>3 DEF Uncurried!Take, Uncurried!Running, Begun, Now, Later
<1> QED
  BY <1>2, <1>4 DEF Refined, Uncurried!AbsNext

\* A body gets the result of its call.
LEMMA TakeRefines ==
    ASSUME Inv, ShapeInv, Inv', Take
    PROVE  Refined
<1> DEFINE top == Last(frames)
<1>1. /\ ctl.op = "ret" /\ top.fr = "body" /\ sp' = sp /\ ctl' = Running
      /\ \/ /\ heap' = IncAll(heap, <<ctl.val>>)
            /\ frames' = Append(Front(frames), [top EXCEPT !.held = Append(top.held, ctl.val)])
         \/ heap' = Drop(heap, ctl.val) /\ frames' = frames
  BY DEF Take, Top, Popped
<1>2. frames \in Seq(FrameType) /\ frames # <<>> /\ top \in FrameType /\ Shell(heap)
  BY Setting
<1>3. Thins(heap, heap')
  BY <1>1, <1>2, IncThins, DropThins
<1>4. Len(frames') = Len(frames) /\ Likes(frames, frames', Len(frames))
  <2>1. CASE frames' = frames
    BY <2>1 DEF Likes
  <2>2. CASE frames' = Append(Front(frames), [top EXCEPT !.held = Append(top.held, ctl.val)])
    <3> DEFINE g == [top EXCEPT !.held = Append(top.held, ctl.val)]
    <3>1. Twin(top, g)
      BY <1>2, Holding
    <3>2. frames' = Append(Front(frames), g)
      BY <2>2
    <3> HIDE DEF g
    <3> QED
      BY <1>2, <3>1, <3>2, Likely
  <2> QED
    BY <1>1, <2>1, <2>2
<1>5. Now.op = "ret"
  <2>1. Now = ResultBar(heap, ctl.val, Later)
    BY <1>1, NowFacts DEF Now
  <2>2. Now = [op |-> "ret", val |-> ctl.val]
    BY <1>1, <2>1, BodyNow, ResultIs
  <2> QED
    BY <2>2
<1> QED
  BY <1>1, <1>3, <1>4, <1>5, Goes

\* The program lets go of something.
LEMMA ForgetRefines ==
    ASSUME Inv, ShapeInv, Inv', NEW k \in DOMAIN Top.held, Forget(k)
    PROVE  Refined
<1> DEFINE top == Last(frames)
           g == [top EXCEPT !.held = RemoveAt(top.held, k)]
<1>1. /\ ctl = Running /\ Len(frames) = 1 /\ heap' = UnrefAll(heap, <<top.held[k]>>)
      /\ frames' = <<g>> /\ sp' = sp /\ ctl' = ctl
  BY DEF Forget, Top
<1>2. /\ frames \in Seq(FrameType) /\ frames # <<>> /\ top \in FrameType /\ Shell(heap)
      /\ top = frames[Len(frames)] /\ frames[1].fr = "body"
  BY Setting DEF Piled
<1>3. Thins(heap, heap')
  BY <1>1, <1>2, UnrefThins
<1>4. Twin(top, g)
  BY <1>2, Holding
<1> HIDE DEF g
<1>5. Len(frames') = Len(frames) /\ Likes(frames, frames', Len(frames))
  <2>1. Len(frames') = 1 /\ frames'[1] = g
    BY <1>1
  <2> QED
    BY <1>1, <1>2, <1>4, <2>1 DEF Likes, Twin
<1>6. Now.op = "body"
  <2>1. Now = [op |-> "body"]
    BY <1>1, <1>2, BodyNow
  <2> QED
    BY <2>1
<1> QED
  BY <1>1, <1>3, <1>5, <1>6, Goes

\* A body that gives something up stays where it is,
LEMMA KeepStays ==
    ASSUME Inv, ShapeInv, Inv', NEW given, Keep(given), Drawn(frames, sp, sp', Len(frames))
    PROVE  Stacked(frames') /\ Begun' = Begun /\ Later' = Later
<1> DEFINE top == Last(frames)
           left == SetToSeq({i \in DOMAIN top.held : i + top.n \notin given})
           g == [top EXCEPT !.held = [i \in DOMAIN left |-> top.held[left[i]]]]
<1>1. frames' = Append(Front(frames), g)
  BY DEF Keep, Top, Popped
<1>2. frames \in Seq(FrameType) /\ frames # <<>> /\ top \in FrameType
  BY Setting
<1>3. Twin(top, g)
  BY <1>2, Holding
<1> HIDE DEF g
<1>4. Len(frames') = Len(frames) /\ Likes(frames, frames', Len(frames))
  BY <1>1, <1>2, <1>3, Likely
<1> QED
  BY <1>4, Stays

\* and offers what it passes on.
LEMMA OffersNew ==
    ASSUME NEW from, Affordable(from)
    PROVE  Offers(heap, WithNew(from))
BY DEF Affordable, WithNew, Offers

\* What comes before is a prefix.
LEMMA PrefixOf ==
    ASSUME NEW s \in Seq(Value), NEW t \in Seq(Value)
    PROVE  IsPrefix(s, s \o t)
<1> DEFINE u == s \o t
<1>1. u = s \o t
  OBVIOUS
<1> HIDE DEF u
<1>2. Len(u) = Len(s) + Len(t) /\ Len(s) \in Nat /\ Len(t) \in Nat /\ SubSeq(u, 1, Len(s)) = s
  BY <1>1, Parted
<1>3. SubSeq(s, 1, Len(s)) = s
  BY SubSeqFull
<1>4. Len(s) <= Len(u)
  BY <1>2
<1> QED
  BY <1>1, <1>2, <1>3, <1>4 DEF IsPrefix

\* A body applies a function to arguments.
LEMMA ApplyRefines ==
    ASSUME Inv, ShapeInv, Inv', ctl = Running, NEW n \in 1 .. MaxArgs,
           NEW from \in [1 .. n -> 0 .. Len(Usable)],
           NEW given \in SUBSET DOMAIN Usable, NEW c \in Callees, Apply(c[1], c[2], from, given)
    PROVE  Refined
<1> DEFINE args == Arguments(from)
           f == c[1]
           w == WithNew(from)
           F == [i \in given |-> Usable[i]]
<1>1. /\ Affordable(from) /\ MayGive(c[2], from, given) /\ Keep(given)
      /\ heap' = DecAll(w, F) /\ heap' = Given(WithNew(from), given) /\ sp' = args \o sp
      /\ ctl' = Applying(f, Len(from))
  BY DEF Apply, Given
<1>2. BodyState
  BY BodyFacts
<1>3. Callable(heap, f)
  BY <1>2, CalleeFacts
<1>4. args \in Seq(Value) /\ Len(args) = n /\ Len(from) = n /\ \A v : Callable(heap, v) => Callable(heap', v)
  <2>1. Gives(n, c[2], from, given)
    BY <1>1, <1>2 DEF Gives, Selects
  <2>2. args = Arguments(from) /\ heap' = Given(WithNew(from), given)
    BY <1>1
  <2> HIDE DEF args
  <2> QED
    BY ONLY <2>1, <2>2, GiveFacts
<1>5. Offers(heap, w)
  BY <1>1, OffersNew
<1> HIDE DEF args, f, w, F
<1>6. Sound(heap) /\ Shell(heap) /\ sp \in Seq(Value) /\ Len(sp) \in Nat
  BY Setting
<1>7. Last(frames).fr = "body" /\ Later = <<>> /\ Now = [op |-> "body"]
  <2>1. Last(frames).fr = "body"
    BY <1>2 DEF BodyState
  <2> QED
    BY <2>1, BodyNow
<1>8. Stacked(frames') /\ Begun' = Begun /\ Later' = Later
  <2>1. Drawn(frames, sp, sp', Len(frames))
    BY <1>1, <1>4 DEF Drawn
  <2> QED
    BY <1>1, <2>1, KeepStays
<1>9. ShapeInv' /\ Sound(heap') /\ Alters(heap, heap') /\ Uncurried!ObjectsStay
  <2>1. Shell(w) => Thins(w, heap')
    BY <1>1, DecThins
  <2>2. Moves(heap, heap', {})
    BY <1>5, <1>6, <2>1, OfferMoves
  <2>3. Exactly(heap', frames', ctl')
    <3>1. Last(frames').fr = "body"
      BY <1>1, <1>2, GiveFacts DEF Gives, Selects
    <3> QED
      BY <3>1 DEF Exactly
  <2> QED
    BY <1>8, <2>2, <2>3, Finish
<1>10. Now' = CallBar(heap', f, args)
  <2>1. ctl'.op = "apply" /\ ctl'.val = f /\ ctl'.n = n
    BY <1>1, <1>4 DEF Applying
  <2>2. Now' = CallBar(heap', f, SubSeq(sp', 1, n) \o Later')
    BY <2>1, NowFacts DEF Now
  <2>3. SubSeq(sp', 1, n) = args
    BY <1>1, <1>4, <1>6, Parted
  <2>4. args \o <<>> = args
    BY <1>4, ConcatEmptySeq
  <2> QED
    BY <1>7, <1>8, <2>2, <2>3, <2>4
<1>11. /\ Now'.op = "call" /\ Now'.fn = Den(heap)[f].fn /\ Now'.args = Den(heap)[f].args \o args
  <2>1. Callable(heap', f)
    BY <1>3, <1>4
  <2>2. Now' = CallBar(heap, f, args)
    BY <1>3, <1>6, <1>9, <1>10, <2>1, CallKept
  <2> QED
    BY <2>2, Calling
<1>12. /\ f \in Fn \union DOMAIN Obj /\ Uncurried!IsFunction(f)
       /\ Uncurried!Waiting(f).fn = Den(heap)[f].fn /\ Uncurried!Waiting(f).args = Den(heap)[f].args
  BY <1>3, <1>6, ValueFacts, ValueBar
<1>13. Uncurried!IsPrefix(Den(heap)[f].args, Den(heap)[f].args \o args)
  <2>1. Den(heap)[f].args \in Seq(Value)
    BY <1>3, <1>6, DenTypes DEF Waits
  <2> QED
    BY <1>4, <2>1, PrefixOf DEF IsPrefix, Uncurried!IsPrefix
<1>14. Uncurried!Apply
  <2>1. f \in {u \in Fn \union DOMAIN Obj : Uncurried!IsFunction(u)}
    BY <1>12
  <2>2. /\ Now'.op = "call" /\ Now'.fn = Uncurried!Waiting(f).fn
        /\ Uncurried!IsPrefix(Uncurried!Waiting(f).args, Now'.args)
    BY <1>11, <1>12, <1>13
  <2>3. \E v \in {u \in Fn \union DOMAIN Obj : Uncurried!IsFunction(u)} :
           /\ Now'.op = "call" /\ Now'.fn = Uncurried!Waiting(v).fn
           /\ Uncurried!IsPrefix(Uncurried!Waiting(v).args, Now'.args)
    BY <2>1, <2>2, Zenon
  <2> QED
    BY <1>7, <1>8, <2>3, Zenon DEF Uncurried!Apply, Uncurried!Running, Begun, Now, Later, Obj
<1> QED
  BY <1>9, <1>14 DEF Refined, Uncurried!AbsNext

\* What it applies is not a function: an exception comes back.
LEMMA RefuseRefines ==
    ASSUME Inv, ShapeInv, Inv', ctl = Running, NEW n \in 1 .. MaxArgs,
           NEW from \in [1 .. n -> 0 .. Len(Usable)],
           NEW given \in SUBSET DOMAIN Usable, NEW j \in DOMAIN Usable, Refuse(j, from, given)
    PROVE  Refined
<1> DEFINE args == Arguments(from)
           w == WithNew(from)
           d == DecAll(w, [i \in given |-> Usable[i]])
           more == IncAll(d, args)
           less == UnrefAll(more, args)
           a == Fresh(less)
<1>1. /\ Affordable(from) /\ Keep(given) /\ sp' = sp
      /\ Free(less) # {} /\ heap' = With(less, New("exn")) /\ ctl' = Returning(a)
  BY DEF Refuse, Given
<1>2. Offers(heap, w)
  BY <1>1, OffersNew
<1>3. Sound(heap) /\ Shell(heap)
  BY Setting
<1>4. Last(frames).fr = "body" /\ Later = <<>> /\ Now = [op |-> "body"]
  <2>1. Last(frames).fr = "body"
    BY BodyFacts DEF BodyState
  <2> QED
    BY <2>1, BodyNow
<1>5. Stacked(frames') /\ Begun' = Begun /\ Later' = Later
  <2>1. Drawn(frames, sp, sp', Len(frames))
    BY <1>1 DEF Drawn
  <2> QED
    BY <1>1, <2>1, KeepStays
<1>6. Shell(w) => Thins(w, less)
  <2> HIDE DEF w, args
  <2> SUFFICES ASSUME Shell(w)
               PROVE  Thins(w, less)
    OBVIOUS
  <2>1. Thins(w, d)
    BY DecThins
  <2> HIDE DEF d
  <2>2. Thins(d, more)
    BY <2>1, IncThins DEF Thins
  <2> HIDE DEF more
  <2>3. Thins(more, less)
    BY <2>2, UnrefThins DEF Thins
  <2> HIDE DEF less
  <2> QED
    BY <2>1, <2>2, <2>3, ThinsOn
<1> HIDE DEF args, w, d, more, less
<1>7. Moves(heap, less, {}) /\ Shell(less)
  BY <1>2, <1>3, <1>6, OfferMoves
<1>8. Moves(heap, heap', {a}) /\ heap'[a].kind = "exn" /\ a \in Address
  BY <1>1, <1>7, LastMoves
<1> HIDE DEF a
<1>9. ShapeInv' /\ Uncurried!NewObject(a)
  <2>1. Exactly(heap', frames', ctl')
    BY <1>1, NotApplied DEF Returning
  <2> QED
    BY <1>5, <1>8, <2>1, Finish
<1>10. Now' = [op |-> "ret", val |-> a]
  <2>1. ctl'.op = "ret" /\ ctl'.val = a
    BY <1>1 DEF Returning
  <2>2. Now' = ResultBar(heap', a, Later')
    BY <2>1, NowFacts DEF Now
  <2> QED
    BY <1>4, <1>5, <2>2, ResultIs
<1>11. Now'.op = "ret" /\ Now'.val = a
  BY <1>10
<1>12. a \in DOMAIN ObjBar(heap') /\ ObjBar(heap')[a].kind = "exn"
  BY <1>8, ExceptionBar
<1>13. Uncurried!Refuse
  BY <1>4, <1>5, <1>11, <1>12 DEF Uncurried!Refuse, Uncurried!Running, Begun, Now, Later
<1>14. Uncurried!NewObject(Now'.val)
  BY <1>9, <1>11
<1> QED
  BY <1>9, <1>13, <1>14 DEF Refined, Uncurried!AbsNext, Now, Later

\* The end of a sequence, as UncurriedCalls reads it
LEMMA EndOf ==
    ASSUME NEW S, NEW A \in Seq(S), NEW b \in S, NEW B, B = Append(A, b)
    PROVE  /\ B # <<>> /\ Len(B) = Len(A) + 1 /\ Len(A) \in Nat
           /\ Uncurried!Front(B) = A /\ Uncurried!Last(B) = b
<1>1. B \in Seq(S) /\ Len(B) = Len(A) + 1 /\ Len(A) \in Nat /\ B[Len(A) + 1] = b
      /\ \A i \in 1 .. Len(A) : B[i] = A[i]
  BY AppendProperties, LenProperties
<1>2. B # <<>>
  BY <1>1, EmptySeq
<1>3. Front(B) = A
  <2>1. /\ Front(B) \in Seq(S) /\ Len(Front(B)) = Len(B) - 1
        /\ \A d \in 1 .. Len(B) - 1 : Front(B)[d] = B[d]
    BY <1>1, <1>2, FrontFacts
  <2>2. Len(B) - 1 = Len(A)
    BY <1>1
  <2> DEFINE C == Front(B)
  <2>3. C \in Seq(S) /\ Len(C) = Len(A) /\ \A d \in 1 .. Len(A) : C[d] = A[d]
    BY <1>1, <2>1, <2>2
  <2> HIDE DEF C
  <2>4. C = A
    BY <2>3, SeqEqual
  <2> QED
    BY <2>4 DEF C
<1>4. Last(B) = b
  BY <1>1, <1>2, FrontFacts
<1>5. Uncurried!Front(B) = Front(B) /\ Uncurried!Last(B) = Last(B)
  BY DEF Uncurried!Front, Uncurried!Last, Front, Last
<1> QED
  BY <1>1, <1>2, <1>3, <1>4, <1>5

\* The bodies are a sequence.
LEMMA LastBody ==
    ASSUME NEW fs, NEW s, fs \in Seq(FrameType), NEW b, NEW B, B = Append(BodiesBar(fs, s), b)
    PROVE  /\ B # <<>> /\ Len(B) = Cardinality(Bodies(fs)) + 1
           /\ Uncurried!Front(B) = BodiesBar(fs, s) /\ Uncurried!Last(B) = b
<1> DEFINE m == Cardinality(Bodies(fs))
           A == BodiesBar(fs, s)
<1>1. m \in Nat
  BY BodiesFacts
<1>2. A = [k \in 1 .. m |-> BodyBar(fs, s, Body(fs, k))]
  BY DEF BodiesBar
<1> HIDE DEF m, A
<1>3. \A k \in 1 .. m : A[k] = BodyBar(fs, s, Body(fs, k))
  BY <1>2
<1> DEFINE S == {A[k] : k \in 1 .. m} \union {b}
<1>4. A \in Seq(S) /\ Len(A) = m
  <2>1. A \in [1 .. m -> S]
    BY <1>2, <1>3
  <2> HIDE DEF S
  <2> QED
    BY <1>1, <2>1, SeqDef, LenProperties
<1>5. b \in S
  OBVIOUS
<1> HIDE DEF S
<1>6. B = Append(A, b)
  BY DEF A
<1>7. B # <<>> /\ Len(B) = Len(A) + 1 /\ Uncurried!Front(B) = A /\ Uncurried!Last(B) = b
  BY ONLY <1>4, <1>5, <1>6, EndOf
<1> QED
  BY <1>4, <1>7 DEF A, m

\* A body of bytecode turns into another one: what waits for it waits on.
LEMMA TailCallRefines ==
    ASSUME Inv, ShapeInv, Inv', ctl = Running, NEW n \in 1 .. MaxArgs,
           NEW from \in [1 .. n -> 0 .. Len(Usable)], NEW f \in Islam, TailCall(f, from)
    PROVE  Refined
<1> DEFINE args == Arguments(from)
           top == Last(frames)
           w == WithNew(from)
           more == IncAll(w, args)
           x == Frame("body", f, args, args, 0, top.that)
<1>1. /\ Affordable(from) /\ top.fn \in Islam /\ Len(from) = Arity[f]
      /\ heap' = UnrefAll(more, top.held) /\ frames' = Append(Front(frames), x)
      /\ sp' = sp /\ ctl' = Running
  BY DEF TailCall, Top, Popped
<1>2. /\ Sane(heap, sp, frames, ctl, this) /\ InvAt(heap', sp', frames', ctl', this')
      /\ InvAt(heap, sp, frames, ctl, this) /\ Len(frames) \in Nat \ {0} /\ top = frames[Len(frames)]
      /\ Shell(heap)
  BY Setting DEF Inv
<1>3. BodyState
  BY BodyFacts
<1>4. top.fr = "body" /\ Now = [op |-> "body"]
  <2>1. top.fr = "body"
    BY <1>3 DEF BodyState
  <2> QED
    BY <2>1, BodyNow
<1>5. Len(frames) > 1
  <2>1. frames[1].fn = NoFn
    BY <1>2, AtFacts
  <2>2. NoFn \notin Islam
    BY ApplicationAssumption
  <2>3. Len(frames) # 1
    BY <1>1, <1>2, <2>1, <2>2
  <2>4. Len(frames) \in Nat /\ Len(frames) # 0
    BY <1>2
  <2> DEFINE l == Len(frames)
  <2>5. l \in Nat /\ l # 0 /\ l # 1
    BY <2>3, <2>4
  <2> HIDE DEF l
  <2>6. l > 1
    BY ONLY <2>5
  <2> QED
    BY <2>6 DEF l
<1>6. Len(args) = n /\ Len(from) = n
  <2>1. Selects(n, from)
    BY <1>1, <1>3 DEF Selects
  <2> QED
    BY <2>1, SelectFacts
<1>7. Offers(heap, w)
  BY <1>1, OffersNew
<1>8. x.fr = "body" /\ x.fn = f /\ x.args = args
  BY DEF Frame
<1>9. Shell(w) => Thins(w, heap')
  <2> HIDE DEF w, args
  <2> SUFFICES ASSUME Shell(w)
               PROVE  Thins(w, heap')
    OBVIOUS
  <2>1. Thins(w, more)
    BY IncThins
  <2> HIDE DEF more
  <2>2. Thins(more, heap')
    BY <1>1, <2>1, UnrefThins DEF Thins
  <2> QED
    BY <2>1, <2>2, ThinsOn
<1> HIDE DEF args, w, more, x
<1>10. PICK low : /\ Stacked(frames')
                  /\ Awaiting(frames', sp', Len(frames')) = Awaiting(frames, sp, Len(frames))
                  /\ frames'[Len(frames')] = x /\ low \in Seq(FrameType)
                  /\ Begun = Append(BodiesBar(low, sp), BodyBar(frames, sp, Len(frames)))
                  /\ Begun' = Append(BodiesBar(low, sp), BodyBar(frames', sp', Len(frames')))
  <2>1. Drawn(frames, sp, sp', Len(frames) - 1)
    BY <1>1 DEF Drawn
  <2>2. Swaps(heap, sp, frames, ctl, this, heap', sp', frames', ctl', this', x)
    BY <1>1, <1>2, <1>4, <1>5, <1>8, <2>1 DEF Swaps
  <2>3. /\ Stacked(frames') /\ frames'[Len(frames')] = x
        /\ Awaiting(frames', sp', Len(frames')) = Awaiting(frames, sp, Len(frames))
    BY <2>2, SwapView
  <2>4. SameBelow(frames, sp, frames', sp')
    BY <1>8, <2>2, SwapView
  <2> QED
    BY <2>3, <2>4 DEF SameBelow, Begun
<1>11. ShapeInv' /\ Uncurried!ObjectsStay
  <2>1. Moves(heap, heap', {})
    BY <1>2, <1>7, <1>9, OfferMoves
  <2>2. Exactly(heap', frames', ctl')
    BY <1>1, NotApplied DEF Running
  <2> QED
    BY <1>10, <2>1, <2>2, Finish
<1>12. /\ Begun # <<>> /\ Len(Begun') = Len(Begun) /\ Uncurried!Front(Begun') = Uncurried!Front(Begun)
       /\ Uncurried!Last(Begun) = BodyBar(frames, sp, Len(frames))
       /\ Uncurried!Last(Begun') = BodyBar(frames', sp', Len(frames'))
  <2> DEFINE b == BodyBar(frames, sp, Len(frames))
             c == BodyBar(frames', sp', Len(frames'))
             B == Begun
             C == Begun'
  <2>1. low \in Seq(FrameType) /\ B = Append(BodiesBar(low, sp), b) /\ C = Append(BodiesBar(low, sp), c)
    BY <1>10
  <2> HIDE DEF b, c, B, C
  <2>2. /\ B # <<>> /\ Len(B) = Cardinality(Bodies(low)) + 1
        /\ Uncurried!Front(B) = BodiesBar(low, sp) /\ Uncurried!Last(B) = b
    BY ONLY <2>1, LastBody
  <2>3. /\ C # <<>> /\ Len(C) = Cardinality(Bodies(low)) + 1
        /\ Uncurried!Front(C) = BodiesBar(low, sp) /\ Uncurried!Last(C) = c
    BY ONLY <2>1, LastBody
  <2> QED
    BY <2>2, <2>3 DEF b, c, B, C
<1>13. /\ Uncurried!Last(Begun').rest = Uncurried!Last(Begun).rest
       /\ Uncurried!Last(Begun').fn = f /\ Uncurried!Last(Begun').args = args
  BY <1>8, <1>10, <1>12 DEF BodyBar
<1>14. f \in Fn /\ Len(args) = Arity[f]
  BY <1>1, <1>6, ApplicationAssumption
<1>15. Now' = [op |-> "body"]
  BY <1>1, NowFacts DEF Now, Running
<1>16. Uncurried!Become
  BY <1>4, <1>12, <1>13, <1>14, <1>15 DEF Uncurried!Become, Uncurried!Running, Begun, Now, Later
<1> QED
  BY <1>11, <1>16 DEF Refined, Uncurried!AbsNext

\* A body returns: the bodies below are what they were, and its result gets what
\* waits for it.
LEMMA LeaveView ==
    ASSUME Inv, ShapeInv, Inv', ctl = Running, Len(frames) > 1, NEW h, Shell(h), NEW v, Leave(h, v)
    PROVE  /\ Stacked(frames') /\ Exactly(heap', frames', ctl') /\ Thins(h, heap')
           /\ Exists(heap', v) /\ Now = [op |-> "body"] /\ Now' = ResultBar(heap', v, Later')
           /\ Begun # <<>> /\ Begun' = Uncurried!Front(Begun) /\ Later' = Uncurried!Last(Begun).rest
<1> DEFINE top == Last(frames)
           n == top.n
           g == IncAll(h, <<v>>)
           u == UnrefAll(g, Usable)
<1>1. /\ heap' = DecAll(u, <<v>>) /\ sp' = SubSeq(sp, n + 1, Len(sp)) /\ frames' = Front(frames)
      /\ ctl' = Returning(v)
  BY DEF Leave, Inc, Top, Popped, Below
<1>2. /\ Sane(heap, sp, frames, ctl, this) /\ InvAt(heap', sp', frames', ctl', this')
      /\ Len(frames) \in Nat \ {0} /\ Len(sp) \in Nat /\ n \in Nat
      /\ Len(sp) = Applied + Slots(frames, 1 .. Len(frames))
      /\ Slots(frames, 1 .. Len(frames)) = Slots(frames, 1 .. Len(frames) - 1) + n
      /\ Slots(frames, 1 .. Len(frames) - 1) \in Nat
  BY Setting
<1>3. top.fr = "body" /\ Now = [op |-> "body"]
  <2>1. top.fr = "body"
    BY BodyFacts DEF BodyState
  <2> QED
    BY <2>1, BodyNow
<1>4. Thins(h, heap')
  <2>1. Thins(h, g)
    BY IncThins
  <2> HIDE DEF g
  <2>2. Thins(g, u)
    BY <2>1, UnrefThins DEF Thins
  <2> HIDE DEF u
  <2>3. Thins(u, heap')
    BY <1>1, <2>2, DecThins DEF Thins
  <2> QED
    BY <2>1, <2>2, <2>3, ThinsOn
<1> HIDE DEF u, g
<1>5. /\ Stacked(frames') /\ Later' = Awaiting(frames, sp, Len(frames))
      /\ Begun = Append(Begun', BodyBar(frames, sp, Len(frames)))
  <2>1. Drawn(frames, sp, sp', Len(frames) - 1)
    <3>1. Applied = 0
      BY DEF Applied, Running
    <3>2. n + Slots(frames, 1 .. Len(frames) - 1) <= Len(sp)
      BY <1>2, <3>1
    <3> QED
      BY <1>1, <1>2, <3>2 DEF Drawn
  <2>2. /\ Stacked(frames')
        /\ Awaiting(frames', sp', Len(frames') + 1) = Awaiting(frames, sp, Len(frames))
        /\ BodiesBar(frames, sp) = Append(BodiesBar(frames', sp'), BodyBar(frames, sp, Len(frames)))
    BY <1>1, <1>2, <1>3, <2>1, PopView
  <2> QED
    BY <2>2 DEF Later, Begun
<1>6. /\ Begun # <<>> /\ Begun' = Uncurried!Front(Begun)
      /\ Uncurried!Last(Begun) = BodyBar(frames, sp, Len(frames))
  <2> DEFINE b == BodyBar(frames, sp, Len(frames))
             B == Begun
             low == frames'
             s == sp'
  <2>1. low \in Seq(FrameType) /\ B = Append(BodiesBar(low, s), b)
    BY <1>2, <1>5, AtFacts DEF Begun
  <2>2. Begun' = BodiesBar(low, s)
    BY DEF Begun
  <2> HIDE DEF b, B, low, s
  <2>3. B # <<>> /\ Uncurried!Front(B) = BodiesBar(low, s) /\ Uncurried!Last(B) = b
    BY ONLY <2>1, LastBody
  <2> QED
    BY <2>2, <2>3 DEF b, B
<1>7. Later' = Uncurried!Last(Begun).rest
  BY <1>5, <1>6 DEF BodyBar
<1>8. ctl'.op = "ret" /\ ctl'.val = v
  BY <1>1 DEF Returning
<1>9. Exactly(heap', frames', ctl') /\ Exists(heap', v) /\ Now' = ResultBar(heap', v, Later')
  <2>1. Exists(heap', v)
    BY <1>2, <1>8, Handed
  <2>2. Now' = ResultBar(heap', v, Later')
    BY <1>8, NowFacts DEF Now
  <2> QED
    BY <1>8, <2>1, <2>2, NotApplied
<1> QED
  BY <1>3, <1>4, <1>5, <1>6, <1>7, <1>9

\* What a value gets
LEMMA GivenFacts ==
    ASSUME NEW v, NEW r
    PROVE  /\ r = <<>> => Uncurried!Given(v, r) = [op |-> "ret", val |-> v]
           /\ r # <<>> /\ Uncurried!IsFunction(v) =>
                Uncurried!Given(v, r) = [op |-> "call", fn |-> Uncurried!Waiting(v).fn,
                                         args |-> Uncurried!Waiting(v).args \o r]
           /\ r # <<>> /\ ~Uncurried!IsFunction(v) /\ Obj[v].kind = "exn" =>
                Uncurried!Given(v, r) = [op |-> "ret", val |-> v]
           /\ r # <<>> /\ ~Uncurried!IsFunction(v) /\ Obj[v].kind # "exn" =>
                Uncurried!Given(v, r) = [op |-> "fail"]
BY DEF Uncurried!Given, Uncurried!Returning, Uncurried!CallOf, Uncurried!Failing, Obj

\* A body returns something that it has,
LEMMA ReturnOld ==
    ASSUME Inv, ShapeInv, Inv', ctl = Running, Len(frames) > 1,
           NEW v \in Fn \union Range(Usable), Leave(heap, v)
    PROVE  Refined
<1>1. Sound(heap) /\ Shell(heap)
  BY Setting
<1>2. /\ Stacked(frames') /\ Exactly(heap', frames', ctl') /\ Thins(heap, heap')
      /\ Exists(heap', v) /\ Now = [op |-> "body"] /\ Now' = ResultBar(heap', v, Later')
      /\ Begun # <<>> /\ Begun' = Uncurried!Front(Begun) /\ Later' = Uncurried!Last(Begun).rest
  BY <1>1, LeaveView
<1>3. Exists(heap, v)
  <2>1. BodyState
    BY BodyFacts
  <2> QED
    BY <2>1, UsableFacts DEF Exists
<1>4. ShapeInv' /\ Sound(heap') /\ Alters(heap, heap') /\ Uncurried!ObjectsStay
  BY <1>2, KeepsFacts, Finish
<1>5. v \in Fn \/ (v \in Address /\ heap'[v].kind = heap[v].kind)
  BY <1>2, <1>3 DEF Exists, Thins, Same
<1> DEFINE r == Later'
<1>6. Now' = ResultBar(heap', v, r)
  BY <1>2
<1> HIDE DEF r
<1>7. /\ v \in Fn \union DOMAIN Obj
      /\ Uncurried!IsFunction(v) <=> Callable(heap, v)
      /\ Callable(heap, v) => /\ Uncurried!Waiting(v).fn = Den(heap)[v].fn
                              /\ Uncurried!Waiting(v).args = Den(heap)[v].args
      /\ ~Callable(heap, v) => /\ v \notin Fn /\ Obj[v].kind = heap[v].kind
                               /\ heap[v].kind \in {"atom", "exn"}
  BY <1>1, <1>3, ValueBar
<1>8. Now' = Uncurried!Given(v, r)
  <2>1. CASE r = <<>>
    BY <1>6, <2>1, ResultIs, GivenFacts
  <2>2. CASE r # <<>> /\ Callable(heap, v)
    <3>1. Callable(heap', v)
      BY <1>5, <2>2 DEF Callable
    <3>2. ResultBar(heap', v, r) = CallBar(heap', v, r)
      BY <2>2, <3>1, ResultIs DEF Callable
    <3>3. CallBar(heap', v, r) = CallBar(heap, v, r)
      BY <1>1, <1>4, <2>2, <3>1, CallKept
    <3>4. CallBar(heap, v, r) = [op |-> "call", fn |-> Uncurried!Waiting(v).fn,
                                 args |-> Uncurried!Waiting(v).args \o r]
      BY <1>7, <2>2 DEF CallBar
    <3>5. Uncurried!Given(v, r) = [op |-> "call", fn |-> Uncurried!Waiting(v).fn,
                                   args |-> Uncurried!Waiting(v).args \o r]
      BY <1>7, <2>2, GivenFacts
    <3> QED
      BY <1>6, <3>2, <3>3, <3>4, <3>5
  <2>3. CASE r # <<>> /\ ~Callable(heap, v)
    <3>1. v \notin Fn /\ heap'[v].kind = heap[v].kind /\ Obj[v].kind = heap[v].kind /\ ~Uncurried!IsFunction(v)
          /\ heap[v].kind \in {"atom", "exn"}
      BY <1>5, <1>7, <2>3
    <3>2. CASE heap[v].kind = "exn"
      BY <1>6, <2>3, <3>1, <3>2, ResultIs, GivenFacts
    <3>3. CASE heap[v].kind = "atom"
      BY <1>6, <2>3, <3>1, <3>3, ResultIs, GivenFacts
    <3> QED
      BY <3>1, <3>2, <3>3
  <2> QED
    BY <2>1, <2>2, <2>3
<1>9. Uncurried!Answer
  <2>1. Now' = Uncurried!Given(v, Uncurried!Last(Begun).rest)
    BY <1>2, <1>8 DEF r
  <2>2. \E w \in Fn \union DOMAIN Obj : Now' = Uncurried!Given(w, Uncurried!Last(Begun).rest)
    BY <1>7, <2>1, Zenon
  <2> QED
    BY <1>2, <2>2, Zenon DEF Uncurried!Answer, Uncurried!Running, Begun, Now, Later, Obj
<1> QED
  BY <1>4, <1>9 DEF Refined, Uncurried!AbsNext

\* or something new.
LEMMA ReturnNew ==
    ASSUME Inv, ShapeInv, Inv', ctl = Running, Len(frames) > 1, Free(heap) # {},
           NEW kind \in {"atom", "exn"}, Leave(With(heap, New(kind)), Fresh(heap))
    PROVE  Refined
<1> DEFINE w == With(heap, New(kind))
           v == Fresh(heap)
<1>1. Sound(heap) /\ Shell(heap)
  BY Setting
<1>2. Shell(w) /\ w[v].kind = kind /\ v \in Address /\ heap[v].kind = "freed" /\ v \notin Fn
  <2>1. DOMAIN New(kind) = Fields /\ New(kind).kind = kind
    BY NewFields
  <2> QED
    BY <1>1, <2>1, WithFacts, AddressFacts
<1>3. Offers(heap, w) /\ Leave(w, v)
  BY DEF Offers
<1> HIDE DEF w, v
<1>4. /\ Stacked(frames') /\ Exactly(heap', frames', ctl') /\ Thins(w, heap')
      /\ Exists(heap', v) /\ Now = [op |-> "body"] /\ Now' = ResultBar(heap', v, Later')
      /\ Begun # <<>> /\ Begun' = Uncurried!Front(Begun) /\ Later' = Uncurried!Last(Begun).rest
  BY <1>2, <1>3, LeaveView
<1>5. ShapeInv' /\ Uncurried!ObjectsStay
  <2>1. Moves(heap, heap', {})
    BY <1>1, <1>3, <1>4, OfferMoves
  <2> QED
    BY <1>4, <2>1, Finish
<1>6. heap'[v].kind = kind
  BY <1>2, <1>4 DEF Exists, Thins, Same
<1>7. v \in DOMAIN Obj' \ DOMAIN Obj /\ Obj'[v].kind = kind
  <2>1. v \notin DOMAIN ObjBar(heap) /\ v \in DOMAIN ObjBar(heap')
    BY <1>2, <1>6, ObjFacts
  <2>2. ObjBar(heap')[v] = [kind |-> kind]
    BY <1>6, <2>1, ObjFacts
  <2>3. ObjBar(heap')[v].kind = kind
    BY <2>2
  <2> QED
    BY <2>1, <2>3 DEF Obj
<1> DEFINE r == Later'
<1>8. Now' = ResultBar(heap', v, r)
  BY <1>4
<1> HIDE DEF r
<1>9. Now' = IF r # <<>> /\ Obj'[v].kind = "atom" THEN [op |-> "fail"] ELSE [op |-> "ret", val |-> v]
  <2>1. CASE r = <<>>
    BY <1>8, <2>1, ResultIs
  <2>2. CASE r # <<>> /\ kind = "atom"
    BY <1>2, <1>6, <1>7, <1>8, <2>2, ResultIs
  <2>3. CASE r # <<>> /\ kind = "exn"
    BY <1>2, <1>6, <1>7, <1>8, <2>3, ResultIs
  <2> QED
    BY <2>1, <2>2, <2>3
<1>10. Uncurried!Answer
  <2>1. Now' = IF Uncurried!Last(Begun).rest # <<>> /\ Obj'[v].kind = "atom"
               THEN [op |-> "fail"] ELSE [op |-> "ret", val |-> v]
    BY <1>4, <1>9 DEF r
  <2>2. \E q \in DOMAIN Obj' \ DOMAIN Obj :
            /\ Obj'[q].kind \in {"atom", "exn"}
            /\ Now' = IF Uncurried!Last(Begun).rest # <<>> /\ Obj'[q].kind = "atom"
                      THEN [op |-> "fail"] ELSE [op |-> "ret", val |-> q]
    BY <1>7, <2>1
  <2> QED
    BY <1>4, <2>2, Zenon DEF Uncurried!Answer, Uncurried!Running, Uncurried!Failing,
                             Uncurried!Returning, Begun, Now, Later, Obj
<1> QED
  BY <1>5, <1>10 DEF Refined, Uncurried!AbsNext

LEMMA ReturnRefines ==
    ASSUME Inv, ShapeInv, Inv', Return
    PROVE  Refined
<1>1. ctl = Running /\ Len(frames) > 1
  BY DEF Return
<1>2. CASE \E v \in Fn \union Range(Usable) : Leave(heap, v)
  BY <1>1, <1>2, ReturnOld
<1>3. CASE \E kind \in {"atom", "exn"} : Free(heap) # {} /\ Leave(With(heap, New(kind)), Fresh(heap))
  BY <1>1, <1>3, ReturnNew
<1> QED
  BY <1>2, <1>3 DEF Return

-----------------------------------------------------------------------------
(* The refinement *)

\* A function without arguments is the empty sequence.
LEMMA EmptyIs ==
    ASSUME NEW f, DOMAIN f = {}, f = [i \in {} |-> f[i]]
    PROVE  f = <<>>
<1>1. <<>> = [i \in {} |-> f[i]]
  OBVIOUS
<1> QED
  BY <1>1

\* In the beginning there is no object, and only the program runs.
LEMMA InitRefines ==
    ASSUME Init
    PROVE  ShapeInv /\ Uncurried!AbsInit
<1> DEFINE f == Frame("body", NoFn, <<>>, <<>>, 0, NoFn)
<1>1. heap = [a \in Address |-> Nothing] /\ frames = <<f>> /\ ctl = Running
  BY DEF Init
<1> HIDE DEF f
<1>2. Len(frames) = 1 /\ DOMAIN frames = 1 .. 1
  BY <1>1
<1>3. \A o \in Address : heap[o].kind = "freed"
  BY <1>1 DEF Nothing
<1>4. Curries(heap) = {}
  BY <1>3 DEF Curries
<1>5. ShapeInv
  <2>1. Grounded(heap) /\ ArityKept(heap)
    BY <1>4 DEF Grounded, ArityKept
  <2>2. Stacked(frames)
    BY <1>2 DEF Stacked
  <2>3. Exactly(heap, frames, ctl)
    BY <1>1, NotApplied DEF Running
  <2> QED
    BY <2>1, <2>2, <2>3 DEF ShapeInv, Shape
<1>6. ObjBar(heap) = <<>>
  <2> DEFINE g == ObjBar(heap)
  <2>1. Address \ Free(heap) = {}
    BY <1>3 DEF Free
  <2>2. g = [o \in {} |-> ObjectBar(heap, o)]
    BY <2>1 DEF ObjBar
  <2> HIDE DEF g
  <2>3. DOMAIN g = {} /\ g = [o \in {} |-> g[o]]
    BY <2>2
  <2> QED
    BY <2>3, EmptyIs DEF g
<1>7. BodiesBar(frames, sp) = <<>>
  <2> DEFINE g == BodiesBar(frames, sp)
             b(k) == BodyBar(frames, sp, Body(frames, k))
  <2>1. Bodies(frames) = {}
    BY <1>2 DEF Bodies
  <2>2. Cardinality(Bodies(frames)) = 0
    BY <2>1, FS_EmptySet
  <2>3. 1 .. Cardinality(Bodies(frames)) = {}
    BY <2>2
  <2>4. g = [k \in 1 .. Cardinality(Bodies(frames)) |-> b(k)]
    BY DEF BodiesBar
  <2> HIDE DEF g, b
  <2>5. g = [k \in {} |-> b(k)]
    BY <2>3, <2>4
  <2>6. DOMAIN g = {} /\ g = [k \in {} |-> g[k]]
    BY <2>5
  <2> QED
    BY <2>6, EmptyIs DEF g
<1>8. Now = [op |-> "body"]
  BY <1>1, NowFacts DEF Now, Running
<1> QED
  BY <1>5, <1>6, <1>7, <1>8 DEF Uncurried!AbsInit, Uncurried!Running, Now, Later

\* Every step is one of UncurriedCalls, or none.
LEMMA NextRefines ==
    ASSUME Inv, ShapeInv, [Next]_vars
    PROVE  Refined
<1>0. Inv'
  BY NextInv
<1>1. CASE /\ ctl = Running
           /\ \E n \in 1 .. MaxArgs : \E from \in [1 .. n -> 0 .. Len(Usable)] :
                \/ \E given \in SUBSET DOMAIN Usable :
                     \/ \E c \in Callees : Apply(c[1], c[2], from, given)
                     \/ \E j \in DOMAIN Usable : Refuse(j, from, given)
                \/ \E f \in Islam : TailCall(f, from)
  BY <1>0, <1>1, ApplyRefines, RefuseRefines, TailCallRefines
<1>2. CASE \E f \in Fn : Begin(f)
  BY <1>0, <1>2, BeginRefines
<1>3. CASE ctl.op = "apply" /\ (Curried \/ Partial \/ Over)
  BY <1>0, <1>3, CurriedRefines, PartialRefines, OverRefines
<1>4. CASE ctl.op = "ret" /\ (OverFunction \/ OverOther \/ Again \/ EndCurried \/ Take)
  BY <1>0, <1>4, OverFunctionRefines, OverOtherRefines, AgainRefines, EndCurriedRefines, TakeRefines
<1>5. CASE Return
  BY <1>0, <1>5, ReturnRefines
<1>6. CASE \E i \in DOMAIN Top.held : Forget(i)
  BY <1>0, <1>6, ForgetRefines
<1>7. CASE UNCHANGED vars
  <2>1. heap' = heap /\ frames' = frames /\ sp' = sp /\ ctl' = ctl
    BY <1>7 DEF vars
  <2>2. ShapeInv' /\ Obj' = Obj /\ Begun' = Begun /\ Now' = Now
    BY <2>1 DEF ShapeInv, Obj, Begun, Now, Later
  <2> QED
    BY <2>2, Stutters
<1> QED
  BY <1>1, <1>2, <1>3, <1>4, <1>5, <1>6, <1>7 DEF Next

\* In every state of every program, whatever functions made by partial application
\* are made of ends in a function of the program (eth_create_curried in
\* src/function.c makes one of what is already there), what one waits for and what
\* it has got is what the function behind it takes, and _eth_partial_apply waits
\* only for a function that got more than it takes.
THEOREM ShapeAlways == Spec => []ShapeInv
<1>1. Init => Inv /\ ShapeInv
  BY InitInv, InitRefines
<1>2. Inv /\ ShapeInv /\ [Next]_vars => Inv' /\ ShapeInv'
  BY NextInv, NextRefines DEF Refined
<1> QED
  BY <1>1, <1>2, PTL DEF Spec

\* For every set of functions, whatever their arities, and every program within
\* the bounds: however eth_apply, _eth_partial_apply, curried and APPLYTC bring
\* the arguments together, a body runs once with as many as its function has
\* parameters, in the order in which they were given; the others go to what it
\* returns, and nothing that waits changes meanwhile (UncurriedCalls).
THEOREM ImplementsUncurriedCalls == Spec => ImplementsUncurried
<1>1. Init => Inv /\ ShapeInv /\ Uncurried!AbsInit
  BY InitInv, InitRefines
<1>2. Inv /\ ShapeInv /\ [Next]_vars =>
        /\ Inv' /\ ShapeInv'
        /\ [Uncurried!AbsNext]_<<ObjBar(heap), BodiesBar(frames, sp),
                                 NowBar(heap, sp, ctl, Awaiting(frames, sp, Len(frames) + 1))>>
  BY NextInv, NextRefines DEF Refined, Obj, Begun, Now, Later
<1> QED
  BY <1>1, <1>2, PTL DEF Spec, ImplementsUncurried, Uncurried!AbsSpec
=============================================================================
