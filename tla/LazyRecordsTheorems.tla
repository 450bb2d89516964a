------------------------- MODULE LazyRecordsTheorems --------------------------
(* Every step of LazyRecords is a row of the changes of LazyRecordsProofs and  *)
(* LazyRecordsSteps; so the invariant holds of every state, and with it the   *)
(* counts are exact and the loads agree.                                      *)
EXTENDS LazyRecordsSteps

-----------------------------------------------------------------------------
(* What the code on top can get at                                            *)

Sighted(h, st, o) ==
    /\ o \in 0 .. Len(h) /\ ~Dead(h, o)
    /\ \A U \in SUBSET DOMAIN h : Upward(h, U) /\ Seen(Last(st)) \intersect U = {} => o \notin U

\* What running code can get at,
LEMMA SightedFacts ==
    ASSUME NEW h, NEW st, NEW hand, Good(h, st, hand), st # <<>>
    PROVE  /\ \A o \in Seen(Last(st)) : Sighted(h, st, o)
           /\ Sighted(h, st, Const)
           /\ \A p : Sighted(h, st, p) /\ p # Const =>
                p \in DOMAIN h /\ \A i \in DOMAIN h[p].refs : Sighted(h, st, h[p].refs[i])
           /\ \A o : Sighted(h, st, o) => o = Const \/ o \in DOMAIN h
<1> DEFINE f == Last(st)
<1>1. /\ Len(h) \in Nat /\ DOMAIN h = 1 .. Len(h) /\ Const \notin DOMAIN h
      /\ h \in Seq(ObjectType(Len(h)))
      /\ \A o \in Seen(f) : ~Dead(h, o) /\ o \in 0 .. Len(h)
  <2> HIDE DEF f
  <2>1. f = Last(st)
    BY DEF f
  <2> QED
    BY <2>1, TopFacts
<1>2. \A o \in Seen(f) : Sighted(h, st, o)
  BY <1>1 DEF Sighted
<1>3. Sighted(h, st, Const)
  <2>1. Const \in 0 .. Len(h) /\ ~Dead(h, Const) /\ \A U \in SUBSET DOMAIN h : Const \notin U
    BY <1>1 DEF Const, Dead
  <2> QED
    BY <2>1 DEF Sighted
<1>4. \A o : Sighted(h, st, o) => o = Const \/ o \in DOMAIN h
  BY <1>1 DEF Sighted, Const
<1>5. ASSUME NEW p, Sighted(h, st, p), p # Const, NEW i \in DOMAIN h[p].refs
      PROVE  Sighted(h, st, h[p].refs[i])
  <2>1. p \in DOMAIN h
    BY <1>4, <1>5
  <2>2. h[p].refs[i] \in 0 .. Len(h)
    BY <1>1, <1>5, <2>1, HeapFacts
  <2>3. ~Dead(h, h[p].refs[i])
    <3>1. \A q \in DOMAIN h : \A o \in Range(h[q].refs) : ~Dead(h, o)
      BY Live
    <3> QED
      BY <1>5, <2>1, <3>1 DEF Range
  <2>4. \A U \in SUBSET DOMAIN h : Upward(h, U) /\ Seen(Last(st)) \intersect U = {} => h[p].refs[i] \notin U
    BY <1>5, <2>1 DEF Sighted, Upward
  <2> QED
    BY <2>2, <2>3, <2>4 DEF Sighted
<1> QED
  BY <1>2, <1>3, <1>4, <1>5

\* which is apart from the lazy values that are evaluated,
LEMMA ApartSighted ==
    ASSUME NEW h, NEW st, NEW hand, Good(h, st, hand), st # <<>>,
           NEW V, \A o \in V : o \in Range(hand) \/ Sighted(h, st, o)
    PROVE  Apart(h, st, V)
<1>1. Apart(h, st, Range(hand)) /\ DOMAIN st = 1 .. Len(st) /\ Len(st) \in Nat
  BY TypedFacts DEF Good
<1>2. \A U \in SUBSET DOMAIN h :
         /\ Upward(h, U) /\ Range(hand) \intersect U = {}
         /\ st # <<>> => Seen(Last(st)) \intersect U = {}
         => V \intersect U = {}
  BY DEF Sighted
<1> QED
  BY <1>1, <1>2, ApartMore

\* References are taken to what is in sight.
Takes(h, st, hand, os, g) ==
    /\ Good(h, st, hand) /\ st # <<>> /\ os \in Seq(0 .. Len(h))
    /\ \A i \in DOMAIN os : Sighted(h, st, os[i])
    /\ g = IncAll(h, os)

\* so it may be referenced.
LEMMA TakenSighted ==
    ASSUME NEW h, NEW st, NEW hand, NEW os, NEW g, Takes(h, st, hand, os, g)
    PROVE  /\ Good(g, st, hand \o os)
           /\ Len(g) = Len(h) /\ DOMAIN g = DOMAIN h /\ g \in Seq(ObjectType(Len(g)))
           /\ \A o \in DOMAIN h : SameParts(h, g, o) /\ g[o].rc = h[o].rc + Occurs(os, o)
           /\ \A o : Sighted(h, st, o) => Sighted(g, st, o)
<1> USE DEF Takes
<1>1. \A o \in Range(os) : Sighted(h, st, o)
  BY DEF Range
<1>2. Good(g, st, hand \o os)
  <2>1. Apart(h, st, Range(hand) \union Range(os))
    BY <1>1, ApartSighted
  <2>2. \A o \in Range(os) : ~Dead(h, o)
    BY <1>1 DEF Sighted
  <2> QED
    BY <2>1, <2>2, Taken
<1>3. /\ Len(g) = Len(h) /\ DOMAIN g = DOMAIN h /\ g \in Seq(ObjectType(Len(h)))
      /\ \A o \in DOMAIN h : SameParts(h, g, o) /\ g[o].rc = h[o].rc + Occurs(os, o)
  <2>1. IsFiniteSet(DOMAIN os) /\ h \in Seq(ObjectType(Len(h)))
    BY SeqDomains, TypedFacts DEF Good
  <2> QED
    BY <2>1, IncAllAlike
<1>4. \A U : Upward(g, U) => Upward(h, U)
  BY <1>3 DEF Upward, SameParts
<1>5. ASSUME NEW o, Sighted(h, st, o)
      PROVE  Sighted(g, st, o)
  <2>1. o = Const \/ o \in DOMAIN h
    BY <1>5, SightedFacts
  <2>2. ~Dead(g, o)
    BY <1>3, <1>5, <2>1 DEF Dead, SameParts, Sighted
  <2> QED
    BY <1>3, <1>4, <1>5, <2>2 DEF Sighted
<1> QED
  BY <1>2, <1>3, <1>5

\* The code on top goes on, with a frame g.
CodeMoves(h, st, hand, f, g, now, tt) ==
    /\ Good(h, st, hand) /\ st # <<>> /\ f = Last(st) /\ ~IsEvaluation(f) /\ f.load.at # "lazy"
    /\ g \in FrameType(Len(h)) /\ now \in Seq(0 .. Len(h)) /\ tt = [st EXCEPT ![Len(st)] = g]
    /\ g.lazy = f.lazy /\ g.fun = f.fun /\ LoadOK(h, g)
    /\ \A o \in DOMAIN h : Occurs(g.own, o) + Occurs(now, o) = Occurs(f.own, o) + Occurs(hand, o)
    /\ \A o \in Range(now) \union Range(g.own) \union {g.load.src} \union Range(g.load.got) :
          o \in Range(hand) \/ Sighted(h, st, o)

\* Code goes on with another frame,
LEMMA CodeMoved ==
    ASSUME NEW h, NEW st, NEW hand, NEW f, NEW g, NEW now, NEW tt, CodeMoves(h, st, hand, f, g, now, tt)
    PROVE  /\ Good(h, tt, now) /\ Len(tt) = Len(st) /\ tt # <<>> /\ Last(tt) = g /\ Front(tt) = Front(st)
           /\ ~IsEvaluation(g)
<1>1. Good(h, st, hand) /\ st # <<>> /\ f = Last(st) /\ g.lazy = f.lazy /\ g.fun = f.fun /\ ~IsEvaluation(f)
  BY DEF CodeMoves
<1>2. \A o \in Uses(f) \union Seen(f) \union Range(hand) : ~Dead(h, o)
  BY <1>1, TopFacts
<1>3. \A o \in Range(now) \union Range(g.own) \union {g.load.src} \union Range(g.load.got) :
          o \in Range(hand) \/ Sighted(h, st, o)
  BY DEF CodeMoves
<1>4. Sighted(h, st, f.fun) /\ f.lazy = Const
  BY <1>1, SightedFacts DEF Seen, IsEvaluation
<1>5. Apart(h, st, Range(now) \union Seen(g))
  <2>1. \A o \in Range(now) \union Seen(g) : o \in Range(hand) \/ Sighted(h, st, o)
    BY <1>1, <1>3, <1>4 DEF Seen
  <2> QED
    BY <1>1, <2>1, ApartSighted
<1>6. \A o \in Uses(g) : ~Dead(h, o)
  <2>1. \A o \in Uses(g) : o \in {f.lazy, f.fun, g.load.src} \/ o \in Range(g.load.got)
    BY <1>1 DEF Uses
  <2>2. ~Dead(h, f.lazy) /\ ~Dead(h, f.fun)
    BY <1>2 DEF Uses
  <2> QED
    BY <1>2, <1>3, <2>1, <2>2 DEF Sighted
<1>7. TopMoves(h, st, hand, f, g, now, tt)
  BY <1>5, <1>6, Zenon DEF TopMoves, CodeMoves
<1>8. ~IsEvaluation(g)
  BY <1>1 DEF IsEvaluation
<1> QED
  BY <1>7, <1>8, TopChanged

-----------------------------------------------------------------------------
(* Steps of code                                                              *)

\* g is f after a step, with own for what it owns.
LEMMA StepFrames ==
    ASSUME NEW n \in Nat, NEW f \in FrameType(n), f.left > 0, NEW own \in Seq(0 .. n),
           NEW load \in LoadType(n), NEW g,
           \/ g = [[f EXCEPT !.own = own] EXCEPT !.left = @ - 1] /\ load = f.load
           \/ g = [f EXCEPT !.left = @ - 1] /\ own = f.own /\ load = f.load
           \/ g = [f EXCEPT !.left = @ - 1, !.load = load] /\ own = f.own
           \/ g = [f EXCEPT !.own = own, !.left = @ - 1, !.load = load]
    PROVE  g \in FrameType(n) /\ IsFrame(g, f, own, f.left - 1, load)
<1> DEFINE N == 0 .. n
           R == Seq(0 .. n)
           L == LoadType(n)
           left == f.left - 1
<1>1. f \in FrameSet(N, R, L) /\ own \in R /\ load \in L /\ FrameType(n) = FrameSet(N, R, L)
  BY FrameTypeIs
<1>2. left \in Nat
  BY <1>1 DEF FrameSet
<1>3. \/ g = [f EXCEPT !.own = own, !.left = left] /\ load = f.load
      \/ g = [f EXCEPT !.left = left] /\ own = f.own /\ load = f.load
      \/ g = [f EXCEPT !.left = left, !.load = load] /\ own = f.own
      \/ g = [f EXCEPT !.own = own, !.left = left, !.load = load]
  <2> HIDE DEF N, R, L
  <2>1. CASE g = [[f EXCEPT !.own = own] EXCEPT !.left = @ - 1] /\ load = f.load
    BY <1>1, <2>1 DEF FrameSet
  <2>2. CASE g = [f EXCEPT !.left = @ - 1] /\ own = f.own /\ load = f.load
    BY <2>2
  <2>3. CASE g = [f EXCEPT !.left = @ - 1, !.load = load] /\ own = f.own
    BY <2>3
  <2>4. CASE g = [f EXCEPT !.own = own, !.left = @ - 1, !.load = load]
    BY <2>4
  <2> QED
    BY <2>1, <2>2, <2>3, <2>4
<1> HIDE DEF N, R, L, left
<1>4. g \in FrameSet(N, R, L) /\ IsFrame(g, f, own, left, load)
  BY <1>1, <1>2, <1>3, FrameEdits
<1> QED
  BY <1>1, <1>4 DEF left

\* Code that is in no load: what it owns changes, and what is in hand.
CodeGoes(h, st, hand, f, g, own, left, now, tt) ==
    /\ Good(h, st, hand) /\ st # <<>> /\ f = Last(st) /\ ~IsEvaluation(f) /\ f.load = Idle
    /\ g \in FrameType(Len(h)) /\ IsFrame(g, f, own, left, Idle)
    /\ now \in Seq(0 .. Len(h)) /\ tt = [st EXCEPT ![Len(st)] = g]
    /\ \A o \in DOMAIN h : Occurs(own, o) + Occurs(now, o) = Occurs(f.own, o) + Occurs(hand, o)
    /\ \A o \in Range(now) \union Range(own) : o \in Range(hand) \/ Sighted(h, st, o)

\* and in particular with other registers.
LEMMA CodeWent ==
    ASSUME NEW h, NEW st, NEW hand, NEW f, NEW g, NEW own, NEW left, NEW now, NEW tt,
           CodeGoes(h, st, hand, f, g, own, left, now, tt)
    PROVE  /\ Good(h, tt, now) /\ Len(tt) = Len(st) /\ tt # <<>> /\ Last(tt) = g /\ Front(tt) = Front(st)
           /\ ~IsEvaluation(g) /\ g.load = Idle /\ g.own = own
<1>1. g.load = Idle /\ g.own = own /\ g.lazy = f.lazy /\ g.fun = f.fun
  BY DEF CodeGoes, IsFrame
<1>2. Idle.at = "idle" /\ Idle.src = Const /\ Range(Idle.got) = {}
  BY DEF Idle, Load, Range
<1>3. LoadOK(h, g)
  BY <1>1, <1>2 DEF LoadOK
<1>4. Sighted(h, st, Const)
  BY SightedFacts DEF CodeGoes
<1>5. /\ Good(h, st, hand) /\ st # <<>> /\ f = Last(st) /\ ~IsEvaluation(f) /\ f.load.at # "lazy"
      /\ g \in FrameType(Len(h)) /\ now \in Seq(0 .. Len(h)) /\ tt = [st EXCEPT ![Len(st)] = g]
      /\ \A o \in DOMAIN h : Occurs(g.own, o) + Occurs(now, o) = Occurs(f.own, o) + Occurs(hand, o)
  BY <1>1, <1>2 DEF CodeGoes
<1>6. \A o \in Range(now) \union Range(g.own) \union {g.load.src} \union Range(g.load.got) :
          o \in Range(hand) \/ Sighted(h, st, o)
  BY <1>1, <1>2, <1>4 DEF CodeGoes
<1>7. CodeMoves(h, st, hand, f, g, now, tt)
  BY <1>1, <1>3, <1>5, <1>6, Zenon DEF CodeMoves
<1>8. /\ Good(h, tt, now) /\ Len(tt) = Len(st) /\ tt # <<>> /\ Last(tt) = g /\ Front(tt) = Front(st)
      /\ ~IsEvaluation(g)
  BY <1>7, CodeMoved
<1> QED
  BY <1>1, <1>8

\* The parts of running code.
LEMMA CodeFacts ==
    ASSUME NEW h, NEW st, Good(h, st, <<>>), st # <<>>, NEW f, f = Last(st), ~IsEvaluation(f)
    PROVE  /\ f \in FrameType(Len(h)) /\ Len(h) \in Nat /\ DOMAIN h = 1 .. Len(h) /\ h \in Seq(ObjectType(Len(h)))
           /\ f.own \in Seq(0 .. Len(h)) /\ DOMAIN f.own = 1 .. Len(f.own) /\ Len(f.own) \in Nat
           /\ f.left \in Nat /\ Idle \in LoadType(Len(h)) /\ <<>> \in Seq(0 .. Len(h))
           /\ \A o \in Range(f.own) \union CapturedIn(h, f) \union {Const} : Sighted(h, st, o)
           /\ \A o \in Range(f.own) \union CapturedIn(h, f) : o = Const \/ o \in DOMAIN h
<1>1. /\ f \in FrameType(Len(h)) /\ Len(h) \in Nat /\ DOMAIN h = 1 .. Len(h) /\ h \in Seq(ObjectType(Len(h)))
      /\ f.own \in Seq(0 .. Len(h)) /\ f.left \in Nat
  BY TopFacts
<1>2. Idle \in LoadType(Len(h)) /\ <<>> \in Seq(0 .. Len(h))
  <2>1. Idle \in LoadType(Len(h))
    BY <1>1 DEF Idle, Load, LoadType, Const, NoField
  <2> QED
    BY <2>1
<1>3. ASSUME NEW o \in Range(f.own) \union CapturedIn(h, f) \union {Const}
      PROVE  Sighted(h, st, o)
  <2>1. CASE o \in CapturedIn(h, f)
    <3>1. f.fun # Const /\ Sighted(h, st, f.fun)
      BY <2>1, SightedFacts DEF CapturedIn, Seen
    <3>2. PICK i \in DOMAIN h[f.fun].refs : o = h[f.fun].refs[i]
      BY <2>1, <3>1 DEF CapturedIn, Range
    <3> QED
      BY <3>1, <3>2, SightedFacts
  <2>2. CASE o \notin CapturedIn(h, f)
    BY <2>2, SightedFacts DEF Seen
  <2> QED
    BY <2>1, <2>2
<1>4. \A o \in Range(f.own) \union CapturedIn(h, f) : o = Const \/ o \in DOMAIN h
  BY <1>3, SightedFacts
<1> QED
  BY <1>1, <1>2, <1>3, <1>4, SeqDomains

\* A new object is the code's.
Gets(h, st, o, f, g, tt) ==
    /\ Good(h, st, <<o>>) /\ st # <<>> /\ f = Last(st) /\ ~IsEvaluation(f) /\ f.load = Idle /\ f.left > 0
    /\ g = [[f EXCEPT !.own = Append(f.own, o)] EXCEPT !.left = @ - 1]
    /\ tt = [st EXCEPT ![Len(st)] = g]

\* Code keeps the one object in hand.
LEMMA Got ==
    ASSUME NEW h, NEW st, NEW o, NEW f, NEW g, NEW tt, Gets(h, st, o, f, g, tt)
    PROVE  Good(h, tt, <<>>) /\ tt # <<>> /\ Last(tt).load = Idle
<1> DEFINE own == Append(f.own, o)
           left == f.left - 1
<1>1. /\ Good(h, st, <<o>>) /\ st # <<>> /\ f = Last(st) /\ ~IsEvaluation(f) /\ f.load = Idle /\ f.left > 0
      /\ g = [[f EXCEPT !.own = own] EXCEPT !.left = @ - 1]
      /\ tt = [st EXCEPT ![Len(st)] = g]
  BY DEF Gets
<1>2. /\ f \in FrameType(Len(h)) /\ Len(h) \in Nat /\ f.own \in Seq(0 .. Len(h)) /\ f.load \in LoadType(Len(h))
      /\ <<o>> \in Seq(0 .. Len(h))
  BY <1>1, TopFacts
<1>3. own \in Seq(0 .. Len(h)) /\ o \in 0 .. Len(h) /\ <<>> \in Seq(0 .. Len(h)) /\ Range(<<>>) = {}
      /\ Range(own) = Range(f.own) \union {o} /\ Range(<<o>>) = {o}
  <2>1. o \in 0 .. Len(h)
    BY <1>2
  <2>2. own = f.own \o <<o>> /\ own \in Seq(0 .. Len(h))
    <3>1. \A S : \A s \in Seq(S) : \A x \in S : Append(s, x) = s \o <<x>> /\ Append(s, x) \in Seq(S)
      OBVIOUS
    <3> QED
      BY <1>2, <2>1, <3>1
  <2>3. Range(own) = Range(f.own) \union Range(<<o>>)
    BY <1>2, <2>2, RangeConcatenation
  <2>4. Range(<<o>>) = {o} /\ Range(<<>>) = {} /\ <<>> \in Seq(0 .. Len(h))
    BY DEF Range
  <2> HIDE DEF own
  <2> QED
    BY <2>1, <2>2, <2>3, <2>4
<1>4. g \in FrameType(Len(h)) /\ IsFrame(g, f, own, left, Idle)
  <2> HIDE DEF own
  <2>1. g \in FrameType(Len(h)) /\ IsFrame(g, f, own, f.left - 1, f.load)
    BY <1>1, <1>2, <1>3, StepFrames
  <2> QED
    BY <1>1, <2>1
<1>5. ASSUME NEW x \in DOMAIN h
      PROVE  Occurs(own, x) + Occurs(<<>>, x) = Occurs(f.own, x) + Occurs(<<o>>, x)
  <2>1. Occurs(own, x) = Occurs(f.own, x) + (IF o = x THEN 1 ELSE 0)
    BY <1>2, <1>3, OccursAppend
  <2>2. Occurs(<<>>, x) = 0 /\ Occurs(<<o>>, x) = IF o = x THEN 1 ELSE 0
    BY OccursEmpty, OccursSingle
  <2>3. Occurs(f.own, x) \in Nat
    BY <1>2, SeqDomains, OccursNat
  <2> QED
    BY <2>1, <2>2, <2>3
<1>6. \A x \in Range(<<>>) \union Range(own) : x \in Range(<<o>>) \/ Sighted(h, st, x)
  BY <1>1, <1>3, SightedFacts DEF Seen
<1> HIDE DEF own, left
<1>7. CodeGoes(h, st, <<o>>, f, g, own, left, <<>>, tt)
  BY <1>1, <1>3, <1>4, <1>5, <1>6, Zenon DEF CodeGoes
<1> QED
  BY <1>7, CodeWent

\* An object that is made with one reference to it
Fresh(kind, refs, shape) == [Object(kind, refs, shape) EXCEPT !.rc = 1]

IsFresh(x, n, kind, refs, shape) ==
    x \in ObjectType(n) /\ x.rc = 1 /\ x.kind = kind /\ x.refs = refs /\ x.ready = FALSE /\ x.shape = shape

\* A new object has the parts it is given.
LEMMA FreshFacts ==
    ASSUME NEW n \in Nat, NEW refs \in Seq(0 .. n), NEW shape \in SUBSET Int
    PROVE  /\ IsFresh(Fresh("fun", refs, shape), n, "fun", refs, shape)
           /\ IsFresh(Fresh("lazy", refs, shape), n, "lazy", refs, shape)
           /\ IsFresh(Fresh("rec", refs, shape), n, "rec", refs, shape)
<1> DEFINE R == Seq(0 .. n)
<1>1. refs \in R /\ ObjectType(n) = RecordType(R)
  BY ObjectTypeIs
<1> HIDE DEF R
<1>2. IsFresh(Fresh("fun", refs, shape), n, "fun", refs, shape)
  BY <1>1 DEF Object, RecordType, Fresh, IsFresh
<1>3. IsFresh(Fresh("lazy", refs, shape), n, "lazy", refs, shape)
  BY <1>1 DEF Object, RecordType, Fresh, IsFresh
<1>4. IsFresh(Fresh("rec", refs, shape), n, "rec", refs, shape)
  BY <1>1 DEF Object, RecordType, Fresh, IsFresh
<1> QED
  BY <1>2, <1>3, <1>4, Zenon

\* It takes what is in hand.
Makes(h, st, x, kind, refs, shape) ==
    /\ Good(h, st, refs) /\ IsFresh(x, Len(h), kind, refs, shape)
    /\ \/ kind = "fun"
       \/ kind = "lazy" /\ Len(refs) = 1 /\ KindIn(h, refs[1]) = "fun"
       \/ kind = "rec" /\ shape \in Shapes /\ Len(refs) = Cardinality(shape)

\* A new object is in hand.
LEMMA MadeFresh ==
    ASSUME NEW h, NEW st, NEW x, NEW kind, NEW refs, NEW shape, Makes(h, st, x, kind, refs, shape)
    PROVE  Good(Append(h, x), st, <<Len(h) + 1>>)
<1>1. Good(h, st, refs) /\ x \in ObjectType(Len(h)) /\ x.rc = 1 /\ x.refs = refs /\ x.kind # "freed"
  BY DEF Makes, IsFresh
<1>2. x.kind = "rec" => x.shape \in Shapes /\ Len(refs) = Cardinality(x.shape)
  BY DEF Makes, IsFresh
<1>3. x.kind = "lazy" => ~x.ready /\ Len(refs) = 1 /\ KindIn(h, refs[1]) = "fun"
  BY DEF Makes, IsFresh
<1> QED
  BY <1>1, <1>2, <1>3, Made

\* The code on top is in no load, and may do a step.
Runs(h, st, f) ==
    Good(h, st, <<>>) /\ st # <<>> /\ f = Last(st) /\ ~IsEvaluation(f) /\ f.load = Idle /\ f.left > 0
After(st, f, g, own) ==
    g = [st EXCEPT ![Len(st)] = [[f EXCEPT !.own = own] EXCEPT !.left = @ - 1]]

\* Code keeps a new object, as a step of its own.
LEMMA GotAfter ==
    ASSUME NEW h, NEW st, NEW o, NEW k, NEW f, Runs(k, st, f), Good(h, st, <<o>>),
           NEW tt, After(st, f, tt, Append(f.own, o))
    PROVE  Good(h, tt, <<>>) /\ tt # <<>> /\ Last(tt).load = Idle
<1> DEFINE c == [[f EXCEPT !.own = Append(f.own, o)] EXCEPT !.left = @ - 1]
<1>1. tt = [st EXCEPT ![Len(st)] = c]
  BY Zenon DEF After
<1>2. Gets(h, st, o, f, c, tt)
  BY <1>1, Zenon DEF Runs, Gets
<1> QED
  BY <1>2, Got, Zenon

\* lazy e
MakesLazy(h, st, f, os, g, tt) ==
    /\ Runs(h, st, f) /\ os \in Seq(0 .. Len(h)) /\ \A i \in DOMAIN os : Sighted(h, st, os[i])
    /\ g = IncAll(h, os) \o <<Fresh("fun", os, {}), Fresh("lazy", <<Len(h) + 1>>, {})>>
    /\ After(st, f, tt, Append(f.own, Len(h) + 2))

\* MakeLazy keeps the invariant of the heap and the stack.
LEMMA MadeLazy ==
    ASSUME NEW h, NEW st, NEW f, NEW os, NEW g, NEW tt, MakesLazy(h, st, f, os, g, tt)
    PROVE  Good(g, tt, <<>>) /\ tt # <<>> /\ Last(tt).load = Idle
<1> DEFINE k == IncAll(h, os)
           n == Len(h) + 1
           fun == Fresh("fun", os, {})
           lazy == Fresh("lazy", <<n>>, {})
           k1 == Append(k, fun)
           k2 == Append(k1, lazy)
<1>1. Len(h) \in Nat /\ h \in Seq(ObjectType(Len(h))) /\ Good(h, st, <<>>) /\ st # <<>>
      /\ os \in Seq(0 .. Len(h)) /\ \A i \in DOMAIN os : Sighted(h, st, os[i])
  BY TypedFacts DEF MakesLazy, Runs, Good
<1> HIDE DEF k, k1, k2, fun, lazy, n
<1>2. Good(k, st, os) /\ Len(k) = Len(h) /\ k \in Seq(ObjectType(Len(k)))
  <2>1. Takes(h, st, <<>>, os, k)
    BY <1>1 DEF Takes, k
  <2>2. Good(k, st, <<>> \o os) /\ Len(k) = Len(h) /\ k \in Seq(ObjectType(Len(k)))
    BY <2>1, TakenSighted
  <2> QED
    BY <1>1, <2>2, ConcatEmptySeq
<1>3. IsFresh(fun, Len(k), "fun", os, {})
  <2>1. os \in Seq(0 .. Len(k)) /\ Len(k) \in Nat /\ {} \in SUBSET Int
    BY <1>1, <1>2
  <2> QED
    BY <2>1, FreshFacts DEF fun
<1>4. Good(k1, st, <<n>>)
  <2>1. Makes(k, st, fun, "fun", os, {})
    BY <1>2, <1>3, Zenon DEF Makes
  <2>2. Good(Append(k, fun), st, <<Len(k) + 1>>)
    BY <2>1, MadeFresh, Zenon
  <2> QED
    BY <1>2, <2>2 DEF k1, n
<1>5. Len(k1) = n /\ k1[n] = fun /\ n \in Nat /\ n # Const /\ n \in 0 .. n
  BY <1>1, <1>2 DEF k1, Const, n
<1>6. IsFresh(lazy, Len(k1), "lazy", <<n>>, {})
  <2>1. <<n>> \in Seq(0 .. n) /\ {} \in SUBSET Int
    BY <1>5
  <2> QED
    BY <1>5, <2>1, FreshFacts DEF lazy
<1>7. Good(k2, st, <<n + 1>>)
  <2>1. <<n>>[1] = n /\ Len(<<n>>) = 1 /\ KindIn(k1, n) = "fun"
    BY <1>3, <1>5 DEF KindIn, IsFresh
  <2>2. Makes(k1, st, lazy, "lazy", <<n>>, {})
    BY <1>4, <1>6, <2>1, Zenon DEF Makes
  <2>3. Good(Append(k1, lazy), st, <<Len(k1) + 1>>)
    BY <2>2, MadeFresh, Zenon
  <2> QED
    BY <1>5, <2>3 DEF k2
<1>8. g = k2
  <2>1. \A S : \A s \in Seq(S) : \A x \in S, y \in S : s \o <<x, y>> = Append(Append(s, x), y)
    OBVIOUS
  <2> DEFINE S == ObjectType(Len(k)) \union ObjectType(Len(k1))
  <2>2. k \in Seq(S) /\ fun \in S /\ lazy \in S
    <3>1. k \in Seq(ObjectType(Len(k))) /\ ObjectType(Len(k)) \subseteq S
      BY <1>2
    <3>2. k \in Seq(S)
      BY <3>1, SeqMonotonic
    <3> QED
      BY <1>3, <1>6, <3>2 DEF IsFresh
  <2> HIDE DEF S
  <2>3. g = k \o <<fun, lazy>>
    BY DEF k, fun, lazy, n, MakesLazy
  <2>4. k \o <<fun, lazy>> = Append(Append(k, fun), lazy)
    BY <2>1, <2>2
  <2> QED
    BY <2>3, <2>4 DEF k1, k2
<1>9. n + 1 = Len(h) + 2
  BY <1>1 DEF n
<1>10. Runs(h, st, f) /\ Good(g, st, <<Len(h) + 2>>) /\ After(st, f, tt, Append(f.own, Len(h) + 2))
  BY <1>7, <1>8, <1>9, Zenon DEF MakesLazy
<1> QED
  BY <1>10, GotAfter, Zenon

\* A record is made.
MakesRecord(h, st, f, shape, data, g, tt) ==
    /\ Runs(h, st, f) /\ shape \in Shapes
    /\ data \in Seq(0 .. Len(h)) /\ Len(data) = Cardinality(shape)
    /\ \A i \in DOMAIN data : Sighted(h, st, data[i])
    /\ g = NewRecord(h, shape, data)
    /\ After(st, f, tt, Append(f.own, Len(h) + 1))

\* NewRecord does.
LEMMA MadeRecord ==
    ASSUME NEW h, NEW st, NEW f, NEW shape, NEW data, NEW g, NEW tt,
           MakesRecord(h, st, f, shape, data, g, tt)
    PROVE  Good(g, tt, <<>>) /\ tt # <<>> /\ Last(tt).load = Idle
<1> DEFINE k == IncAll(h, data)
           x == Fresh("rec", data, shape)
<1>1. Len(h) \in Nat /\ h \in Seq(ObjectType(Len(h))) /\ Good(h, st, <<>>) /\ st # <<>>
      /\ data \in Seq(0 .. Len(h)) /\ shape \in Shapes /\ Len(data) = Cardinality(shape)
      /\ \A i \in DOMAIN data : Sighted(h, st, data[i])
  BY TypedFacts DEF MakesRecord, Runs, Good
<1> HIDE DEF k, x
<1>2. Good(k, st, data) /\ Len(k) = Len(h)
  <2>1. Takes(h, st, <<>>, data, k)
    BY <1>1 DEF Takes, k
  <2>2. Good(k, st, <<>> \o data) /\ Len(k) = Len(h)
    BY <2>1, TakenSighted
  <2> QED
    BY <1>1, <2>2, ConcatEmptySeq
<1>3. IsFresh(x, Len(k), "rec", data, shape)
  <2>1. shape \in SUBSET Int
    <3>1. \A s \in Shapes : s \in SUBSET Int
      BY LazyRecordsAssumption
    <3> QED
      BY <1>1, <3>1
  <2>2. data \in Seq(0 .. Len(k)) /\ Len(k) \in Nat
    BY <1>1, <1>2
  <2> QED
    BY <2>1, <2>2, FreshFacts DEF x
<1>4. Good(Append(k, x), st, <<Len(h) + 1>>)
  <2>1. Makes(k, st, x, "rec", data, shape)
    <3>1. shape \in Shapes /\ Len(data) = Cardinality(shape)
      BY <1>1
    <3>2. Good(k, st, data)
      BY <1>2
    <3>3. IsFresh(x, Len(k), "rec", data, shape)
      BY <1>3
    <3> QED
      BY <3>1, <3>2, <3>3, Zenon DEF Makes
  <2>2. Good(Append(k, x), st, <<Len(k) + 1>>)
    BY <2>1, MadeFresh, Zenon
  <2> QED
    BY <1>2, <2>2
<1>5. g = Append(k, x)
  BY Zenon DEF MakesRecord, NewRecord, k, x, Fresh
<1>6. Runs(h, st, f) /\ Good(g, st, <<Len(h) + 1>>) /\ After(st, f, tt, Append(f.own, Len(h) + 1))
  BY <1>4, <1>5, Zenon DEF MakesRecord
<1> QED
  BY <1>6, GotAfter, Zenon

\* A step that changes nothing else
Stays(h, st, f, tt) ==
    Runs(h, st, f) /\ tt = [st EXCEPT ![Len(st)] = [f EXCEPT !.left = @ - 1]]

\* A step that does nothing does.
LEMMA Stayed ==
    ASSUME NEW h, NEW st, NEW f, NEW tt, Stays(h, st, f, tt)
    PROVE  Good(h, tt, <<>>) /\ tt # <<>> /\ Last(tt).load = Idle
<1> DEFINE g == [f EXCEPT !.left = @ - 1]
           own == f.own
           left == f.left - 1
<1>1. Good(h, st, <<>>) /\ st # <<>> /\ f = Last(st) /\ ~IsEvaluation(f) /\ f.load = Idle /\ f.left > 0
      /\ tt = [st EXCEPT ![Len(st)] = g]
  BY Zenon DEF Stays, Runs
<1>2. /\ f \in FrameType(Len(h)) /\ Len(h) \in Nat /\ own \in Seq(0 .. Len(h)) /\ <<>> \in Seq(0 .. Len(h))
      /\ Idle \in LoadType(Len(h))
  BY <1>1, CodeFacts
<1>3. \A o \in Range(own) : Sighted(h, st, o)
  BY <1>1, CodeFacts
<1>4. g \in FrameType(Len(h)) /\ IsFrame(g, f, own, left, Idle)
  BY <1>1, <1>2, StepFrames
<1>5. Range(<<>>) = {}
  BY DEF Range
<1>6. \A o \in DOMAIN h : Occurs(own, o) + Occurs(<<>>, o) = Occurs(f.own, o) + Occurs(<<>>, o)
  OBVIOUS
<1>7. \A o \in Range(<<>>) \union Range(own) : o \in Range(<<>>) \/ Sighted(h, st, o)
  BY <1>3, <1>5
<1> HIDE DEF g, own, left
<1>8. CodeGoes(h, st, <<>>, f, g, own, left, <<>>, tt)
  BY <1>1, <1>2, <1>4, <1>6, <1>7, Zenon DEF CodeGoes
<1> QED
  BY <1>8, CodeWent

\* All that is in hand is released.
LEMMA HandReleased ==
    ASSUME NEW h, NEW st, NEW hand, Good(h, st, hand), st # <<>> => Last(st).load.at # "lazy"
    PROVE  Good(Release(h, hand), st, <<>>) /\ Len(Release(h, hand)) = Len(h)
<1>1. hand \in Seq(0 .. Len(h)) /\ <<>> \in Seq(0 .. Len(h)) /\ Len(h) \in Nat
  BY TypedFacts DEF Good
<1>2. <<>> \o hand = hand
  BY <1>1, ConcatEmptySeq
<1>3. Good(h, st, <<>> \o hand)
  BY <1>2
<1> QED
  BY <1>1, <1>3, Released

\* A sequence without its k-th element
LEMMA LeftOut ==
    ASSUME NEW S, NEW s \in Seq(S), NEW k \in DOMAIN s, NEW t, t = RemoveAt(s, k)
    PROVE  /\ t \in Seq(S) /\ s[k] \in S /\ s[k] \in Range(s) /\ Range(t) \subseteq Range(s)
           /\ \A o : Occurs(t, o) + Occurs(<<s[k]>>, o) = Occurs(s, o)
<1>1. k \in 1 .. Len(s) /\ DOMAIN s = 1 .. Len(s) /\ Len(s) \in Nat /\ s[k] \in S /\ s[k] \in Range(s)
  BY DEF Range
<1>2. t \in Seq(S) /\ Len(t) = Len(s) - 1 /\ \A i \in 1 .. Len(s) - 1 : t[i] = IF i < k THEN s[i] ELSE s[i + 1]
  BY <1>1, Removed DEF RemoveAt
<1>3. Range(t) \subseteq Range(s)
  <2>1. \A i \in DOMAIN t : t[i] = s[i] \/ t[i] = s[i + 1]
    BY <1>1, <1>2
  <2>2. \A i \in DOMAIN t : i \in DOMAIN s /\ i + 1 \in DOMAIN s
    BY <1>1, <1>2
  <2> QED
    BY <2>1, <2>2 DEF Range
<1>4. ASSUME NEW o
      PROVE  Occurs(t, o) + Occurs(<<s[k]>>, o) = Occurs(s, o)
  <2>1. Occurs(t, o) = Occurs(s, o) - (IF s[k] = o THEN 1 ELSE 0)
    BY <1>1, <1>2, OccursRemoved DEF Lacks
  <2>2. Occurs(<<s[k]>>, o) = IF s[k] = o THEN 1 ELSE 0
    BY OccursSingle
  <2>3. Occurs(s, o) \in Nat
    BY OccursNat, SeqDomains
  <2> QED
    BY <2>1, <2>2, <2>3
<1> QED
  BY <1>1, <1>2, <1>3, <1>4

LetsGo(h, st, f, k, g, tt) ==
    /\ Runs(h, st, f) /\ k \in DOMAIN f.own /\ g = Release(h, <<f.own[k]>>)
    /\ After(st, f, tt, RemoveAt(f.own, k))

\* LetGo does.
LEMMA LeftToGo ==
    ASSUME NEW h, NEW st, NEW f, NEW k, NEW g, NEW tt, LetsGo(h, st, f, k, g, tt)
    PROVE  Good(g, tt, <<>>) /\ tt # <<>> /\ Last(tt).load = Idle
<1> DEFINE own == RemoveAt(f.own, k)
           left == f.left - 1
           c == [[f EXCEPT !.own = own] EXCEPT !.left = @ - 1]
           o == f.own[k]
           R == Seq(0 .. Len(h))
<1>1. Good(h, st, <<>>) /\ st # <<>> /\ f = Last(st) /\ ~IsEvaluation(f) /\ f.load = Idle /\ f.left > 0
      /\ tt = [st EXCEPT ![Len(st)] = c] /\ k \in DOMAIN f.own /\ g = Release(h, <<o>>)
  BY Zenon DEF LetsGo, Runs, After
<1>2. f \in FrameType(Len(h)) /\ Len(h) \in Nat /\ f.own \in R /\ <<>> \in R /\ Idle \in LoadType(Len(h))
  BY <1>1, CodeFacts
<1>3. \A p \in Range(f.own) : Sighted(h, st, p)
  BY <1>1, CodeFacts
<1>4. own \in R /\ o \in 0 .. Len(h) /\ o \in Range(f.own) /\ Range(own) \subseteq Range(f.own)
      /\ \A p : Occurs(own, p) + Occurs(<<o>>, p) = Occurs(f.own, p)
  BY <1>1, <1>2, LeftOut
<1>5. <<o>> \in R /\ Range(<<o>>) = {o} /\ Range(<<>>) = {}
  BY <1>4 DEF Range
<1>6. c \in FrameType(Len(h)) /\ IsFrame(c, f, own, left, Idle)
  BY <1>1, <1>2, <1>4, StepFrames
<1>7. \A p \in DOMAIN h : Occurs(own, p) + Occurs(<<o>>, p) = Occurs(f.own, p) + Occurs(<<>>, p)
  <2>1. \A p : Occurs(<<>>, p) = 0 /\ Occurs(f.own, p) \in Nat
    BY <1>2, OccursEmpty, OccursNat, SeqDomains
  <2> QED
    BY <1>4, <2>1
<1>8. \A p \in Range(<<o>>) \union Range(own) : p \in Range(<<>>) \/ Sighted(h, st, p)
  BY <1>3, <1>4, <1>5
<1> HIDE DEF own, left, c, o, R
<1>9. CodeGoes(h, st, <<>>, f, c, own, left, <<o>>, tt)
  BY <1>1, <1>5, <1>6, <1>7, <1>8, Zenon DEF CodeGoes, R
<1>10. Good(h, tt, <<o>>) /\ tt # <<>> /\ Last(tt) = c /\ c.load = Idle
  BY <1>9, CodeWent
<1>11. Good(g, tt, <<>>)
  <2>1. <<>> \o <<o>> = <<o>>
    BY <1>5 DEF R
  <2>2. Last(tt).load.at # "lazy"
    BY <1>10 DEF Idle, Load
  <2>3. Good(Release(h, <<o>>), tt, <<>>)
    BY <1>2, <1>5, <1>10, <2>1, <2>2, Released DEF R
  <2> QED
    BY <1>1, <2>3
<1> QED
  BY <1>10, <1>11

-----------------------------------------------------------------------------
(* Loads begin *)

\* The code on top enters a load of what it can get at.
EntersLoad(h, st, f, g, own, load, now, tt) ==
    /\ Runs(h, st, f) /\ load \in LoadType(Len(h)) /\ load.at # "idle" /\ load.got = <<>>
    /\ load.src # Const /\ load.src \in Range(f.own) \union CapturedIn(h, f)
    /\ IF load.at = "lazy" THEN h[load.src].kind = "lazy"
       ELSE /\ own = f.own
            /\ IF h[load.src].kind = "rec" THEN SearchOK(h, load) ELSE load.at = "failed"
    /\ own \in Seq(0 .. Len(h)) /\ now \in Seq(0 .. Len(h)) /\ Range(own) \union Range(now) \subseteq Range(f.own)
    /\ \A o \in DOMAIN h : Occurs(own, o) + Occurs(now, o) = Occurs(f.own, o)
    /\ \/ g = [f EXCEPT !.left = @ - 1, !.load = load] /\ own = f.own
       \/ g = [f EXCEPT !.own = own, !.left = @ - 1, !.load = load]
    /\ tt = [st EXCEPT ![Len(st)] = g]

\* Code comes into a load.
LEMMA Entered ==
    ASSUME NEW h, NEW st, NEW f, NEW g, NEW own, NEW load, NEW now, NEW tt,
           EntersLoad(h, st, f, g, own, load, now, tt)
    PROVE  Good(h, tt, now) /\ tt # <<>> /\ Len(tt) = Len(st) /\ Last(tt).load = load /\ ~IsEvaluation(Last(tt))
<1>1. Good(h, st, <<>>) /\ st # <<>> /\ f = Last(st) /\ ~IsEvaluation(f) /\ f.load = Idle /\ f.left > 0
  BY Zenon DEF EntersLoad, Runs
<1>2. f \in FrameType(Len(h)) /\ Len(h) \in Nat /\ f.own \in Seq(0 .. Len(h))
  BY <1>1, CodeFacts
<1>3. \A o \in Range(f.own) \union CapturedIn(h, f) : Sighted(h, st, o)
  BY <1>1, CodeFacts
<1>4. g \in FrameType(Len(h)) /\ IsFrame(g, f, own, f.left - 1, load)
  <2>1. /\ own \in Seq(0 .. Len(h)) /\ load \in LoadType(Len(h))
        /\ \/ g = [f EXCEPT !.left = @ - 1, !.load = load] /\ own = f.own
           \/ g = [f EXCEPT !.own = own, !.left = @ - 1, !.load = load]
    BY Zenon DEF EntersLoad
  <2> QED
    BY <1>1, <1>2, <2>1, StepFrames
<1>5. g.lazy = f.lazy /\ g.fun = f.fun /\ g.own = own /\ g.load = load
  BY <1>4 DEF IsFrame
<1>6. LoadOK(h, g)
  <2>1. load.at # "idle" /\ load.got = <<>> /\ load.src # Const
    BY DEF EntersLoad
  <2>2. CASE load.at = "lazy"
    <3>1. h[load.src].kind = "lazy"
      BY <2>2 DEF EntersLoad
    <3> QED
      BY <1>5, <2>1, <2>2, <3>1 DEF LoadOK
  <2>3. CASE load.at # "lazy"
    <3>1. own = f.own /\ IF h[load.src].kind = "rec" THEN SearchOK(h, load) ELSE load.at = "failed"
      BY <2>3 DEF EntersLoad
    <3>2. load.src \in Range(f.own) \union CapturedIn(h, f)
      BY DEF EntersLoad
    <3>3. CapturedIn(h, g) = CapturedIn(h, f)
      BY <1>5 DEF CapturedIn
    <3> QED
      BY <1>5, <2>1, <2>3, <3>1, <3>2, <3>3 DEF LoadOK
  <2> QED
    BY <2>2, <2>3
<1>7. \A o \in DOMAIN h : Occurs(g.own, o) + Occurs(now, o) = Occurs(f.own, o) + Occurs(<<>>, o)
  <2>1. \A o : Occurs(<<>>, o) = 0 /\ Occurs(f.own, o) \in Nat
    BY <1>2, OccursEmpty, OccursNat, SeqDomains
  <2>2. \A o \in DOMAIN h : Occurs(own, o) + Occurs(now, o) = Occurs(f.own, o)
    BY Zenon DEF EntersLoad
  <2> QED
    BY <1>5, <2>1, <2>2
<1>8. \A o \in Range(now) \union Range(g.own) \union {g.load.src} \union Range(g.load.got) :
          o \in Range(<<>>) \/ Sighted(h, st, o)
  <2>1. Range(own) \union Range(now) \subseteq Range(f.own) /\ load.src \in Range(f.own) \union CapturedIn(h, f)
        /\ load.got = <<>>
    BY DEF EntersLoad
  <2>2. Range(<<>>) = {}
    BY DEF Range
  <2> QED
    BY <1>3, <1>5, <2>1, <2>2
<1>9. now \in Seq(0 .. Len(h)) /\ tt = [st EXCEPT ![Len(st)] = g]
  BY Zenon DEF EntersLoad
<1>10. f.load.at # "lazy"
  BY <1>1 DEF Idle, Load
<1>11. CodeMoves(h, st, <<>>, f, g, now, tt)
  BY <1>1, <1>4, <1>5, <1>6, <1>7, <1>8, <1>9, <1>10, Zenon DEF CodeMoves
<1> QED
  BY <1>5, <1>11, CodeMoved

\* A record that is there
LEMMA RecordFacts ==
    ASSUME NEW h, NEW st, NEW hand, Good(h, st, hand), NEW p \in DOMAIN h, h[p].kind = "rec",
           NEW ids, ids = FieldIds[h[p].shape]
    PROVE  /\ h[p].shape \in Shapes /\ Len(h[p].refs) = Cardinality(h[p].shape) /\ p # Const
           /\ h[p].refs \in Seq(0 .. Len(h)) /\ DOMAIN h[p].refs = DOMAIN ids
           /\ ids \in Seq(Int) /\ DOMAIN ids = 1 .. Len(ids) /\ Len(ids) \in Nat /\ Increasing(ids)
           /\ Len(ids) = Cardinality(h[p].shape)
           /\ \A i \in DOMAIN ids : ids[i] \in h[p].shape /\ PlaceOf(ids, ids[i]) = i
           /\ \A x \in h[p].shape : PlaceOf(ids, x) \in DOMAIN ids /\ ids[PlaceOf(ids, x)] = x
<1>1. h \in Seq(ObjectType(Len(h))) /\ ObjectOK(h, st, p)
  BY TypedFacts DEF Good
<1>2. h[p].shape \in Shapes /\ Len(h[p].refs) = Cardinality(h[p].shape)
  BY <1>1 DEF ObjectOK
<1>3. h[p].refs \in Seq(0 .. Len(h)) /\ DOMAIN h[p].refs = 1 .. Len(h[p].refs) /\ p # Const
  BY <1>1, HeapFacts
<1> QED
  BY <1>2, <1>3, FieldIdsFacts

StartsLoad(h, st, f, src, want, load, tt) ==
    /\ Runs(h, st, f) /\ src \in Range(f.own) \union CapturedIn(h, f) /\ src # Const /\ want \in Wanted
    /\ \/ h[src].kind = "rec" /\ load = Load("search", src, want, 1)
       \/ h[src].kind # "rec" /\ load = Load("failed", src, want, 0)
    /\ tt = [st EXCEPT ![Len(st)] = [f EXCEPT !.left = @ - 1, !.load = load]]

\* StartLoad keeps the invariant of the heap and the stack.
LEMMA LoadStarted ==
    ASSUME NEW h, NEW st, NEW f, NEW src, NEW want, NEW load, NEW tt,
           StartsLoad(h, st, f, src, want, load, tt)
    PROVE  Good(h, tt, <<>>) /\ tt # <<>> /\ Last(tt).load = load /\ ~IsEvaluation(Last(tt))
<1> DEFINE g == [f EXCEPT !.left = @ - 1, !.load = load]
<1>1. Good(h, st, <<>>) /\ st # <<>> /\ f = Last(st) /\ ~IsEvaluation(f) /\ Runs(h, st, f)
  BY Zenon DEF StartsLoad, Runs
<1>2. /\ f.own \in Seq(0 .. Len(h)) /\ Len(h) \in Nat /\ <<>> \in Seq(0 .. Len(h))
      /\ DOMAIN h = 1 .. Len(h)
  BY <1>1, CodeFacts
<1>3. src \in DOMAIN h /\ src # Const
  BY <1>1, CodeFacts DEF StartsLoad
<1>4. want \in Seq(Int) /\ want # <<>> /\ want \in Wanted /\ Len(want) \in Nat /\ 1 <= Len(want)
  <2>1. want \in Wanted
    BY DEF StartsLoad
  <2>2. want \in Seq(Int) /\ want # <<>>
    BY <2>1, LazyRecordsAssumption
  <2> QED
    BY <2>1, <2>2
<1>5. load \in LoadType(Len(h)) /\ load.at # "idle" /\ load.at # "lazy" /\ load.got = <<>> /\ load.src = src
  <2>1. src \in 0 .. Len(h) /\ 0 \in Nat /\ 1 \in Nat \ {0}
    BY <1>2, <1>3
  <2>2. load = Load("search", src, want, 1) \/ load = Load("failed", src, want, 0)
    BY DEF StartsLoad
  <2> DEFINE N == 0 .. Len(h)
             R == Seq(N)
             W == Seq(Int)
  <2>3. src \in N /\ <<>> \in R /\ want \in W
    BY <1>2, <1>4, <2>1
  <2>4. LoadType(Len(h)) = LoadSet({"idle", "search", "place", "lazy", "loaded", "failed"}, N, W, R)
    BY FrameTypeIs
  <2> HIDE DEF N, R, W
  <2> QED
    BY <2>1, <2>2, <2>3, <2>4 DEF Load, LoadSet
<1>6. IF h[load.src].kind = "rec" THEN SearchOK(h, load) ELSE load.at = "failed"
  <2>1. CASE h[src].kind = "rec"
    <3>1. load = Load("search", src, want, 1)
      BY <2>1 DEF StartsLoad
    <3>2. DOMAIN FieldIds[h[src].shape] = 1 .. Len(FieldIds[h[src].shape]) /\ Len(FieldIds[h[src].shape]) \in Nat
      BY <1>1, <1>3, <2>1, RecordFacts
    <3>3. load.at = "search" /\ load.got = <<>> /\ load.k = 1 /\ load.i = 1 /\ load.want = want /\ load.src = src
      BY <3>1 DEF Load
    <3> QED
      BY <1>4, <2>1, <3>2, <3>3 DEF SearchOK
  <2>2. CASE h[src].kind # "rec"
    BY <1>5, <2>2 DEF StartsLoad, Load
  <2> QED
    BY <1>5, <2>1, <2>2
<1>7. Range(<<>>) = {}
  BY DEF Range
<1>8. \A o \in DOMAIN h : Occurs(f.own, o) + Occurs(<<>>, o) = Occurs(f.own, o)
  BY <1>2, OccursEmpty, OccursNat, SeqDomains
<1>9. EntersLoad(h, st, f, g, f.own, load, <<>>, tt)
  <2>1. g = [f EXCEPT !.left = @ - 1, !.load = load] /\ tt = [st EXCEPT ![Len(st)] = g]
        /\ load.src # Const /\ load.src \in Range(f.own) \union CapturedIn(h, f)
    BY <1>5, Zenon DEF StartsLoad
  <2>2. Range(f.own) \union Range(<<>>) \subseteq Range(f.own)
    BY <1>7
  <2> HIDE DEF g
  <2> QED
    BY <1>1, <1>2, <1>5, <1>6, <1>8, <2>1, <2>2, Zenon DEF EntersLoad
<1> QED
  BY <1>9, Entered

StartsLoadAt(h, st, f, src, i, load, tt) ==
    /\ Runs(h, st, f) /\ src \in Range(f.own) \union CapturedIn(h, f) /\ src # Const
    /\ h[src].kind = "rec" /\ i \in DOMAIN h[src].refs
    /\ load = Load("place", src, <<FieldIds[h[src].shape][i]>>, i)
    /\ tt = [st EXCEPT ![Len(st)] = [f EXCEPT !.left = @ - 1, !.load = load]]

\* StartLoadAt does.
LEMMA LoadAtStarted ==
    ASSUME NEW h, NEW st, NEW f, NEW src, NEW i, NEW load, NEW tt,
           StartsLoadAt(h, st, f, src, i, load, tt)
    PROVE  Good(h, tt, <<>>) /\ tt # <<>> /\ Last(tt).load = load /\ ~IsEvaluation(Last(tt))
<1> DEFINE g == [f EXCEPT !.left = @ - 1, !.load = load]
           ids == FieldIds[h[src].shape]
<1>1. Good(h, st, <<>>) /\ st # <<>> /\ f = Last(st) /\ ~IsEvaluation(f) /\ Runs(h, st, f)
  BY Zenon DEF StartsLoadAt, Runs
<1>2. /\ f.own \in Seq(0 .. Len(h)) /\ Len(h) \in Nat /\ <<>> \in Seq(0 .. Len(h))
      /\ DOMAIN h = 1 .. Len(h)
  BY <1>1, CodeFacts
<1>3. src \in DOMAIN h /\ src # Const
  BY <1>1, CodeFacts DEF StartsLoadAt
<1>4. i \in DOMAIN ids /\ ids[i] \in Int /\ i \in Nat /\ h[src].kind = "rec"
  <2>1. h[src].kind = "rec" /\ i \in DOMAIN h[src].refs
    BY DEF StartsLoadAt
  <2>2. DOMAIN h[src].refs = DOMAIN ids /\ ids \in Seq(Int) /\ DOMAIN ids = 1 .. Len(ids)
    BY <1>1, <1>3, <2>1, RecordFacts
  <2> QED
    BY <2>1, <2>2
<1>5. load = Load("place", src, <<ids[i]>>, i)
  BY DEF StartsLoadAt
<1> HIDE DEF g, ids
<1>6. /\ load.at = "place" /\ load.got = <<>> /\ load.src = src /\ load.k = 1 /\ load.i = i
      /\ load.want = <<ids[i]>>
  BY <1>5 DEF Load
<1>7. load \in LoadType(Len(h))
  <2> DEFINE N == 0 .. Len(h)
             R == Seq(N)
             W == Seq(Int)
  <2>1. src \in N /\ <<>> \in R /\ <<ids[i]>> \in W /\ i \in Nat /\ 1 \in Nat \ {0}
    BY <1>2, <1>3, <1>4
  <2>2. LoadType(Len(h)) = LoadSet({"idle", "search", "place", "lazy", "loaded", "failed"}, N, W, R)
    BY FrameTypeIs
  <2> HIDE DEF N, R, W
  <2> QED
    BY <1>5, <2>1, <2>2 DEF Load, LoadSet
<1>8. SearchOK(h, load)
  <2>1. Len(<<ids[i]>>) = 1 /\ <<ids[i]>>[1] = ids[i]
    BY <1>4
  <2>2. FoundIn(h, load)
    BY <1>4, <1>6, <2>1 DEF FoundIn, ids
  <2> QED
    BY <1>6, <2>1, <2>2 DEF SearchOK
<1>9. Range(<<>>) = {}
  BY DEF Range
<1>10. \A o \in DOMAIN h : Occurs(f.own, o) + Occurs(<<>>, o) = Occurs(f.own, o)
  BY <1>2, OccursEmpty, OccursNat, SeqDomains
<1>11. EntersLoad(h, st, f, g, f.own, load, <<>>, tt)
  <2>1. g = [f EXCEPT !.left = @ - 1, !.load = load] /\ tt = [st EXCEPT ![Len(st)] = g]
        /\ src \in Range(f.own) \union CapturedIn(h, f)
    BY Zenon DEF StartsLoadAt, g
  <2>2. Range(f.own) \union Range(<<>>) \subseteq Range(f.own)
    BY <1>9
  <2>3. load.src # Const /\ load.src \in Range(f.own) \union CapturedIn(h, f) /\ load.at # "idle" /\ load.at # "lazy"
    BY <1>3, <1>6, <2>1
  <2>4. IF h[load.src].kind = "rec" THEN SearchOK(h, load) ELSE load.at = "failed"
    BY <1>4, <1>6, <1>8
  <2> QED
    BY <1>1, <1>2, <1>6, <1>7, <1>10, <2>1, <2>2, <2>3, <2>4, Zenon DEF EntersLoad
<1> QED
  BY <1>11, Entered

\* __get_lazy is called, with the last use of the lazy value or not.
GetsLazy(h, st, f, l, own, load, g, tt) ==
    /\ Runs(h, st, f) /\ l \in Range(f.own) \union CapturedIn(h, f) /\ l # Const /\ h[l].kind = "lazy"
    /\ load = Load("lazy", l, <<NoField>>, 0)
    /\ \/ own = f.own /\ g = h
       \/ \E k \in DOMAIN f.own : f.own[k] = l /\ own = RemoveAt(f.own, k) /\ g = Decr(h, l)
    /\ tt = [st EXCEPT ![Len(st)] = [f EXCEPT !.own = own, !.left = @ - 1, !.load = load]]

\* GetLazy does, also where the last reference is given up.
LEMMA LazyCalled ==
    ASSUME NEW h, NEW st, NEW f, NEW l, NEW own, NEW load, NEW g, NEW tt,
           GetsLazy(h, st, f, l, own, load, g, tt)
    PROVE  Good(g, tt, <<>>) /\ tt # <<>> /\ Last(tt).load = load /\ ~IsEvaluation(Last(tt))
<1> DEFINE c == [f EXCEPT !.own = own, !.left = @ - 1, !.load = load]
           R == Seq(0 .. Len(h))
<1>1. Good(h, st, <<>>) /\ st # <<>> /\ f = Last(st) /\ ~IsEvaluation(f) /\ Runs(h, st, f)
  BY Zenon DEF GetsLazy, Runs
<1>2. f.own \in R /\ Len(h) \in Nat /\ <<>> \in R /\ DOMAIN h = 1 .. Len(h)
  BY <1>1, CodeFacts
<1>3. l \in DOMAIN h /\ l # Const /\ h[l].kind = "lazy" /\ l \in Range(f.own) \union CapturedIn(h, f)
  BY <1>1, CodeFacts DEF GetsLazy
<1>4. /\ load.at = "lazy" /\ load.got = <<>> /\ load.src = l
      /\ load \in LoadType(Len(h))
  <2>1. load = Load("lazy", l, <<NoField>>, 0)
    BY DEF GetsLazy
  <2> DEFINE N == 0 .. Len(h)
             W == Seq(Int)
  <2>2. l \in N /\ <<NoField>> \in W
    BY <1>2, <1>3 DEF NoField
  <2>3. LoadType(Len(h)) = LoadSet({"idle", "search", "place", "lazy", "loaded", "failed"}, N, W, R)
    BY FrameTypeIs
  <2> HIDE DEF N, R, W
  <2> QED
    BY <1>2, <2>1, <2>2, <2>3 DEF Load, LoadSet
<1>5. Range(<<>>) = {}
  BY DEF Range
<1>6. c = [f EXCEPT !.own = own, !.left = @ - 1, !.load = load] /\ tt = [st EXCEPT ![Len(st)] = c]
  BY Zenon DEF GetsLazy
<1> HIDE DEF c
<1>7. ASSUME NEW now \in R, own \in R, Range(own) \union Range(now) \subseteq Range(f.own),
             \A o \in DOMAIN h : Occurs(own, o) + Occurs(now, o) = Occurs(f.own, o)
      PROVE  Good(h, tt, now) /\ tt # <<>> /\ Len(tt) = Len(st) /\ Last(tt).load = load /\ ~IsEvaluation(Last(tt))
  <2>1. load.at # "idle" /\ load.src # Const /\ load.src \in Range(f.own) \union CapturedIn(h, f)
        /\ h[load.src].kind = "lazy"
    BY <1>3, <1>4
  <2>2. EntersLoad(h, st, f, c, own, load, now, tt)
    BY <1>1, <1>4, <1>6, <1>7, <2>1, Zenon DEF EntersLoad, R
  <2> QED
    BY <2>2, Entered
<1>8. CASE own = f.own /\ g = h
  <2>1. \A o \in DOMAIN h : Occurs(f.own, o) + Occurs(<<>>, o) = Occurs(f.own, o)
    BY <1>2, OccursEmpty, OccursNat, SeqDomains
  <2>2. own \in R /\ <<>> \in R /\ Range(own) \union Range(<<>>) \subseteq Range(f.own)
        /\ \A o \in DOMAIN h : Occurs(own, o) + Occurs(<<>>, o) = Occurs(f.own, o)
    BY <1>2, <1>5, <1>8, <2>1
  <2> QED
    BY <1>7, <1>8, <2>2
<1>9. CASE \E k \in DOMAIN f.own : f.own[k] = l /\ own = RemoveAt(f.own, k) /\ g = Decr(h, l)
  <2>1. PICK k \in DOMAIN f.own : f.own[k] = l /\ own = RemoveAt(f.own, k) /\ g = Decr(h, l)
    BY <1>9
  <2>2. own \in R /\ f.own[k] \in Range(f.own) /\ Range(own) \subseteq Range(f.own)
        /\ \A o : Occurs(own, o) + Occurs(<<f.own[k]>>, o) = Occurs(f.own, o)
    BY <1>2, <2>1, LeftOut
  <2>3. <<l>> \in R /\ Range(<<l>>) = {l}
    BY <1>2, <1>3 DEF Range
  <2>4. Range(own) \union Range(<<l>>) \subseteq Range(f.own)
        /\ \A o \in DOMAIN h : Occurs(own, o) + Occurs(<<l>>, o) = Occurs(f.own, o)
    BY <2>1, <2>2, <2>3
  <2>5. Good(h, tt, <<l>>) /\ tt # <<>> /\ Len(tt) = Len(st) /\ Last(tt).load = load /\ ~IsEvaluation(Last(tt))
    BY <1>7, <2>2, <2>3, <2>4
  <2>6. l \in Afloat(tt)
    <3>1. Last(tt) = tt[Len(tt)] /\ Len(tt) \in DOMAIN tt
      BY <2>5, TopFacts
    <3>2. tt[Len(tt)].load.at = "lazy" /\ tt[Len(tt)].load.src = l
      BY <1>4, <2>5, <3>1
    <3> QED
      BY <3>1, <3>2 DEF Afloat
  <2>7. Good(Decr(h, l), tt, <<>>)
    BY <1>3, <2>5, <2>6, Unowned
  <2> QED
    BY <2>1, <2>5, <2>7
<1> QED
  BY <1>8, <1>9 DEF GetsLazy

\* What an updated record is made of
UpdatedFields(h, src, ids, vals) ==
    [i \in DOMAIN FieldIds[h[src].shape] |->
       IF FieldIds[h[src].shape][i] \in Range(ids)
       THEN vals[PlaceOf(ids, FieldIds[h[src].shape][i])] ELSE h[src].refs[i]]
Updates(h, st, src, ids, vals, data) ==
    /\ Good(h, st, <<>>) /\ st # <<>> /\ src # Const /\ Sighted(h, st, src) /\ h[src].kind = "rec"
    /\ \A j \in DOMAIN ids : Sighted(h, st, vals[j])
    /\ data = UpdatedFields(h, src, ids, vals)

\* The fields of an updated record are those of the old one or what code can
\* get at.
LEMMA UpdateFacts ==
    ASSUME NEW h, NEW st, NEW src, NEW ids, NEW vals, NEW data, Updates(h, st, src, ids, vals, data)
    PROVE  /\ h[src].shape \in Shapes /\ data \in Seq(0 .. Len(h)) /\ Len(data) = Cardinality(h[src].shape)
           /\ \A i \in DOMAIN data : Sighted(h, st, data[i])
<1> DEFINE names == FieldIds[h[src].shape]
<1>1. Good(h, st, <<>>) /\ st # <<>> /\ src # Const /\ Sighted(h, st, src) /\ h[src].kind = "rec"
  BY Zenon DEF Updates
<1>2. src \in DOMAIN h /\ \A i \in DOMAIN h[src].refs : Sighted(h, st, h[src].refs[i])
  BY <1>1, SightedFacts
<1>3. /\ h[src].shape \in Shapes /\ DOMAIN h[src].refs = DOMAIN names /\ DOMAIN names = 1 .. Len(names)
      /\ Len(names) \in Nat /\ Len(names) = Cardinality(h[src].shape)
  BY <1>1, <1>2, RecordFacts
<1>4. DOMAIN data = 1 .. Len(names) /\ data = [i \in 1 .. Len(names) |-> data[i]]
  BY <1>3, Zenon DEF Updates, UpdatedFields
<1>5. ASSUME NEW i \in DOMAIN data
      PROVE  Sighted(h, st, data[i])
  <2>1. i \in DOMAIN names /\ data[i] = IF names[i] \in Range(ids) THEN vals[PlaceOf(ids, names[i])] ELSE h[src].refs[i]
    BY <1>3, <1>4, Zenon DEF Updates, UpdatedFields
  <2>2. CASE names[i] \in Range(ids)
    <3>1. \E j \in DOMAIN ids : ids[j] = names[i]
      BY <2>2 DEF Range
    <3>2. PlaceOf(ids, names[i]) \in DOMAIN ids
      BY <3>1, Zenon DEF PlaceOf
    <3>3. data[i] = vals[PlaceOf(ids, names[i])]
      BY <2>1, <2>2
    <3> QED
      BY <3>2, <3>3, Zenon DEF Updates
  <2>3. CASE names[i] \notin Range(ids)
    BY <1>2, <1>3, <2>1, <2>3
  <2> QED
    BY <2>2, <2>3
<1>6. \A i \in 1 .. Len(names) : data[i] \in 0 .. Len(h)
  BY <1>4, <1>5 DEF Sighted
<1>7. data \in Seq(0 .. Len(h)) /\ Len(data) = Len(names)
  <2>1. \A S : \A n \in Nat : \A s : s = [i \in 1 .. n |-> s[i]] /\ (\A i \in 1 .. n : s[i] \in S)
                                        => s \in Seq(S) /\ Len(s) = n
    OBVIOUS
  <2> DEFINE S == 0 .. Len(h)
  <2> HIDE DEF S, names
  <2>2. \A i \in 1 .. Len(names) : data[i] \in S
    BY <1>6 DEF S
  <2>3. data \in Seq(S) /\ Len(data) = Len(names)
    BY <1>3, <1>4, <2>1, <2>2
  <2> QED
    BY <2>3 DEF S
<1> QED
  BY <1>3, <1>5, <1>7

-----------------------------------------------------------------------------
(* Fields are assigned *)

\* vv, which is in hand, is put into place i of the record p, that vv does not
\* reach; no load has that place behind it, nor is one below in it.
Writes(h, st, vv, p, i, W, g) ==
    /\ Good(h, st, <<vv>>) /\ p \in DOMAIN h /\ h[p].kind = "rec" /\ i \in DOMAIN h[p].refs
    /\ \A d \in DOMAIN st : st[d].load.src = p =>
         /\ \A j \in DOMAIN st[d].load.got :
              PlaceOf(FieldIds[h[p].shape], st[d].load.want[j]) \in DOMAIN h[p].refs \ {i}
         /\ d < Len(st) => st[d].load.i # i
    /\ Apart(h, st, {vv, p})
    /\ W \in SUBSET DOMAIN h /\ Upward(h, W) /\ p \in W /\ vv \notin W
    /\ IsWritten(h, p, i, vv, g)

\* A field is written: what it had is in hand.
LEMMA WrittenTo ==
    ASSUME NEW h, NEW st, NEW vv, NEW p, NEW i, NEW W, NEW g, Writes(h, st, vv, p, i, W, g)
    PROVE  /\ Good(g, st, <<h[p].refs[i]>>)
           /\ SameBut(h, g, p) /\ Len(g) = Len(h)
           /\ g[p].refs = [h[p].refs EXCEPT ![i] = vv]
<1>1. /\ Good(h, st, <<vv>>) /\ p \in DOMAIN h /\ h[p].kind = "rec" /\ i \in DOMAIN h[p].refs
      /\ Apart(h, st, {vv, p}) /\ W \in SUBSET DOMAIN h /\ Upward(h, W) /\ p \in W /\ vv \notin W
  BY Zenon DEF Writes
<1>2. \A d \in DOMAIN st : st[d].load.src = p =>
         /\ \A j \in DOMAIN st[d].load.got :
              PlaceOf(FieldIds[h[p].shape], st[d].load.want[j]) \in DOMAIN h[p].refs \ {i}
         /\ d < Len(st) => st[d].load.i # i
  BY Zenon DEF Writes
<1>3. h \in Seq(ObjectType(Len(h)))
  BY <1>1, TypedFacts DEF Good
<1>4. h[p].refs \in Seq(0 .. Len(h))
  BY <1>1, <1>3, HeapFacts
<1>5. \A k \in DOMAIN h[p].refs \ {i} : g[p].refs[k] = h[p].refs[k]
  <2> DEFINE R == Seq(0 .. Len(h))
             now == [h[p].refs EXCEPT ![i] = vv]
  <2>1. g = [h EXCEPT ![p] = [h[p] EXCEPT !.refs = now]]
    BY DEF Writes, IsWritten
  <2>2. h[p] \in RecordType(R) /\ h[p].refs \in Seq(0 .. Len(h)) /\ p \in DOMAIN h
    BY <1>1, <1>3, HeapFacts, ObjectTypeIs
  <2> HIDE DEF R, now
  <2>3. g[p].refs = now
    BY <2>1, <2>2 DEF RecordType
  <2>4. \A k \in DOMAIN h[p].refs \ {i} : now[k] = h[p].refs[k]
    BY <2>2 DEF now
  <2> QED
    BY <2>3, <2>4
<1>6. \A d \in DOMAIN st : SameGot(h, g, p, st[d].load)
  BY <1>2, <1>5 DEF SameGot, SamePlace
<1>7. \A d \in DOMAIN st : d < Len(st) /\ st[d].load.at \in {"search", "place"} /\ st[d].load.src = p
                              => st[d].load.i # i
  BY <1>2
<1>8. IsWritten(h, p, i, vv, g)
  BY Zenon DEF Writes
<1> QED
  BY <1>1, <1>6, <1>7, <1>8, Written

\* What a load has behind it
LEMMA GotPlaces ==
    ASSUME NEW h, NEW st, NEW hand, Good(h, st, hand), NEW d \in DOMAIN st, NEW p, p = st[d].load.src,
           p \in DOMAIN h, h[p].kind = "rec", NEW j \in DOMAIN st[d].load.got,
           NEW i, i = PlaceOf(FieldIds[h[p].shape], st[d].load.want[j])
    PROVE  i \in DOMAIN h[p].refs /\ i < st[d].load.i /\ st[d].load.got[j] = h[p].refs[i]
           /\ KindIn(h, st[d].load.got[j]) # "lazy" /\ ~IsEvaluation(st[d])
<1>1. Const \notin DOMAIN h /\ FrameOK(h, st, d)
  BY TypedFacts, HeapFacts DEF Good
<1>2. st[d].load # Idle
  BY <1>1 DEF Idle, Load
<1>3. ~IsEvaluation(st[d]) /\ LoadOK(h, st[d])
  BY <1>1, <1>2 DEF FrameOK, EvaluationOK, CodeOK
<1>4. st[d].load.got # <<>>
  <2>1. DOMAIN <<>> = {}
    OBVIOUS
  <2> QED
    BY <2>1
<1>5. SearchOK(h, st[d].load)
  BY <1>1, <1>2, <1>3, <1>4 DEF LoadOK
<1>6. /\ st[d].load.want[j] \in h[p].shape /\ i < st[d].load.i
      /\ st[d].load.got[j] = h[p].refs[i] /\ KindIn(h, st[d].load.got[j]) # "lazy"
  BY <1>5 DEF SearchOK
<1>7. i \in DOMAIN h[p].refs
  BY <1>6, RecordFacts
<1> QED
  BY <1>3, <1>6, <1>7

Assigns(h, st, f, src, i, v, W, g, tt) ==
    /\ Runs(h, st, f) /\ src \in Range(f.own) \union CapturedIn(h, f) /\ src # Const
    /\ h[src].kind = "rec" /\ i \in DOMAIN h[src].refs
    /\ v \in Range(f.own) \union CapturedIn(h, f) \union {Const}
    /\ \/ Len(st) = 1
       \/ ~\E d \in DOMAIN st : st[d].load.src = src /\ i <= st[d].load.i
    /\ W \in SUBSET DOMAIN h /\ Upward(h, W) /\ src \in W /\ v \notin W
    /\ \E k : IsWritten(Inc(h, v), src, i, v, k) /\ g = Release(k, <<h[src].refs[i]>>)
    /\ tt = [st EXCEPT ![Len(st)] = [f EXCEPT !.left = @ - 1]]

\* Assign keeps the invariant of the heap and the stack.
LEMMA Assigned ==
    ASSUME NEW h, NEW st, NEW f, NEW src, NEW i, NEW v, NEW W, NEW g, NEW tt,
           Assigns(h, st, f, src, i, v, W, g, tt)
    PROVE  Good(g, tt, <<>>) /\ tt # <<>> /\ Last(tt).load = Idle
<1> DEFINE h1 == Inc(h, v)
<1>1. Good(h, st, <<>>) /\ st # <<>> /\ f = Last(st) /\ ~IsEvaluation(f) /\ f.load = Idle /\ f.left > 0
  BY Zenon DEF Assigns, Runs
<1>2. /\ Len(h) \in Nat /\ <<>> \in Seq(0 .. Len(h)) /\ DOMAIN h = 1 .. Len(h)
      /\ \A o \in Range(f.own) \union CapturedIn(h, f) \union {Const} : Sighted(h, st, o)
      /\ \A o \in Range(f.own) \union CapturedIn(h, f) : o = Const \/ o \in DOMAIN h
  BY <1>1, CodeFacts
<1>3. /\ src \in DOMAIN h /\ src # Const /\ h[src].kind = "rec" /\ i \in DOMAIN h[src].refs
      /\ Sighted(h, st, src) /\ Sighted(h, st, v)
  BY <1>2 DEF Assigns
<1>4. W \in SUBSET DOMAIN h /\ Upward(h, W) /\ src \in W /\ v \notin W
  BY Zenon DEF Assigns
<1>5. PICK k : IsWritten(h1, src, i, v, k) /\ g = Release(k, <<h[src].refs[i]>>)
  BY Zenon DEF Assigns
<1>6. h1 = IncAll(h, <<v>>)
  BY DEF Inc
<1> HIDE DEF h1
<1>7. /\ Good(h1, st, <<v>>) /\ Len(h1) = Len(h) /\ DOMAIN h1 = DOMAIN h
      /\ \A o \in DOMAIN h : SameParts(h, h1, o)
      /\ \A o : Sighted(h, st, o) => Sighted(h1, st, o)
  <2>1. v \in 0 .. Len(h)
    BY <1>3 DEF Sighted
  <2>2. <<v>> \in Seq(0 .. Len(h)) /\ \A m \in DOMAIN <<v>> : <<v>>[m] = v
    BY <2>1
  <2>3. Takes(h, st, <<>>, <<v>>, h1)
    BY <1>1, <1>3, <1>6, <2>2 DEF Takes
  <2>4. <<>> \o <<v>> = <<v>>
    BY <1>2, <2>2
  <2> QED
    BY <2>3, <2>4, TakenSighted
<1>8. h1[src].kind = "rec" /\ h1[src].refs = h[src].refs /\ h1[src].shape = h[src].shape
  BY <1>3, <1>7 DEF SameParts
<1>9. Apart(h1, st, {v, src})
  <2>1. Sighted(h1, st, v) /\ Sighted(h1, st, src)
    BY <1>3, <1>7
  <2> QED
    BY <1>1, <1>7, <2>1, ApartSighted
<1>10. Upward(h1, W) /\ W \in SUBSET DOMAIN h1
  BY <1>4, <1>7 DEF Upward, SameParts
<1>11. ASSUME NEW d \in DOMAIN st, st[d].load.src = src
       PROVE  /\ \A j \in DOMAIN st[d].load.got :
                   PlaceOf(FieldIds[h1[src].shape], st[d].load.want[j]) \in DOMAIN h1[src].refs \ {i}
              /\ d < Len(st) => st[d].load.i # i
  <2>1. CASE Len(st) = 1
    <3>1. d = 1 /\ st[d] = f
      BY <1>1, <2>1, TopFacts
    <3>2. st[d].load.src = Const
      BY <1>1, <3>1 DEF Idle, Load
    <3> QED
      BY <1>3, <1>11, <3>2
  <2>2. CASE ~\E e \in DOMAIN st : st[e].load.src = src /\ i <= st[e].load.i
    <3>1. ~(i <= st[d].load.i)
      BY <1>11, <2>2
    <3>2. i \in Nat /\ st[d].load.i \in Nat
      <4>1. h \in Seq(ObjectType(Len(h))) /\ st \in Seq(FrameType(Len(h)))
        BY <1>1, TypedFacts DEF Good
      <4>2. st[d].load.i \in Nat
        BY <1>2, <4>1, FrameFacts
      <4>3. DOMAIN h[src].refs = 1 .. Len(h[src].refs)
        BY <1>3, <4>1, HeapFacts
      <4> QED
        BY <1>3, <4>2, <4>3
    <3>3. st[d].load.i # i
      BY <3>1, <3>2
    <3>4. ASSUME NEW j \in DOMAIN st[d].load.got
          PROVE  PlaceOf(FieldIds[h1[src].shape], st[d].load.want[j]) \in DOMAIN h1[src].refs \ {i}
      <4> DEFINE x == PlaceOf(FieldIds[h[src].shape], st[d].load.want[j])
      <4>1. x \in DOMAIN h[src].refs /\ x < st[d].load.i
        BY <1>1, <1>3, <1>11, GotPlaces
      <4>2. x # i
        BY <3>1, <3>2, <4>1
      <4> QED
        BY <1>8, <4>1, <4>2
    <3> QED
      BY <3>3, <3>4
  <2> QED
    BY <2>1, <2>2, Zenon DEF Assigns
<1>12. Writes(h1, st, v, src, i, W, k)
  <2>1. src \in DOMAIN h1 /\ i \in DOMAIN h1[src].refs
    BY <1>3, <1>7, <1>8
  <2> QED
    BY <1>4, <1>5, <1>7, <1>8, <1>9, <1>10, <1>11, <2>1, Zenon DEF Writes
<1>13. Good(k, st, <<h[src].refs[i]>>)
  <2>1. Good(k, st, <<h1[src].refs[i]>>)
    BY <1>12, WrittenTo
  <2> QED
    BY <1>8, <2>1
<1>14. Good(g, st, <<>>)
  <2> DEFINE o == h[src].refs[i]
  <2>1. Good(k, st, <<o>>)
    BY <1>13
  <2>2. g = Release(k, <<o>>)
    BY <1>5
  <2> HIDE DEF o
  <2>3. Last(st).load.at # "lazy"
    BY <1>1 DEF Idle, Load
  <2> QED
    BY <2>1, <2>2, <2>3, HandReleased
<1>15. Stays(g, st, f, tt)
  <2>1. tt = [st EXCEPT ![Len(st)] = [f EXCEPT !.left = @ - 1]]
    BY Zenon DEF Assigns
  <2> QED
    BY <1>1, <1>14, <2>1, Zenon DEF Stays, Runs
<1> QED
  BY <1>15, Stayed, Zenon

-----------------------------------------------------------------------------
(* Loads end, and code *)

Bindings(h, st, f, got, g, tt) ==
    /\ Good(h, st, <<>>) /\ st # <<>> /\ f = Last(st) /\ ~IsEvaluation(f)
    /\ f.load.at \in {"loaded", "failed"}
    /\ got = IF f.load.at = "loaded" THEN f.load.got ELSE <<>>
    /\ g = IncAll(h, got) /\ tt = [st EXCEPT ![Len(st)] = Bound(f, got)]

\* Bind does.
LEMMA AllBound ==
    ASSUME NEW h, NEW st, NEW f, NEW got, NEW g, NEW tt, Bindings(h, st, f, got, g, tt)
    PROVE  Good(g, tt, <<>>) /\ tt # <<>> /\ Last(tt).load = Idle
<1>1. /\ Good(h, st, <<>>) /\ st # <<>> /\ f = Last(st) /\ ~IsEvaluation(f) /\ f.load.at # "lazy"
      /\ got \in {f.load.got, <<>>} /\ g = IncAll(h, got)
  BY DEF Bindings
<1>2. Len(h) \in Nat /\ f.load \in LoadType(Len(h)) /\ Typed(h, st, <<>>)
  BY <1>1, TopFacts DEF Good
<1>3. <<>> \in Seq(0 .. Len(h)) /\ f.load.got \in Seq(0 .. Len(h))
  <2> DEFINE N == 0 .. Len(h)
             R == Seq(N)
             W == Seq(Int)
  <2>1. LoadType(Len(h)) = LoadSet({"idle", "search", "place", "lazy", "loaded", "failed"}, N, W, R)
    BY FrameTypeIs
  <2>2. <<>> \in R
    OBVIOUS
  <2> HIDE DEF N, R, W
  <2>3. f.load.got \in R
    BY <1>2, <2>1 DEF LoadSet
  <2> QED
    BY <2>2, <2>3 DEF R, N
<1>4. got \in Seq(0 .. Len(h)) /\ \A j \in DOMAIN got : got[j] \in Range(f.load.got)
  <2>1. got \in Seq(0 .. Len(h))
    BY <1>1, <1>3
  <2>2. CASE got = f.load.got
    BY <2>1, <2>2 DEF Range
  <2>3. CASE got = <<>>
    <3>1. DOMAIN got = {}
      BY <2>3
    <3> QED
      BY <2>1, <3>1
  <2> QED
    BY <1>1, <2>2, <2>3
<1>5. \A j \in DOMAIN got : Sighted(h, st, got[j])
  BY <1>1, <1>4, SightedFacts DEF Seen
<1>6. Takes(h, st, <<>>, got, g)
  BY <1>1, <1>4, <1>5 DEF Takes
<1>7. Good(g, st, got \o <<>>) /\ Len(g) = Len(h)
  <2>1. <<>> \o got = got /\ got \o <<>> = got
    BY <1>4, ConcatEmptySeq
  <2>2. Good(g, st, <<>> \o got) /\ Len(g) = Len(h)
    BY <1>6, TakenSighted
  <2>3. <<>> \o got = got \o <<>>
    BY <2>1, Zenon
  <2> QED
    BY <2>2, <2>3, Zenon
<1>8. tt = [st EXCEPT ![Len(st)] = Bound(f, got)]
  BY Zenon DEF Bindings
<1>9. Binds(g, st, got, <<>>, f, tt)
  <2>1. got \in Seq(0 .. Len(g)) /\ <<>> \in Seq(0 .. Len(g))
    BY <1>3, <1>4, <1>7
  <2>2. f.load.at = "lazy" => g[f.load.src].rc > 0
    BY <1>1
  <2> QED
    BY <1>1, <1>7, <1>8, <2>1, <2>2, Zenon DEF Binds
<1> QED
  BY <1>9, BoundKept

\* What the code owns is in hand.
Hands(h, st, hand, f, g, tt) ==
    /\ Good(h, st, hand) /\ st # <<>> /\ f = Last(st) /\ ~IsEvaluation(f) /\ f.load = Idle
    /\ g = [f EXCEPT !.own = <<>>] /\ tt = [st EXCEPT ![Len(st)] = g]

\* Code gives everything that it owns.
LEMMA HandedOver ==
    ASSUME NEW h, NEW st, NEW hand, NEW f, NEW g, NEW tt, Hands(h, st, hand, f, g, tt)
    PROVE  /\ Good(h, tt, hand \o f.own) /\ Len(tt) = Len(st) /\ tt # <<>> /\ Front(tt) = Front(st)
           /\ Last(tt) = g /\ ~IsEvaluation(g) /\ g.load = Idle /\ g.own = <<>>
<1> DEFINE R == Seq(0 .. Len(h))
           now == hand \o f.own
<1>1. Good(h, st, hand) /\ st # <<>> /\ f = Last(st) /\ ~IsEvaluation(f) /\ f.load = Idle
      /\ tt = [st EXCEPT ![Len(st)] = g]
  BY Zenon DEF Hands
<1>2. f \in FrameType(Len(h)) /\ Len(h) \in Nat /\ f.own \in R /\ hand \in R /\ f.left \in Nat
  BY <1>1, TopFacts
<1>3. \A o \in Range(f.own) : Sighted(h, st, o)
  BY <1>1, SightedFacts DEF Seen
<1>4. <<>> \in R /\ now \in R /\ Range(now) = Range(hand) \union Range(f.own) /\ Range(<<>>) = {}
  <2>1. Range(hand \o f.own) = Range(hand) \union Range(f.own)
    BY <1>2, RangeConcatenation
  <2>2. Range(<<>>) = {}
    BY DEF Range
  <2>3. <<>> \in R /\ now \in R
    BY <1>2
  <2> QED
    BY <2>1, <2>2, <2>3
<1>5. g \in FrameType(Len(h)) /\ IsFrame(g, f, <<>>, f.left, Idle)
  <2> DEFINE N == 0 .. Len(h)
             L == LoadType(Len(h))
  <2>1. f \in FrameSet(N, R, L) /\ FrameType(Len(h)) = FrameSet(N, R, L)
    BY <1>2, FrameTypeIs
  <2>2. g = [f EXCEPT !.own = <<>>]
    BY Zenon DEF Hands
  <2>3. <<>> \in R /\ f.left \in Nat /\ f.load \in L
    <3> HIDE DEF N, R, L
    <3> QED
      BY <1>2, <1>4, <2>1 DEF FrameSet
  <2> HIDE DEF N, R, L
  <2>4. g \in FrameSet(N, R, L) /\ IsFrame(g, f, <<>>, f.left, f.load)
    BY <2>1, <2>2, <2>3, FrameEdits
  <2> QED
    BY <1>1, <2>1, <2>4
<1>6. \A o \in DOMAIN h : Occurs(<<>>, o) + Occurs(now, o) = Occurs(f.own, o) + Occurs(hand, o)
  <2> TAKE o \in DOMAIN h
  <2>1. Occurs(now, o) = Occurs(hand, o) + Occurs(f.own, o)
    BY <1>2, OccursConcat
  <2>2. Occurs(<<>>, o) = 0 /\ Occurs(hand, o) \in Nat /\ Occurs(f.own, o) \in Nat
    BY <1>2, OccursEmpty, OccursNat, SeqDomains
  <2> HIDE DEF now
  <2> QED
    BY <2>1, <2>2
<1>7. \A o \in Range(now) \union Range(<<>>) : o \in Range(hand) \/ Sighted(h, st, o)
  BY <1>3, <1>4
<1> HIDE DEF R, now
<1>8. CodeGoes(h, st, hand, f, g, <<>>, f.left, now, tt)
  BY <1>1, <1>4, <1>5, <1>6, <1>7, Zenon DEF CodeGoes, R
<1>9. /\ Good(h, tt, now) /\ Len(tt) = Len(st) /\ tt # <<>> /\ Last(tt) = g /\ Front(tt) = Front(st)
      /\ ~IsEvaluation(g) /\ g.load = Idle /\ g.own = <<>>
  BY <1>8, CodeWent
<1> QED
  BY <1>9, Zenon DEF now

\* The program is at its end, and owns nothing.
Ended(h, st, f) ==
    /\ Good(h, st, <<>>) /\ Len(st) = 1 /\ f = Last(st) /\ ~IsEvaluation(f) /\ f.own = <<>> /\ f.load = Idle

\* The last frame goes.
LEMMA NothingLeft ==
    ASSUME NEW h, NEW st, NEW f, Ended(h, st, f)
    PROVE  Good(h, <<>>, <<>>)
<1>1. /\ Good(h, st, <<>>) /\ Len(st) = 1 /\ f = Last(st) /\ ~IsEvaluation(f) /\ f.own = <<>>
      /\ f.load = Idle
  BY Zenon DEF Ended
<1>2. /\ h \in Seq(ObjectType(Len(h))) /\ st \in Seq(FrameType(Len(h))) /\ Len(h) \in Nat
      /\ <<>> \in Seq(0 .. Len(h))
  BY <1>1, TypedFacts DEF Good
<1>3. DOMAIN st = {1} /\ st[1] = f /\ f \in FrameType(Len(h)) /\ st = <<f>>
  <2>1. \A S : \A s \in Seq(S) : Len(s) = 1 => DOMAIN s = {1} /\ s = <<s[1]>> /\ s[1] \in S /\ Last(s) = s[1]
    BY DEF Last
  <2> QED
    BY <1>1, <1>2, <2>1
<1>4. Typed(h, <<>>, <<>>)
  BY <1>2 DEF Typed
<1>5. EvaluatedIn(st) = {} /\ Afloat(st) = {}
  <2>1. ~IsEvaluation(st[1]) /\ st[1].load.at # "lazy"
    BY <1>1, <1>3 DEF Idle, Load
  <2> QED
    BY <1>3, <2>1 DEF EvaluatedIn, Afloat
<1>6. DOMAIN <<>> = {} /\ Range(<<>>) = {}
  BY DEF Range
<1>7. \A o \in DOMAIN h : ObjectOK(h, <<>>, o)
  <2>1. \A o \in DOMAIN h : ObjectOK(h, st, o)
    BY <1>1 DEF Good
  <2> QED
    BY <1>5, <2>1 DEF ObjectOK
<1>8. \A o : Among(Owns(<<>>), o) = Among(Owns(st), o)
  <2> TAKE o
  <2>1. <<>> \in Seq(FrameType(Len(h))) /\ Append(<<>>, f) = <<f>>
    BY <1>3
  <2>2. /\ Among(Owns(Append(<<>>, f)), o) = Among(Owns(<<>>), o) + Occurs(f.own, o)
        /\ Among(Owns(<<>>), o) \in Nat
    BY <1>2, <1>3, <2>1, OwnsPush
  <2>3. Occurs(f.own, o) = 0
    BY <1>1, OccursEmpty
  <2>4. Among(Owns(<<f>>), o) = Among(Owns(<<>>), o)
    BY <2>1, <2>2, <2>3
  <2> QED
    BY <1>3, <2>4
<1>9. Counts(h, Owned(h, <<>>, <<>>))
  <2>1. Owned(h, <<>>, <<>>) = Owned(h, st, <<>>)
    BY <1>8 DEF Owned
  <2> QED
    BY <1>1, <2>1 DEF Good
<1>10. Alive(h, <<>>)
  <2>1. UsedBy(<<>>) = {}
    BY <1>6, UsedByFacts
  <2>2. \A o \in DOMAIN h : ~Dead(h, o) => h[o].rc > 0
    BY <1>1, <1>5 DEF Good, Alive
  <2> QED
    BY <2>1, <2>2 DEF Alive
<1>11. Distinct(<<>>) /\ Apart(h, <<>>, Range(<<>>)) /\ \A d \in DOMAIN <<>> : FrameOK(h, <<>>, d)
  BY <1>6 DEF Distinct, Apart
<1>12. Acyclic(h)
  BY <1>1 DEF Good
<1> QED
  BY <1>4, <1>7, <1>9, <1>10, <1>11, <1>12, Zenon DEF Good

Exits(h, st, f, g) ==
    Good(h, st, <<>>) /\ Len(st) = 1 /\ f = Last(st) /\ ~IsEvaluation(f) /\ f.load = Idle /\ g = Release(h, f.own)

\* Exit keeps the invariant of the heap and the stack.
LEMMA Exited ==
    ASSUME NEW h, NEW st, NEW f, NEW g, Exits(h, st, f, g)
    PROVE  Good(g, <<>>, <<>>)
<1> DEFINE c == [f EXCEPT !.own = <<>>]
           s == [st EXCEPT ![Len(st)] = c]
<1>1. Good(h, st, <<>>) /\ Len(st) = 1 /\ f = Last(st) /\ ~IsEvaluation(f) /\ f.load = Idle /\ g = Release(h, f.own)
  BY Zenon DEF Exits
<1>2. st # <<>>
  BY <1>1
<1>3. f.own \in Seq(0 .. Len(h))
  BY <1>1, <1>2, TopFacts
<1>4. Hands(h, st, <<>>, f, c, s)
  BY <1>1, <1>2, Zenon DEF Hands
<1> HIDE DEF c, s
<1>5. Good(h, s, <<>> \o f.own) /\ Len(s) = Len(st) /\ s # <<>> /\ Last(s) = c /\ ~IsEvaluation(c) /\ c.load = Idle
      /\ c.own = <<>>
  <2>1. Good(h, s, <<>> \o f.own)
    BY <1>4, HandedOver
  <2>2. Len(s) = Len(st)
    BY <1>4, HandedOver
  <2>3. s # <<>>
    BY <1>4, HandedOver
  <2>4. Last(s) = c
    BY <1>4, HandedOver
  <2>5. ~IsEvaluation(c)
    BY <1>4, HandedOver
  <2>6. c.load = Idle
    BY <1>4, HandedOver
  <2>7. c.own = <<>>
    BY <1>4, HandedOver
  <2> QED
    BY <2>1, <2>2, <2>3, <2>4, <2>5, <2>6, <2>7
<1>6. <<>> \o f.own = f.own
  BY <1>3, ConcatEmptySeq
<1>7. Good(h, s, f.own)
  BY <1>5, <1>6
<1>8. Last(s).load.at # "lazy"
  BY <1>5 DEF Idle, Load
<1>9. Good(g, s, <<>>)
  BY <1>1, <1>7, <1>8, HandReleased
<1>10. Ended(g, s, c)
  BY <1>1, <1>5, <1>9, Zenon DEF Ended
<1> QED
  BY <1>10, NothingLeft, Zenon

\* A reference that is taken and given back
LEMMA DecrInc ==
    ASSUME NEW h, h \in Seq(ObjectType(Len(h))), NEW v \in 0 .. Len(h)
    PROVE  Inc(Decr(h, v), v) = h
<1> DEFINE n == Len(h)
           R == Seq(0 .. n)
           T == RecordType(R)
           k == Decr(h, v)
<1>1. n \in Nat /\ DOMAIN h = 1 .. n /\ h = [o \in 1 .. n |-> h[o]]
  BY HeapFacts
<1>2. \A o \in 1 .. n : h[o] \in T
  BY <1>1, HeapFacts, ObjectTypeIs
<1> HIDE DEF R
<1>3. /\ DOMAIN k = 1 .. n
      /\ \A o \in 1 .. n : k[o] = IF o = v THEN [h[o] EXCEPT !.rc = @ - 1] ELSE h[o]
  <2>1. CASE v = Const
    BY <1>1, <2>1 DEF Decr, Const
  <2>2. CASE v # Const
    <3>1. k = [h EXCEPT ![v] = [h[v] EXCEPT !.rc = @ - 1]]
      BY <2>2 DEF Decr
    <3> HIDE DEF T, k, n
    <3> QED
      BY <1>1, <3>1
  <2> QED
    BY <2>1, <2>2
<1>4. Inc(k, v) = [o \in 1 .. n |-> [k[o] EXCEPT !.rc = @ + (IF v = o THEN 1 ELSE 0)]]
  BY <1>3, OccursSingle DEF Inc, IncAll
<1>5. ASSUME NEW o \in 1 .. n
      PROVE  [k[o] EXCEPT !.rc = @ + (IF v = o THEN 1 ELSE 0)] = h[o]
  <2>1. h[o] \in T
    BY <1>2
  <2>2. \A x \in T : x.rc \in Nat /\ [x EXCEPT !.rc = x.rc] = x
    BY DEF RecordType
  <2>3. \A x \in T : \A y : y = [x EXCEPT !.rc = x.rc - 1] => y.rc = x.rc - 1 /\ [y EXCEPT !.rc = x.rc] = x
    BY DEF RecordType
  <2> HIDE DEF T, k
  <2>4. CASE o = v
    <3> DEFINE y == k[o]
    <3>1. y.rc = h[o].rc - 1 /\ [y EXCEPT !.rc = h[o].rc] = h[o]
      BY <1>3, <2>1, <2>3, <2>4
    <3>2. y.rc + (IF v = o THEN 1 ELSE 0) = h[o].rc
      BY <2>1, <2>2, <2>4, <3>1
    <3> QED
      BY <3>1, <3>2
  <2>5. CASE o # v
    <3>1. k[o] = h[o] /\ h[o].rc + (IF v = o THEN 1 ELSE 0) = h[o].rc
      BY <1>3, <2>1, <2>2, <2>5
    <3> QED
      BY <2>1, <2>2, <3>1
  <2> QED
    BY <2>4, <2>5
<1> HIDE DEF k, T
<1> QED
  BY <1>1, <1>4, <1>5 DEF k

Returns(h, st, f, v, n, l, g, tt) ==
    /\ Good(h, st, <<>>) /\ n = Len(st) - 1 /\ n > 0 /\ f = Last(st) /\ ~IsEvaluation(f) /\ f.load = Idle
    /\ v \in Range(f.own) \union CapturedIn(h, f) \union {Const} /\ l = st[n].lazy
    /\ \E k : HasNone(Inc(GiveBack(h, f.own, v), v), l, k) /\ g = Release(k, h[l].refs)
    /\ CameTo(st, n, v, tt)

\* Return does.
LEMMA Returned ==
    ASSUME NEW h, NEW st, NEW f, NEW v, NEW n, NEW l, NEW g, NEW tt,
           Returns(h, st, f, v, n, l, g, tt)
    PROVE  Good(g, tt, <<>>) /\ IsEvaluation(Last(tt))
<1> DEFINE h1 == IncAll(h, <<v>>)
           h2 == Release(h1, f.own)
           c == [f EXCEPT !.own = <<>>]
           s == [st EXCEPT ![Len(st)] = c]
<1>1. /\ Good(h, st, <<>>) /\ n = Len(st) - 1 /\ n > 0 /\ f = Last(st) /\ ~IsEvaluation(f)
      /\ f.load = Idle /\ l = st[n].lazy /\ CameTo(st, n, v, tt)
  BY Zenon DEF Returns
<1>2. h \in Seq(ObjectType(Len(h))) /\ st \in Seq(FrameType(Len(h))) /\ Len(st) \in Nat /\ DOMAIN st = 1 .. Len(st)
  BY <1>1, TypedFacts DEF Good
<1>3. st # <<>> /\ Len(st) # 1 /\ n \in DOMAIN st /\ Len(st) \in DOMAIN st
  BY <1>1, <1>2
<1>4. /\ Len(h) \in Nat /\ <<>> \in Seq(0 .. Len(h)) /\ DOMAIN h = 1 .. Len(h) /\ f.own \in Seq(0 .. Len(h))
      /\ \A o \in Range(f.own) \union CapturedIn(h, f) \union {Const} : Sighted(h, st, o)
  BY <1>1, <1>3, CodeFacts
<1>5. Sighted(h, st, v) /\ v \in 0 .. Len(h) /\ <<v>> \in Seq(0 .. Len(h))
  <2>1. Sighted(h, st, v)
    BY <1>4 DEF Returns
  <2>2. v \in 0 .. Len(h)
    BY <2>1 DEF Sighted
  <2> QED
    BY <2>1, <2>2
<1> HIDE DEF h1, h2, c, s
<1>6. /\ Good(h1, st, <<v>>) /\ Len(h1) = Len(h) /\ DOMAIN h1 = DOMAIN h
      /\ \A o \in DOMAIN h : SameParts(h, h1, o)
  <2>1. \A m \in DOMAIN <<v>> : <<v>>[m] = v
    OBVIOUS
  <2>2. Takes(h, st, <<>>, <<v>>, h1)
    BY <1>1, <1>3, <1>5, <2>1 DEF Takes, h1
  <2>3. <<>> \o <<v>> = <<v>>
    BY <1>4, <1>5
  <2> QED
    BY <2>2, <2>3, TakenSighted
<1>7. Hands(h1, st, <<v>>, f, c, s)
  BY <1>1, <1>3, <1>6, Zenon DEF Hands, c, s
<1>8. Good(h1, s, <<v>> \o f.own)
  BY <1>7, HandedOver
<1>9. Len(s) = Len(st) /\ Front(s) = Front(st) /\ Last(s) = c
  BY <1>7, HandedOver
<1>10. ~IsEvaluation(c) /\ c.load = Idle /\ c.own = <<>>
  BY <1>7, HandedOver
<1>11. Last(s).load.at # "lazy"
  BY <1>9, <1>10 DEF Idle, Load
<1>12. /\ Good(h2, s, <<v>>) /\ Len(h2) = Len(h1)
       /\ \A o \in DOMAIN h1 : ~Dead(h2, o) => SameParts(h1, h2, o)
  <2>1. <<v>> \in Seq(0 .. Len(h1)) /\ f.own \in Seq(0 .. Len(h1))
    BY <1>4, <1>5, <1>6
  <2> QED
    BY <1>8, <1>11, <2>1, Released DEF h2
<1>13. s[n] = st[n] /\ n \in DOMAIN s
  <2>1. n # Len(st)
    BY <1>1, <1>2
  <2> QED
    BY <1>3, <2>1 DEF s
<1>14. IsEvaluation(st[n])
  <2>1. CodeOK(h, st, Len(st)) /\ (Len(st) - 1) = n
    BY <1>1, <1>3, TopFacts
  <2> QED
    BY <1>1, <1>3, <2>1 DEF CodeOK
<1>15. l \in DOMAIN h /\ ~Dead(h2, l) /\ SameParts(h1, h2, l)
  <2>1. l \in Uses(s[n]) /\ l # Const
    BY <1>1, <1>13, <1>14 DEF Uses, IsEvaluation
  <2>2. l \in UsedBy(s)
    BY <1>13, <2>1, UsedByFacts
  <2>3. ~Dead(h2, l)
    BY <1>12, <2>2, Live
  <2>4. l \in DOMAIN h
    <3>1. Typed(h, st, <<>>)
      BY <1>1 DEF Good
    <3>2. l \in Uses(st[n])
      BY <1>13, <2>1
    <3> QED
      BY <1>3, <2>1, <3>1, <3>2, UsedTyped
  <2> QED
    BY <1>6, <1>12, <2>3, <2>4
<1>16. h2[l].refs = h[l].refs
  BY <1>6, <1>15 DEF SameParts
<1>17. Inc(GiveBack(h, f.own, v), v) = h2
  <2>1. h2 \in Seq(ObjectType(Len(h2)))
    BY <1>12, TypedFacts DEF Good
  <2>2. v \in 0 .. Len(h2)
    BY <1>5, <1>6, <1>12
  <2>3. GiveBack(h, f.own, v) = Decr(h2, v)
    BY DEF GiveBack, Inc, h1, h2
  <2> QED
    BY <2>1, <2>2, <2>3, DecrInc
<1>18. PICK k : HasNone(h2, l, k) /\ g = Release(k, h2[l].refs)
  <2>1. \E k : HasNone(Inc(GiveBack(h, f.own, v), v), l, k) /\ g = Release(k, h[l].refs)
    BY Zenon DEF Returns
  <2> QED
    BY <1>16, <1>17, <2>1
<1>19. CameTo(s, n, v, tt)
  BY <1>1, <1>9 DEF CameTo
<1>20. Good(k, tt, h2[l].refs) /\ IsEvaluation(Last(tt)) /\ Last(tt).load = Idle
  <2>1. n = Len(s) - 1 /\ n > 0 /\ l = s[n].lazy
    BY <1>1, <1>9, <1>13
  <2>2. ~IsEvaluation(Last(s)) /\ Last(s).own = <<>> /\ Last(s).load = Idle
    BY <1>9, <1>10
  <2> QED
    BY <1>12, <1>18, <1>19, <2>1, <2>2, Popped
<1>21. Last(tt).load.at # "lazy"
  BY <1>20 DEF Idle, Load
<1>22. Good(g, tt, <<>>)
  BY <1>18, <1>20, <1>21, HandReleased
<1> QED
  BY <1>20, <1>22

-----------------------------------------------------------------------------
(* Loads go on *)

\* The code on top is in a load of a field of a record, and has its place.
AtField(h, st, hand, f) ==
    /\ Good(h, st, hand) /\ st # <<>> /\ f = Last(st) /\ ~IsEvaluation(f)
    /\ f.load.at \in {"search", "place"} /\ h[f.load.src].kind = "rec" /\ FoundIn(h, f.load)

\* What a load finds in the field that it has come to.
LEMMA FieldFacts ==
    ASSUME NEW h, NEW st, NEW hand, NEW f, AtField(h, st, hand, f),
           NEW src, src = f.load.src, NEW i, i = f.load.i, NEW ids, ids = FieldIds[h[src].shape]
    PROVE  /\ src \in DOMAIN h /\ src # Const /\ SearchOK(h, f.load) /\ LoadOK(h, f)
           /\ Sighted(h, st, src) /\ i \in DOMAIN h[src].refs /\ Sighted(h, st, h[src].refs[i])
           /\ i \in DOMAIN ids /\ ids[i] = f.load.want[f.load.k] /\ h[src].refs[i] \in 0 .. Len(h)
           /\ f \in FrameType(Len(h)) /\ f.load.k \in Nat \ {0} /\ f.load.k <= Len(f.load.want)
           /\ f.load.want \in Seq(Int) /\ f.load.got \in Seq(0 .. Len(h)) /\ Len(f.load.got) = f.load.k - 1
           /\ src \in UsedBy(st)
<1>1. Good(h, st, hand) /\ st # <<>> /\ f = Last(st) /\ ~IsEvaluation(f) /\ f.load.at # "idle"
      /\ f.load.at \in {"search", "place"} /\ h[src].kind = "rec" /\ FoundIn(h, f.load)
  BY DEF AtField
<1>2. /\ f \in FrameType(Len(h)) /\ LoadOK(h, f) /\ Len(h) \in Nat /\ f = st[Len(st)] /\ Len(st) \in DOMAIN st
      /\ h \in Seq(ObjectType(Len(h))) /\ f.load \in LoadType(Len(h))
      /\ \A o \in Uses(f) \union Seen(f) : o = Const \/ o \in DOMAIN h
  <2>1. f = Last(st)
    BY <1>1
  <2> QED
    BY <1>1, <2>1, TopFacts
<1>3. src # Const /\ SearchOK(h, f.load)
  BY <1>1, <1>2 DEF LoadOK
<1>4. src \in DOMAIN h /\ Sighted(h, st, src)
  <2>1. src \in Seen(f)
    BY DEF Seen
  <2> QED
    BY <1>1, <1>2, <1>3, <2>1, SightedFacts
<1>5. i \in DOMAIN ids /\ ids[i] = f.load.want[f.load.k]
  BY <1>1 DEF FoundIn
<1>6. DOMAIN h[src].refs = DOMAIN ids
  BY <1>1, <1>4, RecordFacts
<1>7. Sighted(h, st, h[src].refs[i]) /\ h[src].refs[i] \in 0 .. Len(h)
  <2>1. Sighted(h, st, h[src].refs[i])
    BY <1>1, <1>3, <1>4, <1>5, <1>6, SightedFacts
  <2> QED
    BY <2>1 DEF Sighted
<1>8. /\ f.load.k \in Nat \ {0} /\ f.load.want \in Seq(Int) /\ f.load.got \in Seq(0 .. Len(h))
      /\ Len(f.load.want) \in Nat
  <2>1. f.load.k \in Nat \ {0} /\ f.load.want \in Seq(Int) /\ f.load.got \in Seq(0 .. Len(h))
    BY <1>2 DEF LoadType
  <2>2. Len(f.load.want) \in Nat
    BY <2>1
  <2> QED
    BY <2>1, <2>2
<1>9. f.load.k <= Len(f.load.want) /\ Len(f.load.got) = f.load.k - 1
  <2>1. /\ Len(f.load.got) = f.load.k - 1
        /\ f.load.at = "search" => f.load.k <= Len(f.load.want)
        /\ f.load.at = "place" => Len(f.load.want) = 1 /\ f.load.k = 1
    BY <1>3, Zenon DEF SearchOK
  <2>2. CASE f.load.at = "search"
    BY <2>1, <2>2
  <2>3. CASE f.load.at = "place"
    <3>1. Len(f.load.want) = 1 /\ f.load.k = 1
      BY <2>1, <2>3
    <3> QED
      BY <2>1, <3>1
  <2> QED
    BY <1>1, <2>2, <2>3
<1>10. src \in UsedBy(st)
  <2>1. src \in Uses(st[Len(st)])
    BY <1>2 DEF Uses
  <2> QED
    BY <1>2, <2>1, UsedByFacts
<1> QED
  BY <1>1, <1>2, <1>3, <1>4, <1>5, <1>6, <1>7, <1>8, <1>9, <1>10

\* The value vv of the field is one of those that are wanted.
TakesField(h, st, hand, f, vv, g, tt) ==
    /\ AtField(h, st, hand, f) /\ vv = h[f.load.src].refs[f.load.i] /\ KindIn(h, vv) # "lazy"
    /\ g = Took(f, f.load.i, vv) /\ tt = [st EXCEPT ![Len(st)] = g]

\* A load that takes a field is a load,
LEMMA TookOK ==
    ASSUME NEW h, NEW st, NEW hand, NEW f, NEW vv, NEW g, NEW tt, TakesField(h, st, hand, f, vv, g, tt)
    PROVE  /\ SearchOK(h, g.load) /\ g.load.at \in {"search", "place", "loaded"}
           /\ g.load.src = f.load.src /\ g.load.got = Append(f.load.got, vv)
<1>20. PICK src, i, k, want, got, ids :
         /\ src = f.load.src /\ i = f.load.i /\ k = f.load.k /\ want = f.load.want /\ got = f.load.got
         /\ ids = FieldIds[h[src].shape]
  OBVIOUS
<1> DEFINE at == IF k + 1 <= Len(want) THEN f.load.at ELSE "loaded"
<1>1. /\ AtField(h, st, hand, f) /\ Good(h, st, hand) /\ vv = h[src].refs[i] /\ KindIn(h, vv) # "lazy"
      /\ g = Took(f, i, vv) /\ f.load.at \in {"search", "place"} /\ h[src].kind = "rec"
  BY <1>20, Zenon DEF TakesField, AtField
<1>2. /\ src \in DOMAIN h /\ SearchOK(h, f.load) /\ i \in DOMAIN ids /\ ids[i] = want[k]
      /\ vv \in 0 .. Len(h) /\ f \in FrameType(Len(h)) /\ k \in Nat \ {0} /\ k <= Len(want)
      /\ want \in Seq(Int) /\ got \in Seq(0 .. Len(h)) /\ Len(got) = k - 1
  <2>1. /\ src \in DOMAIN h /\ SearchOK(h, f.load) /\ i \in DOMAIN ids /\ ids[i] = f.load.want[f.load.k]
        /\ h[src].refs[i] \in 0 .. Len(h) /\ f \in FrameType(Len(h)) /\ f.load.k \in Nat \ {0}
        /\ f.load.k <= Len(f.load.want) /\ f.load.want \in Seq(Int) /\ f.load.got \in Seq(0 .. Len(h))
        /\ Len(f.load.got) = f.load.k - 1
    <3>1. AtField(h, st, hand, f) /\ src = f.load.src /\ i = f.load.i /\ ids = FieldIds[h[src].shape]
      BY <1>1, <1>20, Zenon
    <3>2. src \in DOMAIN h /\ i \in DOMAIN ids /\ ids[i] = f.load.want[f.load.k]
      BY <3>1, FieldFacts
    <3>3. SearchOK(h, f.load) /\ f \in FrameType(Len(h))
      BY <3>1, FieldFacts
    <3>4. h[src].refs[i] \in 0 .. Len(h)
      BY <3>1, FieldFacts
    <3>5. f.load.k \in Nat \ {0} /\ f.load.k <= Len(f.load.want) /\ Len(f.load.got) = f.load.k - 1
      BY <3>1, FieldFacts
    <3>6. f.load.want \in Seq(Int) /\ f.load.got \in Seq(0 .. Len(h))
      BY <3>1, FieldFacts
    <3> QED
      BY <3>2, <3>3, <3>4, <3>5, <3>6, Zenon
  <2> QED
    BY <1>1, <1>20, <2>1, Zenon
<1>3. /\ ids \in Seq(Int) /\ DOMAIN ids = 1 .. Len(ids) /\ Len(ids) \in Nat /\ Increasing(ids)
      /\ ids[i] \in h[src].shape /\ PlaceOf(ids, ids[i]) = i
  <2>1. Good(h, st, hand) /\ src \in DOMAIN h /\ h[src].kind = "rec" /\ ids = FieldIds[h[src].shape] /\ i \in DOMAIN ids
    BY <1>1, <1>2, <1>20, Zenon
  <2>2. ids \in Seq(Int) /\ DOMAIN ids = 1 .. Len(ids) /\ Len(ids) \in Nat /\ Increasing(ids)
    BY <2>1, RecordFacts
  <2>3. ids[i] \in h[src].shape /\ PlaceOf(ids, ids[i]) = i
    <3>1. h[src].shape \in Shapes
      BY <2>1, RecordFacts
    <3>2. ids[i] \in h[src].shape
      BY <2>1, <3>1, FieldIdsFacts
    <3>3. PlaceOf(ids, ids[i]) = i
      BY <2>1, <3>1, FieldIdsFacts
    <3> QED
      BY <3>2, <3>3
  <2> QED
    BY <2>1, <2>2, <2>3, Zenon
<1>4. Len(h) \in Nat /\ i \in Nat /\ Len(want) \in Nat /\ DOMAIN want = 1 .. Len(want)
  <2>1. Len(h) \in Nat
    BY <1>1, TypedFacts DEF Good
  <2> QED
    BY <1>2, <1>3, <2>1
<1>5. IsLoad(g.load, f.load, at, k + 1, i + 1, Append(got, vv))
  BY <1>1, <1>2, <1>4, <1>20, FramesMade
<1>6. /\ g.load.at = at /\ g.load.src = src /\ g.load.want = want /\ g.load.k = k + 1 /\ g.load.i = i + 1
      /\ g.load.got = Append(got, vv)
  BY <1>5, <1>20, Zenon DEF IsLoad
<1>7. at \in {"search", "place", "loaded"}
  BY <1>1
<1>8. /\ Len(Append(got, vv)) = k /\ DOMAIN Append(got, vv) = 1 .. k /\ Append(got, vv)[k] = vv
      /\ \A j \in 1 .. k - 1 : Append(got, vv)[j] = got[j] /\ j \in DOMAIN got
  <2> DEFINE R == 0 .. Len(h)
  <2>1. vv \in R /\ got \in Seq(R)
    BY <1>2
  <2> HIDE DEF R
  <2> QED
    BY <1>2, <2>1
<1>9. ASSUME NEW j \in 1 .. k
      PROVE  /\ want[j] \in h[src].shape /\ PlaceOf(ids, want[j]) < i + 1
             /\ Append(got, vv)[j] = h[src].refs[PlaceOf(ids, want[j])]
             /\ KindIn(h, Append(got, vv)[j]) # "lazy"
  <2>1. CASE j = k
    <3>1. want[j] = ids[i] /\ Append(got, vv)[j] = vv /\ i < i + 1
      BY <1>2, <1>4, <1>8, <2>1
    <3> QED
      BY <1>1, <1>3, <3>1
  <2>2. CASE j # k
    <3>1. j \in 1 .. k - 1
      BY <1>2, <2>2
    <3>2. j \in DOMAIN got /\ Append(got, vv)[j] = got[j]
      BY <1>8, <3>1
    <3>3. want[j] \in h[src].shape /\ PlaceOf(ids, want[j]) < i /\ got[j] = h[src].refs[PlaceOf(ids, want[j])]
          /\ KindIn(h, got[j]) # "lazy"
      BY <1>2, <1>20, <3>2, Zenon DEF SearchOK
    <3>4. PlaceOf(ids, want[j]) \in DOMAIN ids
      <4>1. Good(h, st, hand) /\ src \in DOMAIN h /\ h[src].kind = "rec" /\ ids = FieldIds[h[src].shape]
        BY <1>1, <1>2, <1>20, Zenon
      <4> QED
        BY <3>3, <4>1, RecordFacts
    <3>5. PlaceOf(ids, want[j]) < i + 1
      BY <1>3, <1>4, <3>3, <3>4
    <3> QED
      BY <3>2, <3>3, <3>5
  <2> QED
    BY <2>1, <2>2
<1>10. ASSUME at = "search"
       PROVE  /\ want \in Wanted /\ k + 1 <= Len(want) /\ i + 1 \in 1 .. Len(ids) + 1
              /\ \A p \in DOMAIN ids : ids[p] = want[k + 1] => p >= i + 1
  <2>1. k + 1 <= Len(want) /\ f.load.at = "search"
    BY <1>10
  <2>2. want \in Wanted
    BY <1>2, <1>20, <2>1, Zenon DEF SearchOK
  <2>3. Increasing(want)
    BY <2>2, LazyRecordsAssumption
  <2>4. want[k] < want[k + 1]
    <3>1. k \in DOMAIN want /\ k + 1 \in DOMAIN want /\ k < k + 1
      BY <1>2, <1>4, <2>1
    <3> QED
      BY <2>3, <3>1 DEF Increasing
  <2>5. ASSUME NEW p \in DOMAIN ids, ids[p] = want[k + 1], ~(p >= i + 1)
        PROVE  FALSE
    <3>1. p < i \/ p = i
      BY <1>3, <1>4, <2>5
    <3>2. ids[p] < ids[i] \/ ids[p] = ids[i]
      BY <1>2, <1>3, <3>1 DEF Increasing
    <3>3. ids[p] \in Int /\ ids[i] \in Int
      BY <1>2, <1>3
    <3> QED
      BY <1>2, <2>4, <2>5, <3>2, <3>3
  <2>6. i + 1 \in 1 .. Len(ids) + 1
    BY <1>2, <1>3, <1>4
  <2> QED
    BY <2>1, <2>2, <2>5, <2>6
<1>11. at # "place"
  <2>1. f.load.at = "place" => Len(want) = 1 /\ k = 1
    BY <1>2, <1>20, Zenon DEF SearchOK
  <2>2. ASSUME f.load.at = "place"
        PROVE  ~(k + 1 <= Len(want))
    <3>1. Len(want) = 1 /\ k = 1
      BY <2>1, <2>2
    <3> QED
      BY <3>1
  <2> QED
    BY <1>1, <2>2
<1>12. at = "loaded" => k + 1 = Len(want) + 1
  <2>1. f.load.at # "loaded"
    BY <1>1
  <2>2. at = "loaded" => ~(k + 1 <= Len(want))
    BY <2>1
  <2> HIDE DEF at
  <2> QED
    BY <1>2, <1>4, <2>2
<1>13. k + 1 <= Len(want) + 1 /\ k = (k + 1) - 1
  BY <1>2, <1>4
<1> HIDE DEF at
<1>14. SearchOK(h, g.load)
  <2> DEFINE load == g.load
             o == h[load.src]
  <2>1. load.at # "lazy" /\ Len(load.got) = load.k - 1 /\ load.k <= Len(load.want) + 1
    BY <1>6, <1>7, <1>8, <1>13
  <2>6. FieldIds[o.shape] = ids
    BY <1>6, <1>20
  <2>2. \A j \in DOMAIN load.got :
              /\ load.want[j] \in o.shape
              /\ PlaceOf(FieldIds[o.shape], load.want[j]) < load.i
              /\ load.got[j] = o.refs[PlaceOf(FieldIds[o.shape], load.want[j])]
              /\ KindIn(h, load.got[j]) # "lazy"
    BY <1>6, <1>8, <1>9, <2>6
  <2>3. load.at = "search" =>
              /\ load.want \in Wanted /\ load.k <= Len(load.want)
              /\ load.i \in 1 .. Len(FieldIds[o.shape]) + 1
              /\ \A p \in DOMAIN FieldIds[o.shape] : FieldIds[o.shape][p] = load.want[load.k] => p >= load.i
    BY <1>6, <1>10, <2>6
  <2>4. load.at # "place" /\ load.at # "failed" /\ (load.at = "loaded" => load.k = Len(load.want) + 1)
    BY <1>6, <1>7, <1>11, <1>12
  <2> HIDE DEF load
  <2>5. SearchOK(h, load)
    BY <2>1, <2>2, <2>3, <2>4 DEF SearchOK
  <2> QED
    BY <2>5 DEF load
<1> QED
  BY <1>6, <1>7, <1>14, <1>20

\* and its frame can take the place of the old one.
LEMMA FieldTaken ==
    ASSUME NEW h, NEW st, NEW hand, NEW f, NEW vv, NEW g, NEW tt, TakesField(h, st, hand, f, vv, g, tt)
    PROVE  /\ Good(h, tt, hand) /\ tt # <<>> /\ Len(tt) = Len(st) /\ Last(tt) = g /\ ~IsEvaluation(g)
           /\ g.load.src = f.load.src
<1>1. /\ AtField(h, st, hand, f) /\ vv = h[f.load.src].refs[f.load.i] /\ g = Took(f, f.load.i, vv)
      /\ tt = [st EXCEPT ![Len(st)] = g]
  BY Zenon DEF TakesField
<1>2. /\ Good(h, st, hand) /\ st # <<>> /\ f = Last(st) /\ ~IsEvaluation(f) /\ h[f.load.src].kind = "rec"
      /\ f.load.at # "lazy" /\ f.load.at # "idle"
  BY <1>1 DEF AtField
<1>3. SearchOK(h, g.load) /\ g.load.at \in {"search", "place", "loaded"} /\ g.load.src = f.load.src
  BY TookOK
<1>14. g.load.got = Append(f.load.got, vv)
  BY TookOK
<1>4. f.load.src # Const /\ LoadOK(h, f) /\ Sighted(h, st, f.load.src) /\ Sighted(h, st, vv) /\ vv \in 0 .. Len(h)
  <2>1. f.load.src # Const /\ LoadOK(h, f) /\ Sighted(h, st, f.load.src)
    BY <1>1, FieldFacts
  <2>2. Sighted(h, st, h[f.load.src].refs[f.load.i])
    BY <1>1, FieldFacts
  <2>3. vv \in 0 .. Len(h)
    BY <1>1, <2>2 DEF Sighted
  <2> QED
    BY <1>1, <2>1, <2>2, <2>3
<1>5. f \in FrameType(Len(h)) /\ f.load.got \in Seq(0 .. Len(h))
  BY <1>1, FieldFacts
<1>6. /\ hand \in Seq(0 .. Len(h)) /\ Len(h) \in Nat /\ f.load.i \in Nat
  <2>1. hand \in Seq(0 .. Len(h)) /\ Len(h) \in Nat
    BY <1>2, TypedFacts DEF Good
  <2>2. f.load \in LoadType(Len(h))
    BY <1>5, FrameTypeIs DEF FrameSet
  <2>3. f.load.i \in Nat
    BY <2>2 DEF LoadType
  <2> QED
    BY <2>1, <2>3
<1>7. g \in FrameType(Len(h)) /\ IsFrame(g, f, f.own, f.left, g.load)
  BY <1>1, <1>4, <1>5, <1>6, FramesMade
<1>8. g.lazy = f.lazy /\ g.fun = f.fun /\ g.own = f.own
  BY <1>7 DEF IsFrame
<1>9. LoadOK(h, g)
  <2>1. f.load.src \in Range(f.own) \union CapturedIn(h, f)
    BY <1>2, <1>4 DEF LoadOK
  <2>2. CapturedIn(h, g) = CapturedIn(h, f)
    BY <1>8 DEF CapturedIn
  <2>3. g.load.at # "idle" /\ g.load.at # "lazy"
    BY <1>3
  <2> QED
    BY <1>2, <1>3, <1>4, <1>8, <2>1, <2>2, <2>3 DEF LoadOK
<1>10. \A o \in DOMAIN h : Occurs(g.own, o) + Occurs(hand, o) = Occurs(f.own, o) + Occurs(hand, o)
  BY <1>8
<1>11. Range(g.load.got) = Range(f.load.got) \union {vv}
  <2>1. Append(f.load.got, vv) = f.load.got \o <<vv>> /\ <<vv>> \in Seq(0 .. Len(h)) /\ Range(<<vv>>) = {vv}
    <3>1. \A S : \A s \in Seq(S) : \A x \in S : Append(s, x) = s \o <<x>> /\ <<x>> \in Seq(S)
      OBVIOUS
    <3>2. Range(<<vv>>) = {vv}
      BY DEF Range
    <3> QED
      BY <1>4, <1>5, <3>1, <3>2
  <2> DEFINE S == 0 .. Len(h)
             s == f.load.got
             t == <<vv>>
  <2>3. s \in Seq(S) /\ t \in Seq(S)
    BY <1>5, <2>1
  <2> HIDE DEF S, s, t
  <2>2. Range(s \o t) = Range(s) \union Range(t)
    BY <2>3, RangeConcatenation
  <2> QED
    BY <1>14, <2>1, <2>2 DEF s, t
<1>12. \A o \in Range(hand) \union Range(g.own) \union {g.load.src} \union Range(g.load.got) :
          o \in Range(hand) \/ Sighted(h, st, o)
  <2>1. \A o \in Range(f.own) \union Range(f.load.got) : Sighted(h, st, o)
    BY <1>2, SightedFacts DEF Seen
  <2> QED
    BY <1>3, <1>4, <1>8, <1>11, <2>1
<1>13. CodeMoves(h, st, hand, f, g, hand, tt)
  BY <1>1, <1>2, <1>6, <1>7, <1>8, <1>9, <1>10, <1>12, Zenon DEF CodeMoves
<1>15. Good(h, tt, hand) /\ tt # <<>>
  BY <1>13, CodeMoved
<1>16. Len(tt) = Len(st) /\ Last(tt) = g /\ ~IsEvaluation(g)
  BY <1>13, CodeMoved
<1> QED
  BY <1>3, <1>15, <1>16

\* A search comes to place i, that has what it wants next.
Comes(h, st, f, i, g, tt) ==
    /\ Good(h, st, <<>>) /\ st # <<>> /\ f = Last(st) /\ ~IsEvaluation(f) /\ f.load.at = "search"
    /\ h[f.load.src].kind = "rec" /\ i \in DOMAIN FieldIds[h[f.load.src].shape] /\ f.load.i <= i
    /\ FieldIds[h[f.load.src].shape][i] = f.load.want[f.load.k]
    /\ g = [f EXCEPT !.load.i = i] /\ tt = [st EXCEPT ![Len(st)] = g]

\* A search that comes to its field.
LEMMA CameToField ==
    ASSUME NEW h, NEW st, NEW f, NEW i, NEW g, NEW tt, Comes(h, st, f, i, g, tt)
    PROVE  AtField(h, tt, <<>>, g) /\ Len(tt) = Len(st) /\ g.load.src = f.load.src
<1>20. PICK src, ids : src = f.load.src /\ ids = FieldIds[h[src].shape]
  OBVIOUS
<1>1. /\ Good(h, st, <<>>) /\ st # <<>> /\ f = Last(st) /\ ~IsEvaluation(f) /\ f.load.at = "search"
      /\ h[src].kind = "rec" /\ i \in DOMAIN ids /\ f.load.i <= i /\ ids[i] = f.load.want[f.load.k]
      /\ g = [f EXCEPT !.load.i = i] /\ tt = [st EXCEPT ![Len(st)] = g]
  BY <1>20, Zenon DEF Comes
<1>2. /\ f \in FrameType(Len(h)) /\ LoadOK(h, f) /\ Len(h) \in Nat /\ <<>> \in Seq(0 .. Len(h))
      /\ f.load \in LoadType(Len(h)) /\ \A o \in Seen(f) : o = Const \/ o \in DOMAIN h
  <2>1. f \in FrameType(Len(h)) /\ LoadOK(h, f) /\ Len(h) \in Nat
    BY <1>1, TopFacts
  <2>2. f.load \in LoadType(Len(h)) /\ \A o \in Seen(f) : o = Const \/ o \in DOMAIN h
    BY <1>1, TopFacts
  <2> QED
    BY <2>1, <2>2
<1>3. src # Const /\ SearchOK(h, f.load) /\ src \in Range(f.own) \union CapturedIn(h, f) /\ src \in DOMAIN h
  <2>1. f.load.at # "idle" /\ f.load.at # "lazy"
    BY <1>1
  <2>2. src # Const /\ SearchOK(h, f.load) /\ src \in Range(f.own) \union CapturedIn(h, f)
    BY <1>1, <1>2, <1>20, <2>1 DEF LoadOK
  <2>3. src \in Seen(f)
    BY <1>20 DEF Seen
  <2> QED
    BY <1>2, <2>2, <2>3
<1>4. ids \in Seq(Int) /\ DOMAIN ids = 1 .. Len(ids) /\ Len(ids) \in Nat /\ Increasing(ids)
  <2>1. Good(h, st, <<>>) /\ src \in DOMAIN h /\ h[src].kind = "rec" /\ ids = FieldIds[h[src].shape]
    BY <1>1, <1>3, <1>20, Zenon
  <2> QED
    BY <2>1, RecordFacts
<1>5. i \in Nat /\ f.load.i \in Nat
  BY <1>1, <1>2, <1>4 DEF LoadType
<1>6. /\ g \in FrameType(Len(h)) /\ IsFrame(g, f, f.own, f.left, g.load)
      /\ IsLoad(g.load, f.load, "search", f.load.k, i, f.load.got)
  BY <1>1, <1>2, <1>5, FramesMade
<1>7. /\ g.lazy = f.lazy /\ g.fun = f.fun /\ g.own = f.own /\ g.load.at = "search" /\ g.load.src = src
      /\ g.load.want = f.load.want /\ g.load.k = f.load.k /\ g.load.i = i /\ g.load.got = f.load.got
  BY <1>6, <1>20, Zenon DEF IsLoad, IsFrame
<1>8. SearchOK(h, g.load)
  <2>1. /\ Len(f.load.got) = f.load.k - 1 /\ f.load.k <= Len(f.load.want) + 1
        /\ f.load.want \in Wanted /\ f.load.k <= Len(f.load.want)
    BY <1>1, <1>3, Zenon DEF SearchOK
  <2>2. ASSUME NEW j \in DOMAIN f.load.got
        PROVE  /\ f.load.want[j] \in h[src].shape
               /\ PlaceOf(ids, f.load.want[j]) < i
               /\ f.load.got[j] = h[src].refs[PlaceOf(ids, f.load.want[j])]
               /\ KindIn(h, f.load.got[j]) # "lazy"
    <3>1. /\ f.load.want[j] \in h[src].shape
          /\ PlaceOf(ids, f.load.want[j]) < f.load.i
          /\ f.load.got[j] = h[src].refs[PlaceOf(ids, f.load.want[j])]
          /\ KindIn(h, f.load.got[j]) # "lazy"
      BY <1>3, <1>20, Zenon DEF SearchOK
    <3>2. PlaceOf(ids, f.load.want[j]) \in DOMAIN ids
      <4>1. Good(h, st, <<>>) /\ src \in DOMAIN h /\ h[src].kind = "rec" /\ ids = FieldIds[h[src].shape]
        BY <1>1, <1>3, <1>20, Zenon
      <4> QED
        BY <3>1, <4>1, RecordFacts
    <3>3. PlaceOf(ids, f.load.want[j]) < i
      BY <1>1, <1>4, <1>5, <3>1, <3>2
    <3> QED
      BY <3>1, <3>3
  <2>3. i \in 1 .. Len(ids) + 1
    BY <1>1, <1>4
  <2>4. ASSUME NEW p \in DOMAIN ids, ids[p] = f.load.want[f.load.k]
        PROVE  p >= i
    <3>1. ids[p] = ids[i] /\ ids[p] \in Int
      BY <1>1, <1>4, <2>4
    <3>2. p < i => ids[p] < ids[i]
      BY <1>1, <1>4 DEF Increasing
    <3>3. ~(p < i)
      BY <3>1, <3>2
    <3> QED
      BY <1>4, <1>5, <3>3
  <2> DEFINE load == g.load
  <2>5. FieldIds[h[load.src].shape] = ids /\ h[load.src] = h[src]
    BY <1>7, <1>20
  <2>6. /\ load.at = "search" /\ Len(load.got) = load.k - 1 /\ load.k <= Len(load.want) + 1
        /\ load.want \in Wanted /\ load.k <= Len(load.want)
    BY <1>7, <2>1
  <2>7. \A j \in DOMAIN load.got :
              /\ load.want[j] \in h[load.src].shape
              /\ PlaceOf(ids, load.want[j]) < load.i
              /\ load.got[j] = h[load.src].refs[PlaceOf(ids, load.want[j])]
              /\ KindIn(h, load.got[j]) # "lazy"
    BY <1>7, <2>2, <2>5
  <2>8. load.i \in 1 .. Len(ids) + 1 /\ \A p \in DOMAIN ids : ids[p] = load.want[load.k] => p >= load.i
    BY <1>7, <2>3, <2>4
  <2> HIDE DEF load
  <2>9. SearchOK(h, load)
    BY <2>5, <2>6, <2>7, <2>8 DEF SearchOK
  <2> QED
    BY <2>9 DEF load
<1>9. LoadOK(h, g)
  <2>1. CapturedIn(h, g) = CapturedIn(h, f)
    BY <1>7 DEF CapturedIn
  <2> QED
    BY <1>1, <1>3, <1>7, <1>8, <2>1 DEF LoadOK
<1>10. \A o \in DOMAIN h : Occurs(g.own, o) + Occurs(<<>>, o) = Occurs(f.own, o) + Occurs(<<>>, o)
  BY <1>7
<1>11. \A o \in Range(<<>>) \union Range(g.own) \union {g.load.src} \union Range(g.load.got) :
          o \in Range(<<>>) \/ Sighted(h, st, o)
  <2>1. \A o \in Range(f.own) \union Range(f.load.got) \union {src} : Sighted(h, st, o)
    BY <1>1, <1>20, SightedFacts DEF Seen
  <2>2. Range(<<>>) = {}
    BY DEF Range
  <2> QED
    BY <1>7, <2>1, <2>2
<1>12. f.load.at # "lazy"
  BY <1>1
<1>13. CodeMoves(h, st, <<>>, f, g, <<>>, tt)
  BY <1>1, <1>2, <1>6, <1>7, <1>9, <1>10, <1>11, <1>12, Zenon DEF CodeMoves
<1>14. Good(h, tt, <<>>) /\ tt # <<>> /\ Len(tt) = Len(st)
  BY <1>13, CodeMoved
<1>15. Last(tt) = g /\ ~IsEvaluation(g)
  BY <1>13, CodeMoved
<1>16. FoundIn(h, g.load)
  BY <1>1, <1>7, <1>20 DEF FoundIn
<1> QED
  BY <1>1, <1>7, <1>14, <1>15, <1>16, <1>20 DEF AtField

\* A load of a known place is at it from the start.
LEMMA AtPlace ==
    ASSUME NEW h, NEW st, Good(h, st, <<>>), st # <<>>, NEW f, f = Last(st), ~IsEvaluation(f),
           f.load.at = "place"
    PROVE  AtField(h, st, <<>>, f)
<1>1. LoadOK(h, f)
  BY TopFacts
<1>2. h[f.load.src].kind = "rec" /\ SearchOK(h, f.load)
  BY <1>1 DEF LoadOK
<1>3. FoundIn(h, f.load)
  BY <1>2, Zenon DEF SearchOK
<1> QED
  BY <1>2, <1>3 DEF AtField

-----------------------------------------------------------------------------
(* The value of a lazy value goes to a field *)

\* A field is written behind a release, as the model has it, or before it.
LateWrite(h, k, p, i, vv, os) ==
    /\ h \in Seq(ObjectType(Len(h))) /\ IsWritten(h, p, i, vv, k) /\ k \in Seq(ObjectType(Len(k)))
    /\ p \in DOMAIN h /\ IsFiniteSet(DOMAIN os) /\ p \notin Deleted(k, os) /\ ~Dead(h, p)

\* The field is written behind the release in the code, which is the same as
\* before it.
LEMMA WrittenLate ==
    ASSUME NEW h, NEW k, NEW p, NEW i, NEW vv, NEW os, LateWrite(h, k, p, i, vv, os)
    PROVE  IsWritten(Release(h, os), p, i, vv, Release(k, os))
<1> DEFINE R == Seq(0 .. Len(h))
           T == RecordType(R)
           D == Deleted(h, os)
           now == [h[p].refs EXCEPT ![i] = vv]
           U(o) == GivenUp(h, os, D, o)
<1>1. /\ h \in Seq(ObjectType(Len(h))) /\ IsWritten(h, p, i, vv, k) /\ k \in Seq(ObjectType(Len(k)))
      /\ p \in DOMAIN h /\ IsFiniteSet(DOMAIN os) /\ p \notin Deleted(k, os) /\ ~Dead(h, p)
  BY Zenon DEF LateWrite
<1>2. Countable(h) /\ Countable(k) /\ DOMAIN h = 1 .. Len(h) /\ Len(h) \in Nat
      /\ \A o \in DOMAIN h : h[o] \in T
  <2>1. \A o \in DOMAIN h : h[o] \in ObjectType(Len(h))
    BY <1>1, HeapFacts
  <2> QED
    BY <1>1, <2>1, HeapFacts, ObjectTypeIs
<1>3. k = [h EXCEPT ![p] = [h[p] EXCEPT !.refs = now]]
  BY <1>1 DEF IsWritten
<1> HIDE DEF R, now, T
<1>4. \A x \in T : /\ [x EXCEPT !.refs = now].rc = x.rc /\ [x EXCEPT !.refs = now].kind = x.kind
                   /\ [x EXCEPT !.refs = now].refs = now
  BY DEF T, RecordType
<1>5. /\ DOMAIN k = DOMAIN h /\ k[p] = [h[p] EXCEPT !.refs = now] /\ \A o \in DOMAIN h \ {p} : k[o] = h[o]
      /\ \A o \in DOMAIN h : k[o].rc = h[o].rc /\ k[o].kind = h[o].kind
  BY <1>1, <1>2, <1>3, <1>4
<1>6. /\ Deleted(k, os) = D /\ \A o : GivenUp(k, os, Deleted(k, os), o) = U(o)
  <2>1. \A o \in DOMAIN h \ {p} : k[o].refs = h[o].refs
    BY <1>5
  <2> QED
    BY <1>1, <1>2, <1>5, <2>1, WriteCommutes
<1> HIDE DEF D, U
<1>7. p \notin D /\ ~Dead(k, p) /\ \A o \in DOMAIN h : Dead(k, o) = Dead(h, o)
  BY <1>1, <1>5, <1>6 DEF Dead
<1>8. Release(k, os) = [o \in DOMAIN h |->
            IF o \in D THEN [k[o] EXCEPT !.rc = 0, !.kind = "freed", !.refs = <<>>]
            ELSE IF Dead(h, o) THEN k[o]
            ELSE [k[o] EXCEPT !.rc = @ - U(o)]]
  BY <1>5, <1>6, <1>7 DEF Release
<1>9. Release(h, os) = [o \in DOMAIN h |->
            IF o \in D THEN [h[o] EXCEPT !.rc = 0, !.kind = "freed", !.refs = <<>>]
            ELSE IF Dead(h, o) THEN h[o]
            ELSE [h[o] EXCEPT !.rc = @ - U(o)]]
  BY DEF Release, D, U
<1>10. \A x \in T : \A r : [[x EXCEPT !.refs = now] EXCEPT !.rc = r] = [[x EXCEPT !.rc = r] EXCEPT !.refs = now]
  BY DEF T, RecordType
<1>11. \A x \in T : \A r : [x EXCEPT !.rc = r].refs = x.refs
  BY DEF T, RecordType
<1>16. /\ Release(k, os)[p] = [k[p] EXCEPT !.rc = k[p].rc - U(p)]
       /\ \A o \in DOMAIN h \ {p} : Release(k, os)[o] =
            IF o \in D THEN [k[o] EXCEPT !.rc = 0, !.kind = "freed", !.refs = <<>>]
            ELSE IF Dead(h, o) THEN k[o]
            ELSE [k[o] EXCEPT !.rc = k[o].rc - U(o)]
  <2> DEFINE a == Release(k, os)
  <2>1. \A o \in DOMAIN h : a[o] =
            IF o \in D THEN [k[o] EXCEPT !.rc = 0, !.kind = "freed", !.refs = <<>>]
            ELSE IF Dead(h, o) THEN k[o]
            ELSE [k[o] EXCEPT !.rc = k[o].rc - U(o)]
    BY <1>8, Zenon
  <2> HIDE DEF a
  <2>2. a[p] = [k[p] EXCEPT !.rc = k[p].rc - U(p)]
    BY <1>1, <1>7, <2>1, Zenon
  <2> QED
    BY <2>1, <2>2, Zenon DEF a
<1>17. /\ Release(h, os)[p] = [h[p] EXCEPT !.rc = h[p].rc - U(p)]
       /\ \A o \in DOMAIN h \ {p} : Release(h, os)[o] =
            IF o \in D THEN [h[o] EXCEPT !.rc = 0, !.kind = "freed", !.refs = <<>>]
            ELSE IF Dead(h, o) THEN h[o]
            ELSE [h[o] EXCEPT !.rc = h[o].rc - U(o)]
  <2> DEFINE a == Release(h, os)
  <2>1. \A o \in DOMAIN h : a[o] =
            IF o \in D THEN [h[o] EXCEPT !.rc = 0, !.kind = "freed", !.refs = <<>>]
            ELSE IF Dead(h, o) THEN h[o]
            ELSE [h[o] EXCEPT !.rc = h[o].rc - U(o)]
    BY <1>9, Zenon
  <2> HIDE DEF a
  <2>2. a[p] = [h[p] EXCEPT !.rc = h[p].rc - U(p)]
    BY <1>1, <1>7, <2>1, Zenon
  <2> QED
    BY <2>1, <2>2, Zenon DEF a
<1>12. Release(h, os)[p].refs = h[p].refs
  <2> DEFINE r == h[p].rc - U(p)
             b == Release(h, os)
  <2>1. b[p] = [h[p] EXCEPT !.rc = r] /\ h[p] \in T
    BY <1>1, <1>2, <1>17
  <2> HIDE DEF r, b
  <2>2. b[p].refs = h[p].refs
    BY <1>11, <2>1
  <2> QED
    BY <2>2 DEF b
<1>13. Release(k, os)[p] = [Release(h, os)[p] EXCEPT !.refs = now]
  <2> DEFINE x == h[p]
             y == [x EXCEPT !.refs = now]
             r == x.rc - U(p)
  <2>1. k[p] = y /\ k[p].rc = x.rc /\ x \in T
    BY <1>1, <1>2, <1>5
  <2>2. Release(k, os)[p] = [y EXCEPT !.rc = r]
    BY <1>16, <2>1
  <2>3. Release(h, os)[p] = [x EXCEPT !.rc = r]
    BY <1>17
  <2>4. [y EXCEPT !.rc = r] = [[x EXCEPT !.rc = r] EXCEPT !.refs = now]
    BY <1>10, <2>1
  <2> HIDE DEF r, x, y
  <2> QED
    BY <2>2, <2>3, <2>4
<1>14. \A o \in DOMAIN h \ {p} : Release(k, os)[o] = Release(h, os)[o]
  <2> DEFINE a == Release(k, os)
             b == Release(h, os)
  <2>1. \A o \in DOMAIN h \ {p} : a[o] =
            IF o \in D THEN [k[o] EXCEPT !.rc = 0, !.kind = "freed", !.refs = <<>>]
            ELSE IF Dead(h, o) THEN k[o]
            ELSE [k[o] EXCEPT !.rc = k[o].rc - U(o)]
    BY <1>16, Zenon
  <2>2. \A o \in DOMAIN h \ {p} : b[o] =
            IF o \in D THEN [h[o] EXCEPT !.rc = 0, !.kind = "freed", !.refs = <<>>]
            ELSE IF Dead(h, o) THEN h[o]
            ELSE [h[o] EXCEPT !.rc = h[o].rc - U(o)]
    BY <1>17, Zenon
  <2> HIDE DEF a, b
  <2>3. ASSUME NEW o \in DOMAIN h \ {p}
        PROVE  a[o] = b[o]
    <3>1. k[o] = h[o]
      BY <1>5
    <3>2. CASE o \in D
      BY <2>1, <2>2, <3>1, <3>2, Zenon
    <3>3. CASE o \notin D /\ Dead(h, o)
      BY <2>1, <2>2, <3>1, <3>3, Zenon
    <3>4. CASE o \notin D /\ ~Dead(h, o)
      BY <2>1, <2>2, <3>1, <3>4, Zenon
    <3> QED
      BY <3>2, <3>3, <3>4
  <2> QED
    BY <2>3 DEF a, b
<1>15. Release(k, os) = [Release(h, os) EXCEPT ![p] = [Release(h, os)[p] EXCEPT !.refs = now]]
  <2> DEFINE a == Release(k, os)
             b == Release(h, os)
             c == [b[p] EXCEPT !.refs = now]
  <2>1. a = [o \in DOMAIN h |-> a[o]] /\ b = [o \in DOMAIN h |-> b[o]]
    BY <1>8, <1>9
  <2>2. a[p] = c /\ \A o \in DOMAIN h \ {p} : a[o] = b[o]
    BY <1>13, <1>14
  <2> HIDE DEF a, b, c
  <2>3. a = [b EXCEPT ![p] = c]
    BY <1>1, <2>1, <2>2
  <2> QED
    BY <2>3 DEF a, b, c
<1> QED
  BY <1>12, <1>15 DEF IsWritten, now

\* The value vv of the lazy value v, that is in the field, is there.
Delivers(h, st, f, src, i, v, vv, g, tt) ==
    /\ AtField(h, st, <<>>, f) /\ src = f.load.src /\ i = f.load.i
    /\ v = h[src].refs[i] /\ v # Const /\ h[v].kind = "lazy" /\ h[v].ready /\ vv = h[v].refs[1]
    /\ IsWritten(Release(Inc(h, vv), <<v>>), src, i, vv, g)
    /\ tt = [st EXCEPT ![Len(st)] = Took(f, i, vv)]

\* No other load is in that field, nor has it behind it.
LEMMA NobodyElse ==
    ASSUME NEW h, NEW st, NEW f, NEW src, NEW i, NEW v, NEW vv, NEW g, NEW tt,
           Delivers(h, st, f, src, i, v, vv, g, tt),
           NEW d \in DOMAIN st, st[d].load.src = src
    PROVE  /\ \A j \in DOMAIN st[d].load.got :
                PlaceOf(FieldIds[h[src].shape], st[d].load.want[j]) \in DOMAIN h[src].refs \ {i}
           /\ d < Len(st) => st[d].load.i # i
<1>1. /\ AtField(h, st, <<>>, f) /\ src = f.load.src /\ i = f.load.i /\ v = h[src].refs[i] /\ v # Const
      /\ h[v].kind = "lazy" /\ h[v].ready
  BY Zenon DEF Delivers
<1>2. Good(h, st, <<>>) /\ h[src].kind = "rec"
  BY <1>1, Zenon DEF AtField
<1>3. src \in DOMAIN h /\ src # Const
  <2>1. AtField(h, st, <<>>, f) /\ src = f.load.src
    BY <1>1
  <2>2. f.load.src \in DOMAIN h /\ f.load.src # Const
    BY <2>1, FieldFacts
  <2> QED
    BY <2>1, <2>2
<1>4. DOMAIN st = 1 .. Len(st) /\ Len(st) \in Nat /\ \A e \in DOMAIN st : FrameOK(h, st, e)
  BY <1>2, TypedFacts DEF Good
<1>5. ASSUME NEW j \in DOMAIN st[d].load.got
      PROVE  PlaceOf(FieldIds[h[src].shape], st[d].load.want[j]) \in DOMAIN h[src].refs \ {i}
  <2>1. PICK x : x = PlaceOf(FieldIds[h[src].shape], st[d].load.want[j])
    OBVIOUS
  <2>2. x \in DOMAIN h[src].refs /\ st[d].load.got[j] = h[src].refs[x] /\ KindIn(h, st[d].load.got[j]) # "lazy"
    BY <1>2, <1>3, <2>1, GotPlaces
  <2>3. KindIn(h, v) = "lazy"
    BY <1>1 DEF KindIn
  <2>4. x # i
    BY <1>1, <2>2, <2>3
  <2> QED
    BY <2>1, <2>2, <2>4
<1>6. ASSUME d < Len(st), st[d].load.i = i
      PROVE  FALSE
  <2>1. d + 1 \in DOMAIN st /\ (d + 1) - 1 = d
    BY <1>4, <1>6
  <2>2. ~IsEvaluation(st[d])
    <3>1. IsEvaluation(st[d]) => st[d].load = Idle
      BY <1>4 DEF FrameOK, EvaluationOK
    <3>2. Idle.src = Const
      BY DEF Idle, Load
    <3> QED
      BY <1>3, <3>1, <3>2
  <2>3. IsEvaluation(st[d + 1])
    BY <1>4, <1>6, <2>2 DEF FrameOK, CodeOK
  <2>4. PICK l : l = st[d + 1].lazy
    OBVIOUS
  <2>5. EvaluationOK(h, st, d + 1)
    BY <1>4, <2>1, <2>3 DEF FrameOK
  <2>6. Expects(h, st[d], l) /\ ~h[l].ready
    BY <2>1, <2>4, <2>5 DEF EvaluationOK
  <2>7. CASE st[d].load.at = "lazy"
    <3>1. LoadOK(h, st[d])
      BY <1>4, <2>2 DEF FrameOK, CodeOK
    <3>2. h[st[d].load.src].kind = "lazy"
      BY <2>7, <3>1 DEF LoadOK
    <3> QED
      BY <1>2, <3>2
  <2>8. CASE st[d].load.at # "lazy"
    <3>1. h[st[d].load.src].refs[st[d].load.i] = l
      BY <2>2, <2>6, <2>8 DEF Expects
    <3>2. l = v
      BY <1>1, <1>6, <3>1
    <3> QED
      BY <1>1, <2>6, <3>2
  <2> QED
    BY <2>7, <2>8
<1> QED
  BY <1>5, <1>6

\* Two intervals that are the same end the same.
LEMMA SameLength ==
    ASSUME NEW m \in Nat, NEW n \in Nat, 1 .. m = 1 .. n
    PROVE  m = n
<1>1. \A x : x \in 1 .. m <=> x \in 1 .. n
  OBVIOUS
<1>2. m \in 1 .. m \/ m = 0
  OBVIOUS
<1>3. n \in 1 .. n \/ n = 0
  OBVIOUS
<1>4. m <= n
  BY <1>1, <1>2
<1>5. n <= m
  BY <1>1, <1>3
<1> QED
  BY <1>4, <1>5

\* The value of the lazy value is in the field, and in the hands of the load.
LEMMA DeliveredField ==
    ASSUME NEW h, NEW st, NEW f, NEW src, NEW i, NEW v, NEW vv, NEW g, NEW tt,
           Delivers(h, st, f, src, i, v, vv, g, tt)
    PROVE  /\ Good(g, tt, <<>>) /\ tt # <<>> /\ Last(tt) = Took(f, i, vv) /\ ~IsEvaluation(Last(tt))
           /\ Last(tt).load.src = src /\ g[src].shape = h[src].shape
<1> DEFINE h1 == IncAll(h, <<vv>>)
           k == [h1 EXCEPT ![src].refs[i] = vv]
           c == Took(f, i, vv)
<1>1. /\ AtField(h, st, <<>>, f) /\ src = f.load.src /\ i = f.load.i /\ v = h[src].refs[i] /\ v # Const
      /\ h[v].kind = "lazy" /\ h[v].ready /\ vv = h[v].refs[1]
      /\ IsWritten(Release(h1, <<v>>), src, i, vv, g) /\ tt = [st EXCEPT ![Len(st)] = c]
  BY Zenon DEF Delivers, Inc, h1, c
<1>2. Good(h, st, <<>>) /\ st # <<>> /\ f = Last(st) /\ ~IsEvaluation(f) /\ h[src].kind = "rec"
  BY <1>1, Zenon DEF AtField
<1>3. src \in DOMAIN h /\ Sighted(h, st, src) /\ i \in DOMAIN h[src].refs /\ Sighted(h, st, v) /\ src # Const
  <2>1. AtField(h, st, <<>>, f) /\ src = f.load.src /\ i = f.load.i
    BY <1>1
  <2>2. f.load.src \in DOMAIN h /\ Sighted(h, st, f.load.src) /\ f.load.src # Const
    BY <2>1, FieldFacts
  <2>3. f.load.i \in DOMAIN h[f.load.src].refs /\ Sighted(h, st, h[f.load.src].refs[f.load.i])
    BY <2>1, FieldFacts
  <2> QED
    BY <1>1, <2>1, <2>2, <2>3
<1>4. /\ v \in DOMAIN h /\ 1 \in DOMAIN h[v].refs /\ KindIn(h, vv) # "lazy" /\ v \in 0 .. Len(h)
      /\ Len(h) \in Nat /\ h \in Seq(ObjectType(Len(h))) /\ DOMAIN h = 1 .. Len(h)
  <2>1. Len(h) \in Nat /\ h \in Seq(ObjectType(Len(h))) /\ DOMAIN h = 1 .. Len(h)
    BY <1>2, TypedFacts DEF Good
  <2>2. v \in DOMAIN h
    BY <1>1, <1>2, <1>3, SightedFacts
  <2>3. ObjectOK(h, st, v)
    BY <1>2, <2>2 DEF Good
  <2>4. Len(h[v].refs) = 1 /\ KindIn(h, h[v].refs[1]) # "lazy"
    BY <1>1, <2>3 DEF ObjectOK
  <2>5. DOMAIN h[v].refs = 1 .. Len(h[v].refs)
    BY <2>1, <2>2, HeapFacts
  <2>6. 1 \in DOMAIN h[v].refs
    BY <2>4, <2>5
  <2>7. KindIn(h, vv) # "lazy"
    BY <1>1, <2>4
  <2>8. v \in 0 .. Len(h)
    BY <2>1, <2>2
  <2> QED
    BY <2>1, <2>2, <2>6, <2>7, <2>8
<1>5. Sighted(h, st, vv) /\ vv \in 0 .. Len(h)
  <2>1. Sighted(h, st, vv)
    BY <1>1, <1>2, <1>3, <1>4, SightedFacts
  <2> QED
    BY <2>1 DEF Sighted
<1> HIDE DEF h1, c
<1>6. /\ Good(h1, st, <<vv>>) /\ Len(h1) = Len(h) /\ DOMAIN h1 = DOMAIN h /\ h1 \in Seq(ObjectType(Len(h1)))
      /\ \A o \in DOMAIN h : SameParts(h, h1, o)
      /\ \A o : Sighted(h, st, o) => Sighted(h1, st, o)
  <2>1. <<vv>> \in Seq(0 .. Len(h)) /\ \A m \in DOMAIN <<vv>> : <<vv>>[m] = vv
    BY <1>5
  <2>2. Takes(h, st, <<>>, <<vv>>, h1)
    BY <1>2, <1>5, <2>1 DEF Takes, h1
  <2>3. <<>> \o <<vv>> = <<vv>>
    BY <1>4, <1>5
  <2> QED
    BY <2>2, <2>3, TakenSighted
<1>7. /\ h1[src].kind = "rec" /\ h1[src].refs = h[src].refs /\ h1[src].shape = h[src].shape
  BY <1>2, <1>3, <1>6 DEF SameParts
<1>8. Apart(h1, st, {vv, src})
  <2>1. Sighted(h1, st, vv) /\ Sighted(h1, st, src)
    BY <1>3, <1>5, <1>6
  <2> QED
    BY <1>2, <1>6, <2>1, ApartSighted
<1>9. PICK W : W \in SUBSET DOMAIN h1 /\ Upward(h1, W) /\ src \in W /\ vv \notin W
  <2>1. PICK U : Above(h, src, U)
    BY <1>2, <1>3 DEF Good, Acyclic
  <2>2. U \in SUBSET DOMAIN h /\ src \in U /\ Upward(h, U) /\ Range(h[src].refs) \intersect U = {}
    BY <2>1 DEF Above
  <2>3. v \notin U
    BY <1>1, <1>3, <2>2 DEF Range
  <2>4. vv \notin U
    BY <1>1, <1>4, <2>2, <2>3 DEF Upward
  <2>5. Upward(h1, U)
    BY <1>6, <2>2 DEF Upward, SameParts
  <2> QED
    BY <1>6, <2>2, <2>4, <2>5
<1>10. IsWritten(h1, src, i, vv, k)
  BY DEF IsWritten
<1> HIDE DEF k
<1>11. Writes(h1, st, vv, src, i, W, k)
  <2>1. src \in DOMAIN h1 /\ i \in DOMAIN h1[src].refs
    BY <1>3, <1>6, <1>7
  <2>2. \A d \in DOMAIN st : st[d].load.src = src =>
         /\ \A j \in DOMAIN st[d].load.got :
              PlaceOf(FieldIds[h1[src].shape], st[d].load.want[j]) \in DOMAIN h1[src].refs \ {i}
         /\ d < Len(st) => st[d].load.i # i
    BY <1>7, NobodyElse
  <2> QED
    BY <1>6, <1>7, <1>8, <1>9, <1>10, <2>1, <2>2, Zenon DEF Writes
<1>12. /\ Good(k, st, <<v>>) /\ SameBut(h1, k, src) /\ Len(k) = Len(h1)
       /\ k[src].refs = [h[src].refs EXCEPT ![i] = vv]
  <2>1. Good(k, st, <<h1[src].refs[i]>>) /\ SameBut(h1, k, src)
    BY <1>11, WrittenTo
  <2>2. Len(k) = Len(h1) /\ k[src].refs = [h1[src].refs EXCEPT ![i] = vv]
    <3>1. DOMAIN k = 1 .. Len(k) /\ Len(k) \in Nat
      BY <2>1, TypedFacts DEF Good
    <3>2. DOMAIN k = DOMAIN h1 /\ DOMAIN h1 = 1 .. Len(h1) /\ Len(h1) \in Nat
      BY <1>4, <1>6, <2>1 DEF SameBut
    <3>3. h1[src] \in RecordType(Seq(0 .. Len(h1))) /\ src \in DOMAIN h1
      BY <1>3, <1>6, HeapFacts, ObjectTypeIs
    <3>4. k[src] = [h1[src] EXCEPT !.refs[i] = vv]
      BY <1>10, <3>3 DEF IsWritten
    <3>5. k[src].refs = [h1[src].refs EXCEPT ![i] = vv]
      BY <3>3, <3>4 DEF RecordType
    <3>6. Len(k) = Len(h1)
      BY <3>1, <3>2, SameLength
    <3> QED
      BY <3>5, <3>6
  <2> QED
    BY <1>1, <1>7, <2>1, <2>2
<1>13. TakesField(k, st, <<v>>, f, vv, c, tt)
  <2>1. k[src].kind = "rec" /\ k[src].shape = h[src].shape /\ k[src].refs[i] = vv
    BY <1>3, <1>6, <1>7, <1>12 DEF SameBut
  <2>2. KindIn(k, vv) # "lazy"
    <3>1. CASE vv = Const
      BY <3>1 DEF KindIn
    <3>2. CASE vv # Const
      <4>1. vv \in DOMAIN h
        BY <1>4, <1>5, <3>2 DEF Const
      <4>2. k[vv].kind = h[vv].kind
        BY <1>6, <1>12, <4>1 DEF SameBut, SameParts
      <4> QED
        BY <1>4, <3>2, <4>2 DEF KindIn
    <3> QED
      BY <3>1, <3>2
  <2>3. FoundIn(k, f.load)
    BY <1>1, <2>1 DEF AtField, FoundIn
  <2>4. AtField(k, st, <<v>>, f)
    BY <1>1, <1>2, <1>12, <2>1, <2>3 DEF AtField
  <2> QED
    BY <1>1, <2>1, <2>2, <2>4, Zenon DEF TakesField, c
<1>14. Good(k, tt, <<v>>) /\ tt # <<>> /\ Last(tt) = c /\ ~IsEvaluation(c) /\ c.load.src = src
  <2>1. Good(k, tt, <<v>>) /\ tt # <<>> /\ Last(tt) = c /\ ~IsEvaluation(c) /\ c.load.src = f.load.src
    BY <1>13, FieldTaken
  <2> QED
    BY <1>1, <2>1
<1>15. c.load.at # "lazy"
  <2>1. c.load.at \in {"search", "place", "loaded"}
    BY <1>13, TookOK
  <2> QED
    BY <2>1
<1>16. Good(Release(k, <<v>>), tt, <<>>)
  BY <1>14, <1>15, HandReleased
<1>17. /\ src \notin Deleted(k, <<v>>) /\ k \in Seq(ObjectType(Len(k))) /\ IsFiniteSet(DOMAIN <<v>>)
       /\ SameParts(k, Release(k, <<v>>), src)
  <2>1. <<>> \in Seq(0 .. Len(k)) /\ <<v>> \in Seq(0 .. Len(k)) /\ k \in Seq(ObjectType(Len(k)))
        /\ IsFiniteSet(DOMAIN <<v>>)
    <3>1. k \in Seq(ObjectType(Len(k))) /\ <<v>> \in Seq(0 .. Len(k)) /\ IsFiniteSet(DOMAIN <<v>>)
      BY <1>14, TypedFacts DEF Good
    <3> QED
      BY <3>1
  <2>2. <<>> \o <<v>> = <<v>>
    BY <2>1, ConcatEmptySeq
  <2>3. Good(k, tt, <<>> \o <<v>>)
    BY <1>14, <2>2
  <2>4. src \in UsedBy(tt)
    <3>1. Last(tt) = tt[Len(tt)] /\ Len(tt) \in DOMAIN tt
      BY <1>14, TopFacts
    <3>2. src \in Uses(tt[Len(tt)])
      BY <1>14, <3>1 DEF Uses
    <3> QED
      BY <3>1, <3>2, UsedByFacts
  <2>5. src \notin Deleted(k, <<v>>)
    BY <1>3, <1>14, <1>15, <2>1, <2>3, <2>4, Released
  <2>6. ~Dead(Release(k, <<v>>), src)
    BY <1>16, <2>4, Live
  <2>7. src \in DOMAIN k
    BY <1>3, <1>6, <1>12 DEF SameBut
  <2>8. SameParts(k, Release(k, <<v>>), src)
    BY <1>14, <1>15, <2>1, <2>3, <2>6, <2>7, Released
  <2> QED
    BY <2>1, <2>5, <2>8
<1>18. ~Dead(h1, src)
  BY <1>3, <1>6 DEF Sighted
<1>19. LateWrite(h1, k, src, i, vv, <<v>>)
  BY <1>3, <1>6, <1>10, <1>17, <1>18, Zenon DEF LateWrite
<1>20. g = Release(k, <<v>>)
  <2>1. IsWritten(Release(h1, <<v>>), src, i, vv, Release(k, <<v>>))
    BY <1>19, WrittenLate
  <2> QED
    BY <1>1, <2>1, Zenon DEF IsWritten
<1>21. g[src].shape = h[src].shape
  <2>1. k[src].shape = h1[src].shape
    BY <1>3, <1>6, <1>12 DEF SameBut
  <2>2. g[src].shape = k[src].shape
    BY <1>17, <1>20 DEF SameParts
  <2> QED
    BY <1>7, <2>1, <2>2
<1> QED
  BY <1>14, <1>16, <1>20, <1>21, Zenon DEF c

-----------------------------------------------------------------------------
(* The value of a lazy value goes to an evaluation *)

\* The evaluation e had come to the lazy value l, whose value vv is there.
PassesOn(h, st, e, l, vv, g, tt) ==
    /\ Good(h, st, <<>>) /\ st # <<>> /\ e = Last(st) /\ IsEvaluation(e) /\ e.own = <<l>>
    /\ l # Const /\ h[l].kind = "lazy" /\ h[l].ready /\ vv = h[l].refs[1]
    /\ g = Release(Inc(h, vv), e.own)
    /\ tt = [st EXCEPT ![Len(st)] = [e EXCEPT !.own = <<vv>>]]

\* Through: the value takes the place of the lazy value.
LEMMA Passed ==
    ASSUME NEW h, NEW st, NEW e, NEW l, NEW vv, NEW g, NEW tt, PassesOn(h, st, e, l, vv, g, tt)
    PROVE  Good(g, tt, <<>>) /\ IsEvaluation(Last(tt))
<1> DEFINE h1 == IncAll(h, <<vv>>)
           c == [e EXCEPT !.own = <<vv>>]
           n == Len(st)
<1>1. /\ Good(h, st, <<>>) /\ st # <<>> /\ e = Last(st) /\ IsEvaluation(e) /\ e.own = <<l>>
      /\ l # Const /\ h[l].kind = "lazy" /\ h[l].ready /\ vv = h[l].refs[1]
      /\ g = Release(h1, e.own) /\ tt = [st EXCEPT ![n] = c]
  BY Zenon DEF PassesOn, Inc, h1, c, n
<1>2. /\ e \in FrameType(Len(h)) /\ e = st[n] /\ n \in DOMAIN st /\ n \in Nat \ {0} /\ Len(h) \in Nat
      /\ DOMAIN h = 1 .. Len(h) /\ DOMAIN st = 1 .. n /\ EvaluationOK(h, st, n) /\ e.own \in Seq(0 .. Len(h))
      /\ e.left \in Nat /\ e.load \in LoadType(Len(h))
  BY <1>1, TopFacts
<1>3. Sighted(h, st, l) /\ l \in DOMAIN h
  <2>1. l \in Seen(e)
    BY <1>1, <1>2 DEF Seen, Range
  <2> QED
    BY <1>1, <2>1, SightedFacts
<1>4. 1 \in DOMAIN h[l].refs
  <2>1. Len(h[l].refs) = 1
    BY <1>1, <1>3 DEF Good, ObjectOK
  <2>2. DOMAIN h[l].refs = 1 .. Len(h[l].refs)
    BY <1>1, <1>3, HeapFacts, TypedFacts DEF Good
  <2> QED
    BY <2>1, <2>2
<1>5. Sighted(h, st, vv) /\ vv \in 0 .. Len(h)
  <2>1. Sighted(h, st, vv)
    BY <1>1, <1>3, <1>4, SightedFacts
  <2> QED
    BY <2>1 DEF Sighted
<1> HIDE DEF h1, c
<1>6. /\ Good(h1, st, <<vv>>) /\ Len(h1) = Len(h) /\ DOMAIN h1 = DOMAIN h
      /\ \A o : Sighted(h, st, o) => Sighted(h1, st, o)
  <2>1. <<vv>> \in Seq(0 .. Len(h)) /\ \A m \in DOMAIN <<vv>> : <<vv>>[m] = vv
    BY <1>5
  <2>2. Takes(h, st, <<>>, <<vv>>, h1)
    BY <1>1, <1>5, <2>1 DEF Takes, h1
  <2>3. <<>> \o <<vv>> = <<vv>>
    BY <2>1, ConcatEmptySeq
  <2> QED
    BY <2>2, <2>3, TakenSighted
<1>7. c \in FrameType(Len(h)) /\ IsFrame(c, e, <<vv>>, e.left, e.load)
  <2>1. <<vv>> \in Seq(0 .. Len(h)) /\ c = [e EXCEPT !.own = <<vv>>]
    BY <1>5 DEF c
  <2> DEFINE N == 0 .. Len(h)
             R == Seq(0 .. Len(h))
             L == LoadType(Len(h))
  <2>2. e \in FrameSet(N, R, L) /\ FrameType(Len(h)) = FrameSet(N, R, L) /\ <<vv>> \in R /\ e.load \in L
    BY <1>2, <2>1, FrameTypeIs
  <2> HIDE DEF N, R, L
  <2>3. c \in FrameSet(N, R, L) /\ IsFrame(c, e, <<vv>>, e.left, e.load)
    BY <1>2, <2>1, <2>2, FrameEdits
  <2> QED
    BY <2>2, <2>3
<1>8. EvaluationOK(h1, tt, n)
  <2>1. EvaluationOK(h1, st, n)
    BY <1>1, <1>2, <1>6 DEF Good, FrameOK
  <2>2. /\ tt[n] = c
        /\ n > 1 => tt[n - 1] = st[n - 1]
        /\ Len(tt) = n
    <3> HIDE DEF n
    <3>1. tt[n] = c /\ (n > 1 => tt[n - 1] = st[n - 1])
      BY <1>1, <1>2
    <3>2. st \in Seq(FrameType(Len(h))) /\ n = Len(st)
      BY <1>1, TypedFacts DEF Good, n
    <3>3. Len(tt) = n
      BY <1>1, <1>2, <3>2
    <3> QED
      BY <3>1, <3>3
  <2>3. /\ n > 1 /\ Expects(h1, st[n - 1], e.lazy) /\ h1[e.lazy].kind = "lazy" /\ ~h1[e.lazy].ready
        /\ e.load = Idle /\ e.fun = Const /\ h1[e.lazy].refs = <<>>
    BY <1>1, <1>2, <2>1 DEF EvaluationOK
  <2>4. c.own = <<vv>> /\ c.lazy = e.lazy /\ c.load = Idle /\ c.fun = Const
    BY <1>7, <2>3 DEF IsFrame
  <2>5. c.own # <<>> /\ Len(c.own) = 1 /\ ~(n < Len(tt))
    BY <1>2, <2>2, <2>4
  <2>6. Expects(h1, tt[n - 1], c.lazy)
    BY <2>2, <2>3, <2>4
  <2> HIDE DEF n
  <2> QED
    BY <2>2, <2>3, <2>4, <2>5, <2>6 DEF EvaluationOK
<1>9. TopMoves(h1, st, <<vv>>, e, c, <<l>>, tt)
  <2>1. c.own = <<vv>> /\ c.lazy = e.lazy /\ c.fun = e.fun /\ c.load = e.load
    BY <1>7 DEF IsFrame
  <2>2. e.load = Idle
    BY <1>2 DEF EvaluationOK
  <2>3. <<l>> \in Seq(0 .. Len(h1)) /\ c \in FrameType(Len(h1))
    BY <1>2, <1>3, <1>6, <1>7
  <2>4. Apart(h1, st, Range(<<l>>) \union Seen(c))
    <3>1. ASSUME NEW o \in Range(<<l>>) \union Seen(c)
          PROVE  o \in Range(<<vv>>) \/ Sighted(h1, st, o)
      <4>1. CASE o = l
        BY <1>3, <1>6, <4>1
      <4>2. CASE o = vv
        BY <1>5, <1>6, <4>2
      <4>3. CASE o # l /\ o # vv
        <5>1. o \in Seen(c) /\ o \notin Range(c.own)
          BY <2>1, <4>3 DEF Range
        <5>2. o \in Seen(e)
          BY <2>1, <5>1 DEF Seen
        <5>3. Sighted(h, st, o)
          BY <1>1, <5>2, SightedFacts
        <5> QED
          BY <1>6, <5>3
      <4> QED
        BY <4>1, <4>2, <4>3
    <3> QED
      BY <1>1, <1>6, <3>1, ApartSighted
  <2>5. \A o \in Uses(c) : ~Dead(h1, o)
    <3>1. Uses(c) = Uses(e)
      BY <2>1 DEF Uses
    <3> QED
      BY <1>1, <1>6, <3>1, TopFacts
  <2>6. e.load.at # "lazy"
    BY <2>2 DEF Idle, Load
  <2>7. \A o \in DOMAIN h1 : Occurs(c.own, o) + Occurs(<<l>>, o) = Occurs(e.own, o) + Occurs(<<vv>>, o)
    <3>1. \A o : Occurs(<<l>>, o) \in Nat /\ Occurs(<<vv>>, o) \in Nat
      BY OccursSingle
    <3> QED
      BY <1>1, <2>1, <3>1
  <2> QED
    BY <1>1, <1>6, <1>8, <2>1, <2>3, <2>4, <2>5, <2>6, <2>7, Zenon DEF TopMoves, n
<1>10. Good(h1, tt, <<l>>) /\ tt # <<>> /\ Last(tt) = c
  BY <1>9, TopChanged
<1>11. IsEvaluation(c) /\ c.load.at # "lazy"
  <2>1. c.lazy = e.lazy /\ c.load = e.load
    BY <1>7 DEF IsFrame
  <2>2. e.load = Idle
    BY <1>2 DEF EvaluationOK
  <2> QED
    BY <1>1, <2>1, <2>2 DEF IsEvaluation, Idle, Load
<1>12. Good(Release(h1, <<l>>), tt, <<>>)
  BY <1>10, <1>11, HandReleased
<1> QED
  BY <1>1, <1>10, <1>11, <1>12

-----------------------------------------------------------------------------
(* A search that comes to the end *)

\* Nothing from where the search is has the id that is wanted next.
GivesUp(h, st, f, g, tt) ==
    /\ Good(h, st, <<>>) /\ st # <<>> /\ f = Last(st) /\ ~IsEvaluation(f) /\ f.load.at = "search"
    /\ h[f.load.src].kind = "rec"
    /\ \A p \in DOMAIN FieldIds[h[f.load.src].shape] :
         FieldIds[h[f.load.src].shape][p] = f.load.want[f.load.k] => p < f.load.i
    /\ g = Ends(f, "failed") /\ tt = [st EXCEPT ![Len(st)] = g]

\* Then the record does not have it.
LEMMA GaveUp ==
    ASSUME NEW h, NEW st, NEW f, NEW g, NEW tt, GivesUp(h, st, f, g, tt)
    PROVE  /\ Good(h, tt, <<>>) /\ tt # <<>> /\ Last(tt) = g /\ ~IsEvaluation(g) /\ g.load.at = "failed"
<1>20. PICK src, ids : src = f.load.src /\ ids = FieldIds[h[src].shape]
  OBVIOUS
<1>1. /\ Good(h, st, <<>>) /\ st # <<>> /\ f = Last(st) /\ ~IsEvaluation(f) /\ f.load.at = "search"
      /\ h[src].kind = "rec"
      /\ \A p \in DOMAIN ids : ids[p] = f.load.want[f.load.k] => p < f.load.i
      /\ g = Ends(f, "failed") /\ tt = [st EXCEPT ![Len(st)] = g]
  BY <1>20, Zenon DEF GivesUp
<1>2. /\ f \in FrameType(Len(h)) /\ LoadOK(h, f) /\ Len(h) \in Nat /\ <<>> \in Seq(0 .. Len(h))
      /\ f.load \in LoadType(Len(h)) /\ \A o \in Seen(f) : o = Const \/ o \in DOMAIN h
  <2>1. f \in FrameType(Len(h)) /\ LoadOK(h, f) /\ Len(h) \in Nat
    BY <1>1, TopFacts
  <2>2. f.load \in LoadType(Len(h)) /\ \A o \in Seen(f) : o = Const \/ o \in DOMAIN h
    BY <1>1, TopFacts
  <2> QED
    BY <2>1, <2>2
<1>3. src # Const /\ SearchOK(h, f.load) /\ src \in Range(f.own) \union CapturedIn(h, f) /\ src \in DOMAIN h
  <2>1. f.load.at # "idle" /\ f.load.at # "lazy"
    BY <1>1
  <2>2. src # Const /\ SearchOK(h, f.load) /\ src \in Range(f.own) \union CapturedIn(h, f)
    BY <1>1, <1>2, <1>20, <2>1 DEF LoadOK
  <2>3. src \in Seen(f)
    BY <1>20 DEF Seen
  <2> QED
    BY <1>2, <2>2, <2>3
<1>4. /\ ids \in Seq(Int) /\ DOMAIN ids = 1 .. Len(ids) /\ Len(ids) \in Nat
      /\ \A x \in h[src].shape : PlaceOf(ids, x) \in DOMAIN ids /\ ids[PlaceOf(ids, x)] = x
  <2>1. Good(h, st, <<>>) /\ src \in DOMAIN h /\ h[src].kind = "rec" /\ ids = FieldIds[h[src].shape]
    BY <1>1, <1>3, <1>20, Zenon
  <2>2. ids \in Seq(Int) /\ DOMAIN ids = 1 .. Len(ids) /\ Len(ids) \in Nat
    BY <2>1, RecordFacts
  <2>3. \A x \in h[src].shape : PlaceOf(ids, x) \in DOMAIN ids /\ ids[PlaceOf(ids, x)] = x
    BY <2>1, RecordFacts
  <2> QED
    BY <2>2, <2>3
<1>5. f.load.i \in Nat /\ f.load.k \in Nat \ {0} /\ f.load.want \in Seq(Int)
  BY <1>2 DEF LoadType
<1>6. /\ g \in FrameType(Len(h)) /\ IsFrame(g, f, f.own, f.left, g.load)
      /\ IsLoad(g.load, f.load, "failed", f.load.k, f.load.i, f.load.got)
  BY <1>1, <1>2, FramesMade
<1>7. /\ g.lazy = f.lazy /\ g.fun = f.fun /\ g.own = f.own /\ g.load.at = "failed" /\ g.load.src = src
      /\ g.load.want = f.load.want /\ g.load.k = f.load.k /\ g.load.i = f.load.i /\ g.load.got = f.load.got
  BY <1>6, <1>20, Zenon DEF IsLoad, IsFrame
<1>8. SearchOK(h, g.load)
  <2>1. /\ Len(f.load.got) = f.load.k - 1 /\ f.load.k <= Len(f.load.want) + 1
        /\ f.load.want \in Wanted /\ f.load.k <= Len(f.load.want)
        /\ \A p \in DOMAIN ids : ids[p] = f.load.want[f.load.k] => p >= f.load.i
    BY <1>1, <1>3, <1>20, Zenon DEF SearchOK
  <2>2. \A j \in DOMAIN f.load.got :
               /\ f.load.want[j] \in h[src].shape
               /\ PlaceOf(ids, f.load.want[j]) < f.load.i
               /\ f.load.got[j] = h[src].refs[PlaceOf(ids, f.load.want[j])]
               /\ KindIn(h, f.load.got[j]) # "lazy"
    BY <1>3, <1>20, Zenon DEF SearchOK
  <2>3. ~(Range(f.load.want) \subseteq h[src].shape)
    <3>1. f.load.k \in DOMAIN f.load.want
      BY <1>5, <2>1
    <3>2. ASSUME NEW p \in DOMAIN ids, ids[p] = f.load.want[f.load.k]
          PROVE  FALSE
      <4>1. p < f.load.i
        BY <1>1, <3>2
      <4>2. p >= f.load.i
        BY <2>1, <3>2
      <4>3. p \in Nat
        BY <1>4
      <4> QED
        BY <1>5, <4>1, <4>2, <4>3
    <3>3. f.load.want[f.load.k] \notin h[src].shape
      BY <1>4, <3>2
    <3> QED
      BY <3>1, <3>3 DEF Range
  <2> DEFINE load == g.load
  <2>5. FieldIds[h[load.src].shape] = ids /\ h[load.src] = h[src]
    BY <1>7, <1>20
  <2>6. /\ load.at = "failed" /\ Len(load.got) = load.k - 1 /\ load.k <= Len(load.want) + 1
        /\ ~(Range(load.want) \subseteq h[load.src].shape)
    BY <1>7, <2>1, <2>3, <2>5
  <2>7. \A j \in DOMAIN load.got :
              /\ load.want[j] \in h[load.src].shape
              /\ PlaceOf(ids, load.want[j]) < load.i
              /\ load.got[j] = h[load.src].refs[PlaceOf(ids, load.want[j])]
              /\ KindIn(h, load.got[j]) # "lazy"
    BY <1>7, <2>2, <2>5
  <2> HIDE DEF load
  <2>9. SearchOK(h, load)
    BY <2>5, <2>6, <2>7 DEF SearchOK
  <2> QED
    BY <2>9 DEF load
<1>9. LoadOK(h, g)
  <2>1. CapturedIn(h, g) = CapturedIn(h, f)
    BY <1>7 DEF CapturedIn
  <2> QED
    BY <1>1, <1>3, <1>7, <1>8, <2>1 DEF LoadOK
<1>10. \A o \in DOMAIN h : Occurs(g.own, o) + Occurs(<<>>, o) = Occurs(f.own, o) + Occurs(<<>>, o)
  BY <1>7
<1>11. \A o \in Range(<<>>) \union Range(g.own) \union {g.load.src} \union Range(g.load.got) :
          o \in Range(<<>>) \/ Sighted(h, st, o)
  <2>1. \A o \in Range(f.own) \union Range(f.load.got) \union {src} : Sighted(h, st, o)
    BY <1>1, <1>20, SightedFacts DEF Seen
  <2>2. Range(<<>>) = {}
    BY DEF Range
  <2> QED
    BY <1>7, <2>1, <2>2
<1>12. f.load.at # "lazy"
  BY <1>1
<1>13. CodeMoves(h, st, <<>>, f, g, <<>>, tt)
  BY <1>1, <1>2, <1>6, <1>7, <1>9, <1>10, <1>11, <1>12, Zenon DEF CodeMoves
<1>14. Good(h, tt, <<>>) /\ tt # <<>>
  BY <1>13, CodeMoved
<1>15. Last(tt) = g /\ ~IsEvaluation(g)
  BY <1>13, CodeMoved
<1> QED
  BY <1>7, <1>14, <1>15

-----------------------------------------------------------------------------
(* What stands behind the ids *)

\* The inductive invariant, of the parts of a state
Held(h, st, ends) == Good(h, st, <<>>) /\ EndInSight(h, st, ends) /\ ends \in [Shapes -> Int]

NextEnds(h, g, ends) ==
    IF g.load.at # "search" THEN ends
    ELSE [ends EXCEPT ![h[g.load.src].shape] = g.load.want[g.load.k]]

Sights(h, k, tt, g, ends) ==
    /\ Good(k, tt, <<>>) /\ tt # <<>> /\ g = Last(tt) /\ ~IsEvaluation(g)
    /\ h[g.load.src].shape = k[g.load.src].shape /\ ends \in [Shapes -> Int]

\* A load that writes what it wants next behind the ids will not run past it.
LEMMA InSight ==
    ASSUME NEW h, NEW k, NEW tt, NEW g, NEW ends, Sights(h, k, tt, g, ends)
    PROVE  Held(k, tt, NextEnds(h, g, ends))
<1>1. /\ Good(k, tt, <<>>) /\ tt # <<>> /\ g = Last(tt) /\ ~IsEvaluation(g)
      /\ h[g.load.src].shape = k[g.load.src].shape /\ ends \in [Shapes -> Int]
  BY Zenon DEF Sights
<1>2. CASE g.load.at # "search"
  <2>1. NextEnds(h, g, ends) = ends /\ EndInSight(k, tt, ends)
    BY <1>1, <1>2, Zenon DEF NextEnds, EndInSight
  <2> QED
    BY <1>1, <2>1 DEF Held
<1>3. CASE g.load.at = "search"
  <2>1. PICK shape, x : shape = k[g.load.src].shape /\ x = g.load.want[g.load.k]
    OBVIOUS
  <2>2. LoadOK(k, g) /\ g.load \in LoadType(Len(k)) /\ \A o \in Seen(g) : o = Const \/ o \in DOMAIN k
    <3>1. LoadOK(k, g) /\ g.load \in LoadType(Len(k))
      BY <1>1, TopFacts
    <3>2. \A o \in Seen(g) : o = Const \/ o \in DOMAIN k
      BY <1>1, TopFacts
    <3> QED
      BY <3>1, <3>2
  <2>3. g.load.src # Const /\ k[g.load.src].kind = "rec" /\ SearchOK(k, g.load)
    BY <1>3, <2>2 DEF LoadOK
  <2>4. g.load.src \in DOMAIN k
    BY <2>2, <2>3 DEF Seen
  <2>5. shape \in Shapes
    <3>1. ObjectOK(k, tt, g.load.src)
      BY <1>1, <2>4 DEF Good
    <3> QED
      BY <2>1, <2>3, <3>1 DEF ObjectOK
  <2>6. x \in Int
    <3>1. g.load.k <= Len(g.load.want)
      BY <1>3, <2>3, Zenon DEF SearchOK
    <3>2. g.load.want \in Seq(Int) /\ g.load.k \in Nat \ {0}
      BY <2>2 DEF LoadType
    <3>3. g.load.k \in DOMAIN g.load.want
      BY <3>1, <3>2
    <3> QED
      BY <2>1, <3>2, <3>3
  <2>7. NextEnds(h, g, ends) = [ends EXCEPT ![shape] = x]
    BY <1>1, <1>3, <2>1 DEF NextEnds
  <2>8. PICK after : after = [ends EXCEPT ![shape] = x]
    OBVIOUS
  <2>9. after \in [Shapes -> Int] /\ after[shape] = x
    BY <1>1, <2>5, <2>6, <2>8
  <2>10. EndInSight(k, tt, after)
    BY <1>1, <2>1, <2>9, Zenon DEF EndInSight
  <2> QED
    BY <1>1, <2>7, <2>8, <2>9, <2>10 DEF Held
<1> QED
  BY <1>2, <1>3

\* Where no search is on top, nothing needs to stand there.
LEMMA Rests ==
    ASSUME NEW k, NEW tt, Good(k, tt, <<>>), NEW ends, ends \in [Shapes -> Int],
           tt = <<>> \/ IsEvaluation(Last(tt)) \/ Last(tt).load.at # "search"
    PROVE  Held(k, tt, ends)
BY DEF Held, EndInSight

\* The value vv of the lazy value l comes to the load that waits for it.
Arrives(h, st, f, l, vv, ends, g, tt, after) ==
    /\ Good(h, st, <<>>) /\ st # <<>> /\ f = Last(st) /\ ~IsEvaluation(f) /\ Expects(h, f, l)
    /\ l # Const /\ h[l].kind = "lazy" /\ h[l].ready /\ vv = h[l].refs[1] /\ ends \in [Shapes -> Int]
    /\ IF f.load.at = "lazy"
       THEN /\ g = Dropped(Inc(h, vv), f.load.src)
            /\ tt = [st EXCEPT ![Len(st)] = Bound(f, <<vv>>)]
            /\ after = ends
       ELSE /\ IsWritten(Release(Inc(h, vv), <<l>>), f.load.src, f.load.i, vv, g)
            /\ tt = [st EXCEPT ![Len(st)] = Took(f, f.load.i, vv)]
            /\ after = NextEnds(h, Took(f, f.load.i, vv), ends)

\* Deliver keeps the invariant.
LEMMA Arrived ==
    ASSUME NEW h, NEW st, NEW f, NEW l, NEW vv, NEW ends, NEW g, NEW tt, NEW after,
           Arrives(h, st, f, l, vv, ends, g, tt, after)
    PROVE  Held(g, tt, after)
<1>1. /\ Good(h, st, <<>>) /\ st # <<>> /\ f = Last(st) /\ ~IsEvaluation(f) /\ Expects(h, f, l)
      /\ l # Const /\ h[l].kind = "lazy" /\ h[l].ready /\ vv = h[l].refs[1] /\ ends \in [Shapes -> Int]
  BY Zenon DEF Arrives
<1>2. CASE f.load.at = "lazy"
  <2>1. PICK src : src = f.load.src
    OBVIOUS
  <2>2. /\ g = Dropped(Inc(h, vv), src) /\ tt = [st EXCEPT ![Len(st)] = Bound(f, <<vv>>)] /\ after = ends
    BY <1>2, <2>1, Zenon DEF Arrives
  <2>3. src = l
    BY <1>1, <1>2, <2>1 DEF Expects
  <2>4. Good(g, tt, <<>>) /\ Last(tt).load = Idle
    <3>1. /\ Good(h, st, <<>>) /\ st # <<>> /\ f = Last(st) /\ ~IsEvaluation(f) /\ f.load.at = "lazy"
          /\ src = f.load.src /\ h[src].ready /\ vv = h[src].refs[1]
      BY <1>1, <1>2, <2>1, <2>3, Zenon
    <3>2. Good(g, tt, <<>>)
      BY <2>2, <3>1, DeliveredLazy
    <3>3. PICK c : c = Bound(f, <<vv>>)
      OBVIOUS
    <3>4. c.load = Idle
      <4>1. f \in FrameType(Len(h))
        BY <3>1, TopFacts
      <4> QED
        BY <3>3, <4>1 DEF Bound, FrameType
    <3>5. Last(tt) = c
      <4>1. st \in Seq(FrameType(Len(h))) /\ Len(st) \in DOMAIN st /\ DOMAIN st = 1 .. Len(st)
        <5>1. st \in Seq(FrameType(Len(h)))
          BY <3>1, TypedFacts DEF Good
        <5>2. Len(st) \in DOMAIN st /\ DOMAIN st = 1 .. Len(st)
          BY <3>1, TopFacts
        <5> QED
          BY <5>1, <5>2
      <4>2. tt[Len(st)] = c /\ Len(tt) = Len(st)
        BY <2>2, <3>3, <4>1
      <4> QED
        BY <4>2 DEF Last
    <3> QED
      BY <3>2, <3>4, <3>5
  <2>5. Idle.at # "search"
    BY DEF Idle, Load
  <2> QED
    BY <1>1, <2>2, <2>4, <2>5, Rests
<1>3. CASE f.load.at # "lazy"
  <2>1. PICK src, i, c : src = f.load.src /\ i = f.load.i /\ c = Took(f, i, vv)
    OBVIOUS
  <2>2. /\ IsWritten(Release(Inc(h, vv), <<l>>), src, i, vv, g) /\ tt = [st EXCEPT ![Len(st)] = c]
        /\ after = NextEnds(h, c, ends)
    BY <1>3, <2>1, Zenon DEF Arrives
  <2>3. AtField(h, st, <<>>, f) /\ l = h[src].refs[i]
    BY <1>1, <1>3, <2>1, Zenon DEF Expects, AtField
  <2>4. Delivers(h, st, f, src, i, l, vv, g, tt)
    BY <1>1, <2>1, <2>2, <2>3, Zenon DEF Delivers
  <2>5. Good(g, tt, <<>>) /\ tt # <<>> /\ Last(tt) = c /\ ~IsEvaluation(c) /\ c.load.src = src
    BY <2>1, <2>4, DeliveredField
  <2>6. g[src].shape = h[src].shape
    BY <2>4, DeliveredField
  <2>7. Sights(h, g, tt, c, ends)
    BY <1>1, <2>5, <2>6 DEF Sights
  <2> QED
    BY <2>2, <2>7, InSight
<1> QED
  BY <1>2, <1>3

-----------------------------------------------------------------------------
(* The steps of code keep the invariant *)

\* The state before and after a step, by constants
Now(h, st, f, ends) == h = heap /\ st = stack /\ f = Top /\ ends = sentinel
Then(g, tt, after) == g = heap' /\ tt = stack' /\ after = sentinel'

\* The invariant, of the variables' next values.
LEMMA HeldNext ==
    ASSUME NEW g, NEW tt, NEW after, Then(g, tt, after), Held(g, tt, after)
    PROVE  Inv'
BY Zenon DEF Then, Held, Inv

\* Where code is left with no load, nothing but the heap and the stack matters.
LEMMA CodeNext ==
    ASSUME NEW g, NEW tt, NEW after, Then(g, tt, after), Good(g, tt, <<>>),
           tt = <<>> \/ Last(tt).load = Idle, after \in [Shapes -> Int]
    PROVE  Inv'
<1>1. Idle.at # "search"
  BY DEF Idle, Load
<1>2. tt = <<>> \/ IsEvaluation(Last(tt)) \/ Last(tt).load.at # "search"
  BY <1>1
<1>3. Held(g, tt, after)
  BY <1>2, Rests
<1> QED
  BY <1>3, HeldNext

\* What code finds when it goes on
LEMMA RunningFacts ==
    ASSUME Inv, Running, NEW h, NEW st, NEW f, NEW ends, Now(h, st, f, ends)
    PROVE  /\ Good(h, st, <<>>) /\ st # <<>> /\ f = Last(st) /\ ~IsEvaluation(f) /\ f.load = Idle
           /\ ends \in [Shapes -> Int]
           /\ Visible = (Range(f.own) \union CapturedIn(h, f)) \ {Const}
           /\ Usable = Range(f.own) \union CapturedIn(h, f) \union {Const}
           /\ \A o \in Usable : Sighted(h, st, o) /\ o \in 0 .. Len(h)
           /\ \A o : Kind(o) = KindIn(h, o)
<1>1. Good(h, st, <<>>) /\ st # <<>> /\ f = Last(st) /\ ~IsEvaluation(f) /\ f.load = Idle /\ ends \in [Shapes -> Int]
  BY DEF Inv, Running, Now, Top
<1>2. Visible = (Range(f.own) \union CapturedIn(h, f)) \ {Const}
  BY DEF Now, Visible, Captured, CapturedIn
<1>3. Usable = Range(f.own) \union CapturedIn(h, f) \union {Const}
  BY <1>2 DEF Usable
<1>4. \A o \in Usable : Sighted(h, st, o)
  BY <1>1, <1>3, CodeFacts
<1>5. \A o \in Usable : o \in 0 .. Len(h)
  BY <1>4 DEF Sighted
<1>6. \A o : Kind(o) = KindIn(h, o)
  BY DEF Now, Kind, KindIn
<1> QED
  BY <1>1, <1>2, <1>3, <1>4, <1>5, <1>6

\* The least of a set of numbers
LEMMA LeastNumber ==
    ASSUME NEW A \in SUBSET Int, IsFiniteSet(A), A # {}
    PROVE  Min(A) \in A /\ \A x \in A : Min(A) <= x
<1> DEFINE Under(x) == {y \in A : y < x}
           T == {Under(x) : x \in A}
<1>1. SomeSubsets(T, A)
  BY DEF SomeSubsets
<1>2. \E U \in T : \A V \in T : V \subseteq U => V = U
  <2> HIDE DEF T
  <2> QED
    BY <1>1, SmallestSet
<1>4. PICK m \in A : \A x \in A : Under(x) \subseteq Under(m) => Under(x) = Under(m)
  <2> HIDE DEF Under
  <2>1. PICK U \in T : \A V \in T : V \subseteq U => V = U
    BY <1>2
  <2>2. PICK m \in A : U = Under(m)
    BY <2>1
  <2> QED
    BY <2>1, <2>2
<1>3. ASSUME NEW x \in A, x < m
      PROVE  FALSE
  <2>1. x \in Under(m) /\ x \notin Under(x)
    BY <1>3
  <2>3. \A y \in A : y \in Int
    OBVIOUS
  <2>2. \A y \in A : y < x => y < m
    BY <1>3, <2>3
  <2>4. Under(x) \subseteq Under(m)
    BY <2>2
  <2> HIDE DEF Under
  <2> QED
    BY <1>4, <2>1, <2>4
<1>5. \A x \in A : m <= x
  <2>1. \A x \in A : ~(x < m) /\ x \in Int /\ m \in Int
    BY <1>3
  <2> QED
    BY <2>1
<1>6. \E y \in A : \A x \in A : y <= x
  BY <1>5
<1>7. Min(A) = CHOOSE y \in A : \A x \in A : y <= x
  BY DEF Min
<1> QED
  BY <1>6, <1>7

\* Each step of the specification keeps the invariant.
LEMMA MakeLazyKeeps ==
    ASSUME Inv, NEW os, os \in {<<>>} \union {<<o>> : o \in Visible}, MakeLazy(os)
    PROVE  Inv'
<1>1. PICK h, st, f, ends, g, tt, after : Now(h, st, f, ends) /\ Then(g, tt, after)
  BY DEF Now, Then
<1>2. Running /\ f.left > 0
  BY <1>1 DEF MakeLazy, Goes, Now
<1>3. /\ Good(h, st, <<>>) /\ st # <<>> /\ f = Last(st) /\ ~IsEvaluation(f) /\ f.load = Idle
      /\ ends \in [Shapes -> Int]
      /\ \A o \in Visible : Sighted(h, st, o) /\ o \in 0 .. Len(h)
  BY <1>1, <1>2, RunningFacts DEF Usable
<1>4. os \in Seq(0 .. Len(h)) /\ \A i \in DOMAIN os : Sighted(h, st, os[i])
  <2>1. CASE os = <<>>
    BY <2>1
  <2>2. CASE os # <<>>
    <3>1. PICK o \in Visible : os = <<o>>
      BY <2>2
    <3>2. o \in 0 .. Len(h) /\ Sighted(h, st, o)
      BY <1>3
    <3>3. os \in Seq(0 .. Len(h)) /\ \A i \in DOMAIN os : os[i] = o
      BY <3>1, <3>2
    <3> QED
      BY <3>2, <3>3
  <2> QED
    BY <2>1, <2>2
<1>5. g = IncAll(h, os) \o <<Fresh("fun", os, {}), Fresh("lazy", <<Len(h) + 1>>, {})>>
  BY <1>1, Zenon DEF MakeLazy, Now, Then, Fresh
<1>6. After(st, f, tt, Append(f.own, Len(h) + 2)) /\ after = ends
  BY <1>1, Zenon DEF MakeLazy, Goes, Frames, Owning, Now, Then, After
<1>7. MakesLazy(h, st, f, os, g, tt)
  BY <1>2, <1>3, <1>4, <1>5, <1>6, Zenon DEF MakesLazy, Runs
<1>8. Good(g, tt, <<>>) /\ Last(tt).load = Idle
  BY <1>7, MadeLazy
<1> QED
  BY <1>1, <1>3, <1>6, <1>8, CodeNext

\* MKRCRD:
LEMMA MakeRecordKeeps ==
    ASSUME Inv, NEW shape \in Shapes, NEW data \in [1 .. Cardinality(shape) -> Usable],
           MakeRecord(shape, data)
    PROVE  Inv'
<1>1. PICK h, st, f, ends, g, tt, after : Now(h, st, f, ends) /\ Then(g, tt, after)
  BY DEF Now, Then
<1>2. Running /\ f.left > 0
  BY <1>1 DEF MakeRecord, Goes, Now
<1>3. /\ Good(h, st, <<>>) /\ st # <<>> /\ f = Last(st) /\ ~IsEvaluation(f) /\ f.load = Idle
      /\ ends \in [Shapes -> Int]
      /\ \A o \in Usable : Sighted(h, st, o) /\ o \in 0 .. Len(h)
  BY <1>1, <1>2, RunningFacts
<1>4. /\ data \in Seq(0 .. Len(h)) /\ Len(data) = Cardinality(shape)
      /\ \A i \in DOMAIN data : Sighted(h, st, data[i])
  <2>1. Cardinality(shape) \in Nat
    BY FieldIdsFacts
  <2>2. \A i \in DOMAIN data : data[i] \in Usable
    OBVIOUS
  <2>3. data \in [1 .. Cardinality(shape) -> 0 .. Len(h)]
    BY <1>3
  <2> QED
    BY <1>3, <2>1, <2>2, <2>3
<1>5. g = NewRecord(h, shape, data)
  BY <1>1, Zenon DEF MakeRecord, Now, Then
<1>6. After(st, f, tt, Append(f.own, Len(h) + 1)) /\ after = ends
  BY <1>1, Zenon DEF MakeRecord, Goes, Frames, Owning, Now, Then, After
<1>7. MakesRecord(h, st, f, shape, data, g, tt)
  BY <1>2, <1>3, <1>4, <1>5, <1>6, Zenon DEF MakesRecord, Runs
<1>8. Good(g, tt, <<>>) /\ Last(tt).load = Idle
  BY <1>7, MadeRecord
<1> QED
  BY <1>1, <1>3, <1>6, <1>8, CodeNext

\* Giving up a register:
LEMMA LetGoKeeps ==
    ASSUME Inv, NEW k, k \in DOMAIN Top.own, LetGo(k)
    PROVE  Inv'
<1>1. PICK h, st, f, ends, g, tt, after : Now(h, st, f, ends) /\ Then(g, tt, after)
  BY DEF Now, Then
<1>2. Running /\ f.left > 0
  <2>1. Running /\ Top.left > 0
    BY Zenon DEF LetGo, Goes
  <2> QED
    BY <1>1, <2>1 DEF Now
<1>3. /\ Good(h, st, <<>>) /\ st # <<>> /\ f = Last(st) /\ ~IsEvaluation(f) /\ f.load = Idle
      /\ ends \in [Shapes -> Int]
  BY <1>1, <1>2, RunningFacts
<1>4. k \in DOMAIN f.own /\ g = Release(h, <<f.own[k]>>) /\ after = ends
  BY <1>1, Zenon DEF LetGo, Now, Then
<1>5. After(st, f, tt, RemoveAt(f.own, k))
  BY <1>1, Zenon DEF LetGo, Goes, Frames, Now, Then, After
<1>6. LetsGo(h, st, f, k, g, tt)
  BY <1>2, <1>3, <1>4, <1>5, Zenon DEF LetsGo, Runs
<1>7. Good(g, tt, <<>>) /\ Last(tt).load = Idle
  BY <1>6, LeftToGo
<1> QED
  BY <1>1, <1>3, <1>4, <1>7, CodeNext

\* UPDTRCRD, in both of its ends:
LEMMA UpdateKeeps ==
    ASSUME Inv, NEW src, src \in Visible, NEW ids, ids \in Wanted, NEW vals, vals \in [DOMAIN ids -> Usable],
           Update(src, ids, vals)
    PROVE  Inv'
<1> DEFINE shape == heap[src].shape
           found == {k \in DOMAIN ids : ids[k] \in shape}
           last == IF found = DOMAIN ids THEN Len(ids) ELSE Min(DOMAIN ids \ found)
           data == UpdatedFields(heap, src, ids, vals)
<1>1. PICK h, st, f, ends, g, tt, after : Now(h, st, f, ends) /\ Then(g, tt, after)
  BY DEF Now, Then
<1>2. Running
  BY DEF Update
<1>3. /\ Good(h, st, <<>>) /\ st # <<>> /\ f = Last(st) /\ ~IsEvaluation(f) /\ f.load = Idle
      /\ ends \in [Shapes -> Int]
      /\ \A o \in Usable : Sighted(h, st, o) /\ o \in 0 .. Len(h)
  BY <1>1, <1>2, RunningFacts
<1>13. /\ h = heap /\ src # Const /\ Sighted(h, st, src) /\ Kind(src) = h[src].kind
  BY <1>1, <1>3 DEF Now, Visible, Usable, Kind
<1>4. CASE Kind(src) # "rec"
  <2>1. Goes(Top) /\ UNCHANGED <<heap, sentinel>>
    BY <1>4 DEF Update
  <2>2. Stays(h, st, f, tt) /\ g = h /\ after = ends
    BY <1>1, <1>3, <2>1 DEF Goes, Frames, Now, Then, Stays, Runs
  <2>3. Good(h, tt, <<>>) /\ Last(tt).load = Idle
    BY <2>2, Stayed
  <2> QED
    BY <1>1, <1>3, <2>2, <2>3, CodeNext
<1>5. CASE Kind(src) = "rec"
  <2>1. /\ sentinel' = [sentinel EXCEPT ![shape] = ids[last]]
        /\ IF found = DOMAIN ids
           THEN /\ heap' = NewRecord(heap, shape, data) /\ Goes(Owning(Len(heap) + 1))
           ELSE Goes(Top) /\ UNCHANGED heap
    BY <1>5, Zenon DEF Update, UpdatedFields
  <2>2. PICK x, s, d : x = ids[last] /\ s = shape /\ d = data
    OBVIOUS
  <2>3. x \in Int
    <3>1. ids \in Seq(Int) /\ ids # <<>>
      BY LazyRecordsAssumption
    <3>2. last \in DOMAIN ids
      <4>1. CASE found = DOMAIN ids
        BY <3>1, <4>1
      <4>2. CASE found # DOMAIN ids
        <5> DEFINE A == DOMAIN ids \ found
        <5>3. A \subseteq DOMAIN ids /\ A # {}
          <6>1. found \subseteq DOMAIN ids
            OBVIOUS
          <6> HIDE DEF found
          <6> QED
            BY <4>2, <6>1
        <5>1. A \in SUBSET Int /\ IsFiniteSet(A)
          <6>1. DOMAIN ids = 1 .. Len(ids) /\ Len(ids) \in Nat
            BY <3>1
          <6>2. IsFiniteSet(DOMAIN ids) /\ DOMAIN ids \subseteq Int
            BY <6>1, FS_Interval
          <6> HIDE DEF A
          <6> QED
            BY <5>3, <6>2, FS_Subset
        <5> HIDE DEF A
        <5>2. Min(A) \in A
          BY <5>1, <5>3, LeastNumber
        <5> USE DEF A
        <5> QED
          BY <4>2, <5>2
      <4> QED
        BY <4>1, <4>2
    <3> HIDE DEF last
    <3> QED
      BY <2>2, <3>1, <3>2
  <2> HIDE DEF shape, data, last
  <2>4. Updates(h, st, src, ids, vals, d)
    <3>1. \A j \in DOMAIN ids : Sighted(h, st, vals[j])
      BY <1>3
    <3> QED
      BY <1>3, <1>5, <1>13, <2>2, <3>1 DEF Updates, data
  <2>5. /\ s \in Shapes /\ d \in Seq(0 .. Len(h)) /\ Len(d) = Cardinality(s)
        /\ \A i \in DOMAIN d : Sighted(h, st, d[i])
    <3>1. s = h[src].shape
      BY <1>13, <2>2 DEF shape
    <3> QED
      BY <2>4, <3>1, UpdateFacts
  <2>6. after = [ends EXCEPT ![s] = x] /\ after \in [Shapes -> Int]
    BY <1>1, <1>3, <2>1, <2>2, <2>3, <2>5 DEF Now, Then
  <2>7. CASE found = DOMAIN ids
    <3>1. f.left > 0
      BY <1>1, <2>1, <2>7 DEF Goes, Now
    <3>2. g = NewRecord(h, s, d)
      BY <1>1, <2>1, <2>2, <2>7 DEF Now, Then
    <3>3. After(st, f, tt, Append(f.own, Len(h) + 1))
      BY <1>1, <2>1, <2>7, Zenon DEF Goes, Frames, Owning, Now, Then, After
    <3>4. MakesRecord(h, st, f, s, d, g, tt)
      BY <1>3, <2>5, <3>1, <3>2, <3>3, Zenon DEF MakesRecord, Runs
    <3>5. Good(g, tt, <<>>) /\ Last(tt).load = Idle
      BY <3>4, MadeRecord
    <3> QED
      BY <1>1, <2>6, <3>5, CodeNext
  <2>8. CASE found # DOMAIN ids
    <3>1. Goes(Top) /\ UNCHANGED heap
      BY <2>1, <2>8
    <3>2. Stays(h, st, f, tt) /\ g = h
      BY <1>1, <1>3, <3>1 DEF Goes, Frames, Now, Then, Stays, Runs
    <3>3. Good(h, tt, <<>>) /\ Last(tt).load = Idle
      BY <3>2, Stayed
    <3> QED
      BY <1>1, <2>6, <3>2, <3>3, CodeNext
  <2> QED
    BY <2>7, <2>8
<1> QED
  BY <1>4, <1>5

\* _assign_field:
LEMMA AssignKeeps ==
    ASSUME Inv, NEW src, src \in Visible, NEW x, x \in Mutable, NEW v, v \in Usable, Assign(src, x, v)
    PROVE  Inv'
<1>1. PICK h, st, f, ends, g, tt, after : Now(h, st, f, ends) /\ Then(g, tt, after)
  BY DEF Now, Then
<1>9. PICK i, k : /\ i = PlaceOf(FieldIds[h[src].shape], x)
                  /\ k = [Inc(h, v) EXCEPT ![src].refs[i] = v]
  OBVIOUS
<1>2. Running
  BY DEF Assign
<1>3. /\ Good(h, st, <<>>) /\ st # <<>> /\ f = Last(st) /\ ~IsEvaluation(f) /\ f.load = Idle
      /\ ends \in [Shapes -> Int] /\ Kind(src) = KindIn(h, src)
      /\ src \in Range(f.own) \union CapturedIn(h, f) /\ src # Const
      /\ v \in Range(f.own) \union CapturedIn(h, f) \union {Const}
      /\ \A o \in Usable : Sighted(h, st, o)
  BY <1>1, <1>2, RunningFacts
<1>4. /\ h[src].kind = "rec" /\ x \in h[src].shape
      /\ MayAssign(src, i) /\ ~Reaches(v, src)
      /\ g = Release(k, <<h[src].refs[i]>>) /\ after = ends /\ Goes(Top)
  <2>1. Kind(src) = "rec" /\ x \in h[src].shape /\ after = ends /\ Goes(Top)
    BY <1>1 DEF Assign, Now, Then
  <2>2. MayAssign(src, i) /\ ~Reaches(v, src) /\ g = Release(k, <<h[src].refs[i]>>)
    BY <1>1, <1>9, Zenon DEF Assign, Now, Then
  <2> QED
    BY <1>3, <2>1, <2>2 DEF KindIn
<1>5. src \in DOMAIN h /\ i \in DOMAIN h[src].refs
  <2>1. src \in Usable
    BY DEF Usable
  <2>2. src \in DOMAIN h
    BY <1>3, <2>1, SightedFacts
  <2>3. PICK ids : ids = FieldIds[h[src].shape]
    OBVIOUS
  <2>4. PlaceOf(ids, x) \in DOMAIN ids /\ DOMAIN h[src].refs = DOMAIN ids
    <3>1. DOMAIN h[src].refs = DOMAIN ids
      BY <1>3, <1>4, <2>2, <2>3, RecordFacts
    <3>2. h[src].shape \in Shapes
      BY <1>3, <1>4, <2>2, <2>3, RecordFacts
    <3> QED
      BY <1>4, <2>3, <3>1, <3>2, FieldIdsFacts
  <2> QED
    BY <1>9, <2>2, <2>3, <2>4
<1>6. PICK W : W \in SUBSET DOMAIN h /\ Upward(h, W) /\ src \in W /\ v \notin W
  <2>1. PICK U \in SUBSET (DOMAIN heap \ {v}) : src \in U /\ Upward(heap, U)
    BY <1>4 DEF Reaches
  <2> QED
    BY <1>1, <2>1 DEF Now
<1>7. f.left > 0 /\ tt = [st EXCEPT ![Len(st)] = [f EXCEPT !.left = @ - 1]]
  BY <1>1, <1>4 DEF Goes, Frames, Now, Then
<1>8. Len(st) = 1 \/ ~\E d \in DOMAIN st : st[d].load.src = src /\ i <= st[d].load.i
  BY <1>1, <1>4 DEF MayAssign, InLoad, Now
<1>10. IsWritten(Inc(h, v), src, i, v, k)
  BY <1>9, Zenon DEF IsWritten
<1>11. Assigns(h, st, f, src, i, v, W, g, tt)
  BY <1>3, <1>4, <1>5, <1>6, <1>7, <1>8, <1>10, Zenon DEF Assigns, Runs
<1>12. Good(g, tt, <<>>) /\ Last(tt).load = Idle
  BY <1>11, Assigned
<1> QED
  BY <1>1, <1>3, <1>4, <1>12, CodeNext

\* LOADRCRD:
LEMMA StartLoadKeeps ==
    ASSUME Inv, NEW src, src \in Visible, NEW want, want \in Wanted, StartLoad(src, want)
    PROVE  Inv'
<1>1. PICK h, st, f, ends, g, tt, after : Now(h, st, f, ends) /\ Then(g, tt, after)
  BY DEF Now, Then
<1>2. Running
  BY DEF StartLoad
<1>3. /\ Good(h, st, <<>>) /\ st # <<>> /\ f = Last(st) /\ ~IsEvaluation(f) /\ f.load = Idle
      /\ ends \in [Shapes -> Int] /\ Kind(src) = h[src].kind
      /\ src \in Range(f.own) \union CapturedIn(h, f) /\ src # Const
  BY <1>1, <1>2, RunningFacts DEF KindIn
<1>4. g = h
  BY <1>1 DEF StartLoad, Now, Then
<1>5. PICK load : load = IF Kind(src) # "rec" THEN Load("failed", src, want, 0) ELSE Load("search", src, want, 1)
  OBVIOUS
<1>6. f.left > 0 /\ tt = [st EXCEPT ![Len(st)] = [f EXCEPT !.left = @ - 1, !.load = load]]
  <2>1. Enters(load)
    BY <1>5 DEF StartLoad
  <2> QED
    BY <1>1, <2>1 DEF Enters, Frames, Now, Then
<1>7. StartsLoad(h, st, f, src, want, load, tt)
  BY <1>3, <1>5, <1>6, Zenon DEF StartsLoad, Runs
<1>8. Good(h, tt, <<>>) /\ tt # <<>> /\ Last(tt) = [Last(tt) EXCEPT !.load = load]
      /\ Last(tt).load = load /\ ~IsEvaluation(Last(tt))
  <2>1. Good(h, tt, <<>>) /\ tt # <<>> /\ Last(tt).load = load /\ ~IsEvaluation(Last(tt))
    BY <1>7, LoadStarted
  <2>2. Last(tt) \in FrameType(Len(h))
    BY <2>1, TopFacts
  <2> QED
    BY <2>1, <2>2 DEF FrameType
<1>9. PICK c : c = Last(tt)
  OBVIOUS
<1>10. c.load = load /\ Sights(h, h, tt, c, ends)
  BY <1>3, <1>8, <1>9 DEF Sights
<1>11. Held(h, tt, NextEnds(h, c, ends))
  BY <1>10, InSight
<1>12. after = NextEnds(h, c, ends)
  <2>1. CASE Kind(src) # "rec"
    <3>1. load.at = "failed" /\ after = ends
      BY <1>1, <1>5, <2>1 DEF StartLoad, Load, Now, Then
    <3> QED
      BY <1>10, <3>1 DEF NextEnds
  <2>2. CASE Kind(src) = "rec"
    <3>1. load.at = "search" /\ load.src = src /\ load.want = want /\ load.k = 1
      BY <1>5, <2>2 DEF Load
    <3>2. after = [ends EXCEPT ![h[src].shape] = want[1]]
      BY <1>1, <2>2, Zenon DEF StartLoad, Now, Then
    <3> QED
      BY <1>10, <3>1, <3>2 DEF NextEnds
  <2> QED
    BY <2>1, <2>2
<1> QED
  BY <1>1, <1>4, <1>11, <1>12, HeldNext

\* LOAD:
LEMMA StartLoadAtKeeps ==
    ASSUME Inv, NEW src, src \in Visible, NEW i, i \in DOMAIN heap[src].refs, StartLoadAt(src, i)
    PROVE  Inv'
<1>1. PICK h, st, f, ends, g, tt, after : Now(h, st, f, ends) /\ Then(g, tt, after)
  BY DEF Now, Then
<1>2. Running
  BY DEF StartLoadAt
<1>3. /\ Good(h, st, <<>>) /\ st # <<>> /\ f = Last(st) /\ ~IsEvaluation(f) /\ f.load = Idle
      /\ ends \in [Shapes -> Int] /\ Kind(src) = h[src].kind
      /\ src \in Range(f.own) \union CapturedIn(h, f) /\ src # Const
  BY <1>1, <1>2, RunningFacts DEF KindIn
<1>4. g = h /\ after = ends /\ h[src].kind = "rec" /\ i \in DOMAIN h[src].refs
  BY <1>1, <1>3 DEF StartLoadAt, Now, Then
<1>5. PICK load : load = Load("place", src, <<FieldIds[h[src].shape][i]>>, i)
  OBVIOUS
<1>6. f.left > 0 /\ tt = [st EXCEPT ![Len(st)] = [f EXCEPT !.left = @ - 1, !.load = load]]
  <2>1. Enters(load)
    BY <1>1, <1>5 DEF StartLoadAt, Now
  <2> QED
    BY <1>1, <2>1 DEF Enters, Frames, Now, Then
<1>7. StartsLoadAt(h, st, f, src, i, load, tt)
  BY <1>3, <1>4, <1>5, <1>6, Zenon DEF StartsLoadAt, Runs
<1>8. Good(h, tt, <<>>) /\ Last(tt).load = load
  BY <1>7, LoadAtStarted
<1>9. load.at # "search"
  BY <1>5 DEF Load
<1>10. Held(h, tt, ends)
  BY <1>3, <1>8, <1>9, Rests
<1> QED
  BY <1>1, <1>4, <1>10, HeldNext

\* own is what the code owns already, or all of it but one reference to l.
LEMMA GetLazyKeeps ==
    ASSUME Inv, NEW l, l \in Usable, NEW own,
           own = Top.own \/ \E k \in DOMAIN Top.own : Top.own[k] = l /\ own = RemoveAt(Top.own, k),
           GetLazy(l, own)
    PROVE  Inv'
<1>1. PICK h, st, f, ends, g, tt, after : Now(h, st, f, ends) /\ Then(g, tt, after)
  BY DEF Now, Then
<1>2. Running /\ f.left > 0 /\ Kind(l) = "lazy"
  BY <1>1 DEF GetLazy, Now
<1>3. /\ Good(h, st, <<>>) /\ st # <<>> /\ f = Last(st) /\ ~IsEvaluation(f) /\ f.load = Idle
      /\ ends \in [Shapes -> Int] /\ Kind(l) = KindIn(h, l)
      /\ l \in Range(f.own) \union CapturedIn(h, f) \union {Const}
  BY <1>1, <1>2, RunningFacts
<1>4. l # Const /\ h[l].kind = "lazy" /\ l \in Range(f.own) \union CapturedIn(h, f)
  BY <1>2, <1>3 DEF KindIn
<1>5. PICK load : load = Load("lazy", l, <<NoField>>, 0)
  OBVIOUS
<1>6. tt = [st EXCEPT ![Len(st)] = [f EXCEPT !.own = own, !.left = @ - 1, !.load = load]] /\ after = ends
  BY <1>1, <1>5, Zenon DEF GetLazy, Frames, Now, Then
<1>7. \/ own = f.own /\ g = h
      \/ \E k \in DOMAIN f.own : f.own[k] = l /\ own = RemoveAt(f.own, k) /\ g = Decr(h, l)
  <2>1. g = IF own = f.own THEN h ELSE Decr(h, l)
    BY <1>1, Zenon DEF GetLazy, Now, Then
  <2>2. own = f.own \/ \E k \in DOMAIN f.own : f.own[k] = l /\ own = RemoveAt(f.own, k)
    BY <1>1 DEF Now
  <2> QED
    BY <2>1, <2>2
<1>8. GetsLazy(h, st, f, l, own, load, g, tt)
  BY <1>2, <1>3, <1>4, <1>5, <1>6, <1>7, Zenon DEF GetsLazy, Runs
<1>9. Good(g, tt, <<>>) /\ Last(tt).load = load
  BY <1>8, LazyCalled
<1>10. load.at # "search"
  BY <1>5 DEF Load
<1>11. Held(g, tt, ends)
  BY <1>3, <1>9, <1>10, Rests
<1> QED
  BY <1>1, <1>6, <1>11, HeldNext

\* The return of a thunk:
LEMMA ReturnKeeps ==
    ASSUME Inv, NEW v, v \in Usable, Return(v)
    PROVE  Inv'
<1>1. PICK h, st, f, ends, g, tt, after : Now(h, st, f, ends) /\ Then(g, tt, after)
  BY DEF Now, Then
<1>2. Running
  BY DEF Return
<1>3. /\ Good(h, st, <<>>) /\ st # <<>> /\ f = Last(st) /\ ~IsEvaluation(f) /\ f.load = Idle
      /\ ends \in [Shapes -> Int]
      /\ v \in Range(f.own) \union CapturedIn(h, f) \union {Const}
  BY <1>1, <1>2, RunningFacts
<1>4. PICK n, l, k : /\ n = Len(st) - 1 /\ l = st[n].lazy
                     /\ k = [Inc(GiveBack(h, f.own, v), v) EXCEPT ![l].refs = <<>>]
  OBVIOUS
<1>5. n > 0
  <2>1. Len(st) > 1
    BY <1>1 DEF Return, Now
  <2>2. Len(st) \in Nat
    BY <1>3, TypedFacts DEF Good
  <2> QED
    BY <1>4, <2>1, <2>2
<1>6. /\ g = Release(k, h[l].refs) /\ tt = [Front(st) EXCEPT ![n].own = <<v>>] /\ after = ends
  BY <1>1, <1>4, Zenon DEF Return, Now, Then
<1>7. Returns(h, st, f, v, n, l, g, tt)
  <2>1. HasNone(Inc(GiveBack(h, f.own, v), v), l, k) /\ CameTo(st, n, v, tt)
    BY <1>4, <1>6, Zenon DEF HasNone, CameTo
  <2> QED
    BY <1>3, <1>4, <1>5, <1>6, <2>1, Zenon DEF Returns
<1>8. Good(g, tt, <<>>) /\ IsEvaluation(Last(tt))
  BY <1>7, Returned
<1>9. Held(g, tt, ends)
  BY <1>3, <1>8, Rests
<1> QED
  BY <1>1, <1>6, <1>9, HeldNext

\* Nothing is left of a process that has ended in an exception.
LEMMA NothingIsGood == Good(<<>>, <<>>, <<>>)
<1>1. Typed(<<>>, <<>>, <<>>)
  BY DEF Typed
<1>2. DOMAIN <<>> = {}
  OBVIOUS
<1>3. Distinct(<<>>) /\ Apart(<<>>, <<>>, Range(<<>>)) /\ Acyclic(<<>>) /\ Alive(<<>>, <<>>)
  BY <1>2, Zenon DEF Distinct, Apart, Acyclic, Alive
<1>4. Counts(<<>>, Owned(<<>>, <<>>, <<>>))
  BY <1>2, Zenon DEF Counts
<1> QED
  BY <1>1, <1>2, <1>3, <1>4, Zenon DEF Good

\* An exception that nobody catches:
LEMMA AbortKeeps ==
    ASSUME Inv, Abort
    PROVE  Inv'
<1>1. Then(<<>>, <<>>, sentinel) /\ sentinel \in [Shapes -> Int]
  BY DEF Abort, Then, Inv
<1> QED
  BY <1>1, NothingIsGood, CodeNext

\* The end of the program:
LEMMA ExitKeeps ==
    ASSUME Inv, Exit
    PROVE  Inv'
<1>1. PICK h, st, f, ends, g, tt, after : Now(h, st, f, ends) /\ Then(g, tt, after)
  BY DEF Now, Then
<1>2. Running
  BY DEF Exit
<1>3. /\ Good(h, st, <<>>) /\ st # <<>> /\ f = Last(st) /\ ~IsEvaluation(f) /\ f.load = Idle
      /\ ends \in [Shapes -> Int]
  BY <1>1, <1>2, RunningFacts
<1>4. Len(st) = 1 /\ g = Release(h, f.own) /\ tt = <<>> /\ after = ends
  BY <1>1 DEF Exit, Now, Then
<1>5. Exits(h, st, f, g)
  BY <1>3, <1>4, Zenon DEF Exits
<1>6. Good(g, tt, <<>>)
  BY <1>4, <1>5, Exited
<1> QED
  BY <1>1, <1>3, <1>4, <1>6, CodeNext

\* The references behind a load:
LEMMA BindKeeps ==
    ASSUME Inv, Bind
    PROVE  Inv'
<1>1. PICK h, st, f, ends, g, tt, after : Now(h, st, f, ends) /\ Then(g, tt, after)
  BY DEF Now, Then
<1>2. /\ Good(h, st, <<>>) /\ st # <<>> /\ f = Last(st) /\ ~IsEvaluation(f)
      /\ f.load.at \in {"loaded", "failed"} /\ ends \in [Shapes -> Int]
  BY <1>1 DEF Inv, Bind, Now, Top
<1>3. PICK got : got = IF f.load.at = "loaded" THEN f.load.got ELSE <<>>
  OBVIOUS
<1>4. g = IncAll(h, got) /\ tt = [st EXCEPT ![Len(st)] = Bound(f, got)] /\ after = ends
  BY <1>1, <1>3, Zenon DEF Bind, Frames, Now, Then
<1>5. Bindings(h, st, f, got, g, tt)
  BY <1>2, <1>3, <1>4, Zenon DEF Bindings
<1>6. Good(g, tt, <<>>) /\ Last(tt).load = Idle
  BY <1>5, AllBound
<1> QED
  BY <1>1, <1>2, <1>4, <1>6, CodeNext

-----------------------------------------------------------------------------
(* The steps of loads keep the invariant *)

\* The lazy value l is asked for, and is not there.
Waits(h, st, l, tt, ends) ==
    /\ Good(h, st, <<>>) /\ st # <<>> /\ l \in DOMAIN h /\ Expects(h, Last(st), l)
    /\ h[l].kind = "lazy" /\ ~h[l].ready /\ l \notin EvaluatedIn(st)
    /\ tt = st \o <<Evaluation(l), Code(h[l].refs[1], ThunkSteps)>>
    /\ ends \in [Shapes -> Int]

\* An evaluation begins.
LEMMA Waited ==
    ASSUME NEW h, NEW st, NEW l, NEW tt, NEW ends, Waits(h, st, l, tt, ends)
    PROVE  Held(h, tt, ends)
<1>1. /\ Good(h, st, <<>>) /\ st # <<>> /\ l \in DOMAIN h /\ Expects(h, Last(st), l)
      /\ h[l].kind = "lazy" /\ ~h[l].ready /\ l \notin EvaluatedIn(st)
      /\ tt = st \o <<Evaluation(l), Code(h[l].refs[1], ThunkSteps)>>
      /\ ends \in [Shapes -> Int]
  BY Zenon DEF Waits
<1>2. Good(h, tt, <<>>)
  BY <1>1, Began
<1>3. PICK e, c : e = Evaluation(l) /\ c = Code(h[l].refs[1], ThunkSteps)
  OBVIOUS
<1>4. c.load.at # "search"
  BY <1>3 DEF Code, Idle, Load
<1>5. Last(tt) = c
  <2>1. st \in Seq(FrameType(Len(h))) /\ tt = st \o <<e, c>>
    BY <1>1, <1>3, TypedFacts DEF Good
  <2>2. tt \in Seq(FrameType(Len(h)))
    BY <1>2, TypedFacts DEF Good
  <2>3. Len(tt) = Len(st) + 2 /\ tt[Len(st) + 2] = c
    BY <2>1
  <2> QED
    BY <2>2, <2>3 DEF Last
<1> QED
  BY <1>1, <1>2, <1>4, <1>5, Rests

\* The value vv of l is due to the code c, on top of fr.
Due(h, fr, c, l, vv) ==
    /\ Good(h, fr, <<>>) /\ fr # <<>> /\ c = Last(fr) /\ ~IsEvaluation(c) /\ Expects(h, c, l)
    /\ l # Const /\ h[l].kind = "lazy" /\ h[l].ready /\ vv = h[l].refs[1]
    /\ c.load.at # "lazy" => heap[c.load.src].shape = h[c.load.src].shape

\* A value comes to the load that asked for it:
LEMMA DeliverKeeps ==
    ASSUME sentinel \in [Shapes -> Int], NEW h, NEW fr, NEW c, NEW l, NEW vv, Due(h, fr, c, l, vv),
           Deliver(fr, h, vv)
    PROVE  Inv'
<1>1. PICK ends, g, tt, after : ends = sentinel /\ Then(g, tt, after)
  BY DEF Then
<1>2. /\ Good(h, fr, <<>>) /\ fr # <<>> /\ c = Last(fr) /\ ~IsEvaluation(c) /\ Expects(h, c, l)
      /\ l # Const /\ h[l].kind = "lazy" /\ h[l].ready /\ vv = h[l].refs[1]
      /\ c.load.at # "lazy" => heap[c.load.src].shape = h[c.load.src].shape
  BY Zenon DEF Due
<1>3. fr[Len(fr)] = c
  BY <1>2 DEF Last
<1>4. CASE c.load.at = "lazy"
  <2>1. /\ g = Dropped(Inc(h, vv), c.load.src) /\ tt = [fr EXCEPT ![Len(fr)] = Bound(c, <<vv>>)]
        /\ after = ends
    BY <1>1, <1>3, <1>4, Zenon DEF Deliver, Then
  <2>2. Arrives(h, fr, c, l, vv, ends, g, tt, after)
    BY <1>1, <1>2, <1>4, <2>1, Zenon DEF Arrives
  <2> QED
    BY <1>1, <2>2, Arrived, HeldNext
<1>5. CASE c.load.at # "lazy"
  <2>1. h[c.load.src].refs[c.load.i] = l
    BY <1>2, <1>5, Zenon DEF Expects
  <2>2. PICK k : k = Took(c, c.load.i, vv)
    OBVIOUS
  <2>3. /\ g = [Release(Inc(h, vv), <<l>>) EXCEPT ![c.load.src].refs[c.load.i] = vv]
        /\ tt = [fr EXCEPT ![Len(fr)] = k] /\ after = NextId(k)
    BY <1>1, <1>3, <1>5, <2>1, <2>2, Zenon DEF Deliver, Then
  <2>4. k.load.src = c.load.src
    <3>1. c \in FrameType(Len(h)) /\ Len(h) \in Nat
      BY <1>2, TopFacts
    <3> QED
      BY <2>2, <3>1 DEF Took, FrameType, LoadType
  <2>5. after = NextEnds(h, k, ends)
    BY <1>1, <1>2, <1>5, <2>3, <2>4 DEF NextId, NextEnds
  <2>6. IsWritten(Release(Inc(h, vv), <<l>>), c.load.src, c.load.i, vv, g)
    BY <2>3, Zenon DEF IsWritten
  <2>7. Arrives(h, fr, c, l, vv, ends, g, tt, after)
    BY <1>1, <1>2, <1>5, <2>2, <2>3, <2>5, <2>6, Zenon DEF Arrives
  <2> QED
    BY <1>1, <2>7, Arrived, HeldNext
<1> QED
  BY <1>4, <1>5

\* The lazy value l is what the code c, on top of fr, waits for.
Asked(h, fr, c, l) ==
    /\ h = heap /\ Good(h, fr, <<>>) /\ fr # <<>> /\ c = Last(fr) /\ ~IsEvaluation(c) /\ Expects(h, c, l)
    /\ l \in DOMAIN h /\ h[l].kind = "lazy" /\ EvaluatedIn(fr) = Evaluated

\* A value is asked for:
LEMMA GetValueKeeps ==
    ASSUME sentinel \in [Shapes -> Int], NEW h, NEW fr, NEW c, NEW l, Asked(h, fr, c, l), GetValue(fr, l)
    PROVE  Inv'
<1>1. PICK ends, g, tt, after : ends = sentinel /\ Then(g, tt, after)
  BY DEF Then
<1>2. /\ h = heap /\ Good(h, fr, <<>>) /\ fr # <<>> /\ c = Last(fr) /\ ~IsEvaluation(c) /\ Expects(h, c, l)
      /\ l \in DOMAIN h /\ h[l].kind = "lazy" /\ EvaluatedIn(fr) = Evaluated
  BY Zenon DEF Asked
<1>3. l # Const
  BY <1>2, TopFacts
<1>4. CASE h[l].ready
  <2>1. PICK vv : vv = h[l].refs[1]
    OBVIOUS
  <2>2. Deliver(fr, h, vv)
    BY <1>2, <1>4, <2>1, Zenon DEF GetValue
  <2>3. Due(h, fr, c, l, vv)
    BY <1>2, <1>3, <1>4, <2>1, Zenon DEF Due
  <2> QED
    BY <2>2, <2>3, DeliverKeeps
<1>5. CASE ~h[l].ready
  <2>1. Evaluate(fr, l)
    BY <1>2, <1>5, Zenon DEF GetValue
  <2>2. /\ l \notin Evaluated /\ tt = fr \o <<Evaluation(l), Code(h[l].refs[1], ThunkSteps)>>
        /\ g = h /\ after = ends
    BY <1>1, <1>2, <2>1 DEF Evaluate, Then
  <2>3. Waits(h, fr, l, tt, ends)
    BY <1>1, <1>2, <1>5, <2>2, Zenon DEF Waits
  <2>4. Held(h, tt, ends)
    BY <2>3, Waited
  <2> QED
    BY <1>1, <2>2, <2>4, HeldNext
<1> QED
  BY <1>4, <1>5

\* The load c of the code f, on top of fr, is at the field in place i.
Reads(h, st, f, c, fr, i) ==
    /\ h = heap /\ st = stack /\ f = Top /\ st # <<>> /\ f = Last(st) /\ ~IsEvaluation(f)
    /\ Good(h, st, <<>>)
    /\ c = [f EXCEPT !.load.i = i] /\ fr = [st EXCEPT ![Len(st)] = c]
    /\ AtField(h, fr, <<>>, c) /\ Len(fr) = Len(st)
    /\ c.load.i = i /\ c.load.src = f.load.src

\* A field is read:
LEMMA ReadKeeps ==
    ASSUME sentinel \in [Shapes -> Int], NEW h, NEW st, NEW f, NEW c, NEW fr, NEW i,
           Reads(h, st, f, c, fr, i), Read(i)
    PROVE  Inv'
<1>1. PICK ends, g, tt, after : ends = sentinel /\ Then(g, tt, after)
  BY DEF Then
<1>2. /\ h = heap /\ st = stack /\ f = Top /\ st # <<>> /\ f = Last(st) /\ ~IsEvaluation(f)
      /\ Good(h, st, <<>>)
      /\ c = [f EXCEPT !.load.i = i] /\ fr = [st EXCEPT ![Len(st)] = c]
      /\ AtField(h, fr, <<>>, c) /\ Len(fr) = Len(st)
      /\ c.load.i = i /\ c.load.src = f.load.src
  BY Zenon DEF Reads
<1>3. PICK src, v : src = f.load.src /\ v = h[src].refs[i]
  OBVIOUS
<1>4. /\ Good(h, fr, <<>>) /\ fr # <<>> /\ c = Last(fr) /\ ~IsEvaluation(c) /\ h[src].kind = "rec"
      /\ FoundIn(h, c.load) /\ c.load.at \in {"search", "place"} /\ c.load.src = src
  BY <1>2, <1>3, Zenon DEF AtField
<1>5. fr = Frames(c) /\ Kind(v) = KindIn(h, v)
  BY <1>2 DEF Frames, Kind, KindIn
<1>6. CASE Kind(v) = "lazy"
  <2>1. GetValue(fr, v)
    BY <1>2, <1>3, <1>5, <1>6, Zenon DEF Read
  <2>2. v # Const /\ h[v].kind = "lazy"
    BY <1>5, <1>6 DEF KindIn
  <2>3. v \in DOMAIN h
    <3>3. AtField(h, fr, <<>>, c)
      BY <1>2
    <3>1. Sighted(h, fr, h[c.load.src].refs[c.load.i])
      BY <3>3, FieldFacts
    <3>2. Sighted(h, fr, v)
      BY <1>2, <1>3, <3>1
    <3> QED
      BY <1>4, <2>2, <3>2, SightedFacts
  <2>4. Expects(h, c, v)
    BY <1>2, <1>3, <1>4 DEF Expects
  <2>5. EvaluatedIn(fr) = Evaluated
    <3>1. DOMAIN fr = DOMAIN st /\ \A d \in DOMAIN st : IsEvaluation(fr[d]) <=> IsEvaluation(st[d])
      <4>1. DOMAIN fr = DOMAIN st /\ Len(st) \in DOMAIN st /\ st[Len(st)] = f
        BY <1>2, TopFacts
      <4>2. \A d \in DOMAIN st : fr[d] = IF d = Len(st) THEN c ELSE st[d]
        BY <1>2
      <4> QED
        BY <1>2, <1>4, <4>1, <4>2
    <3>2. \A d \in DOMAIN st : IsEvaluation(st[d]) => fr[d] = st[d]
      <4>1. st[Len(st)] = f
        BY <1>2, TopFacts
      <4> QED
        BY <1>2, <4>1
    <3>3. EvaluatedIn(fr) = EvaluatedIn(st)
      <4>1. \A x : x \in EvaluatedIn(fr) <=> \E d \in DOMAIN fr : IsEvaluation(fr[d]) /\ x = fr[d].lazy
        BY DEF EvaluatedIn
      <4>2. \A x : x \in EvaluatedIn(st) <=> \E d \in DOMAIN st : IsEvaluation(st[d]) /\ x = st[d].lazy
        BY DEF EvaluatedIn
      <4>3. \A x : x \in EvaluatedIn(fr) <=> x \in EvaluatedIn(st)
        BY <3>1, <3>2, <4>1, <4>2
      <4>4. EvaluatedIn(fr) \subseteq EvaluatedIn(st) /\ EvaluatedIn(st) \subseteq EvaluatedIn(fr)
        BY <4>3
      <4> QED
        BY <4>4
    <3> QED
      BY <1>2, <3>3, Zenon DEF EvaluatedIn, Evaluated
  <2>6. Asked(h, fr, c, v)
    BY <1>2, <1>4, <2>2, <2>3, <2>4, <2>5, Zenon DEF Asked
  <2> QED
    BY <2>1, <2>6, GetValueKeeps
<1>7. CASE Kind(v) # "lazy"
  <2>1. PICK k : k = Took(c, i, v)
    OBVIOUS
  <2>2. tt = Frames(k) /\ after = NextId(k) /\ g = h
    BY <1>1, <1>2, <1>3, <1>7, <2>1, Zenon DEF Read, Then
  <2>3. tt = [fr EXCEPT ![Len(fr)] = k]
    <3>1. st \in Seq(FrameType(Len(h))) /\ Len(st) \in DOMAIN st
      <4>1. st \in Seq(FrameType(Len(h)))
        BY <1>2, TypedFacts DEF Good
      <4>2. Len(st) \in DOMAIN st
        BY <1>2, TopFacts
      <4> QED
        BY <4>1, <4>2
    <3>2. tt = [st EXCEPT ![Len(st)] = k]
      BY <1>2, <2>2, Zenon DEF Frames
    <3> QED
      BY <1>2, <3>1, <3>2
  <2>4. TakesField(h, fr, <<>>, c, v, k, tt)
    BY <1>2, <1>3, <1>5, <1>7, <2>1, <2>3, Zenon DEF TakesField
  <2>5. Good(h, tt, <<>>) /\ tt # <<>> /\ Last(tt) = k /\ ~IsEvaluation(k)
    BY <2>4, FieldTaken
  <2>6. Sights(h, h, tt, k, ends)
    BY <1>1, <2>5 DEF Sights
  <2>7. after = NextEnds(h, k, ends)
    BY <1>1, <1>2, <2>2, Zenon DEF NextId, NextEnds
  <2> QED
    BY <1>1, <2>2, <2>6, <2>7, InSight, HeldNext
<1> QED
  BY <1>6, <1>7

\* LOAD goes on:
LEMMA ReadPlaceKeeps ==
    ASSUME Inv, ReadPlace
    PROVE  Inv'
<1>1. PICK h, st, f, ends : Now(h, st, f, ends)
  BY DEF Now
<1>2. /\ Good(h, st, <<>>) /\ st # <<>> /\ f = Last(st) /\ ~IsEvaluation(f) /\ f.load.at = "place"
      /\ ends \in [Shapes -> Int]
  BY <1>1 DEF Inv, ReadPlace, Loading, Now, Top
<1>3. PICK i : i = f.load.i
  OBVIOUS
<1>4. AtField(h, st, <<>>, f)
  BY <1>2, AtPlace
<1>5. [f EXCEPT !.load.i = i] = f
  <2>1. f \in FrameType(Len(h))
    BY <1>2, TopFacts
  <2> QED
    BY <1>3, <2>1 DEF FrameType, LoadType
<1>6. [st EXCEPT ![Len(st)] = f] = st
  <2>1. st \in Seq(FrameType(Len(h))) /\ f = st[Len(st)]
    <3>1. st \in Seq(FrameType(Len(h)))
      BY <1>2, TypedFacts DEF Good
    <3>2. f = st[Len(st)]
      BY <1>2, TopFacts
    <3> QED
      BY <3>1, <3>2
  <2> QED
    BY <2>1
<1>7. Reads(h, st, f, f, st, i)
  BY <1>1, <1>2, <1>3, <1>4, <1>5, <1>6 DEF Reads, Now
<1>8. Read(i)
  BY <1>1, <1>3 DEF ReadPlace, Now
<1> QED
  BY <1>1, <1>2, <1>7, <1>8, ReadKeeps DEF Now

\* __get_lazy goes on:
LEMMA ReadLazyKeeps ==
    ASSUME Inv, ReadLazy
    PROVE  Inv'
<1>1. PICK h, st, f, ends : Now(h, st, f, ends)
  BY DEF Now
<1>2. /\ Good(h, st, <<>>) /\ st # <<>> /\ f = Last(st) /\ ~IsEvaluation(f) /\ f.load.at = "lazy"
      /\ ends \in [Shapes -> Int]
  BY <1>1 DEF Inv, ReadLazy, Loading, Now, Top
<1>3. PICK l : l = f.load.src
  OBVIOUS
<1>4. GetValue(st, l)
  BY <1>1, <1>3 DEF ReadLazy, Now
<1>5. LoadOK(h, f) /\ \A o \in Seen(f) : o = Const \/ o \in DOMAIN h
  <2>1. LoadOK(h, f)
    BY <1>2, TopFacts
  <2>2. \A o \in Seen(f) : o = Const \/ o \in DOMAIN h
    BY <1>2, TopFacts
  <2> QED
    BY <2>1, <2>2
<1>6. l # Const /\ h[l].kind = "lazy"
  BY <1>2, <1>3, <1>5 DEF LoadOK
<1>7. l \in DOMAIN h
  BY <1>3, <1>5, <1>6 DEF Seen
<1>8. Expects(h, f, l)
  BY <1>2, <1>3 DEF Expects
<1>9. EvaluatedIn(st) = Evaluated
  BY <1>1 DEF EvaluatedIn, Evaluated, Now
<1>10. Asked(h, st, f, l)
  BY <1>1, <1>2, <1>6, <1>7, <1>8, <1>9 DEF Asked, Now
<1> QED
  BY <1>1, <1>2, <1>4, <1>10, GetValueKeeps DEF Now

\* LOADRCRD goes on, and never runs past the end of the ids:
LEMMA SearchKeeps ==
    ASSUME Inv, Search
    PROVE  Inv'
<1>1. PICK h, st, f, ends, g, tt, after : Now(h, st, f, ends) /\ Then(g, tt, after)
  BY DEF Now, Then
<1>2. PICK src, ids, k, want, from, hits, end :
         /\ src = f.load.src /\ ids = FieldIds[h[src].shape]
         /\ k = f.load.k /\ want = f.load.want[k] /\ from = f.load.i
         /\ end = Len(ids) + 1
         /\ hits = {i \in from .. Len(Searched(h[src].shape)) : Searched(h[src].shape)[i] = want}
  OBVIOUS
<1>3. /\ Good(h, st, <<>>) /\ st # <<>> /\ f = Last(st) /\ ~IsEvaluation(f) /\ f.load.at = "search"
      /\ ends \in [Shapes -> Int] /\ EndInSight(h, st, ends)
  BY <1>1 DEF Inv, Search, Loading, Now, Top
<1>4. ends[h[src].shape] = want
  BY <1>2, <1>3, Zenon DEF EndInSight
<1>5. LoadOK(h, f) /\ f.load \in LoadType(Len(h)) /\ f \in FrameType(Len(h))
      /\ \A o \in Seen(f) : o = Const \/ o \in DOMAIN h
  <2>1. LoadOK(h, f) /\ f.load \in LoadType(Len(h)) /\ f \in FrameType(Len(h))
    BY <1>3, TopFacts
  <2>2. \A o \in Seen(f) : o = Const \/ o \in DOMAIN h
    BY <1>3, TopFacts
  <2> QED
    BY <2>1, <2>2
<1>6. src # Const /\ h[src].kind = "rec" /\ SearchOK(h, f.load) /\ src \in DOMAIN h
  <2>1. src # Const /\ h[src].kind = "rec" /\ SearchOK(h, f.load)
    BY <1>2, <1>3, <1>5 DEF LoadOK
  <2> QED
    BY <1>2, <1>5, <2>1 DEF Seen
<1>7. ids \in Seq(Int) /\ DOMAIN ids = 1 .. Len(ids) /\ Len(ids) \in Nat
  BY <1>2, <1>3, <1>6, RecordFacts
<1>8. from \in 1 .. end
  <2>1. f.load.i \in 1 .. Len(FieldIds[h[f.load.src].shape]) + 1
    BY <1>3, <1>6, Zenon DEF SearchOK
  <2> QED
    BY <1>2, <2>1
<1>9. PICK all : all = Searched(h[src].shape) /\ all = Append(ids, want)
  BY <1>1, <1>2, <1>4 DEF Searched, Now
<1>10. want \in Int
  <2>1. k <= Len(f.load.want)
    BY <1>2, <1>3, <1>6, Zenon DEF SearchOK
  <2>2. f.load.want \in Seq(Int) /\ k \in Nat \ {0}
    BY <1>2, <1>5 DEF LoadType
  <2> QED
    BY <1>2, <2>1, <2>2
<1>17. end = Len(ids) + 1 /\ end \in Nat /\ from \in Nat /\ from <= end
  <2>1. end = Len(ids) + 1
    BY <1>2
  <2>2. end \in Nat
    BY <1>7, <2>1
  <2> QED
    BY <1>8, <2>1, <2>2
<1>11. Len(all) = end /\ all[end] = want /\ \A i \in 1 .. Len(ids) : all[i] = ids[i]
  <2>1. all = Append(ids, want) /\ ids \in Seq(Int) /\ want \in Int
    BY <1>7, <1>9, <1>10
  <2>2. Len(all) = Len(ids) + 1 /\ all[Len(ids) + 1] = want /\ \A i \in 1 .. Len(ids) : all[i] = ids[i]
    BY <2>1
  <2> QED
    BY <1>17, <2>2
<1>12. hits = {i \in from .. end : all[i] = want} /\ end \in hits /\ hits \subseteq from .. end
  <2>1. hits = {i \in from .. Len(all) : all[i] = want}
    BY <1>2, <1>9
  <2>2. hits = {i \in from .. end : all[i] = want}
    BY <1>11, <2>1
  <2>3. end \in from .. end
    BY <1>17
  <2> QED
    BY <1>11, <2>2, <2>3
<1>13. Min(hits) \in hits /\ \A i \in hits : Min(hits) <= i
  <2>1. IsFiniteSet(from .. end) /\ from .. end \subseteq Int
    BY <1>17, FS_Interval
  <2>3. hits \subseteq from .. end /\ hits # {}
    BY <1>12
  <2>2. hits \in SUBSET Int /\ hits # {} /\ IsFiniteSet(hits)
    BY <2>1, <2>3, FS_Subset
  <2> QED
    BY <2>2, LeastNumber
<1>14. PICK i : i = Min(hits)
  OBVIOUS
<1>15. CASE i = end
  <2>1. tt = Frames(Ends(f, "failed")) /\ g = h /\ after = ends
    <3>1. hits # {} /\ Min(hits) = Len(all)
      BY <1>11, <1>12, <1>14, <1>15
    <3> QED
      BY <1>1, <1>2, <1>9, <3>1, Zenon DEF Search, Now, Then
  <2>2. PICK c : c = Ends(f, "failed")
    OBVIOUS
  <2>3. ASSUME NEW p \in DOMAIN ids, ids[p] = want
        PROVE  p < from
    <3>1. p \in 1 .. Len(ids) /\ p \in Nat /\ all[p] = want /\ p < end
      BY <1>7, <1>11, <1>17, <2>3
    <3>2. p \notin hits
      <4>1. p \in hits => end <= p
        BY <1>13, <1>14, <1>15
      <4> QED
        BY <1>17, <3>1, <4>1
    <3>3. p \in from .. end => p \in hits
      BY <1>12, <3>1
    <3> QED
      BY <1>17, <3>1, <3>2, <3>3
  <2>4. GivesUp(h, st, f, c, tt)
    BY <1>1, <1>2, <1>3, <1>6, <2>1, <2>2, <2>3, Zenon DEF GivesUp, Frames, Now
  <2>5. Good(h, tt, <<>>) /\ Last(tt).load.at = "failed"
    BY <2>4, GaveUp
  <2>6. Held(h, tt, ends)
    BY <1>3, <2>5, Rests
  <2> QED
    BY <1>1, <2>1, <2>6, HeldNext
<1>16. CASE i # end
  <2>1. Read(i)
    <3>1. ~(hits = {} \/ Min(hits) = Len(all))
      BY <1>11, <1>12, <1>14, <1>16
    <3> QED
      BY <1>1, <1>2, <1>9, <1>14, <3>1, Zenon DEF Search, Now
  <2>2. i \in DOMAIN ids /\ from <= i /\ ids[i] = want
    <3>1. i \in from .. end /\ all[i] = want
      BY <1>12, <1>13, <1>14
    <3>2. i \in 1 .. Len(ids)
      BY <1>2, <1>7, <1>8, <1>16, <3>1
    <3> QED
      BY <1>7, <1>8, <1>11, <3>1, <3>2
  <2>3. PICK c, fr : c = [f EXCEPT !.load.i = i] /\ fr = [st EXCEPT ![Len(st)] = c]
    OBVIOUS
  <2>4. Comes(h, st, f, i, c, fr)
    BY <1>2, <1>3, <1>6, <2>2, <2>3, Zenon DEF Comes
  <2>5. AtField(h, fr, <<>>, c) /\ Len(fr) = Len(st) /\ c.load.src = f.load.src
    BY <2>4, CameToField
  <2>6. c.load.i = i
    BY <1>5, <2>3 DEF FrameType, LoadType
  <2>7. Reads(h, st, f, c, fr, i)
    BY <1>1, <1>3, <2>3, <2>5, <2>6, Zenon DEF Reads, Now
  <2> QED
    BY <1>1, <1>3, <2>1, <2>7, ReadKeeps DEF Now
<1> QED
  BY <1>15, <1>16

-----------------------------------------------------------------------------
(* The steps of evaluations keep the invariant *)

\* The value vv of l takes the place of l in the evaluation e, on top of fr.
Passes(h, fr, e, l, vv) ==
    /\ Good(h, fr, <<>>) /\ fr # <<>> /\ e = Last(fr) /\ IsEvaluation(e) /\ e.own = <<l>>
    /\ l # Const /\ h[l].kind = "lazy" /\ h[l].ready /\ vv = h[l].refs[1]

\* An evaluation takes the value of an inner one:
LEMMA ThroughKeeps ==
    ASSUME sentinel \in [Shapes -> Int], NEW h, NEW fr, NEW e, NEW l, NEW vv, Passes(h, fr, e, l, vv),
           Through(fr, h, vv)
    PROVE  Inv'
<1>1. PICK ends, g, tt, after : ends = sentinel /\ Then(g, tt, after)
  BY DEF Then
<1>2. /\ Good(h, fr, <<>>) /\ fr # <<>> /\ e = Last(fr) /\ IsEvaluation(e) /\ e.own = <<l>>
      /\ l # Const /\ h[l].kind = "lazy" /\ h[l].ready /\ vv = h[l].refs[1]
  BY Zenon DEF Passes
<1>3. fr[Len(fr)] = e
  BY <1>2 DEF Last
<1>4. /\ g = Release(Inc(h, vv), e.own) /\ tt = [fr EXCEPT ![Len(fr)] = [e EXCEPT !.own = <<vv>>]]
      /\ after = ends
  BY <1>1, <1>3, Zenon DEF Through, Then
<1>5. PassesOn(h, fr, e, l, vv, g, tt)
  BY <1>2, <1>4, Zenon DEF PassesOn
<1>6. Good(g, tt, <<>>) /\ IsEvaluation(Last(tt))
  BY <1>5, Passed
<1>7. Held(g, tt, ends)
  BY <1>1, <1>6, Rests
<1> QED
  BY <1>1, <1>4, <1>7, HeldNext

\* An evaluation that waits came to something.
LEMMA WaitingFacts ==
    ASSUME Inv, Waiting, NEW h, NEW st, NEW e, NEW ends, Now(h, st, e, ends)
    PROVE  /\ Good(h, st, <<>>) /\ st # <<>> /\ e = Last(st) /\ IsEvaluation(e) /\ e.own # <<>>
           /\ ends \in [Shapes -> Int] /\ e.own = <<e.own[1]>>
           /\ \A o : Kind(o) = KindIn(h, o)
<1>1. Good(h, st, <<>>) /\ st # <<>> /\ e = Last(st) /\ IsEvaluation(e) /\ e.own # <<>> /\ ends \in [Shapes -> Int]
  BY DEF Inv, Waiting, Now, Top
<1>2. EvaluationOK(h, st, Len(st)) /\ e = st[Len(st)] /\ e.own \in Seq(0 .. Len(h))
  BY <1>1, TopFacts
<1>3. Len(e.own) = 1
  BY <1>1, <1>2 DEF EvaluationOK
<1>4. e.own = <<e.own[1]>>
  BY <1>2, <1>3
<1>5. \A o : Kind(o) = KindIn(h, o)
  BY DEF Now, Kind, KindIn
<1> QED
  BY <1>1, <1>4, <1>5

\* An evaluation has come to a lazy value:
LEMMA FallThroughKeeps ==
    ASSUME Inv, FallThrough
    PROVE  Inv'
<1>1. PICK h, st, e, ends, g, tt, after : Now(h, st, e, ends) /\ Then(g, tt, after)
  BY DEF Now, Then
<1>2. Waiting
  BY DEF FallThrough
<1>3. /\ Good(h, st, <<>>) /\ st # <<>> /\ e = Last(st) /\ IsEvaluation(e) /\ e.own # <<>>
      /\ ends \in [Shapes -> Int] /\ e.own = <<e.own[1]>>
      /\ \A o : Kind(o) = KindIn(h, o)
  BY <1>1, <1>2, WaitingFacts
<1>4. PICK l : l = e.own[1]
  OBVIOUS
<1>5. l # Const /\ h[l].kind = "lazy"
  <2>1. Kind(l) = "lazy"
    BY <1>1, <1>4 DEF FallThrough, Now
  <2> QED
    BY <1>3, <2>1 DEF KindIn
<1>6. l \in DOMAIN h
  <2>1. l \in Seen(e)
    BY <1>3, <1>4 DEF Seen, Range
  <2>2. \A o \in Seen(e) : o = Const \/ o \in DOMAIN h
    BY <1>3, TopFacts
  <2> QED
    BY <1>5, <2>1, <2>2
<1>7. CASE h[l].ready
  <2>1. PICK vv : vv = h[l].refs[1]
    OBVIOUS
  <2>2. Through(st, h, vv)
    BY <1>1, <1>4, <1>7, <2>1, Zenon DEF FallThrough, Now
  <2>3. Passes(h, st, e, l, vv)
    BY <1>3, <1>4, <1>5, <1>7, <2>1 DEF Passes
  <2> QED
    BY <1>1, <1>3, <2>2, <2>3, ThroughKeeps DEF Now
<1>8. CASE ~h[l].ready
  <2>1. Evaluate(st, l)
    BY <1>1, <1>4, <1>8, Zenon DEF FallThrough, Now
  <2>2. /\ l \notin EvaluatedIn(st) /\ tt = st \o <<Evaluation(l), Code(h[l].refs[1], ThunkSteps)>>
        /\ g = h /\ after = ends
    BY <1>1, <2>1 DEF Evaluate, Evaluated, EvaluatedIn, Now, Then
  <2>3. Expects(h, e, l)
    BY <1>3, <1>4 DEF Expects
  <2>4. Waits(h, st, l, tt, ends)
    BY <1>3, <1>5, <1>6, <1>8, <2>2, <2>3, Zenon DEF Waits
  <2>5. Held(h, tt, ends)
    BY <2>4, Waited
  <2> QED
    BY <1>1, <2>2, <2>5, HeldNext
<1> QED
  BY <1>7, <1>8

\* An evaluation ends:
LEMMA SettleKeeps ==
    ASSUME Inv, Settle
    PROVE  Inv'
<1>1. PICK h, st, e, ends : Now(h, st, e, ends)
  BY DEF Now
<1>2. Waiting
  BY DEF Settle
<1>3. /\ Good(h, st, <<>>) /\ st # <<>> /\ e = Last(st) /\ IsEvaluation(e) /\ e.own # <<>>
      /\ ends \in [Shapes -> Int] /\ \A o : Kind(o) = KindIn(h, o)
  BY <1>1, <1>2, WaitingFacts
<1>4. PICK g, fr, c, l, vv : /\ g = [h EXCEPT ![e.lazy].refs = e.own, ![e.lazy].ready = TRUE]
                             /\ fr = Front(st) /\ c = Last(fr) /\ l = e.lazy /\ vv = e.own[1]
  OBVIOUS
<1>5. KindIn(h, vv) # "lazy"
  BY <1>1, <1>3, <1>4 DEF Settle, Now
<1>6. IF IsEvaluation(c) THEN Through(fr, g, vv) ELSE Deliver(fr, g, vv)
  BY <1>1, <1>4, Zenon DEF Settle, Now
<1>7. IsSettled(h, e, g)
  BY <1>4, Zenon DEF IsSettled
<1>8. /\ Good(g, fr, <<>>) /\ fr # <<>> /\ Expects(g, c, l)
      /\ l \in DOMAIN g /\ g[l].kind = "lazy" /\ g[l].ready /\ g[l].refs = e.own
  <2>1. Good(g, fr, <<>>) /\ fr # <<>> /\ Expects(g, c, l)
    BY <1>3, <1>4, <1>5, <1>7, Settled
  <2>3. /\ Good(h, st, <<>>) /\ st # <<>> /\ e = Last(st) /\ IsEvaluation(e) /\ e.own # <<>>
        /\ KindIn(h, e.own[1]) # "lazy" /\ IsSettled(h, e, g)
    BY <1>3, <1>4, <1>5, <1>7
  <2>4. e.lazy \in DOMAIN g /\ g[e.lazy].kind = "lazy" /\ g[e.lazy].ready
    BY <2>3, Settled
  <2>5. g[e.lazy].refs = e.own
    BY <2>3, Settled
  <2> QED
    BY <1>4, <2>1, <2>4, <2>5
<1>9. l # Const /\ vv = g[l].refs[1]
  <2>1. Const \notin DOMAIN g
    BY <1>8, TopFacts
  <2> QED
    BY <1>4, <1>8, <2>1
<1>10. CASE IsEvaluation(c)
  <2>1. c.own = <<l>>
    BY <1>8, <1>10 DEF Expects
  <2>2. Passes(g, fr, c, l, vv)
    BY <1>4, <1>8, <1>9, <1>10, <2>1 DEF Passes
  <2> QED
    BY <1>1, <1>3, <1>6, <1>10, <2>2, ThroughKeeps DEF Now
<1>11. CASE ~IsEvaluation(c)
  <2>1. ASSUME c.load.at # "lazy"
        PROVE  heap[c.load.src].shape = g[c.load.src].shape
    <3>1. c.load.at \in {"search", "place"} /\ g[c.load.src].kind = "rec"
      BY <1>8, <1>11, <2>1 DEF Expects
    <3>2. LoadOK(g, c) /\ \A o \in Seen(c) : o = Const \/ o \in DOMAIN g
      <4>1. LoadOK(g, c)
        BY <1>4, <1>8, <1>11, TopFacts
      <4>3. Good(g, fr, <<>>) /\ fr # <<>> /\ c = Last(fr)
        BY <1>4, <1>8
      <4>2. \A o \in Seen(c) : o = Const \/ o \in DOMAIN g
        BY <4>3, TopFacts
      <4> QED
        BY <4>1, <4>2
    <3>3. c.load.src # Const
      BY <3>1, <3>2 DEF LoadOK
    <3>4. c.load.src \in DOMAIN g /\ c.load.src # l
      BY <1>8, <3>1, <3>2, <3>3 DEF Seen
    <3>5. DOMAIN g = DOMAIN h /\ \A o \in DOMAIN h \ {l} : g[o] = h[o]
      BY <1>4
    <3> QED
      BY <1>1, <3>4, <3>5 DEF Now
  <2>2. Due(g, fr, c, l, vv)
    BY <1>4, <1>8, <1>9, <1>11, <2>1, Zenon DEF Due
  <2> QED
    BY <1>1, <1>3, <1>6, <1>11, <2>2, DeliverKeeps DEF Now
<1> QED
  BY <1>10, <1>11

-----------------------------------------------------------------------------
(* The beginning *)

\* What a program begins with, and the frame of the program
Begins(h, own, f) == Beginning(h, own) /\ f = [Code(Const, MainSteps) EXCEPT !.own = own]

\* What a program begins with satisfies the invariant,
LEMMA Begun ==
    ASSUME NEW h, NEW own, NEW f, Begins(h, own, f)
    PROVE  Good(h, <<f>>, <<>>) /\ f.load = Idle
<1> DEFINE n == Len(h)
           st == <<f>>
<1>1. /\ h \in Seq(ObjectType(n)) /\ own \in Seq(DOMAIN h)
      /\ \A o \in DOMAIN h :
           /\ h[o].kind # "freed"
           /\ h[o].rc > 0 /\ h[o].rc = Among(Refs(h), o) + Occurs(own, o)
           /\ \E U \in SUBSET DOMAIN h : o \in U /\ Upward(h, U) /\ Range(h[o].refs) \intersect U = {}
           /\ h[o].kind = "rec" => h[o].shape \in Shapes /\ Len(h[o].refs) = Cardinality(h[o].shape)
           /\ h[o].kind = "lazy" =>
                /\ Len(h[o].refs) = 1
                /\ IF h[o].ready THEN h[o].refs[1] = Const \/ h[h[o].refs[1]].kind # "lazy"
                   ELSE h[o].refs[1] # Const /\ h[h[o].refs[1]].kind = "fun"
  BY Zenon DEF Begins, Beginning, n
<1>2. /\ n \in Nat /\ DOMAIN h = 1 .. n /\ Const \notin DOMAIN h
      /\ \A o \in DOMAIN h : h[o].refs \in Seq(0 .. n)
  <2>1. n \in Nat /\ DOMAIN h = 1 .. n /\ Const \notin DOMAIN h
    BY <1>1, HeapFacts
  <2>2. \A o \in DOMAIN h : h[o].refs \in Seq(0 .. n)
    BY <1>1, HeapFacts
  <2> QED
    BY <2>1, <2>2
<1>3. own \in Seq(0 .. n)
  <2>1. DOMAIN h \subseteq 0 .. n
    BY <1>2
  <2>2. PICK A, B : A = DOMAIN h /\ B = 0 .. n
    OBVIOUS
  <2>3. own \in Seq(A) /\ A \subseteq B
    BY <1>1, <2>1, <2>2
  <2>4. Len(own) \in Nat /\ own \in [1 .. Len(own) -> A]
    BY <2>3
  <2>5. own \in [1 .. Len(own) -> B]
    BY <2>3, <2>4
  <2>6. own \in Seq(B)
    BY <2>4, <2>5
  <2> QED
    BY <2>2, <2>6
<1>4. Idle \in LoadType(n) /\ Idle.at = "idle" /\ Idle.src = Const /\ Idle.got = <<>>
  <2>1. 0 \in 0 .. n /\ <<>> \in Seq(0 .. n) /\ <<>> \in Seq(Int)
    BY <1>2
  <2> HIDE DEF n
  <2> QED
    BY <2>1 DEF Idle, Load, LoadType, Const
<1>5. /\ f \in FrameType(n) /\ f.lazy = Const /\ f.fun = Const /\ f.own = own /\ f.load = Idle
  <2>1. f = [lazy |-> Const, fun |-> Const, own |-> own, left |-> MainSteps, load |-> Idle]
    BY DEF Begins, Code
  <2>2. 0 \in 0 .. n /\ MainSteps \in Nat
    BY <1>2, LazyRecordsAssumption
  <2> HIDE DEF n
  <2> QED
    BY <1>3, <1>4, <2>1, <2>2 DEF FrameType, Const
<1>6. st \in Seq(FrameType(n)) /\ DOMAIN st = {1} /\ Len(st) = 1 /\ st[1] = f /\ Range(st) = {f} /\ st # <<>>
  BY <1>5 DEF Range
<1>7. Typed(h, st, <<>>)
  <2>1. <<>> \in Seq(0 .. n)
    OBVIOUS
  <2> QED
    BY <1>1, <1>6, <2>1 DEF Typed
<1> HIDE DEF st, n
<1>8. ASSUME NEW o \in DOMAIN h
      PROVE  ObjectOK(h, st, o)
  <2>1. h[o].kind # "freed"
    BY <1>1
  <2>2. h[o].kind = "rec" => h[o].shape \in Shapes /\ Len(h[o].refs) = Cardinality(h[o].shape)
    BY <1>1
  <2>3. ASSUME h[o].kind = "lazy"
        PROVE  /\ Len(h[o].refs) = 1 /\ h[o].refs # <<>>
               /\ h[o].ready => KindIn(h, h[o].refs[1]) # "lazy"
               /\ ~h[o].ready => KindIn(h, h[o].refs[1]) = "fun"
    <3>1. Len(h[o].refs) = 1
      BY <1>1, <2>3
    <3>2. h[o].refs # <<>>
      BY <3>1
    <3>3. h[o].ready => h[o].refs[1] = Const \/ h[h[o].refs[1]].kind # "lazy"
      BY <1>1, <2>3
    <3>4. ~h[o].ready => h[o].refs[1] # Const /\ h[h[o].refs[1]].kind = "fun"
      BY <1>1, <2>3
    <3> QED
      BY <3>1, <3>2, <3>3, <3>4 DEF KindIn
  <2> QED
    BY <2>1, <2>2, <2>3 DEF ObjectOK
<1>9. ~IsEvaluation(f)
  BY <1>5 DEF IsEvaluation
<1>10. ASSUME NEW d \in DOMAIN st
       PROVE  FrameOK(h, st, d)
  <2>1. d = 1 /\ st[d] = f /\ ~(d < Len(st))
    BY <1>6
  <2>2. LoadOK(h, f)
    BY <1>4, <1>5 DEF LoadOK
  <2>3. CodeOK(h, st, d)
    BY <1>5, <2>1, <2>2 DEF CodeOK
  <2> QED
    BY <1>9, <2>1, <2>3 DEF FrameOK
<1>11. Distinct(st) /\ Apart(h, st, Range(<<>>))
  BY <1>6, <1>9, Zenon DEF Distinct, Apart
<1>12. Acyclic(h)
  BY <1>1 DEF Acyclic, Above
<1>13. ASSUME NEW o
       PROVE  Among(Owns(st), o) = Occurs(own, o) /\ Occurs(own, o) \in Nat
  <2>1. <<>> \in Seq(FrameType(n)) /\ Append(<<>>, f) = st
    BY <1>5 DEF st
  <2>2. FiniteFamily(Owns(<<>>)) /\ DOMAIN Owns(<<>>) = {}
    <3>1. <<>> \in Seq(0 .. n) /\ DOMAIN <<>> = {}
      OBVIOUS
    <3> QED
      BY <1>2, <2>1, <3>1, OwnsFacts
  <2>3. Among(Owns(<<>>), o) = 0
    BY <2>2, AmongNat
  <2>4. Among(Owns(st), o) = Among(Owns(<<>>), o) + Occurs(f.own, o) /\ Occurs(f.own, o) \in Nat
    BY <1>2, <1>5, <2>1, OwnsPush
  <2> QED
    BY <1>5, <2>3, <2>4
<1>14. Counts(h, Owned(h, st, <<>>))
  <2>1. ASSUME NEW o \in DOMAIN h
        PROVE  ~Dead(h, o) /\ h[o].rc = Owned(h, st, <<>>)[o] + Among(Refs(h), o)
    <3>1. Occurs(<<>>, o) = 0
      BY OccursEmpty
    <3>2. Owned(h, st, <<>>)[o] = Among(Owns(st), o) + Occurs(<<>>, o)
      BY DEF Owned
    <3>3. Owned(h, st, <<>>)[o] = Occurs(own, o)
      BY <1>13, <3>1, <3>2
    <3>4. h[o].rc = Among(Refs(h), o) + Occurs(own, o) /\ h[o].kind # "freed"
      BY <1>1
    <3>5. Among(Refs(h), o) \in Nat
      BY <1>7, TypedFacts, AmongRefsNat
    <3> QED
      BY <1>13, <3>3, <3>4, <3>5 DEF Dead
  <2> QED
    BY <2>1 DEF Counts
<1>15. Alive(h, st)
  BY <1>1 DEF Alive, Dead
<1> QED
  BY <1>5, <1>7, <1>8, <1>10, <1>11, <1>12, <1>14, <1>15 DEF Good, st

\* so it holds initially,
LEMMA InitInv == Init => Inv
<1> SUFFICES ASSUME Init PROVE Inv
  OBVIOUS
<1>1. PICK s \in Start : heap = s.heap /\ stack = <<[Code(Const, MainSteps) EXCEPT !.own = s.own]>>
  BY DEF Init
<1>2. PICK f : f = [Code(Const, MainSteps) EXCEPT !.own = s.own]
  OBVIOUS
<1>3. Begins(heap, s.own, f) /\ stack = <<f>>
  BY <1>1, <1>2, StartAssumption, Zenon DEF Begins
<1>4. Good(heap, stack, <<>>) /\ f.load = Idle
  BY <1>3, Begun
<1>5. Last(stack) = f
  BY <1>3 DEF Last
<1>6. sentinel \in [Shapes -> Int]
  BY DEF Init, NoField
<1>7. Idle.at # "search"
  BY DEF Idle, Load
<1>8. Held(heap, stack, sentinel)
  BY <1>4, <1>5, <1>6, <1>7, Rests
<1> QED
  BY <1>8 DEF Held, Inv

-----------------------------------------------------------------------------
(* The theorems *)

\* a step of running code keeps it,
LEMMA StepKeeps ==
    ASSUME Inv, Step
    PROVE  Inv'
<1>1. CASE \E os \in {<<>>} \union {<<o>> : o \in Visible} : MakeLazy(os)
  BY <1>1, MakeLazyKeeps
<1>2. CASE \E shape \in Shapes : \E data \in [1 .. Cardinality(shape) -> Usable] : MakeRecord(shape, data)
  BY <1>2, MakeRecordKeeps
<1>3. CASE \E src \in Visible, ids \in Wanted : \E vals \in [DOMAIN ids -> Usable] : Update(src, ids, vals)
  BY <1>3, UpdateKeeps
<1>4. CASE \E src \in Visible, x \in Mutable, v \in Usable : Assign(src, x, v)
  BY <1>4, AssignKeeps
<1>5. CASE \E k \in DOMAIN Top.own : LetGo(k)
  BY <1>5, LetGoKeeps
<1>6. CASE \E src \in Visible, want \in Wanted : StartLoad(src, want)
  BY <1>6, StartLoadKeeps
<1>7. CASE \E src \in Visible : \E i \in DOMAIN heap[src].refs : StartLoadAt(src, i)
  BY <1>7, StartLoadAtKeeps
<1>8. CASE \E l \in Visible : GetLazy(l, Top.own)
  <2>1. PICK l \in Visible : GetLazy(l, Top.own)
    BY <1>8
  <2>2. l \in Usable
    BY DEF Usable
  <2> QED
    BY <2>1, <2>2, GetLazyKeeps
<1>9. CASE \E k \in DOMAIN Top.own : GetLazy(Top.own[k], RemoveAt(Top.own, k))
  <2>1. PICK k \in DOMAIN Top.own : GetLazy(Top.own[k], RemoveAt(Top.own, k))
    BY <1>9
  <2>2. PICK l, own : l = Top.own[k] /\ own = RemoveAt(Top.own, k)
    OBVIOUS
  <2>3. l \in Usable
    BY <2>2 DEF Usable, Visible, Range
  <2>4. GetLazy(l, own)
    BY <2>1, <2>2
  <2> QED
    BY <2>2, <2>3, <2>4, GetLazyKeeps
<1>10. CASE \E v \in Usable : Return(v)
  BY <1>10, ReturnKeeps
<1>11. CASE Abort
  BY <1>11, AbortKeeps
<1>12. CASE Exit
  BY <1>12, ExitKeeps
<1> QED
  BY <1>1, <1>2, <1>3, <1>4, <1>5, <1>6, <1>7, <1>8, <1>9, <1>10, <1>11, <1>12, Zenon DEF Step

\* and every step does.
LEMMA NextInv == Inv /\ [Next]_vars => Inv'
<1> SUFFICES ASSUME Inv, [Next]_vars PROVE Inv'
  OBVIOUS
<1>1. CASE Running /\ Step
  BY <1>1, StepKeeps
<1>2. CASE ReadPlace
  BY <1>2, ReadPlaceKeeps
<1>3. CASE ReadLazy
  BY <1>3, ReadLazyKeeps
<1>4. CASE Search
  BY <1>4, SearchKeeps
<1>5. CASE Bind
  BY <1>5, BindKeeps
<1>6. CASE FallThrough
  BY <1>6, FallThroughKeeps
<1>7. CASE Settle
  BY <1>7, SettleKeeps
<1>8. CASE UNCHANGED vars
  BY <1>8, Zenon DEF vars, Inv
<1> QED
  BY <1>1, <1>2, <1>3, <1>4, <1>5, <1>6, <1>7, <1>8 DEF Next

\* Objects and frames are as they should be, evaluations nest, what they
\* evaluate is out of reach, and each count is exact, in every state.
THEOREM Invariance == Spec => []Inv
BY InitInv, NextInv, PTL DEF Spec

\* Exact counts follow from the invariant,
LEMMA InvAccounted == Inv => Accounted
<1> SUFFICES ASSUME Inv, NEW o \in DOMAIN heap
    PROVE IF heap[o].kind = "freed" THEN Holders(o) = 0 /\ o \notin Borrowed
          ELSE heap[o].rc = Holders(o) /\ (heap[o].rc > 0 \/ o \in Floating)
  BY DEF Accounted
<1>1. PICK h, st : h = heap /\ st = stack
  OBVIOUS
<1>2. Good(h, st, <<>>) /\ o \in DOMAIN h
  BY <1>1 DEF Inv
<1>3. /\ h \in Seq(ObjectType(Len(h))) /\ st \in Seq(FrameType(Len(h))) /\ Len(h) \in Nat
      /\ <<>> \in Seq(0 .. Len(h)) /\ Countable(h) /\ o # Const
  <2>1. /\ h \in Seq(ObjectType(Len(h))) /\ st \in Seq(FrameType(Len(h))) /\ Len(h) \in Nat
        /\ <<>> \in Seq(0 .. Len(h)) /\ Countable(h)
    BY <1>2, TypedFacts DEF Good
  <2>2. o # Const
    BY <1>2, <2>1, HeapFacts
  <2> QED
    BY <2>1, <2>2
<1>4. Holders(o) = Among(Refs(h), o) + Among(Owns(st), o)
  BY <1>1, Zenon DEF Holders, Owns
<1>5. Owned(h, st, <<>>)[o] = Among(Owns(st), o) /\ Among(Owns(st), o) \in Nat
  <2>1. Occurs(<<>>, o) = 0
    BY OccursEmpty
  <2>2. Owned(h, st, <<>>)[o] = Among(Owns(st), o) + Occurs(<<>>, o)
    BY <1>2 DEF Owned
  <2>3. Among(Owns(st), o) \in Nat
    BY <1>3, OwnsFacts
  <2> QED
    BY <2>1, <2>2, <2>3
<1>6. Among(Refs(h), o) \in Nat
  BY <1>3, AmongRefsNat
<1>7. Borrowed = UsedBy(st) /\ Floating = Afloat(st)
  BY <1>1, Zenon DEF Borrowed, UsedBy, Floating, Afloat
<1>8. /\ IF Dead(h, o) THEN Owned(h, st, <<>>)[o] = 0 /\ Among(Refs(h), o) = 0
         ELSE h[o].rc = Owned(h, st, <<>>)[o] + Among(Refs(h), o)
      /\ IF Dead(h, o) THEN o \notin UsedBy(st) ELSE h[o].rc > 0 \/ o \in Afloat(st)
  BY <1>2 DEF Good, Counts, Alive
<1>9. Dead(h, o) <=> h[o].kind = "freed"
  BY <1>3 DEF Dead
<1>10. CASE Dead(h, o)
  BY <1>1, <1>4, <1>5, <1>7, <1>8, <1>9, <1>10
<1>11. CASE ~Dead(h, o)
  <2>1. h[o].rc = Holders(o)
    BY <1>4, <1>5, <1>6, <1>8, <1>11
  <2> QED
    BY <1>1, <1>7, <1>8, <1>9, <1>11, <2>1
<1> QED
  BY <1>10, <1>11

\* and so does what loads find.
LEMMA InvLoadsAgree == Inv => LoadsAgree
<1> SUFFICES ASSUME Inv, NEW d \in DOMAIN stack
    PROVE LET load == stack[d].load
              o == heap[load.src]
          IN /\ load.at # "overrun"
             /\ load.at \in {"loaded", "failed"} /\ Kind(load.src) = "rec" =>
                  /\ (load.at = "loaded") <=> (Range(load.want) \subseteq o.shape)
                  /\ load.at = "loaded" =>
                       \A k \in DOMAIN load.want :
                          /\ load.got[k] = o.refs[PlaceOf(FieldIds[o.shape], load.want[k])]
                          /\ Kind(load.got[k]) # "lazy"
  BY DEF LoadsAgree
<1>1. PICK h, f, load : h = heap /\ f = stack[d] /\ load = f.load
  OBVIOUS
<1>2. f \in FrameType(Len(h)) /\ FrameOK(h, stack, d)
  <2>1. Good(h, stack, <<>>)
    BY <1>1 DEF Inv
  <2>2. FrameOK(h, stack, d)
    BY <2>1 DEF Good
  <2>3. stack \in Seq(FrameType(Len(h)))
    BY <2>1, TypedFacts DEF Good
  <2> QED
    BY <1>1, <2>2, <2>3
<1>3. load \in LoadType(Len(h))
  BY <1>1, <1>2 DEF FrameType
<1>4. load.at # "overrun" /\ load.want \in Seq(Int) /\ load.got \in Seq(0 .. Len(h)) /\ load.k \in Nat
  BY <1>3 DEF LoadType
<1>5. \A o : Kind(o) = KindIn(h, o)
  BY <1>1 DEF Kind, KindIn
<1>6. ASSUME load.at \in {"loaded", "failed"}, Kind(load.src) = "rec"
      PROVE  /\ (load.at = "loaded") <=> (Range(load.want) \subseteq h[load.src].shape)
             /\ load.at = "loaded" =>
                  \A k \in DOMAIN load.want :
                     /\ load.got[k] = h[load.src].refs[PlaceOf(FieldIds[h[load.src].shape], load.want[k])]
                     /\ Kind(load.got[k]) # "lazy"
  <2>1. Idle.at = "idle"
    BY DEF Idle, Load
  <2>2. ~IsEvaluation(f)
    BY <1>1, <1>2, <1>6, <2>1 DEF FrameOK, EvaluationOK
  <2>3. LoadOK(h, f)
    BY <1>1, <1>2, <2>2 DEF FrameOK, CodeOK
  <2>4. load.src # Const /\ h[load.src].kind = "rec"
    BY <1>5, <1>6 DEF KindIn
  <2>5. SearchOK(h, load)
    BY <1>1, <1>6, <2>3, <2>4 DEF LoadOK
  <2>6. CASE load.at = "failed"
    <3>1. ~(Range(load.want) \subseteq h[load.src].shape)
      BY <2>5, <2>6, Zenon DEF SearchOK
    <3> QED
      BY <2>6, <3>1
  <2>7. CASE load.at = "loaded"
    <3>1. /\ Len(load.got) = load.k - 1 /\ load.k = Len(load.want) + 1
          /\ \A j \in DOMAIN load.got :
                /\ load.want[j] \in h[load.src].shape
                /\ load.got[j] = h[load.src].refs[PlaceOf(FieldIds[h[load.src].shape], load.want[j])]
                /\ KindIn(h, load.got[j]) # "lazy"
      BY <2>5, <2>7, Zenon DEF SearchOK
    <3>2. DOMAIN load.got = DOMAIN load.want
      <4>1. Len(load.got) = Len(load.want)
        BY <1>4, <3>1
      <4> QED
        BY <1>4, <4>1
    <3>3. Range(load.want) \subseteq h[load.src].shape
      BY <3>1, <3>2 DEF Range
    <3> QED
      BY <1>5, <2>7, <3>1, <3>2, <3>3
  <2> QED
    BY <1>6, <2>6, <2>7
<1> QED
  BY <1>1, <1>4, <1>6, Zenon

\* Each count is the number of references that there are, however evaluations
\* are nested and whichever records share a lazy value.
THEOREM CountsExact == Spec => []Accounted
BY Invariance, InvAccounted, PTL

\* A load finds a field exactly if the record has it, and hands over its value,
\* whatever the evaluations in the middle of it did.
THEOREM LoadsExact == Spec => []LoadsAgree
BY Invariance, InvLoadsAgree, PTL
==============================================================================
