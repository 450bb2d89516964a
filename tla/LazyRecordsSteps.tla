-------------------------- MODULE LazyRecordsSteps ---------------------------
(* Every step of LazyRecords keeps the inductive invariant.                    *)
EXTENDS LazyRecordsProofs

-----------------------------------------------------------------------------
(* Evaluations begin and end *)

\* The evaluation e has come to a value, which is kept.
IsSettled(h, e, g) == g = [h EXCEPT ![e.lazy].refs = e.own, ![e.lazy].ready = TRUE]

\* The end of eth_get_lazy_value: the value moves from the evaluation into
\* the lazy value.
LEMMA Settled ==
    ASSUME NEW h, NEW st, Good(h, st, <<>>), st # <<>>, NEW e, e = Last(st), IsEvaluation(e),
           e.own # <<>>, KindIn(h, e.own[1]) # "lazy",
           NEW g, IsSettled(h, e, g)
    PROVE  /\ Good(g, Front(st), <<>>) /\ Len(g) = Len(h)
           /\ Front(st) # <<>> /\ Expects(g, Last(Front(st)), e.lazy)
           /\ e.lazy \in DOMAIN g /\ g[e.lazy].kind = "lazy" /\ g[e.lazy].ready /\ g[e.lazy].refs = e.own
<1> DEFINE n == Len(h)
           m == Len(st)
           l == e.lazy
           vv == e.own[1]
           frames == Front(st)
<1>1. /\ n \in Nat /\ h \in Seq(ObjectType(n)) /\ st \in Seq(FrameType(n))
      /\ DOMAIN h = 1 .. n /\ Countable(h) /\ Typed(h, st, <<>>) /\ Const \notin DOMAIN h
  BY TypedFacts, HeapFacts DEF Good
<1>2. /\ m \in Nat \ {0} /\ DOMAIN st = 1 .. m /\ e = st[m] /\ m \in DOMAIN st /\ e \in FrameType(n)
      /\ frames \in Seq(FrameType(n)) /\ Len(frames) = m - 1 /\ DOMAIN frames = 1 .. m - 1
      /\ \A d \in DOMAIN frames : d \in DOMAIN st /\ frames[d] = st[d]
      /\ st = Append(frames, e)
  <2> DEFINE S == FrameType(n)
  <2>1. st \in Seq(S) /\ st # <<>> /\ e = Last(st)
    BY <1>1
  <2> HIDE DEF S
  <2>2. /\ Front(st) \in Seq(S) /\ Len(Front(st)) = Len(st) - 1 /\ Len(st) \in Nat \ {0}
        /\ Len(st) \in DOMAIN st /\ Last(st) = st[Len(st)] /\ Last(st) \in S
        /\ DOMAIN Front(st) = 1 .. Len(st) - 1 /\ DOMAIN st = 1 .. Len(st)
        /\ \A d \in DOMAIN Front(st) : d \in DOMAIN st /\ Front(st)[d] = st[d]
        /\ st = Append(Front(st), Last(st))
    BY <2>1, FrontFacts
  <2> QED
    BY <2>1, <2>2 DEF S
<1> HIDE DEF frames
<1>3. EvaluationOK(h, st, m)
  BY <1>2 DEF Good, FrameOK
<1>4. /\ m > 1 /\ Expects(h, st[m - 1], l) /\ h[l].kind = "lazy" /\ ~h[l].ready /\ h[l].refs = <<>>
      /\ Len(e.own) = 1 /\ e.load = Idle
  BY <1>2, <1>3 DEF EvaluationOK
<1>5. l \in DOMAIN h
  BY <1>1, <1>2, UsedTyped DEF Uses, IsEvaluation
<1>6. e.own \in Seq(0 .. n) /\ e.own = <<vv>> /\ vv \in 0 .. n /\ Range(e.own) = {vv}
  <2>1. e.own \in Seq(0 .. n)
    BY <1>1, <1>2, FrameFacts
  <2>2. e.own = <<vv>>
    BY <1>4, <2>1
  <2>3. vv \in 0 .. n
    BY <1>4, <2>1
  <2> QED
    BY <2>1, <2>2, <2>3 DEF Range
<1>7. /\ g \in Seq(ObjectType(n)) /\ Len(g) = n /\ DOMAIN g = DOMAIN h
      /\ g[l].refs = e.own /\ g[l].ready = TRUE
      /\ g[l].kind = h[l].kind /\ g[l].rc = h[l].rc /\ g[l].shape = h[l].shape
      /\ \A o \in DOMAIN h \ {l} : g[o] = h[o]
  <2> DEFINE x == [h[l] EXCEPT !.refs = e.own, !.ready = TRUE]
             R == Seq(0 .. n)
  <2>1. g = [h EXCEPT ![l] = x]
    BY <1>1, <1>5 DEF IsSettled
  <2>2. h[l] \in RecordType(R) /\ e.own \in R
    BY <1>1, <1>5, <1>6, HeapFacts, ObjectTypeIs
  <2> HIDE DEF R
  <2>3. /\ x \in RecordType(R) /\ x.refs = e.own /\ x.ready = TRUE
        /\ x.kind = h[l].kind /\ x.rc = h[l].rc /\ x.shape = h[l].shape
    BY <2>2 DEF RecordType
  <2>4. x \in ObjectType(n)
    BY <2>3, ObjectTypeIs DEF R
  <2> HIDE DEF n, x
  <2> QED
    BY <1>1, <1>5, <2>1, <2>3, <2>4
<1>8. SameBut(h, g, l)
  BY <1>4, <1>5, <1>7 DEF SameBut
<1>9. /\ \A o \in DOMAIN h : (Dead(g, o) <=> Dead(h, o)) /\ g[o].rc = h[o].rc
      /\ \A o \in 0 .. n : KindIn(g, o) = KindIn(h, o)
  <2>1. \A o \in 0 .. n : o = Const \/ o \in DOMAIN h
    BY <1>1 DEF Const
  <2>2. \A o \in DOMAIN h : g[o].kind = h[o].kind /\ g[o].rc = h[o].rc
    BY <1>7
  <2> QED
    BY <2>1, <2>2 DEF KindIn, Dead
<1>10. \A o \in DOMAIN h : Len(h[o].refs) = 1 => h[o].refs[1] \in 0 .. n
  <2>1. \A o \in DOMAIN h : /\ DOMAIN h[o].refs = 1 .. Len(h[o].refs)
                           /\ \A k \in DOMAIN h[o].refs : h[o].refs[k] \in 0 .. n
    BY <1>1, HeapFacts
  <2> QED
    BY <2>1
<1> HIDE DEF n, m
<1>11. ASSUME NEW d \in DOMAIN frames, IsEvaluation(st[d])
       PROVE  st[d].lazy # l
  BY <1>2, <1>11 DEF Good, Distinct, m
<1>12. ASSUME NEW o \in DOMAIN h, o # l, o \in EvaluatedIn(st)
       PROVE  o \in EvaluatedIn(frames)
  <2>1. PICK d \in DOMAIN st : IsEvaluation(st[d]) /\ st[d].lazy = o
    BY <1>12 DEF EvaluatedIn
  <2>2. d # m
    BY <1>2, <1>12, <2>1
  <2>3. d \in DOMAIN frames
    BY <1>2, <2>2
  <2> QED
    BY <1>2, <2>1, <2>3 DEF EvaluatedIn
<1>13. ASSUME NEW o \in DOMAIN g
       PROVE  ObjectOK(g, frames, o)
  <2>1. ObjectOK(h, st, o) /\ o \in DOMAIN h
    BY <1>7 DEF Good
  <2>2. CASE o = l
    <3>1. Len(g[o].refs) = 1 /\ g[o].refs # <<>> /\ g[o].kind = "lazy" /\ g[o].ready
          /\ KindIn(g, g[o].refs[1]) # "lazy"
      BY <1>4, <1>6, <1>7, <1>9, <2>2
    <3> QED
      BY <3>1 DEF ObjectOK
  <2>3. CASE o # l
    <3>1. Len(h[o].refs) = 1 => KindIn(g, h[o].refs[1]) = KindIn(h, h[o].refs[1])
      BY <1>9, <1>10, <2>1
    <3> QED
      BY <1>7, <1>12, <2>1, <2>3, <3>1 DEF ObjectOK
  <2> QED
    BY <2>2, <2>3
<1>14. ASSUME NEW d \in DOMAIN frames
       PROVE  FrameOK(g, frames, d)
  <2>1. d \in DOMAIN st /\ frames[d] = st[d] /\ d < m /\ d > 0
    BY <1>2 DEF m
  <2>2. d > 1 => d - 1 \in DOMAIN st /\ frames[d - 1] = st[d - 1]
    BY <1>2 DEF m
  <2>3. FrameOK(h, st, d) /\ (d > 1 => FrameOK(h, st, d - 1))
    BY <2>1, <2>2 DEF Good
  <2>4. FrameOK(g, st, d)
    BY <1>1, <1>4, <1>8, <1>11, <2>1, <2>3, StackEdited DEF SameGot, SamePlace
  <2>5. d < Len(frames) => d + 1 \in DOMAIN frames /\ frames[d + 1] = st[d + 1] /\ d < Len(st)
    BY <1>2, <2>1 DEF m
  <2>6. CASE IsEvaluation(st[d])
    <3>1. EvaluationOK(g, st, d)
      BY <2>4, <2>6 DEF FrameOK
    <3>2. CASE d = Len(frames)
      <4>1. d = m - 1 /\ Expects(h, st[d], l)
        BY <1>2, <1>4, <3>2 DEF m
      <4>2. st[d].own # <<>> /\ ~(d < Len(frames))
        BY <1>2, <2>6, <3>2, <4>1 DEF Expects
      <4>3. EvaluationOK(g, frames, d)
        BY <2>1, <2>2, <3>1, <4>2 DEF EvaluationOK
      <4> QED
        BY <2>1, <2>6, <4>3 DEF FrameOK
    <3>3. CASE d # Len(frames)
      <4>1. d < Len(frames)
        BY <1>2, <3>3
      <4>2. EvaluationOK(g, frames, d)
        BY <2>1, <2>2, <2>5, <3>1, <4>1 DEF EvaluationOK
      <4> QED
        BY <2>1, <2>6, <4>2 DEF FrameOK
    <3> QED
      BY <3>2, <3>3
  <2>7. CASE ~IsEvaluation(st[d])
    <3>1. CodeOK(g, st, d)
      BY <2>4, <2>7 DEF FrameOK
    <3>2. CodeOK(g, frames, d)
      BY <2>1, <2>2, <2>5, <3>1 DEF CodeOK
    <3> QED
      BY <2>1, <2>7, <3>2 DEF FrameOK
  <2> QED
    BY <2>6, <2>7
<1>15. Distinct(frames)
  BY <1>2 DEF Good, Distinct
<1>16. \A d \in DOMAIN st : \A U : Aside(h, st, {}, d, U) => vv \notin U /\ Upward(g, U)
  <2> TAKE d \in DOMAIN st
  <2> TAKE U
  <2> HAVE Aside(h, st, {}, d, U)
  <2>1. m \in d .. Len(st)
    BY <1>2 DEF m
  <2>2. vv \notin U
    BY <1>2, <1>6, <2>1 DEF Aside, Seen
  <2>3. Range(g[l].refs) \subseteq Range(h[l].refs) \union {vv}
    BY <1>6, <1>7
  <2>4. Upward(h, U)
    BY DEF Aside
  <2> HIDE DEF l, vv
  <2> QED
    BY <1>8, <2>2, <2>3, <2>4, UpwardEdited
<1>17. Apart(g, frames, Range(<<>>))
  <2> SUFFICES ASSUME NEW d \in DOMAIN frames, IsEvaluation(frames[d])
               PROVE  \E U : Aside(g, frames, Range(<<>>), d, U)
    BY DEF Apart
  <2>1. PICK U : Aside(h, st, Range(<<>>), d, U)
    BY <1>2 DEF Good, Apart
  <2>4. Range(<<>>) = {}
    BY DEF Range
  <2>2. Upward(g, U)
    BY <1>2, <1>16, <2>1, <2>4
  <2>3. \A k \in d .. Len(frames) : k \in d .. Len(st) /\ frames[k] = st[k]
    BY <1>2 DEF m
  <2> QED
    BY <1>2, <1>7, <2>1, <2>2, <2>3 DEF Aside
<1>18. Acyclic(g)
  <2>1. PICK W : Aside(h, st, Range(<<>>), m, W)
    BY <1>2 DEF Good, Apart
  <2>2. l \in W /\ vv \notin W /\ Upward(h, W) /\ W \in SUBSET DOMAIN h
    <3>1. Range(<<>>) = {}
      BY DEF Range
    <3>2. Aside(h, st, {}, m, W) /\ m \in DOMAIN st
      BY <1>2, <2>1, <3>1
    <3>3. vv \notin W
      BY <1>16, <3>2
    <3>4. st[m].lazy = l
      BY <1>2
    <3> QED
      BY <3>2, <3>3, <3>4, Zenon DEF Aside
  <2>3. \A o \in DOMAIN h \ {l} : g[o].refs = h[o].refs
    BY <1>7
  <2>4. Range(g[l].refs) \subseteq Range(h[l].refs) \union {vv}
    BY <1>6, <1>7
  <2>5. Acyclic(h)
    BY DEF Good
  <2>6. DOMAIN g = DOMAIN h
    BY <1>7
  <2>7. Rewired(h, g, l, vv, W)
    BY <1>5, <2>2, <2>3, <2>4, <2>6, Zenon DEF Rewired
  <2> HIDE DEF l, vv
  <2> QED
    BY <2>5, <2>7, AcyclicEdit
<1>19. Counts(g, Owned(g, frames, <<>>))
  <2> DEFINE S == Owned(h, st, <<>>)
             T == Owned(g, frames, <<>>)
  <2>1. S \in [DOMAIN h -> Nat] /\ T \in [DOMAIN h -> Nat] /\ Counts(h, S) /\ Countable(g)
    <3>1. <<>> \in Seq(0 .. n)
      OBVIOUS
    <3>2. /\ \A k : Owned(k, st, <<>>) \in [DOMAIN k -> Nat]
          /\ \A k : Owned(k, frames, <<>>) \in [DOMAIN k -> Nat]
      BY <1>1, <1>2, <3>1, OwnsFacts DEF n
    <3>3. Countable(g)
      BY <1>7, HeapFacts
    <3> QED
      BY <1>7, <3>2, <3>3 DEF Good
  <2>2. ASSUME NEW o \in DOMAIN h
        PROVE  /\ T[o] + Occurs(g[l].refs, o) = S[o] + Occurs(h[l].refs, o)
               /\ Dead(h, o) => Occurs(g[l].refs, o) = 0
    <3>1. /\ Among(Owns(st), o) = Among(Owns(frames), o) + Occurs(e.own, o)
          /\ Among(Owns(frames), o) \in Nat /\ Occurs(e.own, o) \in Nat
      <4>1. n \in Nat /\ frames \in Seq(FrameType(n)) /\ e \in FrameType(n) /\ st = Append(frames, e)
        BY <1>1, <1>2
      <4> HIDE DEF l, vv
      <4> QED
        BY <4>1, OwnsPush
    <3>2. T[o] = Among(Owns(frames), o) + 0 /\ S[o] = Among(Owns(st), o) + 0
      BY <1>7, OccursEmpty DEF Owned
    <3>3. Occurs(h[l].refs, o) = 0 /\ g[l].refs = e.own
      BY <1>4, <1>7, OccursEmpty
    <3>4. Dead(h, o) => Occurs(e.own, o) = 0
      <4>1. ~Dead(h, vv)
        <5>1. \A d \in DOMAIN st : \A x \in Range(st[d].own) : ~Dead(h, x)
          BY Live
        <5> QED
          BY <1>2, <1>6, <5>1
      <4>2. Occurs(e.own, o) = IF vv = o THEN 1 ELSE 0
        <5>1. e.own = <<vv>>
          BY <1>6
        <5> HIDE DEF vv
        <5> QED
          BY <5>1, OccursSingle
      <4> QED
        BY <4>1, <4>2
    <3> HIDE DEF S, T
    <3>5. T[o] + Occurs(e.own, o) = S[o] + 0
      BY <3>1, <3>2
    <3> QED
      BY <3>3, <3>4, <3>5
  <2>3. HeapEdited(h, g, l, S, T)
    <3>1. \A o \in DOMAIN h : g[o].rc = h[o].rc /\ g[o].kind = h[o].kind
      BY <1>7
    <3>2. \A o \in DOMAIN h \ {l} : g[o].refs = h[o].refs
      BY <1>7
    <3> HIDE DEF S, T, l
    <3> QED
      BY <1>1, <1>5, <1>7, <2>1, <2>2, <3>1, <3>2, Zenon DEF HeapEdited
  <2> HIDE DEF S, T
  <2>4. Counts(g, T)
    BY <2>3, EditCounts
  <2> QED
    BY <2>4 DEF T
<1>20. Alive(g, frames)
  <2>1. \A o : o \in UsedBy(frames) => o \in UsedBy(st)
    BY <1>2, UsedByFacts
  <2>2. ASSUME NEW o \in Afloat(st)
        PROVE  o \in Afloat(frames)
    <3>1. PICK d \in DOMAIN st : st[d].load.at = "lazy" /\ st[d].load.src = o
      BY DEF Afloat
    <3>2. d # m
      BY <1>2, <1>4, <3>1 DEF Idle, Load
    <3>3. d \in DOMAIN frames
      BY <1>2, <3>2
    <3> QED
      BY <1>2, <3>1, <3>3 DEF Afloat
  <2> QED
    BY <1>7, <1>9, <2>1, <2>2 DEF Good, Alive
<1>21. frames # <<>> /\ Last(frames) = st[m - 1] /\ m - 1 \in DOMAIN frames
  BY <1>2, <1>4 DEF Last
<1>22. Expects(g, Last(frames), l)
  <2>1. FrameOK(h, st, m - 1) /\ m - 1 \in DOMAIN st
    BY <1>2, <1>21 DEF Good
  <2>2. IsEvaluation(st[m - 1]) \/ LoadOK(h, st[m - 1])
    BY <2>1 DEF FrameOK, CodeOK
  <2>3. \A o \in Uses(st[m - 1]) : o = Const \/ o \in DOMAIN h
    BY <1>1, <2>1, UsedTyped
  <2> QED
    BY <1>1, <1>4, <1>8, <1>21, <2>2, <2>3, ExpectsEdited DEF SamePlace
<1>23. Typed(g, frames, <<>>)
  <2>1. <<>> \in Seq(0 .. n)
    OBVIOUS
  <2> QED
    BY <1>2, <1>7, <2>1 DEF Typed
<1>24. Good(g, frames, <<>>)
  BY <1>13, <1>14, <1>15, <1>17, <1>18, <1>19, <1>20, <1>23 DEF Good
<1> QED
  BY <1>4, <1>5, <1>7, <1>21, <1>22, <1>24 DEF n, frames

\* The neighbours of a frame
LEMMA Around ==
    ASSUME NEW n \in Nat, NEW d \in 1 .. n
    PROVE  /\ d # n => (d < n /\ d < n + 1 /\ d + 1 \in 1 .. n)
           /\ d > 1 => (d - 1 \in 1 .. n /\ d - 1 \in 1 .. n + 1 /\ d - 1 # n /\ (d - 1) + 1 = d)
           /\ d + 1 = n => d = n - 1
           /\ d \in 1 .. n + 1 /\ d # n + 1 /\ n + 1 \in d .. n + 1 /\ n \in d .. n
           /\ \A k \in d .. n : k \in d .. n + 1 /\ k \in 1 .. n
OBVIOUS

\* Code returns: the evaluation below has come to what was in its hand, and the
\* thunk is in hand.
HasNone(h, l, g) == g = [h EXCEPT ![l].refs = <<>>]
CameTo(st, n, v, tt) == tt = [Front(st) EXCEPT ![n].own = <<v>>]

\* A thunk has returned v: its frame goes, v goes to the evaluation, and the
\* references of the lazy value to the thunk are in hand.
LEMMA Popped ==
    ASSUME NEW h, NEW st, NEW v, Good(h, st, <<v>>), NEW n, n = Len(st) - 1, n > 0,
           ~IsEvaluation(Last(st)), Last(st).own = <<>>, Last(st).load = Idle,
           NEW l, l = st[n].lazy, NEW g, HasNone(h, l, g), NEW tt, CameTo(st, n, v, tt)
    PROVE  Good(g, tt, h[l].refs) /\ Len(g) = Len(h) /\ IsEvaluation(Last(tt)) /\ Last(tt).load = Idle
<1> DEFINE m == Len(h)
           frames == Front(st)
           fun == Last(st).fun
<1>1. /\ m \in Nat /\ h \in Seq(ObjectType(m)) /\ st \in Seq(FrameType(m)) /\ <<v>> \in Seq(0 .. m)
      /\ DOMAIN h = 1 .. m /\ Countable(h) /\ Typed(h, st, <<v>>) /\ Const \notin DOMAIN h
      /\ Len(st) \in Nat /\ DOMAIN st = 1 .. Len(st)
  BY TypedFacts, HeapFacts DEF Good
<1>2. st # <<>> /\ n \in Nat \ {0} /\ Len(st) = n + 1
  <2>1. Len(st) \in Nat /\ n = Len(st) - 1 /\ n > 0
    BY <1>1
  <2>2. Len(st) # 0 /\ n \in Nat \ {0} /\ Len(st) = n + 1
    BY <2>1
  <2>3. st = <<>> => Len(st) = 0
    OBVIOUS
  <2> QED
    BY <2>2, <2>3
<1>3. /\ DOMAIN st = 1 .. n + 1 /\ Last(st) = st[n + 1] /\ Last(st) \in FrameType(m)
      /\ frames \in Seq(FrameType(m)) /\ Len(frames) = n /\ DOMAIN frames = 1 .. n
      /\ \A d \in DOMAIN frames : d \in DOMAIN st /\ frames[d] = st[d]
      /\ st = Append(frames, Last(st))
  <2>1. Len(st) - 1 = n
    OBVIOUS
  <2> QED
    BY <1>1, <1>2, <2>1, FrontFacts
<1>4. n \in DOMAIN st /\ n + 1 \in DOMAIN st /\ n \in DOMAIN frames
  BY <1>2, <1>3
<1> HIDE DEF frames
<1>5. /\ CodeOK(h, st, n + 1) /\ n + 1 > 1 /\ (n + 1) - 1 = n
      /\ IsEvaluation(st[n]) /\ st[n].own = <<>>
  <2>1. CodeOK(h, st, n + 1)
    BY <1>3, <1>4 DEF Good, FrameOK
  <2>2. n + 1 > 1 /\ (n + 1) - 1 = n /\ n + 1 # 1
    BY <1>2
  <2> QED
    BY <2>1, <2>2 DEF CodeOK
<1>6. EvaluationOK(h, st, n)
  BY <1>4, <1>5 DEF Good, FrameOK
<1>7. /\ n > 1 /\ Expects(h, st[n - 1], l) /\ h[l].kind = "lazy" /\ ~h[l].ready /\ h[l].refs = <<fun>>
      /\ st[n].load = Idle /\ st[n].fun = Const
  BY <1>3, <1>5, <1>6 DEF EvaluationOK
<1>8. l \in DOMAIN h /\ fun \in 0 .. m /\ v \in 0 .. m /\ st[n] \in FrameType(m)
  <2>1. l \in DOMAIN h
    BY <1>1, <1>4, <1>5, UsedTyped DEF Uses, IsEvaluation
  <2>2. fun \in 0 .. m
    BY <1>3 DEF FrameType
  <2>3. v \in 0 .. m
    BY <1>1
  <2>4. st[n] \in FrameType(m)
    BY <1>1, <1>4, FrameFacts
  <2> QED
    BY <2>1, <2>2, <2>3, <2>4
<1>9. /\ g \in Seq(ObjectType(m)) /\ Len(g) = m /\ DOMAIN g = DOMAIN h
      /\ g[l].refs = <<>> /\ g[l].ready = h[l].ready
      /\ g[l].kind = h[l].kind /\ g[l].rc = h[l].rc /\ g[l].shape = h[l].shape
      /\ \A o \in DOMAIN h \ {l} : g[o] = h[o]
  <2> DEFINE x == [h[l] EXCEPT !.refs = <<>>]
             R == Seq(0 .. m)
  <2>1. g = [h EXCEPT ![l] = x]
    BY <1>1, <1>8 DEF HasNone
  <2>2. h[l] \in RecordType(R) /\ <<>> \in R
    BY <1>1, <1>8, HeapFacts, ObjectTypeIs
  <2> HIDE DEF R
  <2>3. /\ x \in RecordType(R) /\ x.refs = <<>> /\ x.ready = h[l].ready
        /\ x.kind = h[l].kind /\ x.rc = h[l].rc /\ x.shape = h[l].shape
    BY <2>2 DEF RecordType
  <2>4. x \in ObjectType(m)
    BY <2>3, ObjectTypeIs DEF R
  <2> HIDE DEF m, x
  <2> QED
    BY <1>1, <1>8, <2>1, <2>3, <2>4
<1>10. /\ tt \in Seq(FrameType(m)) /\ Len(tt) = n /\ DOMAIN tt = 1 .. n
       /\ tt[n].own = <<v>> /\ tt[n].lazy = l /\ tt[n].fun = Const /\ tt[n].load = Idle
       /\ \A d \in DOMAIN tt \ {n} : tt[d] = st[d]
       /\ tt[n] \in FrameType(m)
  <2> DEFINE x == [st[n] EXCEPT !.own = <<v>>]
             R == Seq(0 .. m)
  <2>1. tt = [frames EXCEPT ![n] = x]
    BY <1>3, <1>4 DEF frames, CameTo
  <2>2. x \in FrameType(m) /\ x.own = <<v>> /\ x.lazy = l /\ x.fun = Const /\ x.load = Idle
    <3>1. <<v>> \in R
      BY <1>1
    <3> HIDE DEF R
    <3>2. st[n] \in [lazy : 0 .. m, fun : 0 .. m, own : R, left : Nat, load : LoadType(m)]
      BY <1>8 DEF FrameType, R
    <3> HIDE DEF m
    <3>3. x \in [lazy : 0 .. m, fun : 0 .. m, own : R, left : Nat, load : LoadType(m)]
      BY <3>1, <3>2
    <3> QED
      BY <1>7, <3>1, <3>2, <3>3 DEF FrameType, R
  <2> HIDE DEF x, m
  <2>3. tt \in Seq(FrameType(m)) /\ Len(tt) = n /\ DOMAIN tt = 1 .. n /\ tt[n] = x
        /\ \A d \in DOMAIN tt \ {n} : tt[d] = frames[d]
    <3>1. frames \in Seq(FrameType(m)) /\ n \in 1 .. Len(frames) /\ x \in FrameType(m) /\ n \in Nat
      BY <1>2, <1>3, <1>4, <2>2
    <3> DEFINE T == FrameType(m)
    <3>4. frames \in Seq(T) /\ x \in T /\ Len(frames) = n /\ DOMAIN frames = 1 .. n
      BY <1>3, <3>1
    <3> HIDE DEF T
    <3>2. [frames EXCEPT ![n] = x] \in Seq(T) /\ Len([frames EXCEPT ![n] = x]) = n
      BY <3>1, <3>4, ExceptSeq
    <3>3. /\ DOMAIN [frames EXCEPT ![n] = x] = 1 .. n /\ [frames EXCEPT ![n] = x][n] = x
          /\ \A d \in 1 .. n \ {n} : [frames EXCEPT ![n] = x][d] = frames[d]
      BY <3>1, <3>4
    <3> QED
      BY <2>1, <3>2, <3>3 DEF T
  <2> QED
    BY <1>3, <2>2, <2>3
<1>26. /\ \A d \in 1 .. n :
             /\ d # n => (d < n /\ d < n + 1 /\ d + 1 \in 1 .. n)
             /\ d > 1 => (d - 1 \in 1 .. n /\ d - 1 \in 1 .. n + 1 /\ d - 1 # n /\ (d - 1) + 1 = d)
             /\ d + 1 = n => d = n - 1
             /\ d \in 1 .. n + 1 /\ d # n + 1 /\ n + 1 \in d .. n + 1 /\ n \in d .. n
             /\ \A k \in d .. n : k \in d .. n + 1 /\ k \in 1 .. n
       /\ n \in 1 .. n /\ n - 1 \in 1 .. n /\ n - 1 # n
  <2>1. n \in Nat /\ n \in 1 .. n /\ n - 1 \in 1 .. n /\ n - 1 # n
    <3>1. n \in Nat /\ n > 1
      BY <1>2, <1>7
    <3>2. \A k \in Nat : k > 1 => k \in 1 .. k /\ k - 1 \in 1 .. k /\ k - 1 # k
      OBVIOUS
    <3> QED
      BY <3>1, <3>2
  <2> QED
    BY <2>1, Around
<1>11. SameBut(h, g, l)
  BY <1>7, <1>8, <1>9 DEF SameBut
<1>12. /\ \A o \in DOMAIN h : (Dead(g, o) <=> Dead(h, o)) /\ g[o].rc = h[o].rc
       /\ \A o \in 0 .. m : KindIn(g, o) = KindIn(h, o)
       /\ \A o \in DOMAIN h : Len(h[o].refs) = 1 => h[o].refs[1] \in 0 .. m
  <2>1. \A o \in 0 .. m : o = Const \/ o \in DOMAIN h
    BY <1>1 DEF Const
  <2>2. \A o \in DOMAIN h : g[o].kind = h[o].kind /\ g[o].rc = h[o].rc
    BY <1>9
  <2>3. \A o \in DOMAIN h : /\ DOMAIN h[o].refs = 1 .. Len(h[o].refs)
                           /\ \A k \in DOMAIN h[o].refs : h[o].refs[k] \in 0 .. m
    BY <1>1, HeapFacts
  <2> QED
    BY <2>1, <2>2, <2>3 DEF KindIn, Dead
<1> HIDE DEF m, fun
<1>13. \A d \in DOMAIN tt : /\ d \in DOMAIN st /\ tt[d].lazy = st[d].lazy /\ tt[d].fun = st[d].fun
                           /\ tt[d].load = st[d].load /\ (IsEvaluation(tt[d]) <=> IsEvaluation(st[d]))
                           /\ (d < n => tt[d] = st[d])
  <2>1. \A d \in DOMAIN tt : d \in DOMAIN st /\ (d = n \/ tt[d] = st[d]) /\ (d < n => d # n)
    BY <1>2, <1>3, <1>10
  <2> QED
    BY <1>7, <1>10, <2>1 DEF IsEvaluation
<1>14. ASSUME NEW o \in EvaluatedIn(st)
       PROVE  o \in EvaluatedIn(tt)
  <2>1. PICK d \in DOMAIN st : IsEvaluation(st[d]) /\ st[d].lazy = o
    BY <1>14 DEF EvaluatedIn
  <2>2. d # n + 1
    BY <1>3, <2>1
  <2>3. d \in DOMAIN tt
    BY <1>2, <1>3, <1>10, <2>2
  <2> QED
    BY <1>13, <2>1, <2>3 DEF EvaluatedIn
<1>15. ASSUME NEW o \in DOMAIN g
       PROVE  ObjectOK(g, tt, o)
  <2>1. ObjectOK(h, st, o) /\ o \in DOMAIN h
    BY <1>9 DEF Good
  <2>2. CASE o = l
    <3>1. g[o].kind = "lazy" /\ ~g[o].ready /\ g[o].refs = <<>>
      BY <1>7, <1>9, <2>2
    <3>2. o \in EvaluatedIn(tt)
      BY <1>4, <1>5, <1>14, <2>2 DEF EvaluatedIn
    <3> QED
      BY <3>1, <3>2 DEF ObjectOK
  <2>3. CASE o # l
    <3>1. Len(h[o].refs) = 1 => KindIn(g, h[o].refs[1]) = KindIn(h, h[o].refs[1])
      BY <1>12, <2>1
    <3> QED
      BY <1>9, <1>14, <2>1, <2>3, <3>1 DEF ObjectOK
  <2> QED
    BY <2>2, <2>3
<1>16. ASSUME NEW d \in DOMAIN tt, d # n
       PROVE  FrameOK(g, tt, d)
  <2>1. d \in DOMAIN st /\ tt[d] = st[d] /\ d < n /\ d < Len(st)
    <3>1. d \in 1 .. n /\ d < n /\ d < n + 1
      BY <1>10, <1>16, <1>26
    <3> QED
      BY <1>2, <1>13, <3>1
  <2>2. d > 1 => d - 1 \in DOMAIN st /\ tt[d - 1] = st[d - 1]
    BY <1>3, <1>10, <1>26
  <2>3. FrameOK(h, st, d) /\ (d > 1 => FrameOK(h, st, d - 1))
    BY <2>1, <2>2 DEF Good
  <2>4. IsEvaluation(st[d]) => st[d].lazy # l
    BY <1>4, <1>5, <1>16, <2>1 DEF Good, Distinct
  <2>5. FrameOK(g, st, d)
    <3>1. Typed(h, st, <<>>)
      BY <1>1 DEF Typed
    <3>2. SameGot(h, g, l, st[d].load) /\ \A i : SamePlace(h, g, l, i)
      BY <1>7 DEF SameGot, SamePlace
    <3>3. d > 1 => SamePlace(h, g, l, st[d - 1].load.i)
      BY <3>2
    <3> QED
      BY <1>11, <2>1, <2>3, <2>4, <3>1, <3>2, <3>3, StackEdited
  <2>6. d + 1 \in DOMAIN tt /\ (IsEvaluation(tt[d + 1]) <=> IsEvaluation(st[d + 1]))
    BY <1>10, <1>13, <1>16, <1>26
  <2>7. CASE IsEvaluation(st[d])
    <3>1. EvaluationOK(g, st, d)
      BY <2>5, <2>7 DEF FrameOK
    <3>2. st[d].own = <<>> => d + 1 # n
      <4> SUFFICES ASSUME d + 1 = n
                   PROVE  st[d].own # <<>>
        OBVIOUS
      <4>1. d = n - 1
        BY <1>10, <1>16, <1>26
      <4>2. Expects(h, st[d], l)
        BY <1>7, <4>1
      <4>3. st[d].own = <<l>>
        BY <2>7, <4>2 DEF Expects
      <4> QED
        BY <4>3
    <3>3. d + 1 # n => tt[d + 1] = st[d + 1]
      BY <1>10, <2>6
    <3>4. EvaluationOK(g, tt, d)
      BY <1>10, <2>1, <2>2, <2>6, <3>1, <3>2, <3>3 DEF EvaluationOK
    <3> QED
      BY <2>1, <2>7, <3>4 DEF FrameOK
  <2>8. CASE ~IsEvaluation(st[d])
    <3>1. CodeOK(g, st, d)
      BY <2>5, <2>8 DEF FrameOK
    <3>2. CodeOK(g, tt, d)
      BY <2>1, <2>2, <2>6, <3>1 DEF CodeOK
    <3> QED
      BY <2>1, <2>8, <3>2 DEF FrameOK
  <2> QED
    BY <2>7, <2>8
<1>17. FrameOK(g, tt, n)
  <2>1. n - 1 \in DOMAIN st /\ tt[n - 1] = st[n - 1] /\ n \in DOMAIN tt
    BY <1>10, <1>13, <1>26
  <2>2. IsEvaluation(st[n - 1]) \/ LoadOK(h, st[n - 1])
    BY <2>1 DEF Good, FrameOK, CodeOK
  <2>3. \A o \in Uses(st[n - 1]) : o = Const \/ o \in DOMAIN h
    BY <1>1, <2>1, UsedTyped
  <2>4. Expects(g, st[n - 1], l)
    <3>1. SamePlace(h, g, l, st[n - 1].load.i)
      BY <1>7 DEF SamePlace
    <3>2. Expects(h, st[n - 1], l) /\ Const \notin DOMAIN h
      BY <1>1, <1>7
    <3> QED
      BY <1>11, <2>2, <2>3, <3>1, <3>2, ExpectsEdited
  <2>5. IsEvaluation(tt[n])
    BY <1>5, <1>13, <2>1
  <2>6. Len(tt[n].own) = 1 /\ tt[n].own # <<>> /\ ~(n < Len(tt))
    <3>1. tt[n].own = <<v>> /\ Len(tt) = n
      BY <1>10
    <3>2. Len(<<v>>) = 1 /\ <<v>> # <<>>
      OBVIOUS
    <3>3. ~(n < n)
      BY <1>2
    <3> QED
      BY <3>1, <3>2, <3>3, Zenon
  <2>8. /\ n > 1 /\ ~h[l].ready /\ g[l].kind = "lazy" /\ g[l].ready = h[l].ready /\ g[l].refs = <<>>
        /\ tt[n].lazy = l /\ tt[n].fun = Const /\ tt[n].load = Idle
    BY <1>7, <1>9, <1>10
  <2>7. EvaluationOK(g, tt, n)
    BY <2>1, <2>4, <2>6, <2>8, Zenon DEF EvaluationOK
  <2> QED
    BY <2>5, <2>7 DEF FrameOK
<1>18. Distinct(tt)
  BY <1>13 DEF Good, Distinct
<1>19. /\ \A U : Upward(h, U) => Upward(g, U)
       /\ Acyclic(g)
  <2>1. \A o \in DOMAIN h : Range(g[o].refs) \subseteq Range(h[o].refs)
    BY <1>9 DEF Range
  <2>2. DOMAIN g = DOMAIN h /\ Acyclic(h)
    BY <1>9 DEF Good
  <2> QED
    BY <2>1, <2>2, UpwardKept
<1>20. Apart(g, tt, Range(h[l].refs))
  <2> SUFFICES ASSUME NEW d \in DOMAIN tt, IsEvaluation(tt[d])
               PROVE  \E U : Aside(g, tt, Range(h[l].refs), d, U)
    BY DEF Apart
  <2>1. PICK U : Aside(h, st, Range(<<v>>), d, U)
    BY <1>13 DEF Good, Apart
  <2>2. v \notin U /\ Const \notin U
    BY <1>1, <2>1 DEF Aside, Range
  <2>3. \A k \in d .. n : k \in d .. Len(st) /\ k \in DOMAIN tt
    BY <1>2, <1>10, <1>26
  <2>4. \A k \in d .. n : Seen(tt[k]) \intersect U = {}
    <3>1. Seen(tt[n]) \intersect U = {}
      <4>1. Seen(tt[n]) = {v, Const}
        BY <1>10 DEF Seen, Idle, Load, Range
      <4> QED
        BY <2>2, <4>1
    <3> QED
      BY <1>10, <2>1, <2>3, <3>1 DEF Aside
  <2>5. fun \notin U
    <3>1. n + 1 \in d .. Len(st)
      BY <1>2, <1>10, <1>26
    <3> QED
      BY <1>3, <2>1, <3>1 DEF Aside, Seen, fun
  <2>6. Range(h[l].refs) = {fun}
    BY <1>7 DEF Range
  <2>7. U \in SUBSET DOMAIN g /\ tt[d].lazy \in U /\ Upward(g, U)
    BY <1>9, <1>13, <1>19, <2>1 DEF Aside
  <2>8. Range(h[l].refs) \intersect U = {} /\ Len(tt) = n
    BY <1>10, <2>5, <2>6
  <2> QED
    BY <2>4, <2>7, <2>8 DEF Aside
<1>21. Counts(g, Owned(g, tt, h[l].refs))
  <2> DEFINE S == Owned(h, st, <<v>>)
             T == Owned(g, tt, h[l].refs)
  <2>1. S \in [DOMAIN h -> Nat] /\ T \in [DOMAIN h -> Nat] /\ Counts(h, S) /\ Countable(g)
    <3>1. h[l].refs \in Seq(0 .. m)
      BY <1>1, <1>8, HeapFacts DEF m
    <3>2. /\ \A k : Owned(k, st, <<v>>) \in [DOMAIN k -> Nat]
          /\ \A k : Owned(k, tt, h[l].refs) \in [DOMAIN k -> Nat]
      BY <1>1, <1>10, <3>1, OwnsFacts
    <3>3. Countable(g)
      BY <1>9, HeapFacts
    <3> QED
      BY <1>9, <3>2, <3>3 DEF Good
  <2>2. ASSUME NEW o \in DOMAIN h
        PROVE  /\ T[o] + Occurs(g[l].refs, o) = S[o] + Occurs(h[l].refs, o)
               /\ Dead(h, o) => Occurs(g[l].refs, o) = 0
    <3>1. /\ Among(Owns(tt), o) + 0 = Among(Owns(frames), o) + Occurs(<<v>>, o)
          /\ Among(Owns(st), o) = Among(Owns(frames), o) + 0
      <4>1. Among(Owns(st), o) = Among(Owns(frames), o) + Occurs(Last(st).own, o)
        <5>1. m \in Nat /\ frames \in Seq(FrameType(m)) /\ Last(st) \in FrameType(m)
              /\ st = Append(frames, Last(st))
          BY <1>1, <1>3
        <5> HIDE DEF frames
        <5>2. \A x : x = Last(st) => Among(Owns(Append(frames, x)), o) = Among(Owns(frames), o) + Occurs(x.own, o)
          BY <5>1, OwnsPush
        <5> QED
          BY <5>1, <5>2
      <4>2. Moved(m, frames, tt, n, <<v>>, <<>>, o)
        <5>1. EditedAt(frames, tt, n)
          BY <1>3, <1>4, <1>10 DEF EditedAt
        <5>2. tt[n].own = <<v>> /\ frames[n].own = <<>> /\ <<>> \in Seq(0 .. m)
          BY <1>3, <1>4, <1>5, <1>10
        <5>3. Occurs(tt[n].own, o) + Occurs(<<>>, o) = Occurs(frames[n].own, o) + Occurs(<<v>>, o)
          BY <5>2, OccursSingle, OccursEmpty
        <5> QED
          BY <1>1, <1>3, <1>10, <5>1, <5>2, <5>3 DEF Moved
      <4>3. Among(Owns(tt), o) + Occurs(<<>>, o) = Among(Owns(frames), o) + Occurs(<<v>>, o)
        BY <4>2, OwnsEdit
      <4> QED
        BY <4>1, <4>3, OccursEmpty
    <3>2. T[o] = Among(Owns(tt), o) + Occurs(h[l].refs, o) /\ S[o] = Among(Owns(st), o) + Occurs(<<v>>, o)
      BY <1>9 DEF Owned
    <3>3. Occurs(g[l].refs, o) = 0
      BY <1>9, OccursEmpty
    <3>4. /\ Occurs(h[l].refs, o) \in Nat /\ Occurs(<<v>>, o) \in Nat
          /\ Among(Owns(tt), o) \in Nat /\ Among(Owns(st), o) \in Nat /\ Among(Owns(frames), o) \in Nat
      <4>1. h[l].refs \in Seq(0 .. m)
        BY <1>1, <1>8, HeapFacts DEF m
      <4> QED
        BY <1>1, <1>3, <1>10, <4>1, OwnsFacts
    <3> HIDE DEF S, T
    <3> QED
      BY <3>1, <3>2, <3>3, <3>4
  <2>3. HeapEdited(h, g, l, S, T)
    <3>1. \A o \in DOMAIN h : g[o].rc = h[o].rc /\ g[o].kind = h[o].kind
      BY <1>9
    <3>2. \A o \in DOMAIN h \ {l} : g[o].refs = h[o].refs
      BY <1>9
    <3> HIDE DEF S, T
    <3> QED
      BY <1>1, <1>8, <1>9, <2>1, <2>2, <3>1, <3>2, Zenon DEF HeapEdited
  <2> HIDE DEF S, T
  <2>4. Counts(g, T)
    BY <2>3, EditCounts
  <2> QED
    BY <2>4 DEF T
<1>22. Alive(g, tt)
  <2>1. \A o : o \in UsedBy(tt) => o \in UsedBy(st)
    <3>1. \A d \in DOMAIN tt : d \in DOMAIN st /\ Uses(tt[d]) = Uses(st[d])
      BY <1>13 DEF Uses
    <3> QED
      BY <3>1, UsedByFacts
  <2>2. ASSUME NEW o \in Afloat(st)
        PROVE  o \in Afloat(tt)
    <3>1. PICK d \in DOMAIN st : st[d].load.at = "lazy" /\ st[d].load.src = o
      BY DEF Afloat
    <3>2. d # n + 1
      BY <1>3, <3>1 DEF Idle, Load
    <3>3. d \in DOMAIN tt
      BY <1>2, <1>3, <1>10, <3>2
    <3> QED
      BY <1>13, <3>1, <3>3 DEF Afloat
  <2> QED
    BY <1>9, <1>12, <2>1, <2>2 DEF Good, Alive
<1>23. Typed(g, tt, h[l].refs)
  <2>1. h[l].refs \in Seq(0 .. m)
    BY <1>1, <1>8, HeapFacts DEF m
  <2> QED
    BY <1>9, <1>10, <2>1 DEF Typed
<1>24. Good(g, tt, h[l].refs)
  BY <1>15, <1>16, <1>17, <1>18, <1>19, <1>20, <1>21, <1>22, <1>23 DEF Good
<1>25. Last(tt) = tt[n] /\ n \in DOMAIN tt
  BY <1>2, <1>10 DEF Last
<1>27. IsEvaluation(tt[n]) /\ tt[n].load = Idle /\ Len(g) = m
  BY <1>5, <1>9, <1>10, <1>13, <1>25
<1> QED
  BY <1>24, <1>25, <1>27 DEF m

\* What the frame on top waits for is in its sight.
LEMMA ExpectedSeen ==
    ASSUME NEW h, NEW st, NEW hand, Good(h, st, hand), st # <<>>, NEW l, Expects(h, Last(st), l),
           NEW U \in SUBSET DOMAIN h, Upward(h, U), Seen(Last(st)) \intersect U = {}
    PROVE  l \notin U
<1> DEFINE f == Last(st)
<1>1. /\ Typed(h, st, hand) /\ Len(st) \in DOMAIN st /\ f = st[Len(st)]
      /\ st \in Seq(FrameType(Len(h))) /\ Len(h) \in Nat
  <2>1. st \in Seq(FrameType(Len(h))) /\ Typed(h, st, hand) /\ Len(h) \in Nat
    BY TypedFacts DEF Good
  <2> QED
    BY <2>1, FrontFacts
<1> HIDE DEF f
<1>2. CASE IsEvaluation(f)
  <2>1. f.own = <<l>>
    BY <1>2 DEF Expects, f
  <2>2. l \in Range(f.own)
    BY <2>1 DEF Range
  <2> QED
    BY <2>2 DEF Seen, f
<1>3. CASE ~IsEvaluation(f) /\ f.load.at = "lazy"
  <2>1. f.load.src = l
    BY <1>3 DEF Expects, f
  <2> QED
    BY <2>1 DEF Seen, f
<1>4. CASE ~IsEvaluation(f) /\ f.load.at # "lazy"
  <2> DEFINE src == f.load.src
  <2>1. /\ f.load.at \in {"search", "place"} /\ h[src].kind = "rec"
        /\ FoundIn(h, f.load) /\ h[src].refs[f.load.i] = l
    BY <1>4 DEF Expects, f
  <2>2. CodeOK(h, st, Len(st))
    BY <1>1, <1>4 DEF Good, FrameOK
  <2>3. src # Const
    BY <1>1, <2>1, <2>2 DEF CodeOK, LoadOK
  <2>4. src \in DOMAIN h /\ src \notin U
    <3>1. src \in Uses(f)
      BY DEF Uses
    <3>2. src \in DOMAIN h
      BY <1>1, <2>3, <3>1, UsedTyped
    <3> QED
      BY <3>2 DEF Seen, f
  <2>5. h[src].shape \in Shapes /\ Len(h[src].refs) = Cardinality(h[src].shape)
        /\ DOMAIN h[src].refs = 1 .. Len(h[src].refs)
    BY <1>1, <2>1, <2>4, HeapFacts DEF Good, ObjectOK, Typed
  <2>6. f.load.i \in DOMAIN h[src].refs
    BY <2>1, <2>5, FieldIdsFacts DEF FoundIn
  <2> QED
    BY <2>1, <2>4, <2>6 DEF Upward
<1> QED
  BY <1>2, <1>3, <1>4

\* The thunk of a lazy value is called.
LEMMA Began ==
    ASSUME NEW h, NEW st, Good(h, st, <<>>), st # <<>>, NEW l \in DOMAIN h, Expects(h, Last(st), l),
           h[l].kind = "lazy", ~h[l].ready, l \notin EvaluatedIn(st),
           NEW tt, tt = st \o <<Evaluation(l), Code(h[l].refs[1], ThunkSteps)>>
    PROVE  Good(h, tt, <<>>)
<1> DEFINE m == Len(h)
           n == Len(st)
           fun == h[l].refs[1]
           E == Evaluation(l)
           C == Code(fun, ThunkSteps)
<1>1. /\ m \in Nat /\ h \in Seq(ObjectType(m)) /\ st \in Seq(FrameType(m))
      /\ DOMAIN h = 1 .. m /\ Countable(h) /\ Typed(h, st, <<>>) /\ Const \notin DOMAIN h
      /\ n \in Nat /\ DOMAIN st = 1 .. n /\ n \in DOMAIN st /\ Last(st) = st[n] /\ n > 0
  <2>1. /\ m \in Nat /\ h \in Seq(ObjectType(m)) /\ st \in Seq(FrameType(m))
        /\ DOMAIN h = 1 .. m /\ Countable(h) /\ Typed(h, st, <<>>) /\ Const \notin DOMAIN h
    BY TypedFacts, HeapFacts DEF Good
  <2>2. n \in Nat \ {0} /\ DOMAIN st = 1 .. n /\ n \in DOMAIN st /\ Last(st) = st[n]
    BY <2>1, FrontFacts
  <2> QED
    BY <2>1, <2>2
<1>2. /\ h[l].refs = <<fun>> /\ fun \in DOMAIN h /\ h[fun].kind = "fun" /\ fun \in 0 .. m /\ l \in 0 .. m
      /\ l # Const
  <2>1. h[l].refs # <<>> /\ Len(h[l].refs) = 1 /\ KindIn(h, fun) = "fun"
    BY DEF Good, ObjectOK
  <2>2. h[l].refs \in Seq(0 .. m)
    BY <1>1, HeapFacts
  <2>3. h[l].refs = <<fun>> /\ fun \in 0 .. m
    BY <2>1, <2>2
  <2> QED
    BY <1>1, <2>1, <2>3 DEF KindIn, Const
<1> HIDE DEF fun
<1>3. /\ E.lazy = l /\ E.fun = Const /\ E.own = <<>> /\ E.load = Idle
      /\ C.lazy = Const /\ C.fun = fun /\ C.own = <<>> /\ C.load = Idle
      /\ Idle.src = Const /\ Idle.got = <<>> /\ Idle.at = "idle"
  BY DEF Evaluation, Code, Idle, Load
<1>4. IsEvaluation(E) /\ ~IsEvaluation(C) /\ Seen(E) = {Const} /\ Seen(C) = {fun, Const}
      /\ Uses(E) = {l, Const} /\ Uses(C) = {fun, Const}
  <2>1. Range(<<>>) = {}
    BY DEF Range
  <2> QED
    BY <1>2, <1>3, <2>1 DEF IsEvaluation, Seen, Uses
<1>5. E \in FrameType(m) /\ C \in FrameType(m)
  <2>1. Idle \in LoadType(m)
    BY <1>1 DEF Idle, Load, LoadType, Const, NoField
  <2>2. ThunkSteps \in Nat
    BY LazyRecordsAssumption
  <2>3. <<>> \in Seq(0 .. m) /\ Const \in 0 .. m
    BY <1>1 DEF Const
  <2> QED
    BY <1>2, <2>1, <2>2, <2>3 DEF Evaluation, Code, FrameType
<1> HIDE DEF E, C
<1>6. /\ tt = Append(Append(st, E), C) /\ Append(st, E) \in Seq(FrameType(m))
      /\ tt \in Seq(FrameType(m)) /\ Len(tt) = n + 2 /\ DOMAIN tt = 1 .. n + 2
      /\ tt[n + 1] = E /\ tt[n + 2] = C
      /\ \A d \in DOMAIN st : tt[d] = st[d]
  <2>1. tt = st \o <<E, C>>
    BY DEF E, C, fun
  <2> HIDE DEF m, n
  <2>2. st \in Seq(FrameType(m)) /\ E \in FrameType(m) /\ C \in FrameType(m) /\ n \in Nat /\ n = Len(st)
    BY <1>1, <1>5 DEF n
  <2>3. tt = Append(Append(st, E), C) /\ Append(st, E) \in Seq(FrameType(m))
    BY <2>1, <2>2
  <2>4. tt \in Seq(FrameType(m)) /\ Len(tt) = n + 2 /\ DOMAIN tt = 1 .. n + 2
    BY <2>1, <2>2
  <2>5. tt[n + 1] = E /\ tt[n + 2] = C
    BY <2>1, <2>2
  <2>6. \A d \in DOMAIN st : tt[d] = st[d]
    BY <2>1, <2>2
  <2> QED
    BY <2>3, <2>4, <2>5, <2>6
<1> HIDE DEF m, n
<1>7. /\ \A d \in DOMAIN st : /\ d \in DOMAIN tt /\ d # n + 1 /\ d # n + 2 /\ d \in 1 .. n /\ d < n + 2
                              /\ d # n => d < n /\ d + 1 \in DOMAIN st
                              /\ d > 1 => d - 1 \in DOMAIN st
      /\ \A d \in DOMAIN tt : d \in DOMAIN st \/ d = n + 1 \/ d = n + 2
      /\ n + 1 \in DOMAIN tt /\ n + 2 \in DOMAIN tt /\ n + 1 > 1 /\ (n + 1) - 1 = n /\ (n + 2) - 1 = n + 1
      /\ (n + 1) + 1 = n + 2 /\ n + 1 < n + 2 /\ ~(n + 2 < n + 2) /\ n + 2 # 1 /\ n + 1 # n + 2
  <2>1. n \in Nat /\ n > 0 /\ DOMAIN st = 1 .. n /\ DOMAIN tt = 1 .. n + 2
    BY <1>1, <1>6
  <2> QED
    BY <2>1
<1>8. \A o \in EvaluatedIn(st) : o \in EvaluatedIn(tt)
  <2> TAKE o \in EvaluatedIn(st)
  <2>1. PICK d \in DOMAIN st : IsEvaluation(st[d]) /\ st[d].lazy = o
    BY DEF EvaluatedIn
  <2>2. d \in DOMAIN tt /\ tt[d] = st[d]
    BY <1>6, <1>7
  <2> QED
    BY <2>1, <2>2 DEF EvaluatedIn
<1>9. \A o \in DOMAIN h : ObjectOK(h, tt, o)
  BY <1>8 DEF Good, ObjectOK
<1>10. ASSUME NEW d \in DOMAIN st
       PROVE  FrameOK(h, tt, d)
  <2>1. FrameOK(h, st, d)
    BY DEF Good
  <2>2. /\ tt[d] = st[d] /\ (d > 1 => tt[d - 1] = st[d - 1]) /\ d < Len(tt)
        /\ d # n => tt[d + 1] = st[d + 1]
        /\ d = n => tt[d + 1] = E
        /\ d # n => d < Len(st)
        /\ d = n => ~(d < Len(st))
    BY <1>1, <1>6, <1>7 DEF n
  <2>3. CASE IsEvaluation(st[d])
    <3>1. EvaluationOK(h, st, d)
      BY <2>1, <2>3 DEF FrameOK
    <3>2. d = n => st[d].own # <<>>
      <4> SUFFICES ASSUME d = n
                   PROVE  st[d].own # <<>>
        OBVIOUS
      <4>1. Expects(h, st[d], l)
        BY <1>1
      <4>2. st[d].own = <<l>>
        BY <2>3, <4>1 DEF Expects
      <4> QED
        BY <4>2
    <3>3. d = n => st[d].own # <<>> /\ IsEvaluation(tt[d + 1])
      BY <1>4, <2>2, <3>2
    <3>4. EvaluationOK(h, tt, d)
      BY <2>2, <3>1, <3>3 DEF EvaluationOK
    <3> QED
      BY <2>2, <2>3, <3>4 DEF FrameOK
  <2>4. CASE ~IsEvaluation(st[d])
    <3>1. CodeOK(h, st, d)
      BY <2>1, <2>4 DEF FrameOK
    <3>2. CodeOK(h, tt, d)
      BY <1>4, <2>2, <3>1 DEF CodeOK
    <3> QED
      BY <2>2, <2>4, <3>2 DEF FrameOK
  <2> QED
    BY <2>3, <2>4
<1>11. FrameOK(h, tt, n + 1)
  <2>1. tt[n] = Last(st)
    BY <1>1, <1>6
  <2>2. EvaluationOK(h, tt, n + 1)
    BY <1>2, <1>3, <1>4, <1>6, <1>7, <2>1 DEF EvaluationOK
  <2> QED
    BY <1>4, <1>6, <2>2 DEF FrameOK
<1>12. FrameOK(h, tt, n + 2)
  <2>1. KindIn(h, fun) = "fun"
    BY <1>1, <1>2 DEF KindIn
  <2>2. LoadOK(h, C)
    BY <1>3 DEF LoadOK
  <2>3. CodeOK(h, tt, n + 2)
    BY <1>3, <1>4, <1>6, <1>7, <2>1, <2>2 DEF CodeOK
  <2> QED
    BY <1>4, <1>6, <2>3 DEF FrameOK
<1>13. Distinct(tt)
  <2> SUFFICES ASSUME NEW d \in DOMAIN tt, NEW e \in DOMAIN tt, IsEvaluation(tt[d]), IsEvaluation(tt[e]),
                      tt[d].lazy = tt[e].lazy
               PROVE  d = e
    BY DEF Distinct
  <2>1. \A k \in DOMAIN st : IsEvaluation(st[k]) => st[k].lazy # l
    BY DEF EvaluatedIn
  <2>2. d # n + 2 /\ e # n + 2
    BY <1>4, <1>6
  <2>3. CASE d \in DOMAIN st /\ e \in DOMAIN st
    BY <1>6, <2>3 DEF Good, Distinct
  <2>4. CASE d \in DOMAIN st /\ e = n + 1
    BY <1>3, <1>6, <2>1, <2>4
  <2>5. CASE e \in DOMAIN st /\ d = n + 1
    BY <1>3, <1>6, <2>1, <2>5
  <2> QED
    BY <1>7, <2>2, <2>3, <2>4, <2>5
<1>14. Apart(h, tt, Range(<<>>))
  <2> SUFFICES ASSUME NEW d \in DOMAIN tt, IsEvaluation(tt[d])
               PROVE  \E U : Aside(h, tt, Range(<<>>), d, U)
    BY DEF Apart
  <2>1. \A U \in SUBSET DOMAIN h : Const \notin U /\ (Upward(h, U) /\ l \notin U => fun \notin U)
    <3> TAKE U \in SUBSET DOMAIN h
    <3>1. 1 \in DOMAIN h[l].refs /\ h[l].refs[1] = fun
      BY <1>2
    <3> QED
      BY <1>1, <3>1 DEF Upward
  <2>2. CASE d \in DOMAIN st
    <3>1. PICK U : Aside(h, st, Range(<<>>), d, U)
      BY <1>6, <2>2 DEF Good, Apart
    <3>2. /\ U \in SUBSET DOMAIN h /\ st[d].lazy \in U /\ Upward(h, U) /\ Range(<<>>) \intersect U = {}
          /\ \A e \in d .. Len(st) : Seen(st[e]) \intersect U = {}
      BY <3>1 DEF Aside
    <3>3. \A e \in d .. n + 2 : (e \in d .. Len(st) /\ e \in DOMAIN st) \/ e = n + 1 \/ e = n + 2
      <4>1. d \in 1 .. n /\ n \in Nat /\ Len(st) = n /\ DOMAIN st = 1 .. n
        BY <1>1, <1>7, <2>2 DEF n
      <4> QED
        BY <4>1
    <3>4. Seen(Last(st)) \intersect U = {}
      <4>1. n \in d .. Len(st)
        BY <1>1, <1>7, <2>2 DEF n
      <4> QED
        BY <1>1, <3>2, <4>1
    <3>5. l \notin U
      BY <3>2, <3>4, ExpectedSeen
    <3>6. fun \notin U /\ Const \notin U
      BY <2>1, <3>2, <3>5
    <3>7. \A e \in d .. Len(tt) : Seen(tt[e]) \intersect U = {}
      BY <1>4, <1>6, <3>2, <3>3, <3>6
    <3> QED
      BY <1>6, <2>2, <3>2, <3>7 DEF Aside
  <2>3. CASE d = n + 1
    <3>1. PICK U : Above(h, l, U)
      BY DEF Good, Acyclic
    <3>2. U \in SUBSET DOMAIN h /\ l \in U /\ Upward(h, U) /\ fun \notin U /\ Const \notin U
      <4>1. fun \in Range(h[l].refs)
        BY <1>2 DEF Range
      <4> QED
        BY <2>1, <3>1, <4>1 DEF Above
    <3>3. \A e \in n + 1 .. n + 2 : e = n + 1 \/ e = n + 2
      BY <1>1
    <3>4. \A e \in d .. Len(tt) : Seen(tt[e]) \intersect U = {}
      BY <1>4, <1>6, <2>3, <3>2, <3>3
    <3>5. tt[d].lazy \in U /\ Range(<<>>) = {}
      BY <1>3, <1>6, <2>3, <3>2 DEF Range
    <3> QED
      BY <3>2, <3>4, <3>5 DEF Aside
  <2> QED
    BY <1>4, <1>6, <1>7, <2>2, <2>3
<1>15. Counts(h, Owned(h, tt, <<>>))
  <2>1. \A o : Among(Owns(tt), o) = Among(Owns(st), o)
    <3> TAKE o
    <3>1. Among(Owns(Append(st, E)), o) = Among(Owns(st), o) + Occurs(E.own, o) /\ Among(Owns(st), o) \in Nat
      BY <1>1, <1>5, OwnsPush
    <3>2. Among(Owns(tt), o) = Among(Owns(Append(st, E)), o) + Occurs(C.own, o)
      <4> DEFINE s == Append(st, E)
      <4>1. s \in Seq(FrameType(m)) /\ tt = Append(s, C)
        BY <1>6
      <4> HIDE DEF s
      <4>2. Among(Owns(Append(s, C)), o) = Among(Owns(s), o) + Occurs(C.own, o)
        BY <1>1, <1>5, <4>1, OwnsPush
      <4> QED
        BY <4>1, <4>2 DEF s
    <3>3. Occurs(E.own, o) = 0 /\ Occurs(C.own, o) = 0
      BY <1>3, OccursEmpty
    <3> QED
      BY <3>1, <3>2, <3>3
  <2>2. Owned(h, tt, <<>>) = Owned(h, st, <<>>)
    BY <2>1 DEF Owned
  <2> QED
    BY <2>2 DEF Good
<1>16. Alive(h, tt)
  <2>1. \A o : o \in UsedBy(tt) => o \in UsedBy(st) \/ o \in {l, fun, Const}
    <3>1. \A d \in DOMAIN st : Uses(tt[d]) = Uses(st[d])
      BY <1>6
    <3>2. Uses(tt[n + 1]) \subseteq {l, fun, Const} /\ Uses(tt[n + 2]) \subseteq {l, fun, Const}
      BY <1>4, <1>6
    <3> TAKE o
    <3> HAVE o \in UsedBy(tt)
    <3>3. PICK d \in DOMAIN tt : o \in Uses(tt[d])
      BY UsedByFacts
    <3>4. CASE d \in DOMAIN st
      BY <3>1, <3>3, <3>4, UsedByFacts
    <3>5. CASE d = n + 1 \/ d = n + 2
      BY <3>2, <3>3, <3>5
    <3> QED
      BY <1>7, <3>4, <3>5
  <2>2. ~Dead(h, l) /\ ~Dead(h, fun) /\ Const \notin DOMAIN h
    BY <1>1, <1>2 DEF Dead
  <2>3. \A o \in Afloat(st) : o \in Afloat(tt)
    <3> TAKE o \in Afloat(st)
    <3>1. PICK d \in DOMAIN st : st[d].load.at = "lazy" /\ st[d].load.src = o
      BY DEF Afloat
    <3>2. d \in DOMAIN tt /\ tt[d] = st[d]
      BY <1>6, <1>7
    <3> QED
      BY <3>1, <3>2 DEF Afloat
  <2> QED
    BY <2>1, <2>2, <2>3 DEF Good, Alive
<1>17. Typed(h, tt, <<>>)
  BY <1>1, <1>6 DEF Typed, m
<1> QED
  BY <1>7, <1>9, <1>10, <1>11, <1>12, <1>13, <1>14, <1>15, <1>16, <1>17 DEF Good

\* The code gives up its lazy value, and does not delete it.
LEMMA Unowned ==
    ASSUME NEW h, NEW st, NEW l \in DOMAIN h, Good(h, st, <<l>>), l \in Afloat(st)
    PROVE  Good(Decr(h, l), st, <<>>) /\ Len(Decr(h, l)) = Len(h)
<1> DEFINE n == Len(h)
           g == Decr(h, l)
<1>1. /\ n \in Nat /\ h \in Seq(ObjectType(n)) /\ st \in Seq(FrameType(n))
      /\ DOMAIN h = 1 .. n /\ Countable(h) /\ Typed(h, st, <<l>>) /\ Const \notin DOMAIN h
  BY TypedFacts, HeapFacts DEF Good
<1>2. l # Const /\ ~Dead(h, l) /\ h[l] \in ObjectType(n) /\ h[l].rc \in Nat
  <2>1. l \in Range(<<l>>)
    BY DEF Range
  <2> QED
    BY <1>1, <2>1, Live, HeapFacts
<1>3. h[l].rc > 0
  <2>1. h[l].rc = Owned(h, st, <<l>>)[l] + Among(Refs(h), l)
    BY <1>2 DEF Good, Counts
  <2>2. Owned(h, st, <<l>>)[l] = Among(Owns(st), l) + 1
    BY OccursSingle DEF Owned
  <2>3. Among(Refs(h), l) \in Nat /\ Among(Owns(st), l) \in Nat
    BY <1>1, AmongRefsNat, OwnsFacts DEF Typed
  <2> QED
    BY <2>1, <2>2, <2>3
<1> HIDE DEF n
<1>4. /\ g \in Seq(ObjectType(n)) /\ Len(g) = n /\ DOMAIN g = DOMAIN h
      /\ g[l].rc = h[l].rc - 1 /\ SameParts(h, g, l)
      /\ \A o \in DOMAIN h \ {l} : g[o] = h[o]
  <2> DEFINE r == h[l].rc - 1
             x == [h[l] EXCEPT !.rc = r]
  <2>1. r \in Nat
    BY <1>2, <1>3
  <2>2. g = [h EXCEPT ![l] = x]
    BY <1>2 DEF Decr
  <2> HIDE DEF r
  <2>3. x \in ObjectType(n) /\ x.rc = r /\ x.kind = h[l].kind /\ x.refs = h[l].refs
        /\ x.ready = h[l].ready /\ x.shape = h[l].shape
    BY <1>2, <2>1 DEF ObjectType
  <2> HIDE DEF x, g
  <2>4. g \in Seq(ObjectType(n)) /\ Len(g) = n /\ DOMAIN g = DOMAIN h /\ g[l] = x
        /\ \A o \in DOMAIN h \ {l} : g[o] = h[o]
    BY <1>1, <2>2, <2>3
  <2> QED
    BY <2>3, <2>4 DEF SameParts, r
<1> HIDE DEF g
<1>5. \A o \in DOMAIN h : SameParts(h, g, o) /\ (Dead(g, o) <=> Dead(h, o))
  BY <1>4 DEF SameParts, Dead
<1>6. /\ \A o \in DOMAIN g : ObjectOK(g, st, o)
      /\ \A d \in DOMAIN st : FrameOK(g, st, d)
      /\ Acyclic(g) /\ Refs(g) = Refs(h)
      /\ Apart(g, st, Range(<<l>>))
  BY <1>1, <1>4, <1>5, AlikeKept DEF Good
<1>7. Apart(g, st, Range(<<>>))
  BY <1>6 DEF Apart, Aside, Range
<1>8. Counts(g, Owned(g, st, <<>>))
  <2>1. ASSUME NEW o \in DOMAIN h
        PROVE  /\ Owned(h, st, <<l>>)[o] = Owned(g, st, <<>>)[o] + (IF o = l THEN 1 ELSE 0)
               /\ Owned(g, st, <<>>)[o] \in Nat
    <3>1. Owned(h, st, <<l>>)[o] = Among(Owns(st), o) + (IF l = o THEN 1 ELSE 0)
      BY OccursSingle DEF Owned
    <3>2. Owned(g, st, <<>>)[o] = Among(Owns(st), o) + 0 /\ Among(Owns(st), o) \in Nat
      <4>1. Among(Owns(st), o) \in Nat
        <5>1. <<l>> \in Seq(0 .. n)
          BY <1>1 DEF Typed, n
        <5> QED
          BY <1>1, <5>1, OwnsFacts
      <4>2. Owned(g, st, <<>>)[o] = Among(Owns(st), o) + Occurs(<<>>, o)
        BY <1>4 DEF Owned
      <4> QED
        BY <4>1, <4>2, OccursEmpty
    <3> QED
      BY <3>1, <3>2
  <2>2. ASSUME NEW o \in DOMAIN g
        PROVE  IF Dead(g, o) THEN Owned(g, st, <<>>)[o] = 0 /\ Among(Refs(g), o) = 0
               ELSE g[o].rc = Owned(g, st, <<>>)[o] + Among(Refs(g), o)
    <3>1. o \in DOMAIN h
      BY <1>4
    <3>2. IF Dead(h, o) THEN Owned(h, st, <<l>>)[o] = 0 /\ Among(Refs(h), o) = 0
          ELSE h[o].rc = Owned(h, st, <<l>>)[o] + Among(Refs(h), o)
      BY <3>1 DEF Good, Counts
    <3>3. CASE o = l
      <4>1. g[o].rc = h[o].rc - 1 /\ ~Dead(g, o)
        BY <1>2, <1>4, <1>5, <3>3
      <4>2. Among(Refs(h), o) \in Nat
        BY <1>1, AmongRefsNat
      <4> QED
        BY <1>2, <1>6, <2>1, <3>1, <3>2, <3>3, <4>1, <4>2
    <3>4. CASE o # l
      <4>1. g[o].rc = h[o].rc
        BY <1>4, <3>1, <3>4
      <4> QED
        BY <1>5, <1>6, <2>1, <3>1, <3>2, <3>4, <4>1
    <3> QED
      BY <3>3, <3>4
  <2> QED
    BY <2>2 DEF Counts
<1>9. Alive(g, st)
  <2>1. \A o \in DOMAIN h : h[o].rc > 0 => g[o].rc > 0 \/ o \in Afloat(st)
    BY <1>4
  <2> QED
    BY <1>4, <1>5, <2>1 DEF Good, Alive
<1>10. Typed(g, st, <<>>)
  <2>1. <<>> \in Seq(0 .. n)
    OBVIOUS
  <2> QED
    BY <1>1, <1>4, <2>1 DEF Typed, n
<1>11. Distinct(st)
  BY DEF Good
<1> QED
  BY <1>4, <1>6, <1>7, <1>8, <1>9, <1>10, <1>11 DEF Good, g, n

-----------------------------------------------------------------------------
(* Frames that change                                                         *)

FrameSet(N, R, L) == [lazy : N, fun : N, own : R, left : Nat, load : L]
LoadSet(A, N, W, R) == [at : A, src : N, want : W, k : Nat \ {0}, i : Nat, got : R]

\* g is f with these parts.
IsFrame(g, f, own, left, load) ==
    g.lazy = f.lazy /\ g.fun = f.fun /\ g.own = own /\ g.left = left /\ g.load = load
IsLoad(g, f, at, k, i, got) ==
    g.at = at /\ g.src = f.src /\ g.want = f.want /\ g.k = k /\ g.i = i /\ g.got = got

\* A frame keeps its type when parts of it are written,
LEMMA FrameEdits ==
    ASSUME NEW N, NEW R, NEW L, NEW f \in FrameSet(N, R, L), NEW own \in R, NEW left \in Nat, NEW load \in L,
           NEW g, \/ g = [f EXCEPT !.own = own, !.left = left, !.load = load]
                  \/ g = [f EXCEPT !.own = own, !.left = left] /\ load = f.load
                  \/ g = [f EXCEPT !.left = left, !.load = load] /\ own = f.own
                  \/ g = [f EXCEPT !.own = own, !.load = load] /\ left = f.left
                  \/ g = [f EXCEPT !.own = own] /\ load = f.load /\ left = f.left
                  \/ g = [f EXCEPT !.left = left] /\ load = f.load /\ own = f.own
                  \/ g = [f EXCEPT !.load = load] /\ left = f.left /\ own = f.own
    PROVE  g \in FrameSet(N, R, L) /\ IsFrame(g, f, own, left, load)
<1>1. CASE g = [f EXCEPT !.own = own, !.left = left, !.load = load]
  BY <1>1 DEF FrameSet, IsFrame
<1>2. CASE g = [f EXCEPT !.own = own, !.left = left] /\ load = f.load
  BY <1>2 DEF FrameSet, IsFrame
<1>3. CASE g = [f EXCEPT !.left = left, !.load = load] /\ own = f.own
  BY <1>3 DEF FrameSet, IsFrame
<1>4. CASE g = [f EXCEPT !.own = own, !.load = load] /\ left = f.left
  BY <1>4 DEF FrameSet, IsFrame
<1>5. CASE g = [f EXCEPT !.own = own] /\ load = f.load /\ left = f.left
  BY <1>5 DEF FrameSet, IsFrame
<1>6. CASE g = [f EXCEPT !.left = left] /\ load = f.load /\ own = f.own
  BY <1>6 DEF FrameSet, IsFrame
<1>7. CASE g = [f EXCEPT !.load = load] /\ left = f.left /\ own = f.own
  BY <1>7 DEF FrameSet, IsFrame
<1> QED
  BY <1>1, <1>2, <1>3, <1>4, <1>5, <1>6, <1>7

\* where FrameType is by the types of those parts,
LEMMA FrameTypeIs ==
    \A n : /\ FrameType(n) = FrameSet(0 .. n, Seq(0 .. n), LoadType(n))
           /\ LoadType(n) = LoadSet({"idle", "search", "place", "lazy", "loaded", "failed"}, 0 .. n,
                                    Seq(Int), Seq(0 .. n))
BY DEF FrameType, LoadType, FrameSet, LoadSet

\* and so does a load.
LEMMA LoadEdits ==
    ASSUME NEW A, NEW N, NEW W, NEW R, NEW f \in LoadSet(A, N, W, R),
           NEW at \in A, NEW k \in Nat \ {0}, NEW i \in Nat, NEW got \in R,
           NEW g, \/ g = [f EXCEPT !.got = got, !.k = k, !.i = i] /\ at = f.at
                  \/ g = [[f EXCEPT !.got = got, !.k = k, !.i = i] EXCEPT !.at = at]
                  \/ g = [f EXCEPT !.at = at] /\ k = f.k /\ i = f.i /\ got = f.got
                  \/ g = [f EXCEPT !.i = i] /\ k = f.k /\ at = f.at /\ got = f.got
    PROVE  g \in LoadSet(A, N, W, R) /\ IsLoad(g, f, at, k, i, got)
<1>1. CASE g = [f EXCEPT !.got = got, !.k = k, !.i = i] /\ at = f.at
  BY <1>1 DEF LoadSet, IsLoad
<1>2. CASE g = [[f EXCEPT !.got = got, !.k = k, !.i = i] EXCEPT !.at = at]
  BY <1>2 DEF LoadSet, IsLoad
<1>3. CASE g = [f EXCEPT !.at = at] /\ k = f.k /\ i = f.i /\ got = f.got
  BY <1>3 DEF LoadSet, IsLoad
<1>4. CASE g = [f EXCEPT !.i = i] /\ k = f.k /\ at = f.at /\ got = f.got
  BY <1>4 DEF LoadSet, IsLoad
<1> QED
  BY <1>1, <1>2, <1>3, <1>4

\* What the model makes of a frame
LEMMA FramesMade ==
    ASSUME NEW n \in Nat, NEW f \in FrameType(n)
    PROVE  /\ \A got \in Seq(0 .. n) :
                /\ Bound(f, got) \in FrameType(n)
                /\ IsFrame(Bound(f, got), f, f.own \o Objects(got), f.left, Idle)
           /\ \A i \in Nat, v \in 0 .. n :
                /\ Took(f, i, v) \in FrameType(n)
                /\ IsFrame(Took(f, i, v), f, f.own, f.left, Took(f, i, v).load)
                /\ IsLoad(Took(f, i, v).load, f.load,
                          IF f.load.k + 1 <= Len(f.load.want) THEN f.load.at ELSE "loaded",
                          f.load.k + 1, i + 1, Append(f.load.got, v))
           /\ \A i \in Nat : /\ [f EXCEPT !.load.i = i] \in FrameType(n)
                             /\ IsFrame([f EXCEPT !.load.i = i], f, f.own, f.left, [f EXCEPT !.load.i = i].load)
                             /\ IsLoad([f EXCEPT !.load.i = i].load, f.load, f.load.at, f.load.k, i, f.load.got)
           /\ /\ Ends(f, "failed") \in FrameType(n)
              /\ IsFrame(Ends(f, "failed"), f, f.own, f.left, Ends(f, "failed").load)
              /\ IsLoad(Ends(f, "failed").load, f.load, "failed", f.load.k, f.load.i, f.load.got)
<1> DEFINE A == {"idle", "search", "place", "lazy", "loaded", "failed"}
           N == 0 .. n
           W == Seq(Int)
           R == Seq(0 .. n)
           L == LoadType(n)
           load == f.load
<1>1. f \in FrameSet(N, R, L) /\ load \in LoadSet(A, N, W, R) /\ L = LoadSet(A, N, W, R)
      /\ FrameType(n) = FrameSet(N, R, L)
  <2>1. f \in FrameSet(N, R, L) /\ FrameType(n) = FrameSet(N, R, L) /\ L = LoadSet(A, N, W, R)
    BY FrameTypeIs, Zenon
  <2> HIDE DEF N, R, L, A, W
  <2>2. load \in L
    BY <2>1 DEF FrameSet
  <2> QED
    BY <2>1, <2>2
<1>2. f.own \in R /\ f.left \in Nat /\ load.k \in Nat \ {0} /\ load.i \in Nat /\ load.got \in R
      /\ load.at \in A /\ load.want \in W
  <2> HIDE DEF N, R, L, A, W, load
  <2>1. f.own \in R /\ f.left \in Nat
    BY <1>1 DEF FrameSet
  <2>2. load.k \in Nat \ {0} /\ load.i \in Nat /\ load.got \in R /\ load.at \in A /\ load.want \in W
    BY <1>1 DEF LoadSet
  <2> QED
    BY <2>1, <2>2
<1>3. Idle \in L
  BY DEF Idle, Load, LoadType, Const, NoField
<1>4. Len(load.want) \in Nat /\ "failed" \in A /\ "loaded" \in A /\ "search" \in A
  BY <1>2
<1> HIDE DEF A
<1>5. ASSUME NEW got \in R
      PROVE  /\ Bound(f, got) \in FrameType(n)
             /\ IsFrame(Bound(f, got), f, f.own \o Objects(got), f.left, Idle)
  <2> DEFINE g == Bound(f, got)
             own == f.own \o Objects(got)
  <2>1. g = [f EXCEPT !.own = own, !.load = Idle]
    BY DEF Bound
  <2>2. own \in R
    <3>1. Objects(got) \in Seq(0 .. n)
      BY ObjectsFacts
    <3> QED
      BY <1>2, <3>1
  <2> HIDE DEF g, own, N, R, L, W
  <2>3. g \in FrameSet(N, R, L) /\ IsFrame(g, f, own, f.left, Idle)
    BY <1>1, <1>2, <1>3, <2>1, <2>2, FrameEdits
  <2> QED
    BY <1>1, <2>3 DEF g, own
<1>6. ASSUME NEW i \in Nat, NEW v \in N
      PROVE  /\ Took(f, i, v) \in FrameType(n)
             /\ IsFrame(Took(f, i, v), f, f.own, f.left, Took(f, i, v).load)
             /\ IsLoad(Took(f, i, v).load, load, IF load.k + 1 <= Len(load.want) THEN load.at ELSE "loaded",
                       load.k + 1, i + 1, Append(load.got, v))
  <2> DEFINE got == Append(load.got, v)
             k == load.k + 1
             j == i + 1
             b == [load EXCEPT !.got = got, !.k = k, !.i = j]
             at == IF k <= Len(load.want) THEN load.at ELSE "loaded"
             c == IF k <= Len(load.want) THEN b ELSE [b EXCEPT !.at = "loaded"]
             g == Took(f, i, v)
  <2>1. got \in R /\ k \in Nat \ {0} /\ j \in Nat /\ at \in A
    BY <1>2, <1>4
  <2>7. b.k = k /\ b.want = load.want
    <3> HIDE DEF N, R, L, W, got, k, j, load
    <3> QED
      BY <1>1 DEF LoadSet
  <2>2. g = [f EXCEPT !.load = c]
    BY <2>7 DEF Took
  <2>3. \/ c = [load EXCEPT !.got = got, !.k = k, !.i = j] /\ at = load.at
        \/ c = [[load EXCEPT !.got = got, !.k = k, !.i = j] EXCEPT !.at = at]
    <3>1. CASE k <= Len(load.want)
      BY <3>1
    <3>2. CASE ~(k <= Len(load.want))
      BY <3>2
    <3> QED
      BY <3>1, <3>2
  <2> HIDE DEF N, R, L, W, got, k, j, at, b, c, g, load
  <2>4. c \in LoadSet(A, N, W, R) /\ IsLoad(c, load, at, k, j, got)
    BY <1>1, <2>1, <2>3, LoadEdits
  <2>5. g \in FrameSet(N, R, L) /\ IsFrame(g, f, f.own, f.left, c)
    BY <1>1, <1>2, <2>2, <2>4, FrameEdits
  <2>6. g.load = c
    BY <2>5 DEF IsFrame
  <2> QED
    BY <1>1, <2>4, <2>5, <2>6 DEF g, at, k, j, got, load
<1>7. ASSUME NEW i \in Nat
      PROVE  /\ [f EXCEPT !.load.i = i] \in FrameType(n)
             /\ IsFrame([f EXCEPT !.load.i = i], f, f.own, f.left, [f EXCEPT !.load.i = i].load)
             /\ IsLoad([f EXCEPT !.load.i = i].load, load, load.at, load.k, i, load.got)
  <2> DEFINE c == [load EXCEPT !.i = i]
             g == [f EXCEPT !.load.i = i]
  <2>2. g = [f EXCEPT !.load = c]
    OBVIOUS
  <2>3. c = [load EXCEPT !.i = i]
    OBVIOUS
  <2> HIDE DEF N, R, L, W, c, g, load
  <2>4. c \in LoadSet(A, N, W, R) /\ IsLoad(c, load, load.at, load.k, i, load.got)
    BY <1>1, <1>2, <2>3, LoadEdits
  <2>5. g \in FrameSet(N, R, L) /\ IsFrame(g, f, f.own, f.left, c)
    BY <1>1, <1>2, <2>2, <2>4, FrameEdits
  <2>6. g.load = c
    BY <2>5 DEF IsFrame
  <2> QED
    BY <1>1, <2>4, <2>5, <2>6 DEF g, load
<1>8. /\ Ends(f, "failed") \in FrameType(n)
      /\ IsFrame(Ends(f, "failed"), f, f.own, f.left, Ends(f, "failed").load)
      /\ IsLoad(Ends(f, "failed").load, load, "failed", load.k, load.i, load.got)
  <2> DEFINE c == [load EXCEPT !.at = "failed"]
             g == Ends(f, "failed")
  <2>2. g = [f EXCEPT !.load = c]
    BY DEF Ends
  <2>3. c = [load EXCEPT !.at = "failed"]
    OBVIOUS
  <2> HIDE DEF N, R, L, W, c, g, load
  <2>4. c \in LoadSet(A, N, W, R) /\ IsLoad(c, load, "failed", load.k, load.i, load.got)
    BY <1>1, <1>2, <1>4, <2>3, LoadEdits
  <2>5. g \in FrameSet(N, R, L) /\ IsFrame(g, f, f.own, f.left, c)
    BY <1>1, <1>2, <2>2, <2>4, FrameEdits
  <2>6. g.load = c
    BY <2>5 DEF IsFrame
  <2> QED
    BY <1>1, <2>4, <2>5, <2>6 DEF g
<1> QED
  BY <1>5, <1>6, <1>7, <1>8

-----------------------------------------------------------------------------
(* What happens to the frame on top                                           *)

\* The parts of the innermost frame.
LEMMA TopFacts ==
    ASSUME NEW h, NEW st, NEW hand, Good(h, st, hand), st # <<>>, NEW f, f = Last(st)
    PROVE  /\ f \in FrameType(Len(h)) /\ f = st[Len(st)] /\ Len(st) \in DOMAIN st /\ Len(st) \in Nat \ {0}
           /\ Len(h) \in Nat /\ DOMAIN h = 1 .. Len(h) /\ Const \notin DOMAIN h
           /\ h \in Seq(ObjectType(Len(h))) /\ hand \in Seq(0 .. Len(h)) /\ DOMAIN st = 1 .. Len(st)
           /\ f.own \in Seq(0 .. Len(h)) /\ f.left \in Nat /\ f.load \in LoadType(Len(h))
           /\ \A o \in Uses(f) \union Seen(f) \union Range(hand) :
                ~Dead(h, o) /\ (o = Const \/ o \in DOMAIN h) /\ o \in 0 .. Len(h)
           /\ IF IsEvaluation(f) THEN EvaluationOK(h, st, Len(st))
              ELSE f.lazy = Const /\ LoadOK(h, f) /\ CodeOK(h, st, Len(st))
<1>1. /\ Len(h) \in Nat /\ DOMAIN h = 1 .. Len(h) /\ Const \notin DOMAIN h
      /\ h \in Seq(ObjectType(Len(h))) /\ hand \in Seq(0 .. Len(h))
      /\ st \in Seq(FrameType(Len(h))) /\ DOMAIN st = 1 .. Len(st) /\ Typed(h, st, hand)
  BY TypedFacts, HeapFacts DEF Good
<1>2. f \in FrameType(Len(h)) /\ f = st[Len(st)] /\ Len(st) \in DOMAIN st /\ Len(st) \in Nat \ {0}
  BY <1>1, FrontFacts
<1>3. f.own \in Seq(0 .. Len(h)) /\ f.left \in Nat /\ f.load \in LoadType(Len(h))
  BY <1>1, <1>2, FrameFacts
<1>4. /\ \A o \in Range(f.own) : ~Dead(h, o)
      /\ \A o \in Range(hand) : ~Dead(h, o)
      /\ \A o \in UsedBy(st) : ~Dead(h, o)
  <2>1. /\ \A d \in DOMAIN st : \A o \in Range(st[d].own) : ~Dead(h, o)
        /\ \A o \in Range(hand) : ~Dead(h, o)
        /\ \A o \in UsedBy(st) : ~Dead(h, o)
    BY Live
  <2> QED
    BY <1>2, <2>1
<1>5. \A o \in Uses(f) : o \in UsedBy(st)
  BY <1>2, UsedByFacts
<1>6. \A o \in Uses(f) \union Seen(f) : o = Const \/ o \in DOMAIN h
  BY <1>1, <1>2, UsedTyped
<1>7. \A o \in Range(hand) : o = Const \/ o \in DOMAIN h
  <2>1. \A o \in Range(hand) : o \in 0 .. Len(h)
    BY <1>1, SeqDomains, ElementOfSeq DEF Range
  <2> QED
    BY <1>1, <2>1 DEF Const
<1>8. \A o \in Seen(f) : o \in Uses(f) \/ o \in Range(f.own)
  BY DEF Seen, Uses
<1>9. \A o : o = Const \/ o \in DOMAIN h => o \in 0 .. Len(h)
  BY <1>1 DEF Const
<1>10. FrameOK(h, st, Len(st))
  BY <1>2 DEF Good
<1>11. IF IsEvaluation(f) THEN EvaluationOK(h, st, Len(st))
       ELSE f.lazy = Const /\ LoadOK(h, f) /\ CodeOK(h, st, Len(st))
  BY <1>2, <1>10 DEF FrameOK, CodeOK, IsEvaluation
<1>12. ASSUME NEW o \in Uses(f) \union Seen(f) \union Range(hand)
       PROVE  ~Dead(h, o) /\ (o = Const \/ o \in DOMAIN h) /\ o \in 0 .. Len(h)
  BY <1>4, <1>5, <1>6, <1>7, <1>8, <1>9
<1> QED
  BY <1>1, <1>2, <1>3, <1>11, <1>12


\* The results got of an instruction are bound.
Binds(h, st, got, keep, f, tt) ==
    /\ Good(h, st, got \o keep) /\ st # <<>> /\ f = Last(st) /\ ~IsEvaluation(f)
    /\ got \in Seq(0 .. Len(h)) /\ keep \in Seq(0 .. Len(h))
    /\ f.load.at = "lazy" => h[f.load.src].rc > 0
    /\ tt = [st EXCEPT ![Len(st)] = Bound(f, got)]

\* The results of a load, once referenced, go from hand to the code.
LEMMA BoundKept ==
    ASSUME NEW h, NEW st, NEW got, NEW keep, NEW f, NEW tt, Binds(h, st, got, keep, f, tt)
    PROVE  /\ Good(h, tt, keep) /\ Len(tt) = Len(st) /\ tt # <<>> /\ Front(tt) = Front(st)
           /\ Last(tt) = Bound(f, got) /\ Last(tt).load = Idle
           /\ ~IsEvaluation(Last(tt)) /\ Last(tt).own = f.own \o Objects(got)
<1> SUFFICES ASSUME Good(h, st, got \o keep), st # <<>>, f = Last(st),
                    ~IsEvaluation(f), got \in Seq(0 .. Len(h)), keep \in Seq(0 .. Len(h)),
                    f.load.at = "lazy" => h[f.load.src].rc > 0,
                    tt = [st EXCEPT ![Len(st)] = Bound(f, got)]
             PROVE  /\ Good(h, tt, keep) /\ Len(tt) = Len(st) /\ tt # <<>> /\ Front(tt) = Front(st)
                    /\ Last(tt) = Bound(f, got) /\ Last(tt).load = Idle
                    /\ ~IsEvaluation(Last(tt)) /\ Last(tt).own = f.own \o Objects(got)
  BY DEF Binds
<1> DEFINE g == Bound(f, got)
           n == Len(h)
<1>1. /\ f \in FrameType(n) /\ n \in Nat /\ f.own \in Seq(0 .. n) /\ Len(st) \in Nat /\ DOMAIN st = 1 .. Len(st)
      /\ Const \notin DOMAIN h /\ f.lazy = Const
      /\ \A o \in Uses(f) \union Seen(f) : ~Dead(h, o)
  BY TopFacts
<1>2. /\ g \in FrameType(n) /\ g.lazy = f.lazy /\ g.fun = f.fun /\ g.own = f.own \o Objects(got) /\ g.load = Idle
  <2>1. g \in FrameType(n) /\ IsFrame(g, f, f.own \o Objects(got), f.left, Idle)
    <3> HIDE DEF g
    <3>1. Bound(f, got) \in FrameType(n) /\ IsFrame(Bound(f, got), f, f.own \o Objects(got), f.left, Idle)
      BY <1>1, FramesMade
    <3> QED
      BY <3>1 DEF g
  <2> QED
    BY <2>1 DEF IsFrame
<1>3. Objects(got) \in Seq(0 .. n) /\ Range(Objects(got)) = Range(got) \ {Const}
      /\ \A o : o # Const => Occurs(Objects(got), o) = Occurs(got, o)
  BY <1>1, ObjectsFacts
<1> HIDE DEF g, n
<1>4. ASSUME NEW o \in DOMAIN h
      PROVE  Occurs(g.own, o) + Occurs(keep, o) = Occurs(f.own, o) + Occurs(got \o keep, o)
  <2>1. o # Const
    BY <1>1
  <2>2. Occurs(g.own, o) = Occurs(f.own, o) + Occurs(got, o)
    BY <1>1, <1>2, <1>3, <2>1, OccursConcat
  <2>3. Occurs(got \o keep, o) = Occurs(got, o) + Occurs(keep, o)
    BY OccursConcat
  <2>4. Occurs(f.own, o) \in Nat /\ Occurs(got, o) \in Nat /\ Occurs(keep, o) \in Nat
    BY <1>1, SeqDomains, OccursNat
  <2> QED
    BY <2>2, <2>3, <2>4
<1>5. Range(got \o keep) = Range(got) \union Range(keep) /\ Range(g.own) = Range(f.own) \union Range(Objects(got))
  BY <1>1, <1>2, <1>3, RangeConcatenation DEF n
<1>6. Seen(g) \subseteq Seen(f) \union Range(got) \union {Const}
  <2>1. g.load.src = Const /\ Range(g.load.got) = {}
    BY <1>2 DEF Idle, Load, Range
  <2> QED
    BY <1>2, <1>3, <1>5, <2>1 DEF Seen
<1>7. Apart(h, st, Range(keep) \union Seen(g))
  <2>1. Apart(h, st, Range(got \o keep))
    BY DEF Good
  <2>2. \A U \in SUBSET DOMAIN h :
           /\ Upward(h, U) /\ Range(got \o keep) \intersect U = {}
           /\ st # <<>> => Seen(Last(st)) \intersect U = {}
           => (Range(keep) \union Seen(g)) \intersect U = {}
    BY <1>1, <1>5, <1>6
  <2> QED
    BY <1>1, <2>1, <2>2, ApartMore
<1>8. \A o \in Uses(g) : ~Dead(h, o)
  <2>1. Uses(g) \subseteq {f.lazy, f.fun, Const}
    BY <1>2 DEF Uses, Idle, Load, Range
  <2> QED
    BY <1>1, <2>1 DEF Uses, Dead
<1>9. LoadOK(h, g)
  BY <1>2 DEF LoadOK, Idle, Load
<1>10. TopMoves(h, st, got \o keep, f, g, keep, tt)
  BY <1>2, <1>4, <1>7, <1>8, <1>9, Zenon DEF TopMoves, g, n
<1>11. Good(h, tt, keep) /\ Len(tt) = Len(st) /\ tt # <<>> /\ Last(tt) = g /\ Front(tt) = Front(st)
  BY <1>10, TopChanged
<1>12. ~IsEvaluation(g)
  BY <1>1, <1>2 DEF IsEvaluation
<1> QED
  BY <1>2, <1>11, <1>12, Zenon DEF g

\* The value of a lazy value, for __get_lazy
LEMMA DeliveredLazy ==
    ASSUME NEW h, NEW st, Good(h, st, <<>>), st # <<>>, NEW f, f = Last(st), ~IsEvaluation(f),
           f.load.at = "lazy", NEW src, src = f.load.src, h[src].ready, NEW vv, vv = h[src].refs[1],
           NEW g, g = Dropped(Inc(h, vv), src), NEW tt, tt = [st EXCEPT ![Len(st)] = Bound(f, <<vv>>)]
    PROVE  Good(g, tt, <<>>) /\ Last(tt).load = Idle
<1> DEFINE n == Len(h)
           k == Inc(h, vv)
<1>1. /\ f \in FrameType(n) /\ n \in Nat /\ f.own \in Seq(0 .. n) /\ Len(st) \in Nat /\ DOMAIN st = 1 .. Len(st)
      /\ Const \notin DOMAIN h /\ f.lazy = Const /\ h \in Seq(ObjectType(n)) /\ DOMAIN h = 1 .. n
      /\ LoadOK(h, f)
      /\ \A o \in Uses(f) \union Seen(f) : ~Dead(h, o) /\ (o = Const \/ o \in DOMAIN h)
  BY TopFacts
<1>2. src # Const /\ src \in DOMAIN h /\ h[src].kind = "lazy" /\ src \in Seen(f) /\ src \in 0 .. n
  <2>1. src # Const /\ h[src].kind = "lazy" /\ src \in Seen(f)
    BY <1>1 DEF LoadOK, Seen
  <2> QED
    BY <1>1, <2>1
<1>3. vv \in 0 .. n /\ vv \in Range(h[src].refs) /\ 1 \in DOMAIN h[src].refs
  <2>1. Len(h[src].refs) = 1
    BY <1>2 DEF Good, ObjectOK
  <2> QED
    BY <1>1, <1>2, <2>1, HeapFacts DEF Range
<1>4. \A U \in SUBSET DOMAIN h : Upward(h, U) /\ Seen(f) \intersect U = {} => src \notin U /\ vv \notin U
  BY <1>2, <1>3 DEF Upward
<1>5. <<vv>> \in Seq(0 .. n) /\ Range(<<vv>>) = {vv} /\ Range(<<>>) = {} /\ <<>> \in Seq(0 .. n)
      /\ <<src>> \in Seq(0 .. n) /\ Range(<<src>>) = {src}
  BY <1>2, <1>3 DEF Range
<1> HIDE DEF n, k
<1>6. Good(k, st, <<vv>>)
  <2>1. Apart(h, st, Range(<<>>) \union Range(<<vv>>))
    <3>1. Apart(h, st, Range(<<>>))
      BY DEF Good
    <3>2. \A U \in SUBSET DOMAIN h :
             /\ Upward(h, U) /\ Range(<<>>) \intersect U = {}
             /\ st # <<>> => Seen(Last(st)) \intersect U = {}
             => (Range(<<>>) \union Range(<<vv>>)) \intersect U = {}
      BY <1>4, <1>5
    <3> QED
      BY <1>1, <3>1, <3>2, ApartMore
  <2>2. \A o \in Range(<<vv>>) : ~Dead(h, o)
    <3>1. \A p \in DOMAIN h : \A o \in Range(h[p].refs) : ~Dead(h, o)
      BY Live
    <3> QED
      BY <1>2, <1>3, <1>5, <3>1
  <2>3. Good(IncAll(h, <<vv>>), st, <<>> \o <<vv>>)
    BY <1>5, <2>1, <2>2, Taken DEF n
  <2>4. <<>> \o <<vv>> = <<vv>>
    BY <1>5, ConcatEmptySeq
  <2> QED
    BY <2>3, <2>4 DEF k, Inc
<1>7. /\ Len(k) = n /\ DOMAIN k = DOMAIN h /\ \A o \in DOMAIN h : SameParts(h, k, o)
      /\ k \in Seq(ObjectType(n))
  <2>1. IsFiniteSet(DOMAIN <<vv>>)
    BY <1>5, SeqDomains
  <2> QED
    BY <1>1, <2>1, IncAllAlike DEF k, Inc, n
<1>8. k[src].rc \in Nat
  BY <1>2, <1>7, HeapFacts
<1>9. CASE k[src].rc # 0
  <2>1. g = k
    BY <1>9 DEF Dropped, k
  <2>2. <<vv>> \o <<>> = <<vv>>
    BY <1>5, ConcatEmptySeq
  <2>3. k[src].rc > 0
    BY <1>8, <1>9
  <2>4. Good(k, st, <<vv>> \o <<>>)
    BY <1>6, <2>2
  <2>6. Binds(k, st, <<vv>>, <<>>, f, tt)
    <3>1. <<vv>> \in Seq(0 .. Len(k)) /\ <<>> \in Seq(0 .. Len(k)) /\ k[f.load.src].rc > 0
      BY <1>5, <1>7, <2>3
    <3> QED
      BY <2>4, <3>1, Zenon DEF Binds
  <2>5. Good(k, tt, <<>>) /\ Last(tt).load = Idle
    BY <2>6, BoundKept
  <2> QED
    BY <2>1, <2>5
<1>10. CASE k[src].rc = 0
  <2> DEFINE j == Inc(k, src)
  <2>1. g = Release(j, <<src>>)
    BY <1>2, <1>10 DEF Dropped, k
  <2>2. Good(j, st, <<vv>> \o <<src>>)
    <3>1. Apart(k, st, Range(<<vv>>) \union Range(<<src>>))
      <4>1. Apart(k, st, Range(<<vv>>))
        BY <1>6 DEF Good
      <4>2. \A U \in SUBSET DOMAIN k :
               /\ Upward(k, U) /\ Range(<<vv>>) \intersect U = {}
               /\ st # <<>> => Seen(Last(st)) \intersect U = {}
               => (Range(<<vv>>) \union Range(<<src>>)) \intersect U = {}
        BY <1>2, <1>5
      <4> QED
        BY <1>1, <4>1, <4>2, ApartMore
    <3>2. \A o \in Range(<<src>>) : ~Dead(k, o)
      BY <1>2, <1>5, <1>7 DEF Dead, SameParts
    <3>3. <<src>> \in Seq(0 .. Len(k))
      BY <1>5, <1>7
    <3> QED
      BY <1>6, <3>1, <3>2, <3>3, Taken DEF Inc
  <2>3. Len(j) = n /\ j[src].rc > 0
    <3>1. IsFiniteSet(DOMAIN <<src>>)
      BY <1>5, SeqDomains
    <3>2. Len(j) = n /\ j[src].rc = k[src].rc + Occurs(<<src>>, src)
      <4>1. k \in Seq(ObjectType(Len(k))) /\ src \in DOMAIN k
        BY <1>2, <1>7
      <4>2. /\ Len(IncAll(k, <<src>>)) = Len(k)
            /\ \A o \in DOMAIN k : IncAll(k, <<src>>)[o].rc = k[o].rc + Occurs(<<src>>, o)
        BY <3>1, <4>1, IncAllAlike
      <4> QED
        BY <1>7, <4>1, <4>2 DEF Inc
    <3>3. Occurs(<<src>>, src) = 1
      BY OccursSingle
    <3> QED
      BY <1>10, <3>2, <3>3
  <2> HIDE DEF j
  <2>7. Binds(j, st, <<vv>>, <<src>>, f, tt)
    <3>1. <<vv>> \in Seq(0 .. Len(j)) /\ <<src>> \in Seq(0 .. Len(j)) /\ j[f.load.src].rc > 0
      BY <1>5, <2>3
    <3> QED
      BY <2>2, <3>1, Zenon DEF Binds
  <2>4. Good(j, tt, <<src>>) /\ Last(tt).load = Idle /\ tt # <<>>
    BY <2>7, BoundKept
  <2>5. <<>> \o <<src>> = <<src>>
    BY <1>5, ConcatEmptySeq
  <2>6. Last(tt).load.at # "lazy"
    <3>1. Idle.at = "idle"
      BY DEF Idle, Load
    <3> QED
      BY <2>4, <3>1
  <2>8. Good(Release(j, <<src>>), tt, <<>>)
    <3>1. Good(j, tt, <<>> \o <<src>>) /\ <<>> \in Seq(0 .. Len(j)) /\ <<src>> \in Seq(0 .. Len(j))
      BY <1>5, <2>3, <2>4, <2>5
    <3> QED
      BY <2>6, <3>1, Released
  <2> QED
    BY <2>1, <2>4, <2>8
<1> QED
  BY <1>9, <1>10
=============================================================================
