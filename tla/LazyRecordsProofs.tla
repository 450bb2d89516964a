-------------------------- MODULE LazyRecordsProofs --------------------------
(* The counts of LazyRecords are exact, and its loads agree with the records, *)
(* for every set of record types, every program within the bounds and every   *)
(* depth of nested evaluations.                                               *)
(*                                                                            *)
(* A step of the model is several changes, in the order of the code: some     *)
(* references are taken, a field is written, references are released.  So the *)
(* inductive invariant, Good, is stated of any heap h and any stack st, with  *)
(* the references hand that are taken and not put anywhere yet, and there is  *)
(* one lemma for each change.                                                 *)
EXTENDS LazyRecords, CountedHeapProofs

-----------------------------------------------------------------------------
(* The inductive invariant *)

LoadType(n) ==
    [at : {"idle", "search", "place", "lazy", "loaded", "failed"}, src : 0 .. n,
     want : Seq(Int), k : Nat \ {0}, i : Nat, got : Seq(0 .. n)]
FrameType(n) ==
    [lazy : 0 .. n, fun : 0 .. n, own : Seq(0 .. n), left : Nat, load : LoadType(n)]

Typed(h, st, hand) ==
    /\ h \in Seq(ObjectType(Len(h)))
    /\ st \in Seq(FrameType(Len(h)))
    /\ hand \in Seq(0 .. Len(h))

KindIn(h, o) == IF o = Const THEN "atom" ELSE h[o].kind
CapturedIn(h, f) == IF f.fun = Const THEN {} ELSE Range(h[f.fun].refs)
EvaluatedIn(st) == {st[d].lazy : d \in {e \in DOMAIN st : IsEvaluation(st[e])}}

\* Objects have the parts that their kind tells.  A lazy value has neither a
\* thunk nor a value only while it is evaluated.
ObjectOK(h, st, o) ==
    /\ h[o].kind = "freed" => h[o].refs = <<>>
    /\ h[o].kind = "rec" => h[o].shape \in Shapes /\ Len(h[o].refs) = Cardinality(h[o].shape)
    /\ h[o].kind = "lazy" /\ h[o].ready => Len(h[o].refs) = 1 /\ KindIn(h, h[o].refs[1]) # "lazy"
    /\ h[o].kind = "lazy" /\ ~h[o].ready /\ h[o].refs # <<>> =>
         Len(h[o].refs) = 1 /\ KindIn(h, h[o].refs[1]) = "fun"
    /\ h[o].kind = "lazy" /\ h[o].refs = <<>> => o \in EvaluatedIn(st)

\* A load has found its next field.
FoundIn(h, load) ==
    /\ load.i \in DOMAIN FieldIds[h[load.src].shape]
    /\ FieldIds[h[load.src].shape][load.i] = load.want[load.k]

\* A load from a record has the fields up to k - 1, and has not yet passed the
\* next one.
SearchOK(h, load) ==
    LET o == h[load.src]
        ids == FieldIds[o.shape]
    IN  /\ load.at # "lazy"
        /\ Len(load.got) = load.k - 1
        /\ load.k <= Len(load.want) + 1
        /\ \A j \in DOMAIN load.got :
              /\ load.want[j] \in o.shape
              /\ PlaceOf(ids, load.want[j]) < load.i
              /\ load.got[j] = o.refs[PlaceOf(ids, load.want[j])]
              /\ KindIn(h, load.got[j]) # "lazy"
        /\ load.at = "search" =>
              /\ load.want \in Wanted /\ load.k <= Len(load.want)
              /\ load.i \in 1 .. Len(ids) + 1
              /\ \A p \in DOMAIN ids : ids[p] = load.want[load.k] => p >= load.i
        /\ load.at = "place" => Len(load.want) = 1 /\ load.k = 1 /\ FoundIn(h, load)
        /\ load.at = "failed" => ~(Range(load.want) \subseteq o.shape)
        /\ load.at = "loaded" => load.k = Len(load.want) + 1

LoadOK(h, f) ==
    IF f.load.at = "idle" THEN f.load = Idle
    ELSE /\ f.load.src # Const
         /\ IF f.load.at = "lazy" THEN h[f.load.src].kind = "lazy" /\ f.load.got = <<>>
            ELSE /\ f.load.src \in Range(f.own) \union CapturedIn(h, f)
                 /\ IF h[f.load.src].kind = "rec" THEN SearchOK(h, f.load)
                    ELSE f.load.at = "failed" /\ f.load.got = <<>>

\* f is where the value of l goes.
Expects(h, f, l) ==
    IF IsEvaluation(f) THEN f.own = <<l>>
    ELSE IF f.load.at = "lazy" THEN f.load.src = l
    ELSE /\ f.load.at \in {"search", "place"} /\ h[f.load.src].kind = "rec"
         /\ FoundIn(h, f.load) /\ h[f.load.src].refs[f.load.i] = l

\* An evaluation waits for code, or for another evaluation of what it came to.
EvaluationOK(h, st, d) ==
    LET f == st[d]
        l == f.lazy
    IN  /\ d > 1 /\ Expects(h, st[d - 1], l)
        /\ h[l].kind = "lazy" /\ ~h[l].ready
        /\ f.load = Idle /\ f.fun = Const
        /\ IF f.own = <<>>
           THEN d < Len(st) /\ ~IsEvaluation(st[d + 1]) /\ h[l].refs = <<st[d + 1].fun>>
           ELSE Len(f.own) = 1 /\ h[l].refs = <<>> /\ (d < Len(st) => IsEvaluation(st[d + 1]))

CodeOK(h, st, d) ==
    /\ IF d = 1 THEN st[d].fun = Const
       ELSE IsEvaluation(st[d - 1]) /\ st[d - 1].own = <<>> /\ KindIn(h, st[d].fun) = "fun"
    /\ d < Len(st) => IsEvaluation(st[d + 1])
    /\ LoadOK(h, st[d])

FrameOK(h, st, d) == IF IsEvaluation(st[d]) THEN EvaluationOK(h, st, d) ELSE CodeOK(h, st, d)

\* No lazy value is evaluated twice at a time.
Distinct(st) ==
    \A d, e \in DOMAIN st :
        IsEvaluation(st[d]) /\ IsEvaluation(st[e]) /\ st[d].lazy = st[e].lazy => d = e

\* What is above an evaluation cannot get at its lazy value: there is a set
\* with the lazy value, and with whatever refers to one of its objects, that
\* has nothing which is seen there, nor anything of V.
Seen(f) == Range(f.own) \union {f.fun, f.load.src} \union Range(f.load.got)
Aside(h, st, V, d, U) ==
    /\ U \in SUBSET DOMAIN h /\ st[d].lazy \in U /\ Upward(h, U)
    /\ \A e \in d .. Len(st) : Seen(st[e]) \intersect U = {}
    /\ V \intersect U = {}
Apart(h, st, V) == \A d \in DOMAIN st : IsEvaluation(st[d]) => \E U : Aside(h, st, V, d, U)

\* Nothing refers to itself, over any number of objects.
Above(h, o, U) ==
    U \in SUBSET DOMAIN h /\ o \in U /\ Upward(h, U) /\ Range(h[o].refs) \intersect U = {}
Acyclic(h) == \A o \in DOMAIN h : \E U : Above(h, o, U)

\* References from elsewhere than the heap
Owns(st) == [d \in DOMAIN st |-> st[d].own]
Owned(h, st, hand) == [o \in DOMAIN h |-> Among(Owns(st), o) + Occurs(hand, o)]

\* What is used is there, and what is there is held, or is the lazy value of
\* a load.
UsedBy(st) == UNION {{f.lazy, f.fun, f.load.src} \union Range(f.load.got) : f \in Range(st)}
Afloat(st) == {st[d].load.src : d \in {e \in DOMAIN st : st[e].load.at = "lazy"}}
Alive(h, st) ==
    \A o \in DOMAIN h : IF Dead(h, o) THEN o \notin UsedBy(st) ELSE h[o].rc > 0 \/ o \in Afloat(st)

Good(h, st, hand) ==
    /\ Typed(h, st, hand)
    /\ \A o \in DOMAIN h : ObjectOK(h, st, o)
    /\ \A d \in DOMAIN st : FrameOK(h, st, d)
    /\ Distinct(st)
    /\ Apart(h, st, Range(hand))
    /\ Acyclic(h)
    /\ Counts(h, Owned(h, st, hand))
    /\ Alive(h, st)

\* A search that goes on finds what it wants behind the ids at the latest.
EndInSight(h, st, ends) ==
    st # <<>> /\ ~IsEvaluation(Last(st)) /\ Last(st).load.at = "search" =>
        ends[h[Last(st).load.src].shape] = Last(st).load.want[Last(st).load.k]

Inv ==
    /\ Good(heap, stack, <<>>)
    /\ EndInSight(heap, stack, sentinel)
    /\ sentinel \in [Shapes -> Int]

-----------------------------------------------------------------------------
(* Heaps and stacks by their types *)

\* The parts of a typed heap,
LEMMA HeapFacts ==
    ASSUME NEW h, h \in Seq(ObjectType(Len(h)))
    PROVE  /\ Len(h) \in Nat /\ DOMAIN h = 1 .. Len(h) /\ IsFiniteSet(DOMAIN h)
           /\ Const \notin DOMAIN h /\ Countable(h)
           /\ \A o \in DOMAIN h :
                /\ h[o] \in ObjectType(Len(h))
                /\ h[o].rc \in Nat
                /\ h[o].kind \in {"fun", "lazy", "rec", "freed"}
                /\ h[o].refs \in Seq(0 .. Len(h))
                /\ DOMAIN h[o].refs = 1 .. Len(h[o].refs) /\ Len(h[o].refs) \in Nat
                /\ h[o].ready \in BOOLEAN /\ h[o].shape \in SUBSET Int
                /\ \A i \in DOMAIN h[o].refs : h[o].refs[i] \in 0 .. Len(h)
<1>1. Len(h) \in Nat /\ DOMAIN h = 1 .. Len(h) /\ IsFiniteSet(DOMAIN h)
  BY SeqDomains
<1>2. ASSUME NEW o \in DOMAIN h
      PROVE  /\ h[o] \in ObjectType(Len(h))
             /\ h[o].rc \in Nat
             /\ h[o].kind \in {"fun", "lazy", "rec", "freed"}
             /\ h[o].refs \in Seq(0 .. Len(h))
             /\ h[o].ready \in BOOLEAN /\ h[o].shape \in SUBSET Int
             /\ {"rc", "kind", "refs"} \subseteq DOMAIN h[o]
  <2>1. h[o] \in ObjectType(Len(h))
    BY <1>1, ElementOfSeq
  <2> QED
    BY <2>1 DEF ObjectType
<1>3. ASSUME NEW o \in DOMAIN h
      PROVE  /\ DOMAIN h[o].refs = 1 .. Len(h[o].refs) /\ Len(h[o].refs) \in Nat
             /\ IsFiniteSet(DOMAIN h[o].refs)
             /\ \A i \in DOMAIN h[o].refs : h[o].refs[i] \in 0 .. Len(h)
  <2>1. h[o].refs \in Seq(0 .. Len(h))
    BY <1>2
  <2> QED
    BY <2>1, SeqDomains, ElementOfSeq
<1>4. Const \notin DOMAIN h
  BY <1>1 DEF Const
<1>5. \A o \in DOMAIN h : h[o].rc \in Int
  BY <1>2
<1>6. Countable(h)
  BY <1>1, <1>2, <1>3, <1>4, <1>5 DEF Countable
<1> QED
  BY <1>1, <1>2, <1>3, <1>4, <1>6

\* of a typed stack,
LEMMA FrameFacts ==
    ASSUME NEW n \in Nat, NEW st \in Seq(FrameType(n))
    PROVE  /\ Len(st) \in Nat /\ DOMAIN st = 1 .. Len(st)
           /\ \A d \in DOMAIN st :
                /\ st[d] \in FrameType(n)
                /\ st[d].lazy \in 0 .. n /\ st[d].fun \in 0 .. n /\ st[d].left \in Nat
                /\ st[d].own \in Seq(0 .. n) /\ st[d].load \in LoadType(n)
                /\ st[d].load.src \in 0 .. n /\ st[d].load.want \in Seq(Int)
                /\ st[d].load.k \in Nat \ {0} /\ st[d].load.i \in Nat
                /\ st[d].load.got \in Seq(0 .. n)
                /\ st[d].load.at \in {"idle", "search", "place", "lazy", "loaded", "failed"}
<1>1. Len(st) \in Nat /\ DOMAIN st = 1 .. Len(st)
  BY SeqDomains
<1>2. ASSUME NEW d \in DOMAIN st
      PROVE  st[d] \in FrameType(n)
  BY <1>1, ElementOfSeq
<1>3. \A f \in FrameType(n) :
        /\ f.lazy \in 0 .. n /\ f.fun \in 0 .. n /\ f.left \in Nat
        /\ f.own \in Seq(0 .. n) /\ f.load \in LoadType(n)
  BY DEF FrameType
<1>4. \A load \in LoadType(n) :
        /\ load.src \in 0 .. n /\ load.want \in Seq(Int)
        /\ load.k \in Nat \ {0} /\ load.i \in Nat /\ load.got \in Seq(0 .. n)
        /\ load.at \in {"idle", "search", "place", "lazy", "loaded", "failed"}
  BY DEF LoadType
<1> QED
  BY <1>1, <1>2, <1>3, <1>4

\* of what the stack owns,
LEMMA OwnsFacts ==
    ASSUME NEW n \in Nat, NEW st \in Seq(FrameType(n)), NEW hand \in Seq(0 .. n)
    PROVE  /\ FiniteFamily(Owns(st)) /\ DOMAIN Owns(st) = DOMAIN st
           /\ \A d \in DOMAIN st : Owns(st)[d] = st[d].own
           /\ IsFiniteSet(DOMAIN hand)
           /\ \A o : Among(Owns(st), o) \in Nat /\ Occurs(hand, o) \in Nat
           /\ \A h : Owned(h, st, hand) \in [DOMAIN h -> Nat]
<1>1. \A d \in DOMAIN st : st[d].own \in Seq(0 .. n)
  BY FrameFacts
<1>2. IsFiniteSet(DOMAIN st) /\ IsFiniteSet(DOMAIN hand) /\ \A d \in DOMAIN st : IsFiniteSet(DOMAIN st[d].own)
  BY <1>1, SeqDomains
<1>3. DOMAIN Owns(st) = DOMAIN st /\ \A d \in DOMAIN st : Owns(st)[d] = st[d].own
  BY DEF Owns
<1>4. FiniteFamily(Owns(st))
  BY <1>2, <1>3 DEF FiniteFamily
<1>5. \A o : Among(Owns(st), o) \in Nat /\ Occurs(hand, o) \in Nat
  BY <1>2, <1>4, AmongNat, OccursNat
<1>6. \A h : Owned(h, st, hand) \in [DOMAIN h -> Nat]
  BY <1>5 DEF Owned
<1> QED
  BY <1>2, <1>3, <1>4, <1>5, <1>6

\* and of both.
LEMMA TypedFacts ==
    ASSUME NEW h, NEW st, NEW hand, Typed(h, st, hand)
    PROVE  /\ Len(h) \in Nat /\ h \in Seq(ObjectType(Len(h))) /\ st \in Seq(FrameType(Len(h)))
           /\ hand \in Seq(0 .. Len(h)) /\ DOMAIN h = 1 .. Len(h) /\ DOMAIN st = 1 .. Len(st)
           /\ Len(st) \in Nat /\ Countable(h) /\ IsFiniteSet(DOMAIN hand)
           /\ DOMAIN hand = 1 .. Len(hand) /\ Len(hand) \in Nat
           /\ Owned(h, st, hand) \in [DOMAIN h -> Nat]
BY HeapFacts, FrameFacts, OwnsFacts, SeqDomains DEF Typed

-----------------------------------------------------------------------------
(* A finite set of numbers can be put in order.                               *)

SomeSubsets(T, A) == T # {} /\ T \subseteq SUBSET A

\* Of finitely many sets one is smallest.
LEMMA SmallestSet ==
    ASSUME NEW A, IsFiniteSet(A), NEW T, SomeSubsets(T, A)
    PROVE  \E x \in T : \A y \in T : y \subseteq x => y = x
<1>1. FiniteSubsetsOf(A) = SUBSET A
  BY FS_FiniteSubsetsOfFinite
<1>2. \E x \in T : \A y \in T : ~(<<y, x>> \in StrictSubsetOrdering(A))
  <2>1. IsWellFoundedOn(StrictSubsetOrdering(A), FiniteSubsetsOf(A))
    BY FS_StrictSubsetOrderingWellFounded
  <2>2. T \subseteq FiniteSubsetsOf(A) /\ T # {}
    BY <1>1 DEF SomeSubsets
  <2> QED
    BY <2>1, <2>2, WFMin
<1> QED
  BY <1>2 DEF StrictSubsetOrdering, SomeSubsets

\* Of finitely many numbers one is greatest.
LEMMA GreatestNumber ==
    ASSUME NEW A \in SUBSET Int, IsFiniteSet(A), A # {}
    PROVE  \E m \in A : \A x \in A : x <= m
<1> DEFINE Over(x) == {y \in A : y > x}
           T == {Over(x) : x \in A}
<1>1. SomeSubsets(T, A)
  BY DEF SomeSubsets
<1>2. \E U \in T : \A V \in T : V \subseteq U => V = U
  <2> HIDE DEF T
  <2> QED
    BY <1>1, SmallestSet
<1>4. PICK m \in A : \A x \in A : Over(x) \subseteq Over(m) => Over(x) = Over(m)
  <2> HIDE DEF Over
  <2>1. PICK U \in T : \A V \in T : V \subseteq U => V = U
    BY <1>2
  <2>2. PICK m \in A : U = Over(m)
    BY <2>1
  <2> QED
    BY <2>1, <2>2
<1>3. ASSUME NEW x \in A, x > m
      PROVE  FALSE
  <2>1. x \in Over(m) /\ x \notin Over(x)
    BY <1>3
  <2>3. \A y \in A : y \in Int
    OBVIOUS
  <2>2. \A y \in A : y > x => y > m
    BY <1>3, <2>3
  <2>4. Over(x) \subseteq Over(m)
    BY <2>2
  <2> HIDE DEF Over
  <2> QED
    BY <1>4, <2>1, <2>4
<1> QED
  BY <1>3

\* Every finite set of numbers can be put in order,
LEMMA AscendingExists ==
    ASSUME NEW A \in SUBSET Int, IsFiniteSet(A)
    PROVE  \E ids \in [1 .. Cardinality(A) -> A] : Increasing(ids)
<1> DEFINE P(B) == \E ids \in [1 .. Cardinality(B) -> B] : Increasing(ids)
           T == {B \in SUBSET A : ~P(B)}
<1> SUFFICES ASSUME ~P(A)
             PROVE  FALSE
  OBVIOUS
<1>1. PICK B \in T : \A C \in T : C \subseteq B => C = B
  <2> HIDE DEF P
  <2>1. SomeSubsets(T, A)
    BY DEF SomeSubsets
  <2> HIDE DEF T
  <2> QED
    BY <2>1, SmallestSet
<1>2. IsFiniteSet(B) /\ B \in SUBSET Int /\ Cardinality(B) \in Nat
  BY FS_Subset, FS_CardinalityType
<1>3. CASE B = {}
  <2>1. Cardinality(B) = 0
    BY <1>3, FS_EmptySet
  <2>2. <<>> \in [1 .. 0 -> B] /\ Increasing(<<>>)
    BY DEF Increasing
  <2> QED
    BY <1>1, <2>1, <2>2
<1>4. CASE B # {}
  <2>1. PICK m \in B : \A x \in B : x <= m
    BY <1>2, <1>4, GreatestNumber
  <2> DEFINE C == B \ {m}
             n == Cardinality(C)
  <2>2. n \in Nat /\ Cardinality(B) = n + 1
    <3>1. IsFiniteSet(C) /\ n = Cardinality(B) - 1
      BY <1>2, FS_RemoveElement
    <3>2. n \in Nat
      BY <3>1, FS_CardinalityType
    <3> QED
      BY <1>2, <3>1, <3>2
  <2>3. P(C)
    <3> C \in SUBSET A /\ C \subseteq B /\ C # B
      OBVIOUS
    <3> HIDE DEF P, C
    <3> QED
      BY <1>1
  <2>4. PICK ids \in [1 .. n -> C] : Increasing(ids)
    BY <2>3
  <2> HIDE DEF n
  <2> DEFINE more == [i \in 1 .. n + 1 |-> IF i = n + 1 THEN m ELSE ids[i]]
  <2>5. more \in [1 .. Cardinality(B) -> B]
    BY <2>2
  <2>6. ASSUME NEW i \in 1 .. n + 1, NEW j \in 1 .. n + 1, i < j
        PROVE  more[i] < more[j]
    <3>1. i \in 1 .. n /\ more[i] = ids[i] /\ ids[i] \in C
      BY <2>2, <2>6
    <3>2. CASE j = n + 1
      <4>1. more[j] = m /\ ids[i] <= m /\ ids[i] # m /\ ids[i] \in Int /\ m \in Int
        BY <1>2, <2>1, <3>1, <3>2
      <4> QED
        BY <3>1, <4>1
    <3>3. CASE j # n + 1
      <4>1. j \in 1 .. n /\ more[j] = ids[j]
        BY <2>2, <3>3
      <4> QED
        BY <2>4, <2>6, <3>1, <4>1 DEF Increasing
    <3> QED
      BY <3>2, <3>3
  <2>7. Increasing(more)
    BY <2>6 DEF Increasing
  <2> HIDE DEF more
  <2> QED
    BY <1>1, <2>5, <2>7
<1> QED
  BY <1>3, <1>4

\* and then has each of its numbers once.
LEMMA AscendingFacts ==
    ASSUME NEW A \in SUBSET Int, IsFiniteSet(A)
    PROVE  /\ Ascending(A) \in Seq(A) /\ Len(Ascending(A)) = Cardinality(A)
           /\ DOMAIN Ascending(A) = 1 .. Cardinality(A)
           /\ Increasing(Ascending(A))
           /\ \A i, j \in DOMAIN Ascending(A) : Ascending(A)[i] = Ascending(A)[j] => i = j
           /\ \A x \in A : \E i \in DOMAIN Ascending(A) : Ascending(A)[i] = x
           /\ \A i \in DOMAIN Ascending(A) : Ascending(A)[i] \in A
<1> DEFINE ids == Ascending(A)
           n == Cardinality(A)
<1>1. ids \in [1 .. n -> A] /\ Increasing(ids)
  BY AscendingExists DEF Ascending
<1>2. n \in Nat
  BY FS_CardinalityType
<1> HIDE DEF ids
<1>3. ASSUME NEW i \in 1 .. n, NEW j \in 1 .. n, ids[i] = ids[j]
      PROVE  i = j
  <2>1. ids[i] \in Int /\ DOMAIN ids = 1 .. n
    BY <1>1
  <2> HIDE DEF n
  <2>2. CASE i < j
    BY <1>1, <1>3, <2>1, <2>2 DEF Increasing
  <2>3. CASE j < i
    BY <1>1, <1>3, <2>1, <2>3 DEF Increasing
  <2> QED
    BY <1>2, <2>2, <2>3
<1>4. ids \in Injection(1 .. n, A)
  BY <1>1, <1>3 DEF Injection, IsInjective
<1>5. Cardinality(1 .. n) = n
  BY <1>2, FS_Interval
<1>6. ids \in Surjection(1 .. n, A)
  BY <1>4, <1>5, FS_Injection
<1>7. \A x \in A : \E i \in 1 .. n : ids[i] = x
  BY <1>6 DEF Surjection
<1>8. DOMAIN ids = 1 .. n
  BY <1>1
<1>9. ids \in Seq(A) /\ Len(ids) = n
  <2> HIDE DEF n
  <2>1. \A i \in 1 .. n : ids[i] \in A
    BY <1>1
  <2>2. ids = [i \in 1 .. n |-> ids[i]]
    BY <1>1
  <2> QED
    BY <1>1, <1>2
<1> QED
  BY <1>1, <1>3, <1>7, <1>8, <1>9 DEF ids

\* The ids of a record type: PlaceOf finds each.
LEMMA FieldIdsFacts ==
    ASSUME NEW shape \in Shapes
    PROVE  /\ FieldIds[shape] = Ascending(shape)
           /\ FieldIds[shape] \in Seq(Int) /\ Len(FieldIds[shape]) = Cardinality(shape)
           /\ DOMAIN FieldIds[shape] = 1 .. Cardinality(shape) /\ Cardinality(shape) \in Nat
           /\ Increasing(FieldIds[shape])
           /\ \A i \in DOMAIN FieldIds[shape] :
                FieldIds[shape][i] \in shape /\ PlaceOf(FieldIds[shape], FieldIds[shape][i]) = i
           /\ \A f \in shape : /\ PlaceOf(FieldIds[shape], f) \in DOMAIN FieldIds[shape]
                               /\ FieldIds[shape][PlaceOf(FieldIds[shape], f)] = f
<1>1. shape \in SUBSET Int /\ IsFiniteSet(shape)
  BY LazyRecordsAssumption
<1>2. FieldIds[shape] = Ascending(shape)
  BY DEF FieldIds
<1>3. Cardinality(shape) \in Nat
  BY <1>1, FS_CardinalityType
<1> DEFINE ids == Ascending(shape)
<1>4. /\ ids \in Seq(shape) /\ Len(ids) = Cardinality(shape)
      /\ DOMAIN ids = 1 .. Cardinality(shape)
      /\ Increasing(ids)
      /\ \A i, j \in DOMAIN ids : ids[i] = ids[j] => i = j
      /\ \A x \in shape : \E i \in DOMAIN ids : ids[i] = x
      /\ \A i \in DOMAIN ids : ids[i] \in shape
  BY <1>1, AscendingFacts
<1> HIDE DEF ids
<1>5. ids \in Seq(Int)
  BY <1>1, <1>4, SeqMonotonic
<1>6. \A i \in DOMAIN ids : PlaceOf(ids, ids[i]) = i
  <2> TAKE i \in DOMAIN ids
  <2>1. PlaceOf(ids, ids[i]) \in DOMAIN ids /\ ids[PlaceOf(ids, ids[i])] = ids[i]
    BY DEF PlaceOf
  <2> QED
    BY <1>4, <2>1
<1>7. \A f \in shape : PlaceOf(ids, f) \in DOMAIN ids /\ ids[PlaceOf(ids, f)] = f
  BY <1>4 DEF PlaceOf
<1> QED
  BY <1>2, <1>3, <1>4, <1>5, <1>6, <1>7 DEF ids

\* Objects leaves out what is not counted, and nothing else.
LEMMA ObjectsFacts ==
    ASSUME NEW n \in Nat, NEW os \in Seq(0 .. n)
    PROVE  /\ Objects(os) \in Seq(0 .. n)
           /\ Range(Objects(os)) = Range(os) \ {Const}
           /\ \A o : o # Const => Occurs(Objects(os), o) = Occurs(os, o)
<1> DEFINE A == {i \in DOMAIN os : os[i] # Const}
           places == Ascending(A)
           s == [j \in DOMAIN places |-> os[places[j]]]
           m == Cardinality(A)
<1>1. DOMAIN os = 1 .. Len(os) /\ Len(os) \in Nat /\ IsFiniteSet(DOMAIN os)
  BY SeqDomains
<1>2. A \in SUBSET Int /\ IsFiniteSet(A) /\ A \subseteq DOMAIN os
  BY <1>1, FS_Subset
<1>3. m \in Nat
  BY <1>2, FS_CardinalityType
<1>4. /\ DOMAIN places = 1 .. m
      /\ \A i, j \in DOMAIN places : places[i] = places[j] => i = j
      /\ \A x \in A : \E i \in DOMAIN places : places[i] = x
      /\ \A i \in DOMAIN places : places[i] \in A
  <2> HIDE DEF A
  <2> QED
    BY <1>2, AscendingFacts
<1>5. Objects(os) = s
  BY DEF Objects
<1> HIDE DEF places, m
<1>6. \A j \in 1 .. m : s[j] \in 0 .. n /\ s[j] # Const
  BY <1>1, <1>4, ElementOfSeq
<1>7. s \in Seq(0 .. n)
  BY <1>3, <1>4, <1>6
<1>8. Range(s) = Range(os) \ {Const}
  BY <1>4 DEF Range
<1>9. ASSUME NEW o, o # Const
      PROVE  Occurs(s, o) = Occurs(os, o)
  <2> DEFINE B == {j \in DOMAIN s : s[j] = o}
             C == {i \in DOMAIN os : os[i] = o}
             f == [j \in B |-> places[j]]
  <2>1. \A j \in B : f[j] \in C
    BY <1>4
  <2>2. \A i, j \in B : f[i] = f[j] => i = j
    BY <1>4
  <2>3. \A i \in C : \E j \in B : f[j] = i
    <3> TAKE i \in C
    <3>1. i \in A
      BY <1>9
    <3>2. PICK j \in DOMAIN places : places[j] = i
      BY <1>4, <3>1
    <3>3. j \in B
      BY <3>2
    <3> QED
      BY <3>2, <3>3
  <2>4. IsFiniteSet(C)
    BY <1>1, FS_Subset
  <2>5. IsFiniteSet(B)
    <3> DOMAIN s = 1 .. m /\ IsFiniteSet(1 .. m)
      BY <1>3, <1>4, FS_Interval
    <3> QED
      BY FS_Subset
  <2>6. Occurs(s, o) = Cardinality(B) /\ Occurs(os, o) = Cardinality(C)
    BY DEF Occurs
  <2>7. DOMAIN f = B
    OBVIOUS
  <2>8. f \in [B -> C]
    BY <2>1
  <2> HIDE DEF B, C, f
  <2>9. f \in Bijection(B, C)
    BY <2>2, <2>3, <2>8 DEF Bijection, Injection, Surjection, IsInjective
  <2> QED
    BY <2>5, <2>6, <2>9, FS_Bijection DEF ExistsBijection
<1> QED
  BY <1>5, <1>7, <1>8, <1>9

-----------------------------------------------------------------------------
(* What the parts of the invariant depend on                                  *)

SameParts(h, g, o) ==
    /\ g[o].kind = h[o].kind /\ g[o].refs = h[o].refs
    /\ g[o].ready = h[o].ready /\ g[o].shape = h[o].shape
SameOn(h, g, A) == \A o \in A : o # Const => SameParts(h, g, o)

\* What one frame uses
Uses(f) == {f.lazy, f.fun, f.load.src} \union Range(f.load.got)

\* What a stack uses, frame by frame.
LEMMA UsedByFacts ==
    ASSUME NEW st
    PROVE  \A o : o \in UsedBy(st) <=> \E d \in DOMAIN st : o \in Uses(st[d])
BY DEF UsedBy, Uses, Range

\* What depends on some objects only stays as it is where they do: kinds,
LEMMA KindKept ==
    ASSUME NEW h, NEW g, NEW A, SameOn(h, g, A), NEW o \in A
    PROVE  KindIn(g, o) = KindIn(h, o)
BY DEF KindIn, SameOn, SameParts

\* searches,
LEMMA SearchKept ==
    ASSUME NEW h, NEW g, NEW load, load.src # Const,
           SameOn(h, g, {load.src} \union Range(load.got))
    PROVE  /\ FoundIn(g, load) <=> FoundIn(h, load)
           /\ SearchOK(h, load) => SearchOK(g, load)
<1>1. g[load.src].shape = h[load.src].shape /\ g[load.src].refs = h[load.src].refs
  BY DEF SameOn, SameParts
<1>2. FoundIn(g, load) <=> FoundIn(h, load)
  BY <1>1 DEF FoundIn
<1>3. \A j \in DOMAIN load.got : KindIn(g, load.got[j]) = KindIn(h, load.got[j])
  BY KindKept DEF Range
<1> QED
  BY <1>1, <1>2, <1>3 DEF SearchOK

\* loads,
LEMMA LoadKept ==
    ASSUME NEW h, NEW g, NEW f, SameOn(h, g, Uses(f)), LoadOK(h, f)
    PROVE  LoadOK(g, f)
<1>1. CASE f.load.at = "idle"
  BY <1>1 DEF LoadOK
<1>2. CASE f.load.at # "idle"
  <2>1. f.load.src # Const
    BY <1>2 DEF LoadOK
  <2>2. g[f.load.src].kind = h[f.load.src].kind
    BY <2>1 DEF SameOn, SameParts, Uses
  <2>3. CapturedIn(g, f) = CapturedIn(h, f)
    BY DEF CapturedIn, SameOn, SameParts, Uses
  <2>4. SearchOK(h, f.load) => SearchOK(g, f.load)
    <3>1. SameOn(h, g, {f.load.src} \union Range(f.load.got))
      BY DEF SameOn, Uses
    <3> QED
      BY <2>1, <3>1, SearchKept
  <2> QED
    BY <1>2, <2>1, <2>2, <2>3, <2>4 DEF LoadOK
<1> QED
  BY <1>1, <1>2

\* and what a frame waits for.
LEMMA ExpectsKept ==
    ASSUME NEW h, NEW g, NEW f, SameOn(h, g, Uses(f)), IsEvaluation(f) \/ LoadOK(h, f),
           NEW l, Expects(h, f, l)
    PROVE  Expects(g, f, l)
<1>1. CASE IsEvaluation(f) \/ f.load.at = "lazy"
  BY <1>1, Zenon DEF Expects
<1>2. CASE ~IsEvaluation(f) /\ f.load.at # "lazy"
  <2>1. f.load.at \in {"search", "place"} /\ LoadOK(h, f)
    BY <1>2 DEF Expects
  <2>2. f.load.src # Const
    BY <2>1 DEF LoadOK
  <2>3. SameParts(h, g, f.load.src)
    BY <2>2 DEF SameOn, Uses
  <2>4. FoundIn(g, f.load) <=> FoundIn(h, f.load)
    BY <2>3 DEF FoundIn, SameParts
  <2> QED
    BY <1>2, <2>3, <2>4 DEF Expects, SameParts
<1> QED
  BY <1>1, <1>2

\* A stack depends on the objects that it uses.
LEMMA StackKept ==
    ASSUME NEW h, NEW g, NEW n \in Nat, NEW st \in Seq(FrameType(n)),
           \A d \in DOMAIN st : FrameOK(h, st, d), SameOn(h, g, UsedBy(st))
    PROVE  \A d \in DOMAIN st : FrameOK(g, st, d)
<1>1. DOMAIN st = 1 .. Len(st) /\ Len(st) \in Nat
  BY FrameFacts
<1>2. \A d \in DOMAIN st : SameOn(h, g, Uses(st[d]))
  BY UsedByFacts DEF SameOn
<1> TAKE d \in DOMAIN st
<1>3. CASE IsEvaluation(st[d])
  <2>1. EvaluationOK(h, st, d)
    BY <1>3 DEF FrameOK
  <2>2. SameParts(h, g, st[d].lazy)
    BY <1>2, <1>3 DEF SameOn, Uses, IsEvaluation
  <2>3. d > 1 /\ Expects(h, st[d - 1], st[d].lazy)
    BY <2>1 DEF EvaluationOK
  <2>4. d - 1 \in DOMAIN st
    BY <1>1, <2>3
  <2>5. IsEvaluation(st[d - 1]) \/ LoadOK(h, st[d - 1])
    BY <2>4 DEF FrameOK, CodeOK
  <2>6. Expects(g, st[d - 1], st[d].lazy)
    BY <1>2, <2>3, <2>4, <2>5, ExpectsKept
  <2>7. EvaluationOK(g, st, d)
    BY <2>1, <2>2, <2>6 DEF EvaluationOK, SameParts
  <2> QED
    BY <1>3, <2>7 DEF FrameOK
<1>4. CASE ~IsEvaluation(st[d])
  <2>1. CodeOK(h, st, d)
    BY <1>4 DEF FrameOK
  <2>2. LoadOK(g, st[d])
    BY <1>2, <2>1, LoadKept DEF CodeOK
  <2>3. KindIn(g, st[d].fun) = KindIn(h, st[d].fun)
    <3>1. st[d].fun \in Uses(st[d])
      BY DEF Uses
    <3> QED
      BY <1>2, <3>1, KindKept
  <2>4. CodeOK(g, st, d)
    BY <2>1, <2>2, <2>3 DEF CodeOK
  <2> QED
    BY <1>4, <2>4 DEF FrameOK
<1> QED
  BY <1>3, <1>4

\* What a stack uses are objects of the heap.
LEMMA UsedTyped ==
    ASSUME NEW h, NEW st, NEW hand, Typed(h, st, hand)
    PROVE  /\ \A o \in UsedBy(st) : o = Const \/ o \in DOMAIN h
           /\ \A d \in DOMAIN st : \A o \in Uses(st[d]) \union Seen(st[d]) : o = Const \/ o \in DOMAIN h
<1>1. ASSUME NEW d \in DOMAIN st, NEW o \in Uses(st[d]) \union Seen(st[d])
      PROVE  o = Const \/ o \in DOMAIN h
  <2>1. /\ Len(h) \in Nat /\ DOMAIN h = 1 .. Len(h)
        /\ st[d].lazy \in 0 .. Len(h) /\ st[d].fun \in 0 .. Len(h) /\ st[d].load.src \in 0 .. Len(h)
        /\ st[d].load.got \in Seq(0 .. Len(h)) /\ st[d].own \in Seq(0 .. Len(h))
    BY TypedFacts, FrameFacts
  <2>2. /\ \A x \in Range(st[d].load.got) : x \in 0 .. Len(h)
        /\ \A x \in Range(st[d].own) : x \in 0 .. Len(h)
    BY <2>1, SeqDomains, ElementOfSeq DEF Range
  <2>3. o \in 0 .. Len(h)
    BY <2>1, <2>2 DEF Uses, Seen
  <2> QED
    BY <2>1, <2>3 DEF Const
<1> QED
  BY <1>1, UsedByFacts

\* References that go away leave what is above where it is.
LEMMA UpwardKept ==
    ASSUME NEW h, NEW g, DOMAIN g = DOMAIN h,
           \A o \in DOMAIN h : Range(g[o].refs) \subseteq Range(h[o].refs)
    PROVE  /\ \A U : Upward(h, U) => Upward(g, U)
           /\ Acyclic(h) => Acyclic(g)
           /\ \A st, V : Apart(h, st, V) => Apart(g, st, V)
<1>1. ASSUME NEW U, Upward(h, U)
      PROVE  Upward(g, U)
  <2> SUFFICES ASSUME NEW q \in DOMAIN g \ U, NEW i \in DOMAIN g[q].refs
               PROVE  g[q].refs[i] \notin U
    BY DEF Upward
  <2>1. g[q].refs[i] \in Range(h[q].refs)
    BY DEF Range
  <2> QED
    BY <1>1, <2>1 DEF Upward, Range
<1>2. \A o \in DOMAIN h : \A U : Above(h, o, U) => Above(g, o, U)
  BY <1>1 DEF Above
<1>3. \A st, V, d, U : Aside(h, st, V, d, U) => Aside(g, st, V, d, U)
  BY <1>1 DEF Aside
<1>4. Acyclic(h) => Acyclic(g)
  BY <1>2 DEF Acyclic
<1>5. \A st, V : Apart(h, st, V) => Apart(g, st, V)
  BY <1>3 DEF Apart
<1> QED
  BY <1>1, <1>4, <1>5

\* What is not in sight of an evaluation's code is not either one reference on.
LEMMA ApartMore ==
    ASSUME NEW h, NEW st, NEW V, Apart(h, st, V), NEW W,
           \A U \in SUBSET DOMAIN h :
               /\ Upward(h, U) /\ V \intersect U = {}
               /\ st # <<>> => Seen(Last(st)) \intersect U = {}
               => W \intersect U = {},
           DOMAIN st = 1 .. Len(st), Len(st) \in Nat
    PROVE  Apart(h, st, W)
<1> SUFFICES ASSUME NEW d \in DOMAIN st, IsEvaluation(st[d])
             PROVE  \E U : Aside(h, st, W, d, U)
  BY DEF Apart
<1>1. PICK U : Aside(h, st, V, d, U)
  BY DEF Apart
<1>2. st # <<>> => Seen(Last(st)) \intersect U = {}
  <2>1. Len(st) \in d .. Len(st)
    OBVIOUS
  <2> QED
    BY <1>1, <2>1 DEF Aside, Last
<1>3. W \intersect U = {}
  BY <1>1, <1>2 DEF Aside
<1> QED
  BY <1>1, <1>3 DEF Aside

\* Heaps that differ in their counts
LEMMA AlikeKept ==
    ASSUME NEW h, NEW g, NEW st, NEW hand, Typed(h, st, hand), DOMAIN g = DOMAIN h,
           \A o \in DOMAIN h : SameParts(h, g, o)
    PROVE  /\ (\A o \in DOMAIN h : ObjectOK(h, st, o)) => \A o \in DOMAIN g : ObjectOK(g, st, o)
           /\ (\A d \in DOMAIN st : FrameOK(h, st, d)) => \A d \in DOMAIN st : FrameOK(g, st, d)
           /\ \A V : Apart(h, st, V) => Apart(g, st, V)
           /\ Acyclic(h) => Acyclic(g)
           /\ Refs(g) = Refs(h)
           /\ Owned(g, st, hand) = Owned(h, st, hand)
<1>1. SameOn(h, g, UsedBy(st))
  BY UsedTyped DEF SameOn
<1>2. ASSUME NEW o \in DOMAIN h, ObjectOK(h, st, o)
      PROVE  ObjectOK(g, st, o)
  <2>1. SameParts(h, g, o)
    OBVIOUS
  <2>2. ASSUME Len(h[o].refs) = 1
        PROVE  KindIn(g, h[o].refs[1]) = KindIn(h, h[o].refs[1])
    <3>1. h[o].refs[1] \in 0 .. Len(h) /\ DOMAIN h = 1 .. Len(h) /\ Len(h) \in Nat
      BY <2>2, HeapFacts DEF Typed
    <3> QED
      BY <3>1 DEF KindIn, SameParts, Const
  <2> QED
    BY <1>2, <2>1, <2>2 DEF ObjectOK, SameParts
<1>3. \A o \in DOMAIN h : Range(g[o].refs) \subseteq Range(h[o].refs)
  BY DEF SameParts
<1>4. Refs(g) = Refs(h)
  BY DEF Refs, SameParts
<1>5. Owned(g, st, hand) = Owned(h, st, hand)
  BY DEF Owned
<1>6. (\A d \in DOMAIN st : FrameOK(h, st, d)) => \A d \in DOMAIN st : FrameOK(g, st, d)
  BY <1>1, StackKept, TypedFacts
<1> QED
  BY <1>2, <1>3, <1>4, <1>5, <1>6, UpwardKept

\* A heap is typed if its objects are.
LEMMA HeapTyped ==
    ASSUME NEW n \in Nat, NEW g, g = [o \in 1 .. n |-> g[o]], \A o \in 1 .. n : g[o] \in ObjectType(n)
    PROVE  g \in Seq(ObjectType(n)) /\ Len(g) = n /\ DOMAIN g = 1 .. n
<1>1. g \in [1 .. n -> ObjectType(n)]
  OBVIOUS
<1> QED
  BY <1>1

\* References that are taken are in hand.
LEMMA OwnedMore ==
    ASSUME NEW h, NEW st, NEW n \in Nat, NEW hand \in Seq(0 .. n), NEW os \in Seq(0 .. n),
           st \in Seq(FrameType(n))
    PROVE  Owned(h, st, hand \o os) = More(Owned(h, st, hand), os)
<1>1. \A o : Occurs(hand \o os, o) = Occurs(hand, o) + Occurs(os, o)
  BY OccursConcat
<1>2. \A o : Among(Owns(st), o) \in Nat /\ Occurs(hand, o) \in Nat /\ Occurs(os, o) \in Nat
  BY OwnsFacts
<1>3. \A o \in DOMAIN h : Owned(h, st, hand \o os)[o] = More(Owned(h, st, hand), os)[o]
  BY <1>1, <1>2 DEF Owned, More
<1> QED
  BY <1>3 DEF Owned, More

\* IncAll keeps the types, and all but the counts.
LEMMA IncAllAlike ==
    ASSUME NEW h, h \in Seq(ObjectType(Len(h))), NEW os, IsFiniteSet(DOMAIN os)
    PROVE  /\ IncAll(h, os) \in Seq(ObjectType(Len(h))) /\ Len(IncAll(h, os)) = Len(h)
           /\ DOMAIN IncAll(h, os) = DOMAIN h
           /\ \A o \in DOMAIN h : /\ SameParts(h, IncAll(h, os), o)
                                  /\ IncAll(h, os)[o].rc = h[o].rc + Occurs(os, o)
<1> DEFINE g == IncAll(h, os)
<1>1. \A o \in DOMAIN h : g[o] = [h[o] EXCEPT !.rc = h[o].rc + Occurs(os, o)]
  BY DEF IncAll
<1>2. /\ \A o \in DOMAIN h : h[o] \in ObjectType(Len(h)) /\ h[o].rc \in Nat
      /\ Len(h) \in Nat /\ DOMAIN h = 1 .. Len(h)
  BY HeapFacts
<1>3. \A o : Occurs(os, o) \in Nat
  BY OccursNat
<1>4. g = [o \in 1 .. Len(h) |-> g[o]]
  BY <1>2 DEF IncAll
<1> HIDE DEF g
<1>5. \A o \in DOMAIN h : h[o].rc + Occurs(os, o) \in Nat
  BY <1>2, <1>3
<1>6. ASSUME NEW o \in DOMAIN h
      PROVE  g[o] \in ObjectType(Len(h)) /\ SameParts(h, g, o) /\ g[o].rc = h[o].rc + Occurs(os, o)
  <2>1. h[o] \in ObjectType(Len(h)) /\ h[o].rc + Occurs(os, o) \in Nat
    BY <1>2, <1>5
  <2>2. g[o] = [h[o] EXCEPT !.rc = h[o].rc + Occurs(os, o)]
    BY <1>1
  <2> QED
    BY <2>1, <2>2 DEF ObjectType, SameParts
<1>7. g \in Seq(ObjectType(Len(h))) /\ Len(g) = Len(h) /\ DOMAIN g = 1 .. Len(h)
  BY <1>2, <1>4, <1>6, HeapTyped
<1> QED
  BY <1>2, <1>6, <1>7 DEF g

\* References are taken to what is there and in sight.
LEMMA Taken ==
    ASSUME NEW h, NEW st, NEW hand, Good(h, st, hand), NEW os \in Seq(0 .. Len(h)),
           \A o \in Range(os) : ~Dead(h, o), Apart(h, st, Range(hand) \union Range(os))
    PROVE  Good(IncAll(h, os), st, hand \o os)
<1> DEFINE g == IncAll(h, os)
           held == hand \o os
<1>1. /\ Len(h) \in Nat /\ Typed(h, st, hand) /\ Countable(h) /\ IsFiniteSet(DOMAIN os)
      /\ h \in Seq(ObjectType(Len(h))) /\ st \in Seq(FrameType(Len(h))) /\ hand \in Seq(0 .. Len(h))
      /\ DOMAIN hand = 1 .. Len(hand) /\ DOMAIN os = 1 .. Len(os) /\ Len(os) \in Nat /\ Len(hand) \in Nat
  BY TypedFacts, SeqDomains DEF Good
<1>2. /\ g \in Seq(ObjectType(Len(h))) /\ Len(g) = Len(h) /\ DOMAIN g = DOMAIN h
      /\ \A o \in DOMAIN h : SameParts(h, g, o) /\ g[o].rc = h[o].rc + Occurs(os, o)
  BY <1>1, IncAllAlike
<1>3. held \in Seq(0 .. Len(h)) /\ Range(held) = Range(hand) \union Range(os)
  BY <1>1, RangeConcatenation
<1>4. Counts(g, More(Owned(h, st, hand), os))
  <2>1. \A o \in DOMAIN h : Dead(h, o) => Occurs(os, o) = 0
    BY <1>1, OccursNat DEF Range
  <2>2. Counts(h, Owned(h, st, hand)) /\ Owned(h, st, hand) \in [DOMAIN h -> Nat]
    BY TypedFacts DEF Good
  <2> QED
    BY <1>1, <2>1, <2>2, IncAllCounts
<1>5. Owned(g, st, held) = More(Owned(h, st, hand), os)
  <2>1. Owned(h, st, held) = More(Owned(h, st, hand), os)
    BY <1>1, OwnedMore
  <2> QED
    BY <1>2, <2>1 DEF Owned
<1>6. /\ \A o \in DOMAIN g : ObjectOK(g, st, o)
      /\ \A d \in DOMAIN st : FrameOK(g, st, d)
      /\ Apart(g, st, Range(held))
      /\ Acyclic(g)
  <2> HIDE DEF g, held
  <2> QED
    BY <1>1, <1>2, <1>3, AlikeKept DEF Good
<1>7. Alive(g, st)
  <2>1. \A o : Occurs(os, o) \in Nat
    BY <1>1, OccursNat
  <2>2. \A o \in DOMAIN h : Dead(g, o) = Dead(h, o) /\ (h[o].rc > 0 => g[o].rc > 0)
    <3>1. \A o \in DOMAIN h : h[o].rc \in Nat
      BY <1>1, HeapFacts
    <3> HIDE DEF g
    <3> QED
      BY <1>2, <2>1, <3>1 DEF Dead, SameParts
  <2> QED
    BY <1>2, <2>2 DEF Good, Alive
<1> HIDE DEF g, held
<1>8. Good(g, st, held)
  BY <1>1, <1>2, <1>3, <1>4, <1>5, <1>6, <1>7 DEF Good, Typed
<1> QED
  BY <1>8 DEF g, held

\* Who holds what a frame uses: an evaluation has its lazy value, code what it
\* owns, and the rest is held by something else that is used.
LEMMA Support ==
    ASSUME NEW h, NEW st, NEW hand, Good(h, st, hand),
           st # <<>> => Last(st).load.at # "lazy",
           NEW d \in DOMAIN st, NEW o \in Uses(st[d]), o # Const
    PROVE  \/ \E e \in DOMAIN st : IsEvaluation(st[e]) /\ o = st[e].lazy
           \/ o \in Range(st[d].own)
           \/ \E p \in UsedBy(st) : p # Const /\ \E i \in DOMAIN h[p].refs : h[p].refs[i] = o
<1> DEFINE f == st[d]
<1>1. /\ DOMAIN st = 1 .. Len(st) /\ Len(st) \in Nat /\ FrameOK(h, st, d)
      /\ f.load.at \in {"idle", "search", "place", "lazy", "loaded", "failed"}
  BY TypedFacts, FrameFacts DEF Good
<1>2. \A e \in DOMAIN st : IsEvaluation(st[e]) => EvaluationOK(h, st, e)
  BY DEF Good, FrameOK
<1>3. CASE IsEvaluation(f)
  <2>1. f.fun = Const /\ f.load.src = Const /\ f.load.got = <<>>
    BY <1>2, <1>3 DEF EvaluationOK, Idle, Load
  <2>2. o = f.lazy
    BY <2>1 DEF Uses, Range
  <2> QED
    BY <1>3, <2>2
<1>4. CASE ~IsEvaluation(f)
  <2>1. CodeOK(h, st, d) /\ f.lazy = Const
    BY <1>1, <1>4 DEF FrameOK, IsEvaluation
  <2>2. CASE o = f.fun
    <3>1. d > 1 /\ IsEvaluation(st[d - 1]) /\ st[d - 1].own = <<>>
      BY <2>1, <2>2 DEF CodeOK
    <3>2. d - 1 \in DOMAIN st /\ (d - 1) + 1 = d
      BY <1>1, <3>1
    <3>3. h[st[d - 1].lazy].refs = <<f.fun>>
      BY <1>2, <3>1, <3>2 DEF EvaluationOK
    <3>4. st[d - 1].lazy \in UsedBy(st) /\ st[d - 1].lazy # Const
      BY <3>1, <3>2, UsedByFacts DEF Uses, IsEvaluation
    <3>5. 1 \in DOMAIN <<f.fun>> /\ <<f.fun>>[1] = o
      BY <2>2
    <3> QED
      BY <3>3, <3>4, <3>5
  <2>3. CASE f.load.at = "idle"
    <3>1. f.load.src = Const /\ f.load.got = <<>>
      BY <2>1, <2>3 DEF CodeOK, LoadOK, Idle, Load
    <3> QED
      BY <2>1, <2>2, <3>1 DEF Uses, Range
  <2>4. CASE f.load.at = "lazy"
    <3>1. d < Len(st)
      BY <1>1, <2>4 DEF Last
    <3>2. d + 1 \in DOMAIN st /\ (d + 1) - 1 = d /\ IsEvaluation(st[d + 1])
      BY <1>1, <2>1, <3>1 DEF CodeOK
    <3>3. Expects(h, f, st[d + 1].lazy)
      BY <1>2, <3>2 DEF EvaluationOK
    <3>4. f.load.src = st[d + 1].lazy
      BY <1>4, <2>4, <3>3 DEF Expects
    <3>5. f.load.got = <<>>
      BY <2>1, <2>4 DEF CodeOK, LoadOK
    <3> QED
      BY <2>1, <2>2, <3>2, <3>4, <3>5 DEF Uses, Range
  <2>5. CASE f.load.at \in {"search", "place", "loaded", "failed"}
    <3>1. LoadOK(h, f)
      BY <2>1 DEF CodeOK
    <3>2. /\ f.load.src # Const
          /\ f.load.src \in Range(f.own) \union CapturedIn(h, f)
          /\ IF h[f.load.src].kind = "rec" THEN SearchOK(h, f.load) ELSE f.load.got = <<>>
      BY <2>5, <3>1 DEF LoadOK
    <3>3. f.load.src \in UsedBy(st) /\ f.fun \in UsedBy(st)
      BY UsedByFacts DEF Uses
    <3>4. CASE o = f.load.src
      <4>1. CASE o \in Range(f.own)
        BY <4>1
      <4>2. CASE o \in CapturedIn(h, f)
        BY <3>3, <4>2 DEF CapturedIn, Range
      <4> QED
        BY <3>2, <3>4, <4>1, <4>2
    <3>5. CASE o \in Range(f.load.got)
      <4>1. PICK j \in DOMAIN f.load.got : f.load.got[j] = o
        BY <3>5 DEF Range
      <4>2. SearchOK(h, f.load) /\ h[f.load.src].kind = "rec"
        BY <3>2, <4>1
      <4> DEFINE r == h[f.load.src]
                 i == PlaceOf(FieldIds[r.shape], f.load.want[j])
      <4>3. f.load.want[j] \in r.shape /\ o = r.refs[i]
        BY <4>1, <4>2 DEF SearchOK
      <4>4. f.load.src \in DOMAIN h
        BY <3>2, <3>3, UsedTyped DEF Good
      <4>5. r.shape \in Shapes /\ Len(r.refs) = Cardinality(r.shape) /\ DOMAIN r.refs = 1 .. Len(r.refs)
        BY <4>2, <4>4, HeapFacts DEF Good, ObjectOK, Typed
      <4>6. i \in DOMAIN r.refs
        BY <4>3, <4>5, FieldIdsFacts
      <4> QED
        BY <3>2, <3>3, <4>3, <4>6
    <3> QED
      BY <2>1, <2>2, <3>4, <3>5 DEF Uses
  <2> QED
    BY <1>1, <2>3, <2>4, <2>5
<1> QED
  BY <1>3, <1>4

RecordType(R) ==
    [rc : Nat, kind : {"fun", "lazy", "rec", "freed"}, refs : R, ready : BOOLEAN, shape : SUBSET Int]

\* An object keeps its type when parts of it are written.
LEMMA RecordEdits ==
    ASSUME NEW R, NEW x \in RecordType(R), NEW refs \in R
    PROVE  /\ [x EXCEPT !.rc = 0, !.kind = "freed", !.refs = refs] \in RecordType(R)
           /\ [x EXCEPT !.refs = refs] \in RecordType(R)
           /\ [x EXCEPT !.refs = refs, !.ready = TRUE] \in RecordType(R)
           /\ \A r \in Nat : [x EXCEPT !.rc = r] \in RecordType(R)
<1>1. [x EXCEPT !.rc = 0, !.kind = "freed", !.refs = refs] \in RecordType(R)
  BY DEF RecordType
<1>2. [x EXCEPT !.refs = refs] \in RecordType(R)
  BY DEF RecordType
<1>3. [x EXCEPT !.refs = refs, !.ready = TRUE] \in RecordType(R)
  BY DEF RecordType
<1>4. \A r \in Nat : [x EXCEPT !.rc = r] \in RecordType(R)
  BY DEF RecordType
<1> QED
  BY <1>1, <1>2, <1>3, <1>4

\* ObjectType, by the type of the references.
LEMMA ObjectTypeIs == \A n : ObjectType(n) = RecordType(Seq(0 .. n))
BY DEF ObjectType, RecordType

\* Release keeps the types, and what it does not delete.
LEMMA ReleaseTyped ==
    ASSUME NEW h, h \in Seq(ObjectType(Len(h))), NEW os, IsFiniteSet(DOMAIN os),
           NEW S \in [DOMAIN h -> Nat], Counts(h, More(S, os))
    PROVE  /\ Release(h, os) \in Seq(ObjectType(Len(h))) /\ Len(Release(h, os)) = Len(h)
           /\ DOMAIN Release(h, os) = DOMAIN h
           /\ \A o \in DOMAIN h \ Deleted(h, os) : SameParts(h, Release(h, os), o)
           /\ \A o \in Deleted(h, os) : o \in DOMAIN h /\ Dead(Release(h, os), o) /\ Release(h, os)[o].refs = <<>>
<1> DEFINE g == Release(h, os)
           D == Deleted(h, os)
<1>1. /\ \A o \in DOMAIN h : h[o] \in ObjectType(Len(h)) /\ h[o].rc \in Nat
      /\ Len(h) \in Nat /\ DOMAIN h = 1 .. Len(h) /\ Countable(h) /\ Const \notin DOMAIN h
  BY HeapFacts
<1>2. \A o \in DOMAIN h : g[o] =
            IF o \in D THEN [h[o] EXCEPT !.rc = 0, !.kind = "freed", !.refs = <<>>]
            ELSE IF Dead(h, o) THEN h[o]
            ELSE [h[o] EXCEPT !.rc = h[o].rc - GivenUp(h, os, D, o)]
  BY DEF Release
<1>3. D \in SUBSET DOMAIN h
  BY <1>1, DeletedIsLeast
<1>4. Counts(g, S)
  BY <1>1, ReleaseCounts
<1>5. g = [o \in 1 .. Len(h) |-> g[o]] /\ DOMAIN g = DOMAIN h
  BY <1>1 DEF Release
<1>6. \A o \in DOMAIN h : ~Dead(g, o) => g[o].rc \in Nat
  <2> \A o : Among(Refs(g), o) \in Nat
    BY <1>1, ReleaseFields, AmongRefsNat
  <2> HIDE DEF g
  <2> QED
    BY <1>4, <1>5 DEF Counts
<1> HIDE DEF g, D
<1>7. ASSUME NEW o \in D
      PROVE  g[o] \in ObjectType(Len(h)) /\ Dead(g, o) /\ g[o].refs = <<>>
  <2>1. g[o] = [h[o] EXCEPT !.rc = 0, !.kind = "freed", !.refs = <<>>] /\ h[o] \in ObjectType(Len(h))
    BY <1>1, <1>2, <1>3
  <2>2. o # Const
    BY <1>1, <1>3
  <2>3. g[o].kind = "freed" /\ g[o].refs = <<>> /\ g[o].rc = 0
    BY <2>1 DEF ObjectType
  <2>4. <<>> \in Seq(0 .. Len(h))
    OBVIOUS
  <2>5. g[o] \in ObjectType(Len(h))
    <3>1. [h[o] EXCEPT !.rc = 0, !.kind = "freed", !.refs = <<>>] \in RecordType(Seq(0 .. Len(h)))
      BY <2>1, <2>4, ObjectTypeIs, RecordEdits
    <3> QED
      BY <2>1, <3>1, ObjectTypeIs
  <2> QED
    BY <2>2, <2>3, <2>5 DEF Dead
<1>8. ASSUME NEW o \in DOMAIN h \ D
      PROVE  g[o] \in ObjectType(Len(h)) /\ SameParts(h, g, o)
  <2>1. CASE Dead(h, o)
    BY <1>1, <1>2, <2>1 DEF SameParts
  <2>2. CASE ~Dead(h, o)
    <3> DEFINE r == h[o].rc - GivenUp(h, os, D, o)
    <3>1. g[o] = [h[o] EXCEPT !.rc = r] /\ h[o] \in ObjectType(Len(h))
      BY <1>1, <1>2, <2>2
    <3> HIDE DEF r
    <3>2. g[o].rc = r /\ SameParts(h, g, o)
      BY <3>1 DEF ObjectType, SameParts
    <3>3. ~Dead(g, o)
      BY <2>2, <3>2 DEF Dead, SameParts
    <3>4. r \in Nat
      BY <1>6, <3>2, <3>3
    <3> QED
      BY <3>1, <3>2, <3>4 DEF ObjectType
  <2> QED
    BY <2>1, <2>2
<1>9. g \in Seq(ObjectType(Len(h))) /\ Len(g) = Len(h)
  BY <1>1, <1>3, <1>5, <1>7, <1>8, HeapTyped
<1> QED
  BY <1>3, <1>5, <1>7, <1>8, <1>9 DEF g, D

\* References are released.  Nothing is deleted that is used.
LEMMA Released ==
    ASSUME NEW h, NEW st, NEW keep \in Seq(0 .. Len(h)), NEW os \in Seq(0 .. Len(h)),
           Good(h, st, keep \o os), st # <<>> => Last(st).load.at # "lazy"
    PROVE  /\ Good(Release(h, os), st, keep)
           /\ Len(Release(h, os)) = Len(h)
           /\ \A o \in DOMAIN h : ~Dead(Release(h, os), o) => SameParts(h, Release(h, os), o)
           /\ \A o \in UsedBy(st) : o # Const => o \notin Deleted(h, os)
<1> DEFINE g == Release(h, os)
           hand == keep \o os
           S == Owned(h, st, keep)
           E == {d \in DOMAIN st : IsEvaluation(st[d])}
           W(d) == CHOOSE U : Aside(h, st, Range(hand), d, U)
           B == (UNION {W(d) : d \in E}) \union (UsedBy(st) \ {Const})
<1>1. /\ Len(h) \in Nat /\ Typed(h, st, hand) /\ Countable(h) /\ IsFiniteSet(DOMAIN os)
      /\ h \in Seq(ObjectType(Len(h))) /\ st \in Seq(FrameType(Len(h)))
      /\ DOMAIN os = 1 .. Len(os) /\ Len(os) \in Nat /\ DOMAIN h = 1 .. Len(h)
      /\ DOMAIN st = 1 .. Len(st) /\ Len(st) \in Nat
  BY TypedFacts, SeqDomains DEF Good
<1>2. Range(hand) = Range(keep) \union Range(os)
  BY <1>1, RangeConcatenation
<1>3. S \in [DOMAIN h -> Nat] /\ Counts(h, More(S, os))
  <2>1. Owned(h, st, hand) = More(S, os)
    BY <1>1, OwnedMore
  <2> QED
    BY <1>1, <2>1, OwnsFacts DEF Good
<1>4. \A d \in E : Aside(h, st, Range(hand), d, W(d))
  BY DEF Good, Apart
<1> HIDE DEF W, hand
<1>5. B \in SUBSET DOMAIN h
  BY <1>1, <1>4, UsedTyped DEF Aside
<1>6. ASSUME NEW o \in B
      PROVE  \/ S[o] > 0
             \/ \E p \in B : \E i \in DOMAIN h[p].refs : h[p].refs[i] = o
             \/ /\ \A i \in DOMAIN os : os[i] # o
                /\ \A p \in DOMAIN h \ B : \A i \in DOMAIN h[p].refs : h[p].refs[i] # o
  <2>1. ASSUME NEW d \in E, o \in W(d)
        PROVE  /\ \A i \in DOMAIN os : os[i] # o
               /\ \A p \in DOMAIN h \ B : \A i \in DOMAIN h[p].refs : h[p].refs[i] # o
    <3>1. Aside(h, st, Range(hand), d, W(d))
      BY <1>4
    <3>2. \A i \in DOMAIN os : os[i] # o
      BY <1>2, <2>1, <3>1 DEF Aside, Range
    <3>3. \A p \in DOMAIN h \ B : p \notin W(d)
      OBVIOUS
    <3> QED
      BY <2>1, <3>1, <3>2, <3>3 DEF Aside, Upward
  <2>2. ASSUME o \in UsedBy(st), o # Const
        PROVE  \/ S[o] > 0
               \/ \E p \in B : \E i \in DOMAIN h[p].refs : h[p].refs[i] = o
               \/ \E d \in E : o \in W(d)
    <3>1. PICK d \in DOMAIN st : o \in Uses(st[d])
      BY <2>2, UsedByFacts
    <3>2. \/ \E e \in DOMAIN st : IsEvaluation(st[e]) /\ o = st[e].lazy
          \/ o \in Range(st[d].own)
          \/ \E p \in UsedBy(st) : p # Const /\ \E i \in DOMAIN h[p].refs : h[p].refs[i] = o
      BY <2>2, <3>1, Support DEF hand
    <3>3. ASSUME NEW e \in DOMAIN st, IsEvaluation(st[e]), o = st[e].lazy
          PROVE  o \in W(e) /\ e \in E
      BY <1>4, <3>3 DEF Aside
    <3>4. ASSUME o \in Range(st[d].own)
          PROVE  S[o] > 0
      <4>1. PICK i \in DOMAIN Owns(st)[d] : Owns(st)[d][i] = o
        BY <3>4 DEF Range, Owns
      <4>2. /\ FiniteFamily(Owns(st)) /\ d \in DOMAIN Owns(st) /\ Among(Owns(st), o) \in Nat
            /\ Occurs(keep, o) \in Nat
        BY <1>1, OwnsFacts
      <4>3. Among(Owns(st), o) # 0
        BY <4>1, <4>2, AmongNat
      <4> QED
        BY <1>5, <4>2, <4>3 DEF Owned
    <3> QED
      BY <3>2, <3>3, <3>4
  <2> QED
    BY <2>1, <2>2
<1>7. \A o \in B : o \notin Deleted(h, os)
  <2> HIDE DEF B, S
  <2> QED
    BY <1>1, <1>3, <1>5, <1>6, Protected
<1>8. /\ g \in Seq(ObjectType(Len(h))) /\ Len(g) = Len(h) /\ DOMAIN g = DOMAIN h
      /\ \A o \in DOMAIN h \ Deleted(h, os) : SameParts(h, g, o)
      /\ \A o \in Deleted(h, os) : o \in DOMAIN h /\ Dead(g, o) /\ g[o].refs = <<>>
  <2> HIDE DEF S
  <2> QED
    BY <1>1, <1>3, ReleaseTyped
<1>9. /\ Counts(g, S)
      /\ \A o \in DOMAIN h : Dead(h, o) => Dead(g, o)
      /\ \A o \in DOMAIN h : ~Dead(g, o) /\ h[o].rc > 0 => g[o].rc > 0
  <2> HIDE DEF S
  <2> QED
    BY <1>1, <1>3, ReleaseCounts
<1> HIDE DEF g
<1>10. Alive(g, st)
  <2>1. ASSUME NEW o \in DOMAIN h, Dead(g, o)
        PROVE  o \notin UsedBy(st)
    <3>1. CASE o \in Deleted(h, os)
      BY <1>1, <1>7, <3>1, HeapFacts
    <3>2. CASE o \notin Deleted(h, os)
      BY <1>8, <2>1, <3>2 DEF Good, Alive, Dead, SameParts
    <3> QED
      BY <3>1, <3>2
  <2>2. ASSUME NEW o \in DOMAIN h, ~Dead(g, o)
        PROVE  g[o].rc > 0 \/ o \in Afloat(st)
    BY <1>9, <2>2 DEF Good, Alive
  <2> QED
    BY <1>8, <2>1, <2>2 DEF Alive
<1>11. Counts(g, Owned(g, st, keep))
  <2> Owned(g, st, keep) = S
    BY <1>8 DEF Owned
  <2> QED
    BY <1>9
<1>12. \A d \in DOMAIN st : FrameOK(g, st, d)
  <2>1. SameOn(h, g, UsedBy(st))
    BY <1>5, <1>7, <1>8 DEF SameOn
  <2> QED
    BY <1>1, <2>1, StackKept DEF Good
<1>13. Acyclic(g) /\ Apart(g, st, Range(keep))
  <2>1. \A o \in DOMAIN h : Range(g[o].refs) \subseteq Range(h[o].refs)
    BY <1>8 DEF SameParts, Range
  <2>2. Apart(g, st, Range(hand)) /\ Acyclic(g)
    BY <1>8, <2>1, UpwardKept DEF Good, hand
  <2> QED
    BY <1>2, <2>2 DEF Apart, Aside
<1>14. ASSUME NEW o \in DOMAIN g
       PROVE  ObjectOK(g, st, o)
  <2>1. CASE o \in Deleted(h, os)
    BY <1>8, <2>1, HeapFacts DEF Dead, ObjectOK
  <2>2. CASE o \notin Deleted(h, os)
    <3>1. ObjectOK(h, st, o) /\ SameParts(h, g, o)
      BY <1>8, <2>2 DEF Good
    <3>2. ASSUME g[o].refs # <<>>, Len(g[o].refs) = 1
          PROVE  KindIn(g, g[o].refs[1]) = KindIn(h, h[o].refs[1])
      <4> DEFINE v == g[o].refs[1]
      <4>1. v \in 0 .. Len(h) /\ v = h[o].refs[1] /\ 1 \in DOMAIN g[o].refs
        <5>1. g[o].refs \in Seq(0 .. Len(h))
          BY <1>8, HeapFacts
        <5>2. 1 \in DOMAIN g[o].refs
          BY <3>2, <5>1
        <5> QED
          BY <3>1, <5>1, <5>2, ElementOfSeq DEF SameParts
      <4>2. CASE v = Const
        BY <4>1, <4>2 DEF KindIn
      <4>3. CASE v # Const
        <5>1. v \in DOMAIN g
          BY <1>1, <1>8, <4>1, <4>3 DEF Const
        <5>2. Among(Refs(g), v) # 0
          BY <1>8, <4>1, AmongRefsNat, HeapFacts
        <5>3. ~Dead(g, v)
          BY <1>9, <5>1, <5>2 DEF Counts
        <5>4. SameParts(h, g, v)
          BY <1>8, <5>1, <5>3
        <5> QED
          BY <4>1, <5>4 DEF KindIn, SameParts
      <4> QED
        BY <4>2, <4>3
    <3> QED
      BY <3>1, <3>2 DEF ObjectOK, SameParts
  <2> QED
    BY <2>1, <2>2
<1>15. Good(g, st, keep)
  BY <1>1, <1>8, <1>10, <1>11, <1>12, <1>13, <1>14 DEF Good, Typed
<1> QED
  BY <1>7, <1>8, <1>15 DEF g

\* G is F but for its member at p, which has y less of o than x of it more.
Edited(F, G, p, o, x, y) ==
    /\ FiniteFamily(F) /\ FiniteFamily(G) /\ p \in DOMAIN F /\ DOMAIN G = DOMAIN F
    /\ \A q \in DOMAIN F \ {p} : G[q] = F[q]
    /\ x \in Nat /\ y \in Nat /\ Occurs(G[p], o) + y = Occurs(F[p], o) + x

\* One sequence of a family is written.
LEMMA FamilyEdit ==
    ASSUME NEW F, NEW G, NEW p, NEW o, NEW x, NEW y, Edited(F, G, p, o, x, y)
    PROVE  Among(G, o) + y = Among(F, o) + x
<1>1. Among(F, o) \in Nat /\ Among(G, o) \in Nat
  BY AmongNat DEF Edited
<1>2. Occurs(F[p], o) \in Nat /\ Occurs(G[p], o) \in Nat
  BY OccursNat DEF Edited, FiniteFamily
<1>3. Among(G, o) = Among(F, o) - Occurs(F[p], o) + Occurs(G[p], o)
  BY AmongEdit DEF Edited
<1> QED
  BY <1>1, <1>2, <1>3 DEF Edited

\* tt is st but for its frame at n.
EditedAt(st, tt, n) ==
    n \in DOMAIN st /\ DOMAIN tt = DOMAIN st /\ \A d \in DOMAIN st \ {n} : tt[d] = st[d]
Moved(m, st, tt, n, hand, now, o) ==
    /\ m \in Nat /\ st \in Seq(FrameType(m)) /\ tt \in Seq(FrameType(m)) /\ EditedAt(st, tt, n)
    /\ hand \in Seq(0 .. m) /\ now \in Seq(0 .. m)
    /\ Occurs(tt[n].own, o) + Occurs(now, o) = Occurs(st[n].own, o) + Occurs(hand, o)

\* What a frame owns is written.
LEMMA OwnsEdit ==
    ASSUME NEW m, NEW st, NEW tt, NEW n, NEW hand, NEW now, NEW o, Moved(m, st, tt, n, hand, now, o)
    PROVE  Among(Owns(tt), o) + Occurs(now, o) = Among(Owns(st), o) + Occurs(hand, o)
<1> DEFINE F == Owns(st)
           G == Owns(tt)
<1>1. FiniteFamily(F) /\ DOMAIN F = DOMAIN st /\ \A d \in DOMAIN st : F[d] = st[d].own
  BY OwnsFacts DEF Moved
<1>2. FiniteFamily(G) /\ DOMAIN G = DOMAIN st /\ \A d \in DOMAIN st : G[d] = tt[d].own
  BY OwnsFacts DEF Moved, EditedAt
<1>3. Occurs(hand, o) \in Nat /\ Occurs(now, o) \in Nat
  BY OwnsFacts DEF Moved
<1> HIDE DEF F, G
<1>4. \A d \in DOMAIN F \ {n} : G[d] = F[d]
  BY <1>1, <1>2 DEF Moved, EditedAt
<1>5. Occurs(G[n], o) + Occurs(now, o) = Occurs(F[n], o) + Occurs(hand, o)
  BY <1>1, <1>2, Zenon DEF Moved, EditedAt
<1>6. Edited(F, G, n, o, Occurs(hand, o), Occurs(now, o))
  <2>1. n \in DOMAIN F /\ DOMAIN G = DOMAIN F
    BY <1>1, <1>2 DEF Moved, EditedAt
  <2> QED
    BY <1>1, <1>2, <1>3, <1>4, <1>5, <2>1, Zenon DEF Edited
<1>7. Among(G, o) + Occurs(now, o) = Among(F, o) + Occurs(hand, o)
  BY <1>6, FamilyEdit
<1> QED
  BY <1>7 DEF F, G

\* A sequence without its last element
LEMMA FrontFacts ==
    ASSUME NEW S, NEW s \in Seq(S), s # <<>>
    PROVE  /\ Front(s) \in Seq(S) /\ Len(Front(s)) = Len(s) - 1 /\ Len(s) \in Nat \ {0}
           /\ Len(s) \in DOMAIN s /\ Last(s) = s[Len(s)] /\ Last(s) \in S
           /\ DOMAIN Front(s) = 1 .. Len(s) - 1 /\ DOMAIN s = 1 .. Len(s)
           /\ \A d \in DOMAIN Front(s) : d \in DOMAIN s /\ Front(s)[d] = s[d]
           /\ s = Append(Front(s), Last(s))
<1>1. Len(s) \in Nat \ {0} /\ DOMAIN s = 1 .. Len(s)
  BY EmptySeq
<1>2. /\ Front(s) \in Seq(S) /\ Len(Front(s)) = Len(s) - 1
      /\ DOMAIN Front(s) = 1 .. Len(s) - 1
      /\ \A d \in 1 .. Len(s) - 1 : d \in DOMAIN s /\ Front(s)[d] = s[d]
  BY <1>1 DEF Front
<1>3. Last(s) = s[Len(s)] /\ Last(s) \in S
  BY <1>1 DEF Last
<1> DEFINE t == Append(Front(s), Last(s))
           F == Front(s)
           x == Last(s)
           n == Len(s)
<1>5. /\ t \in Seq(S) /\ Len(t) = Len(s)
      /\ \A i \in 1 .. Len(s) - 1 : t[i] = s[i]
      /\ t[Len(s)] = s[Len(s)]
  <2>1. /\ F \in Seq(S) /\ x \in S /\ n \in Nat \ {0} /\ Len(F) = n - 1 /\ x = s[n]
        /\ \A i \in 1 .. n - 1 : F[i] = s[i]
    BY <1>1, <1>2, <1>3
  <2> HIDE DEF F, x, n
  <2>2. Append(F, x) \in Seq(S) /\ Len(Append(F, x)) = n
    BY <2>1
  <2>3. \A i \in 1 .. n - 1 : Append(F, x)[i] = s[i]
    BY <2>1
  <2>4. Append(F, x)[n] = s[n]
    BY <2>1
  <2> QED
    BY <2>2, <2>3, <2>4 DEF F, x, n
<1> HIDE DEF t, F, x
<1>6. \A i \in 1 .. Len(s) : t[i] = s[i]
  <2> TAKE i \in 1 .. Len(s)
  <2>1. i = Len(s) \/ i \in 1 .. Len(s) - 1
    <3> n \in Nat /\ i \in 1 .. n
      BY <1>1
    <3> HIDE DEF n
    <3> i = n \/ i \in 1 .. n - 1
      OBVIOUS
    <3> QED
      BY DEF n
  <2> QED
    BY <1>5, <2>1
<1>4. s = Append(Front(s), Last(s))
  BY <1>5, <1>6, SeqEqual DEF t
<1>7. Len(s) \in DOMAIN s
  BY <1>1
<1> QED
  BY <1>1, <1>2, <1>3, <1>4, <1>7, Zenon

\* The frame on top, f, changes to g: its load, what it owns and what is in
\* hand.
TopMoves(h, st, hand, f, g, now, tt) ==
    /\ Good(h, st, hand) /\ st # <<>> /\ f = Last(st)
    /\ g \in FrameType(Len(h)) /\ now \in Seq(0 .. Len(h)) /\ tt = [st EXCEPT ![Len(st)] = g]
    /\ g.lazy = f.lazy /\ g.fun = f.fun
    /\ IF IsEvaluation(f) THEN EvaluationOK(h, tt, Len(st)) ELSE LoadOK(h, g)
    /\ \A o \in DOMAIN h : Occurs(g.own, o) + Occurs(now, o) = Occurs(f.own, o) + Occurs(hand, o)
    /\ Apart(h, st, Range(now) \union Seen(g))
    /\ \A o \in Uses(g) : ~Dead(h, o)
    /\ f.load.at = "lazy" =>
          h[f.load.src].rc > 0 \/ (g.load.at = "lazy" /\ g.load.src = f.load.src)

\* The innermost frame is written: it takes what is in hand, or puts it
\* there.
LEMMA TopChanged ==
    ASSUME NEW h, NEW st, NEW hand, NEW f, NEW g, NEW now, NEW tt, TopMoves(h, st, hand, f, g, now, tt)
    PROVE  Good(h, tt, now) /\ Len(tt) = Len(st) /\ tt # <<>> /\ Last(tt) = g /\ Front(tt) = Front(st)
<1> SUFFICES ASSUME Good(h, st, hand), st # <<>>, f = Last(st),
                    g \in FrameType(Len(h)), now \in Seq(0 .. Len(h)), tt = [st EXCEPT ![Len(st)] = g],
                    g.lazy = f.lazy, g.fun = f.fun,
                    IF IsEvaluation(f) THEN EvaluationOK(h, tt, Len(st)) ELSE LoadOK(h, g),
                    \A o \in DOMAIN h : Occurs(g.own, o) + Occurs(now, o) = Occurs(f.own, o) + Occurs(hand, o),
                    Apart(h, st, Range(now) \union Seen(g)),
                    \A o \in Uses(g) : ~Dead(h, o),
                    f.load.at = "lazy" =>
                        h[f.load.src].rc > 0 \/ (g.load.at = "lazy" /\ g.load.src = f.load.src)
             PROVE  Good(h, tt, now) /\ Len(tt) = Len(st) /\ tt # <<>> /\ Last(tt) = g /\ Front(tt) = Front(st)
  BY DEF TopMoves
<1> DEFINE n == Len(st)
<1>1. /\ Len(h) \in Nat /\ h \in Seq(ObjectType(Len(h))) /\ st \in Seq(FrameType(Len(h)))
      /\ hand \in Seq(0 .. Len(h)) /\ DOMAIN st = 1 .. n /\ n \in Nat /\ n \in DOMAIN st /\ n > 0
      /\ f = st[n] /\ Countable(h)
  <2>1. /\ Len(h) \in Nat /\ h \in Seq(ObjectType(Len(h))) /\ st \in Seq(FrameType(Len(h)))
        /\ hand \in Seq(0 .. Len(h)) /\ DOMAIN st = 1 .. n /\ n \in Nat /\ Countable(h)
    BY TypedFacts DEF Good
  <2>2. n # 0
    BY <2>1, EmptySeq
  <2> QED
    BY <2>1, <2>2 DEF Last
<1>2. /\ tt \in Seq(FrameType(Len(h))) /\ Len(tt) = n /\ DOMAIN tt = DOMAIN st /\ tt[n] = g
      /\ \A d \in DOMAIN st \ {n} : tt[d] = st[d]
  <2> HIDE DEF n
  <2> QED
    BY <1>1
<1>3. \A d \in DOMAIN st : tt[d].lazy = st[d].lazy /\ tt[d].fun = st[d].fun
                           /\ IsEvaluation(tt[d]) = IsEvaluation(st[d])
  BY <1>1, <1>2 DEF IsEvaluation
<1> HIDE DEF n
<1>4. ASSUME NEW d \in DOMAIN tt
      PROVE  FrameOK(h, tt, d)
  <2>1. FrameOK(h, st, d)
    BY <1>2 DEF Good
  <2>2. CASE d = n
    <3>1. CASE IsEvaluation(f)
      BY <1>1, <1>3, <2>2, <3>1 DEF FrameOK, n
    <3>2. CASE ~IsEvaluation(f)
      <4>1. CodeOK(h, st, d) /\ LoadOK(h, tt[d]) /\ ~IsEvaluation(tt[d])
        BY <1>1, <1>2, <1>3, <2>1, <2>2, <3>2 DEF FrameOK, n
      <4>2. d # 1 => d - 1 \in DOMAIN st \ {n}
        BY <1>1, <2>2
      <4> QED
        <5>1. ~(d < Len(tt)) /\ tt[d].fun = st[d].fun
          BY <1>1, <1>2, <1>3, <2>2 DEF n
        <5>2. IF d = 1 THEN tt[d].fun = Const
              ELSE IsEvaluation(tt[d - 1]) /\ tt[d - 1].own = <<>> /\ KindIn(h, tt[d].fun) = "fun"
          BY <1>2, <4>1, <4>2, <5>1 DEF CodeOK
        <5>3. CodeOK(h, tt, d)
          BY <4>1, <5>1, <5>2 DEF CodeOK
        <5> QED
          BY <4>1, <5>3 DEF FrameOK
    <3> QED
      BY <3>1, <3>2
  <2>3. CASE d # n
    <3>1. tt[d] = st[d] /\ d \in 1 .. n - 1 /\ Len(tt) = Len(st) /\ d + 1 \in DOMAIN st
      BY <1>1, <1>2, <2>3 DEF n
    <3>2. d # 1 => d - 1 \in DOMAIN st \ {n}
      BY <1>1, <3>1
    <3>3. CASE IsEvaluation(st[d])
      <4>1. EvaluationOK(h, st, d)
        BY <2>1, <3>3 DEF FrameOK
      <4>2. tt[d - 1] = st[d - 1]
        BY <1>2, <3>2, <4>1 DEF EvaluationOK
      <4> QED
        BY <1>3, <3>1, <3>3, <4>1, <4>2 DEF FrameOK, EvaluationOK
    <3>4. CASE ~IsEvaluation(st[d])
      <4>1. CodeOK(h, st, d)
        BY <2>1, <3>4 DEF FrameOK
      <4>2. d # 1 => tt[d - 1] = st[d - 1]
        BY <1>2, <3>2
      <4> QED
        BY <1>3, <3>1, <3>4, <4>1, <4>2 DEF FrameOK, CodeOK
    <3> QED
      BY <3>3, <3>4
  <2> QED
    BY <2>2, <2>3
<1>5. EvaluatedIn(tt) = EvaluatedIn(st)
  BY <1>2, <1>3 DEF EvaluatedIn
<1>6. \A o \in DOMAIN h : ObjectOK(h, tt, o)
  BY <1>5 DEF Good, ObjectOK
<1>7. Distinct(tt)
  BY <1>2, <1>3 DEF Good, Distinct
<1>8. Apart(h, tt, Range(now))
  <2> SUFFICES ASSUME NEW d \in DOMAIN tt, IsEvaluation(tt[d])
               PROVE  \E U : Aside(h, tt, Range(now), d, U)
    BY DEF Apart
  <2>1. PICK U : Aside(h, st, Range(now) \union Seen(g), d, U)
    BY <1>2, <1>3 DEF Apart
  <2>2. \A e \in d .. Len(tt) : Seen(tt[e]) \intersect U = {}
    <3> TAKE e \in d .. Len(tt)
    <3>1. e \in DOMAIN st /\ Seen(st[e]) \intersect U = {} /\ Seen(g) \intersect U = {}
      BY <1>1, <1>2, <2>1 DEF Aside, n
    <3> QED
      BY <1>2, <3>1
  <2> QED
    BY <1>2, <1>3, <2>1, <2>2 DEF Aside
<1>9. Counts(h, Owned(h, tt, now))
  <2>1. \A o \in DOMAIN h :
           Among(Owns(tt), o) + Occurs(now, o) = Among(Owns(st), o) + Occurs(hand, o)
    <3>1. \A o \in DOMAIN h :
             Occurs(tt[n].own, o) + Occurs(now, o) = Occurs(st[n].own, o) + Occurs(hand, o)
      BY <1>1, <1>2
    <3> TAKE o \in DOMAIN h
    <3>2. Occurs(tt[n].own, o) + Occurs(now, o) = Occurs(st[n].own, o) + Occurs(hand, o)
      BY <3>1
    <3>3. n \in DOMAIN st /\ Len(h) \in Nat /\ st \in Seq(FrameType(Len(h)))
          /\ tt \in Seq(FrameType(Len(h))) /\ hand \in Seq(0 .. Len(h))
      BY <1>1, <1>2
    <3>4. EditedAt(st, tt, n)
      BY <1>2, <3>3, Zenon DEF EditedAt
    <3>5. Moved(Len(h), st, tt, n, hand, now, o)
      BY <3>2, <3>3, <3>4, Zenon DEF Moved
    <3> QED
      BY <3>5, OwnsEdit
  <2>2. Owned(h, tt, now) = Owned(h, st, hand)
    BY <2>1 DEF Owned
  <2> QED
    BY <2>2 DEF Good
<1>10. Alive(h, tt)
  <2>1. ASSUME NEW o \in DOMAIN h, Dead(h, o), o \in UsedBy(tt)
        PROVE  FALSE
    <3>1. PICK d \in DOMAIN tt : o \in Uses(tt[d])
      BY <2>1, UsedByFacts
    <3>2. d # n
      BY <1>2, <2>1, <3>1
    <3>3. o \in UsedBy(st)
      BY <1>2, <3>1, <3>2, UsedByFacts
    <3> QED
      BY <2>1, <3>3 DEF Good, Alive
  <2>2. ASSUME NEW o \in DOMAIN h, ~Dead(h, o)
        PROVE  h[o].rc > 0 \/ o \in Afloat(tt)
    <3>1. h[o].rc > 0 \/ o \in Afloat(st)
      BY <2>2 DEF Good, Alive
    <3>2. ASSUME NEW d \in DOMAIN st, st[d].load.at = "lazy", o = st[d].load.src
          PROVE  h[o].rc > 0 \/ o \in Afloat(tt)
      <4>1. CASE d = n
        BY <1>1, <1>2, <3>2, <4>1 DEF Afloat
      <4>2. CASE d # n
        <5>1. tt[d] = st[d] /\ d \in DOMAIN tt
          BY <1>2, <4>2
        <5> QED
          BY <3>2, <5>1 DEF Afloat
      <4> QED
        BY <4>1, <4>2
    <3> QED
      BY <3>1, <3>2 DEF Afloat
  <2> QED
    BY <2>1, <2>2 DEF Alive
<1>11. Good(h, tt, now)
  BY <1>1, <1>2, <1>4, <1>6, <1>7, <1>8, <1>9, <1>10 DEF Good, Typed
<1>12. tt # <<>> /\ Last(tt) = g
  BY <1>1, <1>2 DEF Last
<1>13. Front(tt) = Front(st)
  <2> DEFINE S == FrameType(Len(h))
  <2>1. tt \in Seq(S) /\ tt # <<>> /\ Len(tt) = n /\ st \in Seq(S) /\ Len(st) = n
    BY <1>1, <1>2, <1>12 DEF n
  <2> HIDE DEF S
  <2>2. ASSUME NEW s \in Seq(S), s # <<>>, Len(s) = n
        PROVE  /\ Front(s) \in Seq(S) /\ Len(Front(s)) = n - 1
               /\ \A d \in 1 .. n - 1 : Front(s)[d] = s[d]
    <3>1. /\ Front(s) \in Seq(S) /\ Len(Front(s)) = Len(s) - 1 /\ DOMAIN Front(s) = 1 .. Len(s) - 1
          /\ \A d \in DOMAIN Front(s) : Front(s)[d] = s[d]
      BY <2>2, FrontFacts
    <3> QED
      BY <2>2, <3>1
  <2>3. /\ Front(tt) \in Seq(S) /\ Len(Front(tt)) = n - 1
        /\ \A d \in 1 .. n - 1 : Front(tt)[d] = tt[d]
    BY <2>1, <2>2
  <2>4. /\ Front(st) \in Seq(S) /\ Len(Front(st)) = n - 1
        /\ \A d \in 1 .. n - 1 : Front(st)[d] = st[d]
    BY <2>1, <2>2
  <2>5. \A d \in 1 .. n - 1 : Front(tt)[d] = Front(st)[d]
    <3>1. \A d \in 1 .. n - 1 : d \in DOMAIN st \ {n}
      BY <1>1
    <3> QED
      BY <1>2, <2>3, <2>4, <3>1
  <2> QED
    BY <2>3, <2>4, <2>5, SeqEqual
<1> QED
  BY <1>2, <1>11, <1>12, <1>13 DEF n

\* One more frame
LEMMA OwnsPush ==
    ASSUME NEW m \in Nat, NEW st \in Seq(FrameType(m)), NEW f \in FrameType(m), NEW o
    PROVE  /\ Among(Owns(Append(st, f)), o) = Among(Owns(st), o) + Occurs(f.own, o)
           /\ Among(Owns(st), o) \in Nat /\ Occurs(f.own, o) \in Nat
<1> DEFINE tt == Append(st, f)
           n == Len(st) + 1
           F == Owns(st)
           G == Owns(tt)
<1>1. tt \in Seq(FrameType(m)) /\ Len(tt) = n /\ tt[n] = f /\ \A d \in DOMAIN st : tt[d] = st[d]
  OBVIOUS
<1>2. DOMAIN st = 1 .. Len(st) /\ DOMAIN tt = 1 .. n /\ Len(st) \in Nat
  BY <1>1, SeqDomains
<1> HIDE DEF tt
<1>0. <<>> \in Seq(0 .. m)
  OBVIOUS
<1>3. FiniteFamily(F) /\ DOMAIN F = DOMAIN st /\ \A d \in DOMAIN st : F[d] = st[d].own
  BY <1>0, OwnsFacts
<1>4. FiniteFamily(G) /\ DOMAIN G = DOMAIN tt /\ \A d \in DOMAIN tt : G[d] = tt[d].own
  BY <1>0, <1>1, OwnsFacts
<1>5. F = Part(F, DOMAIN F)
  BY <1>3 DEF Part, Owns
<1>6. Among(F, o) \in Nat
  BY <1>3, AmongNat
<1> HIDE DEF F, G
<1>7. n \notin DOMAIN F /\ DOMAIN G = DOMAIN F \union {n} /\ \A q \in DOMAIN F : G[q] = F[q]
  BY <1>1, <1>2, <1>3, <1>4
<1>8. Among(G, o) = Among(F, o) + Occurs(G[n], o)
  BY <1>3, <1>4, <1>5, <1>7, AmongMore
<1>9. G[n] = f.own /\ IsFiniteSet(DOMAIN f.own)
  BY <1>1, <1>2, <1>4 DEF FiniteFamily
<1>10. Occurs(f.own, o) \in Nat
  BY <1>9, OccursNat
<1> QED
  BY <1>6, <1>8, <1>9, <1>10 DEF F, G, tt

\* What is referred to is there.
LEMMA Live ==
    ASSUME NEW h, NEW st, NEW hand, Good(h, st, hand)
    PROVE  /\ \A d \in DOMAIN st : \A o \in Range(st[d].own) : ~Dead(h, o)
           /\ \A o \in Range(hand) : ~Dead(h, o)
           /\ \A p \in DOMAIN h : \A o \in Range(h[p].refs) : ~Dead(h, o)
           /\ \A o \in UsedBy(st) : ~Dead(h, o)
<1>1. /\ Len(h) \in Nat /\ st \in Seq(FrameType(Len(h))) /\ hand \in Seq(0 .. Len(h)) /\ DOMAIN h = 1 .. Len(h)
      /\ Countable(h) /\ Typed(h, st, hand)
  BY TypedFacts DEF Good
<1>2. /\ FiniteFamily(Owns(st)) /\ DOMAIN Owns(st) = DOMAIN st
      /\ \A d \in DOMAIN st : Owns(st)[d] = st[d].own
      /\ \A o : Among(Owns(st), o) \in Nat /\ Occurs(hand, o) \in Nat
      /\ IsFiniteSet(DOMAIN hand)
  BY <1>1, OwnsFacts
<1>3. ASSUME NEW o \in DOMAIN h, Dead(h, o)
      PROVE  Among(Owns(st), o) = 0 /\ Occurs(hand, o) = 0 /\ Among(Refs(h), o) = 0
  <2>1. Owned(h, st, hand)[o] = 0 /\ Among(Refs(h), o) = 0
    BY <1>3 DEF Good, Counts
  <2>2. Among(Owns(st), o) + Occurs(hand, o) = 0
    BY <2>1 DEF Owned
  <2>3. Among(Owns(st), o) \in Nat /\ Occurs(hand, o) \in Nat
    BY <1>2
  <2>4. \A a, b \in Nat : a + b = 0 => a = 0 /\ b = 0
    OBVIOUS
  <2> QED
    BY <2>1, <2>2, <2>3, <2>4
<1>4. ASSUME NEW d \in DOMAIN st, NEW o \in Range(st[d].own)
      PROVE  ~Dead(h, o)
  <2>1. o = Const \/ o \in DOMAIN h
    BY <1>1, UsedTyped DEF Seen
  <2>2. o \in DOMAIN h => ~Dead(h, o)
    BY <1>2, <1>3, AmongNat DEF Range
  <2> QED
    BY <2>1, <2>2 DEF Dead
<1>5. ASSUME NEW o \in Range(hand)
      PROVE  ~Dead(h, o)
  <2>1. o = Const \/ o \in DOMAIN h
    BY <1>1, SeqDomains, ElementOfSeq DEF Range, Const
  <2>2. o \in DOMAIN h => ~Dead(h, o)
    <3>1. Occurs(hand, o) # 0
      BY <1>2, OccursNat DEF Range
    <3> QED
      BY <1>3, <3>1
  <2> QED
    BY <2>1, <2>2 DEF Dead
<1>6. ASSUME NEW p \in DOMAIN h, NEW o \in Range(h[p].refs)
      PROVE  ~Dead(h, o)
  <2>1. o \in 0 .. Len(h)
    BY <1>1, HeapFacts DEF Range, Typed
  <2>2. o \in DOMAIN h => ~Dead(h, o)
    BY <1>1, <1>3, AmongRefsNat DEF Range
  <2> QED
    BY <1>1, <2>1, <2>2 DEF Dead, Const
<1>7. \A o \in UsedBy(st) : ~Dead(h, o)
  <2>1. \A o \in UsedBy(st) : o = Const \/ o \in DOMAIN h
    BY <1>1, UsedTyped
  <2> QED
    BY <2>1 DEF Good, Alive, Dead
<1> QED
  BY <1>4, <1>5, <1>6, <1>7

\* A reference to vv is put into p, which is in W, that vv does not reach.
Rewired(h, g, p, vv, W) ==
    /\ p \in DOMAIN h /\ W \in SUBSET DOMAIN h /\ DOMAIN g = DOMAIN h
    /\ \A o \in DOMAIN h \ {p} : g[o].refs = h[o].refs
    /\ Range(g[p].refs) \subseteq Range(h[p].refs) \union {vv}
    /\ Upward(h, W) /\ p \in W /\ vv \notin W

\* An object that refers to something it was not reachable from: still no
\* circle.
LEMMA AcyclicEdit ==
    ASSUME NEW h, NEW g, NEW p, NEW vv, NEW W, Rewired(h, g, p, vv, W), Acyclic(h)
    PROVE  Acyclic(g)
<1> USE DEF Rewired
<1> SUFFICES ASSUME NEW o \in DOMAIN h
             PROVE  \E U : Above(g, o, U)
  BY DEF Acyclic
<1> DEFINE Clear(k, q, U) == Range(k[q].refs) \intersect U = {}
<1>1. \A k, U : Upward(k, U) <=> \A q \in DOMAIN k \ U : Clear(k, q, U)
  BY DEF Upward, Range
<1>2. \A q \in DOMAIN h \ {p} : \A U : Clear(g, q, U) <=> Clear(h, q, U)
  OBVIOUS
<1>3. \A U : Clear(h, p, U) /\ vv \notin U => Clear(g, p, U)
  OBVIOUS
<1>4. PICK U : U \in SUBSET DOMAIN h /\ o \in U /\ Upward(h, U) /\ Clear(h, o, U)
  BY DEF Acyclic, Above
<1>5. \A q \in DOMAIN h \ U : Clear(h, q, U)
  BY <1>1, <1>4, Zenon
<1>6. \A q \in DOMAIN h \ W : Clear(h, q, W)
  BY <1>1, Zenon
<1>9. \A q, A, B : /\ Clear(h, q, A) \/ Clear(h, q, B) => Clear(h, q, A \intersect B)
                   /\ Clear(h, q, A) /\ Clear(h, q, B) => Clear(h, q, A \union B)
  OBVIOUS
<1> SUFFICES \E V \in SUBSET DOMAIN h : /\ o \in V /\ Clear(g, o, V)
                                        /\ \A q \in DOMAIN h \ V : Clear(g, q, V)
  BY <1>1 DEF Above
<1> HIDE DEF Clear
<1>7. CASE vv \notin U
  <2>1. \A q \in DOMAIN h : Clear(h, q, U) => Clear(g, q, U)
    BY <1>2, <1>3, <1>7
  <2> QED
    BY <1>4, <1>5, <2>1
<1>8. CASE o \in W
  <2> DEFINE V == U \intersect W
  <2>1. V \in SUBSET DOMAIN h /\ o \in V /\ vv \notin V
    BY <1>4, <1>8
  <2>2. \A q \in DOMAIN h : Clear(h, q, V) => Clear(g, q, V)
    BY <1>2, <1>3, <2>1
  <2>3. \A q \in DOMAIN h \ V : Clear(h, q, U) \/ Clear(h, q, W)
    BY <1>5, <1>6
  <2>4. \A q \in DOMAIN h \ V : Clear(h, q, V)
    BY <1>9, <2>3
  <2>5. Clear(h, o, V)
    BY <1>4, <1>9
  <2> HIDE DEF V
  <2> QED
    BY <2>1, <2>2, <2>4, <2>5
<1>10. CASE o \notin W
  <2> DEFINE V == U \union W
  <2>1. V \in SUBSET DOMAIN h /\ o \in V /\ p \in V /\ o # p
    BY <1>4, <1>10
  <2>2. \A q \in DOMAIN h \ {p} : Clear(h, q, V) => Clear(g, q, V)
    BY <1>2
  <2>3. \A q \in DOMAIN h \ V : Clear(h, q, V)
    BY <1>5, <1>6, <1>9
  <2>4. Clear(h, o, V)
    BY <1>4, <1>6, <1>9, <1>10
  <2> HIDE DEF V
  <2> QED
    BY <2>1, <2>2, <2>3, <2>4
<1> QED
  BY <1>8, <1>10

\* A new object takes what is in hand.
LEMMA Made ==
    ASSUME NEW h, NEW st, NEW hand, Good(h, st, hand), NEW x \in ObjectType(Len(h)),
           x.rc = 1, x.refs = hand, x.kind # "freed",
           x.kind = "rec" => x.shape \in Shapes /\ Len(hand) = Cardinality(x.shape),
           x.kind = "lazy" => ~x.ready /\ Len(hand) = 1 /\ KindIn(h, hand[1]) = "fun"
    PROVE  Good(Append(h, x), st, <<Len(h) + 1>>)
<1> DEFINE n == Len(h)
           new == n + 1
           g == Append(h, x)
<1>1. /\ n \in Nat /\ h \in Seq(ObjectType(n)) /\ st \in Seq(FrameType(n)) /\ hand \in Seq(0 .. n)
      /\ DOMAIN h = 1 .. n /\ DOMAIN st = 1 .. Len(st) /\ Len(st) \in Nat /\ Countable(h)
      /\ IsFiniteSet(DOMAIN hand) /\ DOMAIN hand = 1 .. Len(hand) /\ Len(hand) \in Nat
      /\ Typed(h, st, hand)
  BY TypedFacts DEF Good
<1>2. Len(g) = new /\ DOMAIN g = 1 .. new /\ g[new] = x /\ \A o \in DOMAIN h : g[o] = h[o]
  BY <1>1
<1>3. /\ DOMAIN g = DOMAIN h \union {new} /\ new \notin DOMAIN h /\ new \in Nat /\ new # Const
      /\ \A o \in 0 .. n : o # new
  BY <1>1, <1>2 DEF Const
<1>4. /\ g \in Seq(ObjectType(new)) /\ st \in Seq(FrameType(new)) /\ <<new>> \in Seq(0 .. new)
      /\ g[new] \in ObjectType(new)
  <2>1. Seq(0 .. n) \subseteq Seq(0 .. new) /\ 0 .. n \subseteq 0 .. new
    BY <1>1
  <2>2. ObjectType(n) \subseteq ObjectType(new) /\ LoadType(n) \subseteq LoadType(new)
    BY <2>1 DEF ObjectType, LoadType
  <2>3. FrameType(n) \subseteq FrameType(new)
    BY <2>1, <2>2 DEF FrameType
  <2> HIDE DEF n
  <2>4. h \in Seq(ObjectType(new)) /\ st \in Seq(FrameType(new)) /\ x \in ObjectType(new)
    BY <1>1, <2>2, <2>3, SeqMonotonic DEF n
  <2> QED
    BY <1>1, <1>2, <2>4
<1>15. \A o \in 0 .. n : o = Const \/ o \in DOMAIN h
  BY <1>1 DEF Const
<1>16. \A q \in DOMAIN h : \A i \in DOMAIN h[q].refs : h[q].refs[i] \in 0 .. n
  BY <1>1, HeapFacts
<1>17. \A q \in DOMAIN h : Len(h[q].refs) = 1 => h[q].refs[1] \in 0 .. n
  <2>1. \A q \in DOMAIN h : DOMAIN h[q].refs = 1 .. Len(h[q].refs)
    BY <1>1, HeapFacts
  <2> QED
    BY <1>16, <2>1
<1> HIDE DEF g, n, new
<1>5. \A i \in DOMAIN hand : hand[i] \in 0 .. n
  BY <1>1, ElementOfSeq
<1>6. \A o \in 0 .. n : KindIn(g, o) = KindIn(h, o) /\ (Dead(g, o) <=> Dead(h, o))
  BY <1>2, <1>15 DEF KindIn, Dead
<1>7. ASSUME NEW o \in DOMAIN g
      PROVE  ObjectOK(g, st, o)
  <2>1. CASE o = new
    <3>1. g[o] = x /\ x.refs = hand
      BY <1>2, <2>1
    <3>2. x.kind = "lazy" => KindIn(g, hand[1]) = "fun" /\ hand # <<>>
      BY <1>1, <1>5, <1>6
    <3> QED
      BY <3>1, <3>2 DEF ObjectOK
  <2>2. CASE o # new
    <3>1. o \in DOMAIN h /\ g[o] = h[o] /\ ObjectOK(h, st, o)
      BY <1>2, <1>3, <2>2 DEF Good
    <3>2. Len(h[o].refs) = 1 => KindIn(g, h[o].refs[1]) = KindIn(h, h[o].refs[1])
      BY <1>6, <1>17, <3>1
    <3> QED
      BY <3>1, <3>2 DEF ObjectOK
  <2> QED
    BY <2>1, <2>2
<1>8. \A d \in DOMAIN st : FrameOK(g, st, d)
  <2>1. SameOn(h, g, UsedBy(st))
    BY <1>1, <1>2, UsedTyped DEF SameOn, SameParts
  <2> QED
    BY <1>1, <2>1, StackKept DEF Good
<1>9. \A U : U \in SUBSET DOMAIN h /\ Upward(h, U) /\ Range(hand) \intersect U = {} => Upward(g, U)
  <2> TAKE U
  <2> HAVE U \in SUBSET DOMAIN h /\ Upward(h, U) /\ Range(hand) \intersect U = {}
  <2> SUFFICES ASSUME NEW q \in DOMAIN g \ U, NEW i \in DOMAIN g[q].refs
               PROVE  g[q].refs[i] \notin U
    BY DEF Upward
  <2>1. CASE q = new
    BY <1>2, <2>1 DEF Range
  <2>2. CASE q # new
    BY <1>2, <1>3, <2>2 DEF Upward
  <2> QED
    BY <2>1, <2>2
<1>10. Apart(g, st, Range(<<new>>))
  <2> SUFFICES ASSUME NEW d \in DOMAIN st, IsEvaluation(st[d])
               PROVE  \E U : Aside(g, st, Range(<<new>>), d, U)
    BY DEF Apart
  <2>1. PICK U : Aside(h, st, Range(hand), d, U)
    BY DEF Good, Apart
  <2>2. U \in SUBSET DOMAIN g /\ Upward(g, U) /\ Range(<<new>>) \intersect U = {}
    BY <1>3, <1>9, <2>1 DEF Aside, Range
  <2> QED
    BY <2>1, <2>2 DEF Aside
<1>11. Acyclic(g)
  <2> SUFFICES ASSUME NEW o \in DOMAIN g
               PROVE  \E U : Above(g, o, U)
    BY DEF Acyclic
  <2>1. CASE o = new
    <3>1. Upward(g, {new})
      BY <1>2, <1>3, <1>16 DEF Upward
    <3>2. Range(g[new].refs) \intersect {new} = {}
      BY <1>2, <1>3, <1>5 DEF Range
    <3> QED
      BY <2>1, <3>1, <3>2 DEF Above
  <2>2. CASE o # new
    <3>1. o \in DOMAIN h
      BY <1>3, <2>2
    <3>2. PICK U : Above(h, o, U)
      BY <3>1 DEF Good, Acyclic
    <3> DEFINE V == U \union {new}
    <3>3. Upward(g, V)
      <4> SUFFICES ASSUME NEW q \in DOMAIN h \ U, NEW i \in DOMAIN h[q].refs
                   PROVE  h[q].refs[i] \notin V
        BY <1>2, <1>3 DEF Upward
      <4> QED
        BY <1>3, <1>16, <3>2 DEF Above, Upward
    <3>4. Range(g[o].refs) \intersect V = {}
      BY <1>2, <1>3, <1>16, <3>1, <3>2 DEF Above, Range
    <3>5. V \in SUBSET DOMAIN g /\ o \in V
      BY <1>3, <3>2 DEF Above
    <3> QED
      BY <3>3, <3>4, <3>5 DEF Above
  <2> QED
    BY <2>1, <2>2
<1>12. Counts(g, Owned(g, st, <<new>>))
  <2> DEFINE S == Owned(h, st, hand)
             T == Owned(g, st, <<new>>)
  <2>1. S \in [DOMAIN h -> Nat] /\ T \in [DOMAIN g -> Nat] /\ Counts(h, S) /\ Countable(g)
    BY <1>1, <1>2, <1>4, OwnsFacts, HeapFacts DEF Good
  <2>2. \A o : Among(Owns(st), o) \in Nat /\ Occurs(hand, o) \in Nat
    BY <1>1, OwnsFacts
  <2>3. Among(Owns(st), new) = 0
    <3>1. FiniteFamily(Owns(st)) /\ DOMAIN Owns(st) = DOMAIN st /\ \A d \in DOMAIN st : Owns(st)[d] = st[d].own
      BY <1>1, OwnsFacts
    <3>2. \A d \in DOMAIN st : \A i \in DOMAIN st[d].own : st[d].own[i] \in 0 .. n
      BY <1>1, FrameFacts, ElementOfSeq, SeqDomains
    <3> QED
      BY <1>3, <3>1, <3>2, AmongNat
  <2>4. T[new] = g[new].rc
    BY <1>2, <1>3, <2>3, OccursSingle DEF Owned
  <2>5. ASSUME NEW o \in DOMAIN h
        PROVE  /\ T[o] + Occurs(g[new].refs, o) = S[o]
               /\ Dead(h, o) => Occurs(g[new].refs, o) = 0
    <3>1. Occurs(<<new>>, o) = 0 /\ o \in DOMAIN g
      BY <1>3, OccursSingle
    <3>2. T[o] = Among(Owns(st), o)
      BY <2>2, <3>1 DEF Owned
    <3>3. S[o] = Among(Owns(st), o) + Occurs(hand, o)
      BY DEF Owned
    <3>4. Dead(h, o) => Occurs(hand, o) = 0
      BY <1>1, Live, OccursNat DEF Range
    <3> HIDE DEF S, T
    <3> QED
      BY <1>2, <2>2, <3>2, <3>3, <3>4
  <2>6. \A o \in DOMAIN g : Occurs(g[o].refs, new) = 0
    <3> TAKE o \in DOMAIN g
    <3>1. IsFiniteSet(DOMAIN g[o].refs)
      BY <2>1 DEF Countable
    <3>2. \A i \in DOMAIN g[o].refs : g[o].refs[i] # new
      <4>1. CASE o = new
        BY <1>2, <1>3, <1>5, <4>1
      <4>2. CASE o # new
        BY <1>2, <1>3, <1>16, <4>2
      <4> QED
        BY <4>1, <4>2
    <3> QED
      BY <3>1, <3>2, OccursNat
  <2> HIDE DEF S, T
  <2>7. HeapAppended(h, g, new, S, T)
    <3>1. g[new].kind # "freed"
      BY <1>2
    <3> QED
      <4>1. \A o \in DOMAIN h : /\ T[o] + Occurs(g[new].refs, o) = S[o]
                                /\ Dead(h, o) => Occurs(g[new].refs, o) = 0
        BY <2>5
      <4>2. Countable(h) /\ new \notin DOMAIN h /\ new # Const /\ DOMAIN g = DOMAIN h \union {new}
        BY <1>1, <1>3
      <4>3. \A o \in DOMAIN h : g[o] = h[o]
        BY <1>2
      <4> QED
        BY <2>1, <2>4, <2>6, <3>1, <4>1, <4>2, <4>3, Zenon DEF HeapAppended
  <2>8. Counts(g, T)
    BY <2>7, AppendCounts
  <2> QED
    BY <2>8 DEF T
<1>13. Alive(g, st)
  <2> SUFFICES ASSUME NEW o \in DOMAIN g
               PROVE  IF Dead(g, o) THEN o \notin UsedBy(st) ELSE g[o].rc > 0 \/ o \in Afloat(st)
    BY DEF Alive
  <2>1. CASE o = new
    BY <1>2, <2>1 DEF Dead
  <2>2. CASE o # new
    <3>1. o \in DOMAIN h /\ g[o] = h[o] /\ (Dead(g, o) <=> Dead(h, o))
      BY <1>1, <1>2, <1>3, <1>6, <2>2
    <3> QED
      BY <3>1 DEF Good, Alive
  <2> QED
    BY <2>1, <2>2
<1>14. Good(g, st, <<new>>)
  BY <1>2, <1>4, <1>7, <1>8, <1>10, <1>11, <1>12, <1>13 DEF Good, Typed
<1> QED
  BY <1>14 DEF g, new, n

-----------------------------------------------------------------------------
(* Objects that get other references *)

\* g is h but for the references of p, which is a record or a lazy value.
SameBut(h, g, p) ==
    /\ DOMAIN g = DOMAIN h /\ p \in DOMAIN h /\ h[p].kind \in {"rec", "lazy"}
    /\ \A o \in DOMAIN h : /\ g[o].kind = h[o].kind /\ g[o].shape = h[o].shape
                           /\ o # p => g[o].refs = h[o].refs /\ g[o].ready = h[o].ready

\* The reference of p at place i is not that of a load.
SamePlace(h, g, p, i) == h[p].kind = "rec" => g[p].refs[i] = h[p].refs[i]
SameGot(h, g, p, load) ==
    load.src = p => \A j \in DOMAIN load.got : SamePlace(h, g, p, PlaceOf(FieldIds[h[p].shape], load.want[j]))

\* Where one object refers to something else, a load that did not pass there
\* goes on,
LEMMA LoadEdited ==
    ASSUME NEW h, NEW g, NEW p, SameBut(h, g, p), Const \notin DOMAIN h,
           NEW f, \A o \in Uses(f) : o = Const \/ o \in DOMAIN h,
           LoadOK(h, f), f.fun = Const \/ KindIn(h, f.fun) = "fun", SameGot(h, g, p, f.load)
    PROVE  LoadOK(g, f)
<1>1. CASE f.load.at = "idle"
  BY <1>1 DEF LoadOK
<1>2. CASE f.load.at # "idle"
  <2>1. f.load.src # Const /\ f.load.src \in DOMAIN h
    BY <1>2 DEF LoadOK, Uses
  <2>2. g[f.load.src].kind = h[f.load.src].kind
    BY <2>1 DEF SameBut
  <2>3. CapturedIn(g, f) = CapturedIn(h, f)
    <3>1. f.fun # Const => f.fun \in DOMAIN h /\ f.fun # p
      BY DEF Uses, KindIn, SameBut
    <3> QED
      BY <3>1 DEF CapturedIn, SameBut
  <2>4. ASSUME h[f.load.src].kind = "rec", SearchOK(h, f.load)
        PROVE  SearchOK(g, f.load)
    <3> DEFINE o == h[f.load.src]
               q == g[f.load.src]
    <3>1. q.shape = o.shape
      BY <2>1 DEF SameBut
    <3>2. \A j \in DOMAIN f.load.got :
            q.refs[PlaceOf(FieldIds[o.shape], f.load.want[j])] = o.refs[PlaceOf(FieldIds[o.shape], f.load.want[j])]
      BY <2>1, <2>4 DEF SameBut, SameGot, SamePlace
    <3>3. \A j \in DOMAIN f.load.got : KindIn(g, f.load.got[j]) = KindIn(h, f.load.got[j])
      BY DEF KindIn, SameBut, Uses, Range
    <3>4. FoundIn(g, f.load) <=> FoundIn(h, f.load)
      BY <3>1 DEF FoundIn
    <3>5. \A j \in DOMAIN f.load.got :
             /\ f.load.want[j] \in o.shape
             /\ PlaceOf(FieldIds[o.shape], f.load.want[j]) < f.load.i
             /\ f.load.got[j] = q.refs[PlaceOf(FieldIds[o.shape], f.load.want[j])]
             /\ KindIn(g, f.load.got[j]) # "lazy"
      BY <2>4, <3>2, <3>3 DEF SearchOK
    <3>6. /\ f.load.at # "lazy" /\ Len(f.load.got) = f.load.k - 1 /\ f.load.k <= Len(f.load.want) + 1
          /\ f.load.at = "search" =>
              /\ f.load.want \in Wanted /\ f.load.k <= Len(f.load.want)
              /\ f.load.i \in 1 .. Len(FieldIds[o.shape]) + 1
              /\ \A k \in DOMAIN FieldIds[o.shape] :
                    FieldIds[o.shape][k] = f.load.want[f.load.k] => k >= f.load.i
          /\ f.load.at = "place" => Len(f.load.want) = 1 /\ f.load.k = 1 /\ FoundIn(h, f.load)
          /\ f.load.at = "failed" => ~(Range(f.load.want) \subseteq o.shape)
          /\ f.load.at = "loaded" => f.load.k = Len(f.load.want) + 1
      BY <2>4 DEF SearchOK
    <3> HIDE DEF o, q
    <3> QED
      BY <3>1, <3>4, <3>5, <3>6, Zenon DEF SearchOK, o, q
  <2> QED
    BY <1>2, <2>1, <2>2, <2>3, <2>4 DEF LoadOK
<1> QED
  BY <1>1, <1>2

\* and so does a frame that waits elsewhere.
LEMMA ExpectsEdited ==
    ASSUME NEW h, NEW g, NEW p, SameBut(h, g, p), Const \notin DOMAIN h,
           NEW f, IsEvaluation(f) \/ LoadOK(h, f), \A o \in Uses(f) : o = Const \/ o \in DOMAIN h,
           NEW l, Expects(h, f, l),
           f.load.at \in {"search", "place"} /\ f.load.src = p => SamePlace(h, g, p, f.load.i)
    PROVE  Expects(g, f, l)
<1>1. CASE IsEvaluation(f) \/ f.load.at = "lazy"
  BY <1>1, Zenon DEF Expects
<1>2. CASE ~IsEvaluation(f) /\ f.load.at # "lazy"
  <2>1. /\ f.load.at \in {"search", "place"} /\ h[f.load.src].kind = "rec"
        /\ FoundIn(h, f.load) /\ h[f.load.src].refs[f.load.i] = l
    BY <1>2 DEF Expects
  <2>2. f.load.src \in DOMAIN h
    BY <1>2, <2>1 DEF LoadOK, Uses
  <2>3. FoundIn(g, f.load)
    BY <2>1, <2>2 DEF FoundIn, SameBut
  <2>4. g[f.load.src].kind = "rec" /\ g[f.load.src].refs[f.load.i] = l
    BY <2>1, <2>2 DEF SameBut, SamePlace
  <2> QED
    BY <1>2, <2>1, <2>3, <2>4 DEF Expects
<1> QED
  BY <1>1, <1>2

\* A stack, where p is a record that is assigned, or a lazy value that is not
\* evaluated there.
LEMMA StackEdited ==
    ASSUME NEW h, NEW g, NEW p, SameBut(h, g, p), NEW st, Typed(h, st, <<>>),
           NEW d \in DOMAIN st, FrameOK(h, st, d), d > 1 => FrameOK(h, st, d - 1),
           IsEvaluation(st[d]) => st[d].lazy # p,
           SameGot(h, g, p, st[d].load),
           d > 1 /\ st[d - 1].load.at \in {"search", "place"} /\ st[d - 1].load.src = p =>
               SamePlace(h, g, p, st[d - 1].load.i)
    PROVE  FrameOK(g, st, d)
<1>1. /\ Const \notin DOMAIN h /\ DOMAIN st = 1 .. Len(st) /\ Len(st) \in Nat
      /\ \A e \in DOMAIN st : \A o \in Uses(st[e]) : o = Const \/ o \in DOMAIN h
  BY HeapFacts, TypedFacts, UsedTyped
<1>2. CASE IsEvaluation(st[d])
  <2>1. EvaluationOK(h, st, d)
    BY <1>2 DEF FrameOK
  <2>2. st[d].lazy \in DOMAIN h /\ st[d].lazy # p
    BY <1>1, <1>2 DEF Uses, IsEvaluation
  <2>3. g[st[d].lazy].kind = h[st[d].lazy].kind /\ g[st[d].lazy].ready = h[st[d].lazy].ready
        /\ g[st[d].lazy].refs = h[st[d].lazy].refs
    BY <2>2 DEF SameBut
  <2>4. d > 1 /\ Expects(h, st[d - 1], st[d].lazy)
    BY <2>1 DEF EvaluationOK
  <2>5. d - 1 \in DOMAIN st
    BY <1>1, <2>4
  <2>6. IsEvaluation(st[d - 1]) \/ LoadOK(h, st[d - 1])
    BY <2>4 DEF FrameOK, CodeOK
  <2>7. Expects(g, st[d - 1], st[d].lazy)
    BY <1>1, <2>4, <2>5, <2>6, ExpectsEdited
  <2>8. EvaluationOK(g, st, d)
    BY <2>1, <2>3, <2>7 DEF EvaluationOK
  <2> QED
    BY <1>2, <2>8 DEF FrameOK
<1>3. CASE ~IsEvaluation(st[d])
  <2>1. CodeOK(h, st, d)
    BY <1>3 DEF FrameOK
  <2>2. st[d].fun = Const \/ KindIn(h, st[d].fun) = "fun"
    BY <2>1 DEF CodeOK
  <2>3. LoadOK(g, st[d])
    BY <1>1, <2>1, <2>2, LoadEdited DEF CodeOK
  <2>4. KindIn(g, st[d].fun) = KindIn(h, st[d].fun)
    BY <1>1 DEF KindIn, SameBut, Uses
  <2>5. CodeOK(g, st, d)
    BY <2>1, <2>3, <2>4 DEF CodeOK
  <2> QED
    BY <1>3, <2>5 DEF FrameOK
<1> QED
  BY <1>2, <1>3

\* Upward sets without p and without vv
LEMMA UpwardEdited ==
    ASSUME NEW h, NEW g, NEW p, SameBut(h, g, p), NEW vv,
           Range(g[p].refs) \subseteq Range(h[p].refs) \union {vv},
           NEW U, Upward(h, U), p \in U \/ vv \notin U
    PROVE  Upward(g, U)
<1> SUFFICES ASSUME NEW q \in DOMAIN h \ U, NEW i \in DOMAIN g[q].refs
             PROVE  g[q].refs[i] \notin U
  BY DEF Upward, SameBut
<1>1. CASE q = p
  <2>1. g[p].refs[i] \in Range(h[p].refs) \union {vv}
    BY <1>1 DEF Range
  <2> QED
    BY <1>1, <2>1 DEF Upward, Range
<1>2. CASE q # p
  BY <1>2 DEF Upward, SameBut
<1> QED
  BY <1>1, <1>2

\* The references of an object of which one is written.
LEMMA EditedRefs ==
    ASSUME NEW n \in Nat, NEW s \in Seq(0 .. n), NEW t, NEW i, NEW v \in 0 .. n, Put(s, t, i, v)
    PROVE  /\ Range(t) \subseteq Range(s) \union {v}
           /\ \A o : Occurs(t, o) = Occurs(s, o) - (IF s[i] = o THEN 1 ELSE 0) + (IF v = o THEN 1 ELSE 0)
<1>1. Range(t) \subseteq Range(s) \union {v}
  BY DEF Range, Put
<1>2. ASSUME NEW o
      PROVE  Occurs(t, o) = Occurs(s, o) - (IF s[i] = o THEN 1 ELSE 0) + (IF v = o THEN 1 ELSE 0)
  BY OccursPut
<1> QED
  BY <1>1, <1>2

\* Place i of the record p is written.
IsWritten(h, p, i, vv, g) == g = [h EXCEPT ![p].refs[i] = vv]

\* vv, which is in hand, is put into place i of the record p, and what was
\* there is in hand.
LEMMA Written ==
    ASSUME NEW h, NEW st, NEW vv, Good(h, st, <<vv>>), NEW p \in DOMAIN h, h[p].kind = "rec",
           NEW i \in DOMAIN h[p].refs, NEW g, IsWritten(h, p, i, vv, g),
           \A d \in DOMAIN st : SameGot(h, g, p, st[d].load),
           \A d \in DOMAIN st : d < Len(st) /\ st[d].load.at \in {"search", "place"} /\ st[d].load.src = p
                                    => st[d].load.i # i,
           Apart(h, st, {vv, p}),
           NEW W \in SUBSET DOMAIN h, Upward(h, W), p \in W, vv \notin W
    PROVE  /\ Good(g, st, <<h[p].refs[i]>>)
           /\ SameBut(h, g, p) /\ Len(g) = Len(h)
           /\ g[p].refs = [h[p].refs EXCEPT ![i] = vv]
<1> DEFINE n == Len(h)
           old == h[p].refs[i]
           now == [h[p].refs EXCEPT ![i] = vv]
<1>1. /\ n \in Nat /\ h \in Seq(ObjectType(n)) /\ st \in Seq(FrameType(n)) /\ <<vv>> \in Seq(0 .. n)
      /\ DOMAIN h = 1 .. n /\ DOMAIN st = 1 .. Len(st) /\ Len(st) \in Nat /\ Countable(h)
      /\ Typed(h, st, <<vv>>) /\ Const \notin DOMAIN h
  BY TypedFacts, HeapFacts DEF Good
<1>2. /\ vv \in 0 .. n /\ h[p] \in ObjectType(n) /\ h[p].refs \in Seq(0 .. n)
      /\ DOMAIN h[p].refs = 1 .. Len(h[p].refs) /\ old \in 0 .. n
  <2>1. vv \in 0 .. n
    BY <1>1
  <2> QED
    BY <1>1, <2>1, HeapFacts
<1>19. /\ now \in Seq(0 .. n) /\ Len(now) = Len(h[p].refs) /\ DOMAIN now = DOMAIN h[p].refs
       /\ Put(h[p].refs, now, i, vv)
  <2> HIDE DEF n
  <2> QED
    BY <1>2 DEF Put
<1>4. g = [h EXCEPT ![p] = [h[p] EXCEPT !.refs = now]]
  BY DEF IsWritten
<1> HIDE DEF now
<1>3. /\ now \in Seq(0 .. n) /\ Len(now) = Len(h[p].refs) /\ DOMAIN now = DOMAIN h[p].refs
      /\ now[i] = vv /\ \A k \in DOMAIN h[p].refs \ {i} : now[k] = h[p].refs[k]
      /\ Range(now) \subseteq Range(h[p].refs) \union {vv}
      /\ \A o : Occurs(now, o)
                   = Occurs(h[p].refs, o) - (IF old = o THEN 1 ELSE 0) + (IF vv = o THEN 1 ELSE 0)
  <2> HIDE DEF n
  <2>1. n \in Nat /\ h[p].refs \in Seq(0 .. n) /\ vv \in 0 .. n /\ Put(h[p].refs, now, i, vv)
    BY <1>1, <1>2, <1>19
  <2>2. /\ Range(now) \subseteq Range(h[p].refs) \union {vv}
        /\ \A o : Occurs(now, o)
                     = Occurs(h[p].refs, o) - (IF old = o THEN 1 ELSE 0) + (IF vv = o THEN 1 ELSE 0)
    BY <2>1, EditedRefs
  <2> QED
    BY <1>19, <2>2, Zenon DEF Put
<1>21. \A o \in DOMAIN h : Len(h[o].refs) = 1 => h[o].refs[1] \in 0 .. n
  <2>1. \A o \in DOMAIN h : DOMAIN h[o].refs = 1 .. Len(h[o].refs)
                           /\ \A k \in DOMAIN h[o].refs : h[o].refs[k] \in 0 .. n
    BY <1>1, HeapFacts
  <2> QED
    BY <2>1
<1>5. [h[p] EXCEPT !.refs = now] \in ObjectType(n)
  <2> DEFINE R == Seq(0 .. n)
  <2>1. h[p] \in RecordType(R) /\ now \in R
    BY <1>2, <1>3, ObjectTypeIs
  <2> HIDE DEF R
  <2>2. [h[p] EXCEPT !.refs = now] \in RecordType(R)
    BY <2>1 DEF RecordType
  <2> QED
    BY <2>2, ObjectTypeIs DEF R
<1>6. g \in Seq(ObjectType(n)) /\ Len(g) = n /\ DOMAIN g = DOMAIN h
  <2> HIDE DEF n
  <2> QED
    BY <1>1, <1>4, <1>5
<1>7. /\ g[p] = [h[p] EXCEPT !.refs = now] /\ g[p].refs = now
      /\ g[p].kind = h[p].kind /\ g[p].rc = h[p].rc /\ g[p].ready = h[p].ready /\ g[p].shape = h[p].shape
      /\ \A o \in DOMAIN h \ {p} : g[o] = h[o]
  BY <1>2, <1>4 DEF ObjectType
<1>8. SameBut(h, g, p)
  BY <1>6, <1>7 DEF SameBut
<1>9. /\ \A o \in DOMAIN h : Dead(g, o) <=> Dead(h, o)
      /\ \A o \in DOMAIN h : g[o].rc = h[o].rc
      /\ \A o \in 0 .. n : KindIn(g, o) = KindIn(h, o)
  <2>1. \A o \in DOMAIN h : g[o].kind = h[o].kind /\ g[o].rc = h[o].rc
    BY <1>7
  <2>2. \A o \in 0 .. n : o = Const \/ o \in DOMAIN h
    BY <1>1 DEF Const
  <2>3. \A o \in DOMAIN h : Dead(g, o) <=> Dead(h, o)
    BY <2>1 DEF Dead
  <2>4. \A o \in 0 .. n : KindIn(g, o) = KindIn(h, o)
    BY <2>1, <2>2, Zenon DEF KindIn
  <2> QED
    BY <2>1, <2>3, <2>4
<1>10. /\ Range(g[p].refs) \subseteq Range(h[p].refs) \union {vv}
       /\ \A k \in DOMAIN h[p].refs \ {i} : g[p].refs[k] = h[p].refs[k]
  BY <1>3, <1>7
<1> HIDE DEF n
<1>11. ASSUME NEW o \in DOMAIN g
       PROVE  ObjectOK(g, st, o)
  <2>1. ObjectOK(h, st, o) /\ o \in DOMAIN h
    BY <1>6 DEF Good
  <2>2. CASE o = p
    BY <1>3, <1>7, <2>1, <2>2 DEF ObjectOK
  <2>3. CASE o # p
    <3>1. Len(h[o].refs) = 1 => h[o].refs[1] \in 0 .. n
      BY <1>21, <2>1
    <3> QED
      BY <1>7, <1>9, <2>1, <2>3, <3>1 DEF ObjectOK
  <2> QED
    BY <2>2, <2>3
<1>12. ASSUME NEW d \in DOMAIN st
       PROVE  FrameOK(g, st, d)
  <2>1. Typed(h, st, <<>>)
    BY <1>1 DEF Typed
  <2>2. d > 1 => d - 1 \in DOMAIN st /\ d - 1 < Len(st)
    BY <1>1
  <2>3. FrameOK(h, st, d) /\ (d > 1 => FrameOK(h, st, d - 1))
    BY <2>2 DEF Good
  <2>4. IsEvaluation(st[d]) => st[d].lazy # p
    BY <2>3 DEF FrameOK, EvaluationOK
  <2>5. ASSUME d > 1, st[d - 1].load.at \in {"search", "place"}, st[d - 1].load.src = p
        PROVE  SamePlace(h, g, p, st[d - 1].load.i)
    <3> DEFINE k == st[d - 1].load.i
    <3>1. LoadOK(h, st[d - 1])
      BY <2>3, <2>5 DEF FrameOK, CodeOK, EvaluationOK, Idle, Load
    <3>2. ASSUME IsEvaluation(st[d])
          PROVE  SamePlace(h, g, p, k)
      <4>1. Expects(h, st[d - 1], st[d].lazy)
        BY <2>3, <3>2 DEF FrameOK, EvaluationOK
      <4>2. FoundIn(h, st[d - 1].load)
        BY <2>3, <2>5, <4>1 DEF Expects, FrameOK, EvaluationOK, Idle, Load
      <4>3. k \in DOMAIN FieldIds[h[p].shape]
        BY <2>5, <4>2 DEF FoundIn
      <4>4. h[p].shape \in Shapes /\ Len(h[p].refs) = Cardinality(h[p].shape)
        BY DEF Good, ObjectOK
      <4>5. k \in DOMAIN h[p].refs
        BY <1>2, <4>3, <4>4, FieldIdsFacts
      <4>6. k # i
        BY <2>2, <2>5
      <4> QED
        BY <1>10, <4>5, <4>6 DEF SamePlace
    <3>3. ASSUME ~IsEvaluation(st[d])
          PROVE  FALSE
      BY <2>3, <2>5, <3>3 DEF FrameOK, CodeOK, EvaluationOK, Idle, Load
    <3> QED
      BY <3>2, <3>3
  <2> QED
    BY <1>8, <2>1, <2>3, <2>4, <2>5, StackEdited
<1>13. Apart(g, st, Range(<<old>>))
  <2> SUFFICES ASSUME NEW d \in DOMAIN st, IsEvaluation(st[d])
               PROVE  \E U : Aside(g, st, Range(<<old>>), d, U)
    BY DEF Apart
  <2>1. PICK U : Aside(h, st, {vv, p}, d, U)
    BY DEF Apart
  <2>2. vv \notin U /\ p \notin U /\ Upward(h, U)
    BY <2>1 DEF Aside
  <2>3. Upward(g, U)
    BY <1>8, <1>10, <2>2, UpwardEdited
  <2>4. old \notin U
    BY <2>2 DEF Upward
  <2> QED
    BY <1>6, <2>1, <2>3, <2>4 DEF Aside, Range
<1>14. Acyclic(g)
  <2>1. \A o \in DOMAIN h \ {p} : g[o].refs = h[o].refs
    BY <1>7
  <2>2. Rewired(h, g, p, vv, W)
    BY <1>6, <1>10, <2>1, Zenon DEF Rewired
  <2>3. Acyclic(h)
    BY DEF Good
  <2> QED
    BY <2>2, <2>3, AcyclicEdit
<1>15. Counts(g, Owned(g, st, <<old>>))
  <2> DEFINE S == Owned(h, st, <<vv>>)
             T == Owned(g, st, <<old>>)
  <2>1. S \in [DOMAIN h -> Nat] /\ T \in [DOMAIN h -> Nat] /\ Counts(h, S) /\ Countable(g)
    <3>1. <<old>> \in Seq(0 .. n)
      BY <1>2
    <3>2. \A k : Owned(k, st, <<old>>) \in [DOMAIN k -> Nat] /\ Owned(k, st, <<vv>>) \in [DOMAIN k -> Nat]
      BY <1>1, <3>1, OwnsFacts
    <3>3. Countable(g)
      BY <1>6, HeapFacts
    <3>4. Counts(h, S)
      BY DEF Good
    <3> QED
      BY <1>6, <3>2, <3>3, <3>4
  <2>2. \A o : Among(Owns(st), o) \in Nat
    BY <1>1, OwnsFacts DEF n
  <2>3. ASSUME NEW o \in DOMAIN h
        PROVE  /\ T[o] + Occurs(g[p].refs, o) = S[o] + Occurs(h[p].refs, o)
               /\ Dead(h, o) => Occurs(g[p].refs, o) = 0
    <3>1. Occurs(now, o) = Occurs(h[p].refs, o) - (IF old = o THEN 1 ELSE 0) + (IF vv = o THEN 1 ELSE 0)
      BY <1>3
    <3>2. Occurs(h[p].refs, o) \in Nat /\ Occurs(now, o) \in Nat
      BY <1>2, <1>3, OccursNat, SeqDomains
    <3>3. T[o] = Among(Owns(st), o) + (IF old = o THEN 1 ELSE 0)
      BY <1>6, OccursSingle DEF Owned
    <3>4. S[o] = Among(Owns(st), o) + (IF vv = o THEN 1 ELSE 0)
      BY OccursSingle DEF Owned
    <3>5. Among(Owns(st), o) \in Nat /\ T[o] \in Nat /\ S[o] \in Nat
      BY <1>6, <2>1, <2>2
    <3>6. ASSUME Dead(h, o)
          PROVE  Occurs(now, o) = 0
      <4>1. vv # o
        BY <3>6, Live DEF Range
      <4>2. \A k \in DOMAIN h[p].refs : h[p].refs[k] # o
        BY <3>6, Live DEF Range
      <4>3. \A k \in DOMAIN now : now[k] # o
        BY <1>3, <4>1, <4>2
      <4> QED
        BY <1>3, <4>3, OccursNat, SeqDomains
    <3> HIDE DEF S, T
    <3>7. T[o] + Occurs(now, o) = S[o] + Occurs(h[p].refs, o)
      BY <3>1, <3>2, <3>3, <3>4, <3>5
    <3> QED
      BY <1>7, <3>6, <3>7
  <2>4. HeapEdited(h, g, p, S, T)
    <3>1. \A o \in DOMAIN h : g[o].rc = h[o].rc /\ g[o].kind = h[o].kind
      BY <1>7
    <3>2. \A o \in DOMAIN h \ {p} : g[o].refs = h[o].refs
      BY <1>7
    <3> HIDE DEF S, T
    <3> QED
      BY <1>1, <1>6, <2>1, <2>3, <3>1, <3>2, Zenon DEF HeapEdited
  <2> HIDE DEF S, T
  <2>5. Counts(g, T)
    BY <2>4, EditCounts
  <2> QED
    BY <2>5 DEF T
<1>16. Alive(g, st)
  BY <1>6, <1>9 DEF Good, Alive
<1>17. Typed(g, st, <<old>>)
  <2>1. <<old>> \in Seq(0 .. n)
    BY <1>2 DEF n
  <2> QED
    BY <1>1, <1>6, <2>1 DEF Typed
<1>18. Good(g, st, <<old>>)
  BY <1>11, <1>12, <1>13, <1>14, <1>15, <1>16, <1>17 DEF Good
<1> QED
  BY <1>6, <1>7, <1>8, <1>18 DEF n, now
=============================================================================
