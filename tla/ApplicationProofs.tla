-------------------------- MODULE ApplicationProofs --------------------------
(* The counts and the stack of Application are exact, and eth_this is the     *)
(* running function, for every set of functions, whatever their arities, and  *)
(* every program within the bounds.                                           *)
(*                                                                            *)
(* As in LazyRecordsProofs the invariant, Good, is stated of any heap h,      *)
(* stack s and frames fs, with the references that the code has taken and not *)
(* put anywhere yet: hand gives their number for each object.                 *)
EXTENDS Application, CountedHeapProofs

-----------------------------------------------------------------------------
(* The inductive invariant *)

\* What is there
Exists(h, v) == v \in Fn \/ (v \in Address /\ h[v].kind # "freed")
Callable(h, v) == v \in Fn \/ (v \in Address /\ h[v].kind = "curried")

ObjectOK(h, o) ==
    /\ h[o].kind = "freed" => h[o].refs = <<>>
    /\ h[o].kind = "curried" => h[o].arity > 0 /\ h[o].refs # <<>> /\ Callable(h, Head(h[o].refs))

\* What the i-th frame has called is held: by the frame itself, or by the
\* function that it is the call of; except that "over" calls what it was
\* called with.
Has(fs, s, i) == fs[i].held \o Share(fs, s, i)
Calls(h, fs, s, i, v) ==
    \/ v \in Fn
    \/ IF fs[i].fr \in {"over", "curried"}
       THEN v = IF fs[i].fr = "over" THEN fs[i].fn ELSE Head(h[fs[i].fn].refs)
       ELSE v \in Range(Has(fs, s, i))

FrameOK(h, fs, s, i) ==
    LET f == fs[i]
    IN  IF i = 1 THEN f.fr = "body" /\ f.fn = NoFn /\ f.n = 0
        ELSE /\ f.fr = "body" => f.fn \in Fn /\ (f.fn \in Islam => f.n = 0)
             /\ f.fr = "again" => f.n = 0 /\ f.held = <<f.fn>>
             /\ f.fr = "over" => /\ f.held = <<>> /\ Callable(h, f.fn)
                                 /\ fs[i - 1].fr # "over" /\ Calls(h, fs, s, i - 1, f.fn)
             /\ f.fr = "curried" => /\ f.n = 0 /\ f.held = <<>> /\ f.fn \in Address
                                    /\ h[f.fn].kind = "curried" /\ Calls(h, fs, s, i - 1, f.fn)

\* eth_this, as the frames have it
Self(f) == IF f.fr \in {"body", "curried"} THEN f.fn ELSE f.that
ThisOK(fs, th) ==
    /\ \A i \in DOMAIN fs : i > 1 => fs[i].that = Self(fs[i - 1])
    /\ fs # <<>> => th = Self(Last(fs))

Owned(fs, s, hand) == [o \in Address |-> Among(Held(fs, s), o) + hand[o]]

\* A stack with room for what the frames have on it
Fits(fs, s) == fs \in Seq(FrameType) /\ s \in Seq(Value) /\ Slots(fs, DOMAIN fs) <= Len(s)

Good(h, s, fs, hand) ==
    /\ h \in [Address -> Object] /\ Fits(fs, s) /\ hand \in [Address -> Nat]
    /\ \A o \in Address : ObjectOK(h, o)
    /\ \A i \in DOMAIN fs : FrameOK(h, fs, s, i)
    /\ Counts(h, Owned(fs, s, hand))

None == [o \in Address |-> 0]

\* Only what is in Z may exist without a count.
CountedBut(h, Z) == \A o \in Address : h[o].kind # "freed" /\ h[o].rc = 0 => o \in Z

\* What the innermost frame is about to do
ArityIn(h, v) == IF v \in Fn THEN Arity[v] ELSE h[v].arity
ControlOK(h, s, fs, c) ==
    /\ c \in Control /\ fs # <<>>
    /\ c.op = "body" => c = Running /\ Last(fs).fr = "body"
    /\ c.op = "apply" => /\ Callable(h, c.val) /\ Calls(h, fs, s, Len(fs), c.val)
                         /\ \A i \in 1 .. c.n : Exists(h, s[i])
                         /\ Last(fs).fr = "over" => c.n = ArityIn(h, c.val)
    /\ c.op = "ret" => Exists(h, c.val)
    /\ Len(s) = (IF c.op = "apply" THEN c.n ELSE 0) + Slots(fs, DOMAIN fs)

Firsts(s, n) == {s[i] : i \in 1 .. n}
OnTheWay(s, c) ==
    IF c.op = "apply" THEN Firsts(s, c.n) ELSE IF c.op = "ret" THEN {c.val} ELSE {}

InvAt(h, s, fs, c, th) ==
    /\ Good(h, s, fs, None)
    /\ ControlOK(h, s, fs, c)
    /\ ThisOK(fs, th)
    /\ CountedBut(h, OnTheWay(s, c))

Inv == InvAt(heap, sp, frames, ctl, this) /\ pushed \in Nat

-----------------------------------------------------------------------------
(* Objects and frames by their types *)

\* The addresses are numbers.
LEMMA AddressFacts ==
    /\ IsFiniteSet(Address) /\ Const \notin Address /\ Address \in SUBSET Nat
    /\ Address \intersect Fn = {} /\ NoFn \notin Value /\ MaxObj \in Nat
<1>1. MaxObj \in Nat /\ Fn \intersect Nat = {} /\ NoFn \notin Nat /\ NoFn \notin Fn
  BY ApplicationAssumption
<1>2. Address \in SUBSET Nat /\ Const \notin Address
  BY <1>1 DEF Address, Const
<1>3. IsFiniteSet(Address)
  BY <1>1, FS_Interval DEF Address
<1> QED
  BY <1>1, <1>2, <1>3 DEF Value

\* The parts of an object,
LEMMA ObjectFacts ==
    ASSUME NEW x \in Object
    PROVE  /\ x.rc \in Nat /\ x.kind \in {"freed", "atom", "exn", "curried"}
           /\ x.refs \in Seq(Value) /\ x.arity \in Nat
           /\ DOMAIN x = {"rc", "kind", "refs", "arity"}
           /\ DOMAIN x.refs = 1 .. Len(x.refs) /\ Len(x.refs) \in Nat /\ IsFiniteSet(DOMAIN x.refs)
           /\ \A i \in DOMAIN x.refs : x.refs[i] \in Value
<1>1. /\ x.rc \in Nat /\ x.kind \in {"freed", "atom", "exn", "curried"}
      /\ x.refs \in Seq(Value) /\ x.arity \in Nat
      /\ DOMAIN x = {"rc", "kind", "refs", "arity"}
  BY DEF Object
<1>2. DOMAIN x.refs = 1 .. Len(x.refs) /\ Len(x.refs) \in Nat /\ IsFiniteSet(DOMAIN x.refs)
  BY <1>1, SeqDomains
<1>3. \A i \in DOMAIN x.refs : x.refs[i] \in Value
  BY <1>1, <1>2, ElementOfSeq
<1> QED
  BY <1>1, <1>2, <1>3

\* of a heap,
LEMMA HeapFacts ==
    ASSUME NEW h \in [Address -> Object]
    PROVE  /\ DOMAIN h = Address /\ Countable(h)
           /\ \A o \in Address : h[o] \in Object
<1>1. DOMAIN h = Address /\ \A o \in Address : h[o] \in Object
  OBVIOUS
<1>2. \A o \in Address : {"rc", "kind", "refs"} \subseteq DOMAIN h[o] /\ h[o].rc \in Int
                         /\ IsFiniteSet(DOMAIN h[o].refs)
  BY <1>1, ObjectFacts
<1> QED
  BY <1>1, <1>2, AddressFacts DEF Countable

\* and of a frame.
LEMMA FrameFacts ==
    ASSUME NEW f \in FrameType
    PROVE  /\ f.fr \in Frames /\ f.fn \in Value \union {NoFn} /\ f.args \in Seq(Value)
           /\ f.held \in Seq(Value) /\ f.n \in Nat /\ f.that \in Value \union {NoFn}
           /\ DOMAIN f.held = 1 .. Len(f.held) /\ Len(f.held) \in Nat
<1>1. /\ f.fr \in Frames /\ f.fn \in Value \union {NoFn} /\ f.args \in Seq(Value)
      /\ f.held \in Seq(Value) /\ f.n \in Nat /\ f.that \in Value \union {NoFn}
  BY DEF FrameType
<1> QED
  BY <1>1, SeqDomains

LEMMA FramesFacts ==
    ASSUME NEW fs \in Seq(FrameType)
    PROVE  /\ Len(fs) \in Nat /\ DOMAIN fs = 1 .. Len(fs)
           /\ \A i \in DOMAIN fs : fs[i] \in FrameType /\ fs[i].n \in Nat
<1>1. Len(fs) \in Nat /\ DOMAIN fs = 1 .. Len(fs) /\ \A i \in DOMAIN fs : fs[i] \in FrameType
  BY SeqDomains, ElementOfSeq
<1> QED
  BY <1>1, FrameFacts

\* What is left of a sequence without its last element
LEMMA FrontFacts ==
    ASSUME NEW S, NEW s \in Seq(S), s # <<>>
    PROVE  /\ Front(s) \in Seq(S) /\ Len(Front(s)) = Len(s) - 1 /\ Len(s) \in Nat \ {0}
           /\ Len(s) \in DOMAIN s /\ Last(s) = s[Len(s)] /\ Last(s) \in S
           /\ DOMAIN Front(s) = 1 .. Len(s) - 1 /\ DOMAIN s = 1 .. Len(s)
           /\ \A d \in 1 .. Len(s) - 1 : d \in DOMAIN s /\ Front(s)[d] = s[d]
<1>1. Len(s) \in Nat \ {0} /\ DOMAIN s = 1 .. Len(s)
  BY EmptySeq
<1>2. /\ Front(s) \in Seq(S) /\ Len(Front(s)) = Len(s) - 1
      /\ DOMAIN Front(s) = 1 .. Len(s) - 1
      /\ \A d \in 1 .. Len(s) - 1 : d \in DOMAIN s /\ Front(s)[d] = s[d]
  BY <1>1 DEF Front
<1>3. Last(s) = s[Len(s)] /\ Last(s) \in S
  BY <1>1 DEF Last
<1> QED
  BY <1>1, <1>2, <1>3

\* Of some natural numbers one is smallest.
LEMMA SmallestNumber ==
    ASSUME NEW A \in SUBSET Nat, A # {}
    PROVE  \E m \in A : \A x \in A : m <= x
<1> DEFINE R == OpToRel(<, Nat)
<1>1. \A x, m \in Nat : x < m => <<x, m>> \in R
  BY DEF OpToRel
<1>2. IsWellFoundedOn(R, Nat)
  BY NatLessThanWellFounded
<1> HIDE DEF R
<1>3. \E m \in A : \A x \in A : ~(<<x, m>> \in R)
  BY <1>2, WFMin
<1>4. PICK m \in A : \A x \in A : ~(<<x, m>> \in R)
  BY <1>3
<1>5. \A x \in A : ~(x < m)
  BY <1>1, <1>4
<1> QED
  BY <1>5

-----------------------------------------------------------------------------
(* What the frames share out of the stack *)

\* The slots of some frames as a family of sequences
Unary(fs, I) == [i \in I |-> [j \in 1 .. fs[i].n |-> 0]]

\* Slots are numbers, and each frame adds its own.
LEMMA SlotsFacts ==
    ASSUME NEW fs \in Seq(FrameType)
    PROVE  /\ Slots(fs, {}) = 0
           /\ \A I \in SUBSET DOMAIN fs : Slots(fs, I) \in Nat
           /\ \A k \in DOMAIN fs : Slots(fs, 1 .. k) = Slots(fs, 1 .. k - 1) + fs[k].n
           /\ \A j, k \in 0 .. Len(fs) : j <= k => Slots(fs, 1 .. j) <= Slots(fs, 1 .. k)
<1>1. Len(fs) \in Nat /\ DOMAIN fs = 1 .. Len(fs) /\ \A i \in DOMAIN fs : fs[i].n \in Nat
  BY FramesFacts
<1>2. ASSUME NEW I \in SUBSET DOMAIN fs
      PROVE  FiniteFamily(Unary(fs, I)) /\ Slots(fs, I) = Among(Unary(fs, I), 0)
  <2>1. IsFiniteSet(I)
    BY SeqDomains, FS_Subset
  <2>6. \A i \in I : IsFiniteSet(1 .. fs[i].n)
    <3> TAKE i \in I
    <3>1. 1 \in Int /\ fs[i].n \in Int
      BY <1>1
    <3> QED
      BY <3>1, FS_Interval
  <2>2. \A i \in I : DOMAIN Unary(fs, I)[i] = 1 .. fs[i].n /\ IsFiniteSet(1 .. fs[i].n)
    BY <2>6 DEF Unary
  <2>3. \A i \in I : {j \in DOMAIN Unary(fs, I)[i] : Unary(fs, I)[i][j] = 0} = 1 .. fs[i].n
    BY DEF Unary
  <2>4. UNION {{i} \X (1 .. fs[i].n) : i \in I}
          = UNION {{i} \X {j \in DOMAIN Unary(fs, I)[i] : Unary(fs, I)[i][j] = 0} : i \in I}
    BY <2>3
  <2>5. DOMAIN Unary(fs, I) = I
    BY DEF Unary
  <2> QED
    BY <2>1, <2>2, <2>4, <2>5 DEF Slots, Among, FiniteFamily
<1>3. Slots(fs, {}) = 0
  <2>1. UNION {{i} \X (1 .. fs[i].n) : i \in {}} = {}
    OBVIOUS
  <2> QED
    BY <2>1, FS_EmptySet DEF Slots
<1>4. \A I \in SUBSET DOMAIN fs : Slots(fs, I) \in Nat
  BY <1>2, AmongNat
<1>5. ASSUME NEW k \in DOMAIN fs
      PROVE  Slots(fs, 1 .. k) = Slots(fs, 1 .. k - 1) + fs[k].n
  <2> DEFINE F == Unary(fs, 1 .. k - 1)
             G == Unary(fs, 1 .. k)
  <2>1. 1 .. k \in SUBSET DOMAIN fs /\ 1 .. k - 1 \in SUBSET DOMAIN fs /\ 1 .. k = (1 .. k - 1) \union {k}
        /\ k \notin 1 .. k - 1
    BY <1>1
  <2>2. /\ FiniteFamily(F) /\ FiniteFamily(G) /\ k \notin DOMAIN F
        /\ DOMAIN G = DOMAIN F \union {k} /\ (\A q \in DOMAIN F : G[q] = F[q])
        /\ F = Part(F, DOMAIN F)
    BY <1>2, <2>1 DEF Unary, Part
  <2>3. Occurs(G[k], 0) = fs[k].n
    <3>1. {j \in DOMAIN G[k] : G[k][j] = 0} = 1 .. fs[k].n
      BY <2>1 DEF Unary
    <3>2. Cardinality(1 .. fs[k].n) = fs[k].n
      <4>1. 1 \in Int /\ fs[k].n \in Int /\ fs[k].n \in Nat
        BY <1>1
      <4>2. Cardinality(1 .. fs[k].n) = IF 1 > fs[k].n THEN 0 ELSE fs[k].n - 1 + 1
        BY <4>1, FS_Interval
      <4> QED
        BY <4>1, <4>2
    <3> QED
      BY <3>1, <3>2 DEF Occurs
  <2> HIDE DEF F, G
  <2>4. Among(G, 0) = Among(F, 0) + Occurs(G[k], 0)
    BY <2>2, AmongMore
  <2> QED
    BY <1>2, <2>1, <2>3, <2>4 DEF F, G
<1>6. ASSUME NEW j \in 0 .. Len(fs), NEW k \in 0 .. Len(fs), j <= k
      PROVE  Slots(fs, 1 .. j) <= Slots(fs, 1 .. k)
  <2>1. 1 .. k \in SUBSET DOMAIN fs /\ 1 .. j \in SUBSET (1 .. k)
    BY <1>1, <1>6
  <2> DEFINE A == UNION {{i} \X (1 .. fs[i].n) : i \in 1 .. j}
             B == UNION {{i} \X (1 .. fs[i].n) : i \in 1 .. k}
  <2>2. A \in SUBSET B
    BY <2>1
  <2>3. IsFiniteSet(B)
    <3>1. FiniteFamily(Unary(fs, 1 .. k))
      BY <1>2, <2>1
    <3>2. B = Places(Unary(fs, 1 .. k), 0)
      <4>1. DOMAIN Unary(fs, 1 .. k) = 1 .. k
        BY DEF Unary
      <4>2. \A i \in 1 .. k :
              {l \in DOMAIN Unary(fs, 1 .. k)[i] : Unary(fs, 1 .. k)[i][l] = 0} = 1 .. fs[i].n
        BY DEF Unary
      <4> QED
        BY <4>1, <4>2 DEF Places
    <3> QED
      BY <3>1, <3>2, PlacesFinite
  <2> HIDE DEF A, B
  <2>4. Cardinality(A) <= Cardinality(B)
    BY <2>2, <2>3, FS_Subset
  <2> QED
    BY <2>4 DEF Slots, A, B
<1> QED
  BY <1>3, <1>4, <1>5, <1>6

\* Frames with the same shares have the same slots.
LEMMA SameSlots ==
    ASSUME NEW fs, NEW gs, NEW I, \A i \in I : fs[i].n = gs[i].n
    PROVE  Slots(fs, I) = Slots(gs, I)
<1> {{i} \X (1 .. fs[i].n) : i \in I} = {{i} \X (1 .. gs[i].n) : i \in I}
  OBVIOUS
<1> QED
  BY DEF Slots

\* The share of a frame, place by place.
LEMMA ShareFacts ==
    ASSUME NEW fs, NEW s, Fits(fs, s), NEW i \in DOMAIN fs
    PROVE  /\ Share(fs, s, i) \in Seq(Value) /\ Len(Share(fs, s, i)) = fs[i].n /\ fs[i].n \in Nat
           /\ DOMAIN Share(fs, s, i) = 1 .. fs[i].n
           /\ Slots(fs, 1 .. i) <= Len(s) /\ Slots(fs, 1 .. i) >= fs[i].n /\ Slots(fs, 1 .. i) \in Nat
           /\ \A j \in 1 .. fs[i].n : Share(fs, s, i)[j] = s[Len(s) - Slots(fs, 1 .. i) + j]
<1> DEFINE n == fs[i].n
           a == Slots(fs, 1 .. i)
           b == Slots(fs, 1 .. i - 1)
           L == Len(s)
<1>1. fs \in Seq(FrameType) /\ s \in Seq(Value) /\ Slots(fs, DOMAIN fs) <= Len(s)
  BY DEF Fits
<1>2. Len(fs) \in Nat /\ DOMAIN fs = 1 .. Len(fs) /\ n \in Nat
  BY <1>1, FramesFacts
<1>3. L \in Nat /\ \A j \in 1 .. L : s[j] \in Value
  BY <1>1, SeqDomains, ElementOfSeq
<1>4. a \in Nat /\ b \in Nat /\ a = b + n /\ a <= L
  <2>1. 1 .. i \in SUBSET DOMAIN fs /\ 1 .. i - 1 \in SUBSET DOMAIN fs /\ i \in 0 .. Len(fs)
        /\ Len(fs) \in 0 .. Len(fs) /\ i <= Len(fs)
    BY <1>2
  <2>2. a \in Nat /\ b \in Nat /\ a = b + n
    BY <1>1, <2>1, SlotsFacts
  <2>3. a <= Slots(fs, 1 .. Len(fs)) /\ Slots(fs, 1 .. Len(fs)) \in Nat
    BY <1>1, <1>2, <2>1, SlotsFacts
  <2> QED
    BY <1>1, <1>2, <1>3, <2>2, <2>3
<1>5. Share(fs, s, i) = SubSeq(s, L - b - n + 1, L - b)
  BY DEF Share
<1> HIDE DEF a, b, n, L
<1>6. \A j \in L - b - n + 1 .. L - b : s[j] \in Value
  BY <1>2, <1>3, <1>4
<1>7. /\ Share(fs, s, i) \in Seq(Value) /\ Len(Share(fs, s, i)) = n
      /\ \A j \in 1 .. n : Share(fs, s, i)[j] = s[(L - b - n + 1) + j - 1]
  <2> DEFINE p == L - b - n + 1
             q == L - b
  <2>1. p \in Int /\ q \in Int /\ q - p + 1 = n /\ (p <= q <=> n > 0)
    BY <1>2, <1>3, <1>4
  <2>2. \A j \in p .. q : s[j] \in Value
    BY <1>6
  <2>4. Share(fs, s, i) = SubSeq(s, p, q)
    BY <1>5
  <2> HIDE DEF p, q
  <2>3. /\ SubSeq(s, p, q) \in Seq(Value) /\ Len(SubSeq(s, p, q)) = IF p <= q THEN q - p + 1 ELSE 0
        /\ \A j \in 1 .. q - p + 1 : SubSeq(s, p, q)[j] = s[p + j - 1]
    BY <2>1, <2>2, SubSeqProperties
  <2>5. Len(Share(fs, s, i)) = n
    BY <1>2, <2>1, <2>3, <2>4
  <2>6. \A j \in 1 .. n : Share(fs, s, i)[j] = s[p + j - 1]
    BY <2>1, <2>3, <2>4
  <2> QED
    BY <2>3, <2>4, <2>5, <2>6 DEF p
<1>8. \A j \in 1 .. n : (L - b - n + 1) + j - 1 = L - a + j
  BY <1>2, <1>3, <1>4
<1>9. DOMAIN Share(fs, s, i) = 1 .. n
  BY <1>7, SeqDomains
<1>10. a >= n
  BY <1>2, <1>4
<1>11. \A j \in 1 .. n : Share(fs, s, i)[j] = s[L - a + j]
  BY <1>7, <1>8
<1> QED
  BY <1>2, <1>4, <1>7, <1>9, <1>10, <1>11 DEF n, a, L

\* Two stacks that agree in the m lowest places
Bottom(s, t, m) ==
    m <= Len(s) /\ m <= Len(t) /\ \A j \in 1 .. m : s[Len(s) - m + j] = t[Len(t) - m + j]

Agree(fs, gs, s, t, k) ==
    /\ Fits(fs, s) /\ Fits(gs, t) /\ k \in Nat /\ k <= Len(fs) /\ k <= Len(gs)
    /\ \A i \in 1 .. k : fs[i].n = gs[i].n
    /\ Bottom(s, t, Slots(fs, 1 .. k))

\* What frames have there is the same on both.
LEMMA SameShares ==
    ASSUME NEW fs, NEW gs, NEW s, NEW t, NEW k, Agree(fs, gs, s, t, k)
    PROVE  \A i \in 1 .. k : Share(fs, s, i) = Share(gs, t, i)
<1> TAKE i \in 1 .. k
<1>1. /\ Fits(fs, s) /\ Fits(gs, t) /\ k \in Nat /\ k <= Len(fs) /\ k <= Len(gs)
      /\ \A j \in 1 .. k : fs[j].n = gs[j].n
      /\ Bottom(s, t, Slots(fs, 1 .. k))
  BY DEF Agree
<1>2. fs \in Seq(FrameType) /\ gs \in Seq(FrameType) /\ s \in Seq(Value) /\ t \in Seq(Value)
  BY <1>1 DEF Fits
<1>3. i \in DOMAIN fs /\ i \in DOMAIN gs /\ Len(s) \in Nat /\ Len(t) \in Nat
      /\ i \in 0 .. Len(fs) /\ k \in 0 .. Len(fs) /\ i <= k /\ 1 .. k \in SUBSET DOMAIN fs
  BY <1>1, <1>2, SeqDomains
<1> DEFINE a == Slots(fs, 1 .. i)
           m == Slots(fs, 1 .. k)
           n == fs[i].n
<1>4. Slots(gs, 1 .. i) = a
  BY <1>1, <1>3, SameSlots
<1>5. a <= m /\ m \in Nat
  BY <1>2, <1>3, SlotsFacts
<1>6. /\ Share(fs, s, i) \in Seq(Value) /\ Len(Share(fs, s, i)) = n
      /\ n \in Nat /\ a \in Nat /\ a >= n
      /\ \A j \in 1 .. n : Share(fs, s, i)[j] = s[Len(s) - a + j]
  BY <1>1, <1>3, ShareFacts
<1>7. /\ Share(gs, t, i) \in Seq(Value) /\ Len(Share(gs, t, i)) = n
      /\ \A j \in 1 .. n : Share(gs, t, i)[j] = t[Len(t) - a + j]
  <2>1. gs[i].n = n
    BY <1>1
  <2>2. /\ Share(gs, t, i) \in Seq(Value) /\ Len(Share(gs, t, i)) = gs[i].n
        /\ \A j \in 1 .. gs[i].n : Share(gs, t, i)[j] = t[Len(t) - Slots(gs, 1 .. i) + j]
    BY <1>1, <1>3, ShareFacts
  <2> QED
    BY <1>4, <2>1, <2>2
<1>8. m <= Len(s) /\ m <= Len(t) /\ \A j \in 1 .. m : s[Len(s) - m + j] = t[Len(t) - m + j]
  BY <1>1 DEF Bottom
<1> HIDE DEF a, m, n
<1>9. ASSUME NEW j \in 1 .. n
      PROVE  s[Len(s) - a + j] = t[Len(t) - a + j]
  <2>1. m - a + j \in 1 .. m /\ Len(s) - m + (m - a + j) = Len(s) - a + j
        /\ Len(t) - m + (m - a + j) = Len(t) - a + j
    BY <1>3, <1>5, <1>6, SMTT(30)
  <2>2. s[Len(s) - m + (m - a + j)] = t[Len(t) - m + (m - a + j)]
    BY <1>8, <2>1
  <2> QED
    BY <2>1, <2>2
<1>10. \A j \in 1 .. Len(Share(fs, s, i)) : Share(fs, s, i)[j] = Share(gs, t, i)[j]
  BY <1>6, <1>7, <1>9
<1> QED
  BY <1>6, <1>7, <1>10, SeqEqual

-----------------------------------------------------------------------------
(* What the invariant says of an object *)

\* What frames hold can be counted.
LEMMA OwnedFacts ==
    ASSUME NEW fs, NEW s, Fits(fs, s), NEW hand \in [Address -> Nat]
    PROVE  /\ FiniteFamily(Held(fs, s)) /\ DOMAIN Held(fs, s) = DOMAIN fs
           /\ \A i \in DOMAIN fs : Held(fs, s)[i] = Has(fs, s, i) /\ Has(fs, s, i) \in Seq(Value)
           /\ \A o : Among(Held(fs, s), o) \in Nat
           /\ Owned(fs, s, hand) \in [Address -> Nat]
           /\ \A o \in Address : Owned(fs, s, hand)[o] = Among(Held(fs, s), o) + hand[o]
<1>1. DOMAIN Held(fs, s) = DOMAIN fs /\ \A i \in DOMAIN fs : Held(fs, s)[i] = Has(fs, s, i)
  BY DEF Held, Has
<1>2. ASSUME NEW i \in DOMAIN fs
      PROVE  Has(fs, s, i) \in Seq(Value) /\ IsFiniteSet(DOMAIN Has(fs, s, i))
  <2>1. Share(fs, s, i) \in Seq(Value)
    BY ShareFacts
  <2>2. fs[i].held \in Seq(Value)
    BY FramesFacts, FrameFacts DEF Fits
  <2>3. Has(fs, s, i) \in Seq(Value)
    BY <2>1, <2>2, ConcatProperties DEF Has
  <2> QED
    BY <2>3, SeqDomains
<1>3. IsFiniteSet(DOMAIN fs)
  BY SeqDomains DEF Fits
<1>4. FiniteFamily(Held(fs, s))
  BY <1>1, <1>2, <1>3 DEF FiniteFamily
<1>5. \A o : Among(Held(fs, s), o) \in Nat
  BY <1>4, AmongNat
<1> QED
  BY <1>1, <1>2, <1>4, <1>5 DEF Owned

\* The parts of the invariant
LEMMA GoodFacts ==
    ASSUME NEW h, NEW s, NEW fs, NEW hand, Good(h, s, fs, hand)
    PROVE  /\ h \in [Address -> Object] /\ DOMAIN h = Address /\ Countable(h)
           /\ Fits(fs, s) /\ hand \in [Address -> Nat]
           /\ fs \in Seq(FrameType) /\ DOMAIN fs = 1 .. Len(fs) /\ Len(fs) \in Nat
           /\ s \in Seq(Value) /\ DOMAIN s = 1 .. Len(s) /\ Len(s) \in Nat
           /\ Owned(fs, s, hand) \in [Address -> Nat]
           /\ \A o \in Address : Dead(h, o) <=> h[o].kind = "freed"
<1>1. h \in [Address -> Object] /\ Fits(fs, s) /\ hand \in [Address -> Nat]
  BY DEF Good
<1>2. fs \in Seq(FrameType) /\ s \in Seq(Value)
  BY <1>1 DEF Fits
<1>3. Owned(fs, s, hand) \in [Address -> Nat]
  BY <1>1, OwnedFacts
<1>4. \A o \in Address : o # Const
  BY AddressFacts
<1> QED
  BY <1>1, <1>2, <1>3, <1>4, HeapFacts, SeqDomains DEF Dead

\* Who has a value
InFrame(fs, s, o) == \E i \in DOMAIN fs : o \in Range(Has(fs, s, i))
InObject(h, o) == \E p \in Address : o \in Range(h[p].refs)

\* What frames have is owned.
LEMMA InFrameOwned ==
    ASSUME NEW fs, NEW s, Fits(fs, s), NEW hand \in [Address -> Nat], NEW o \in Address,
           InFrame(fs, s, o)
    PROVE  Owned(fs, s, hand)[o] > 0
<1> DEFINE F == Held(fs, s)
<1>1. FiniteFamily(F) /\ DOMAIN F = DOMAIN fs /\ \A i \in DOMAIN fs : F[i] = Has(fs, s, i)
  BY OwnedFacts
<1>2. Owned(fs, s, hand)[o] = Among(F, o) + hand[o] /\ Among(F, o) \in Nat /\ hand[o] \in Nat
  BY OwnedFacts
<1>3. Among(F, o) # 0
  BY <1>1, AmongNat DEF InFrame, Range
<1> QED
  BY <1>2, <1>3

\* What is counted is there.
LEMMA Live ==
    ASSUME NEW h, NEW s, NEW fs, NEW hand, Good(h, s, fs, hand), NEW o \in Address
    PROVE  /\ InFrame(fs, s, o) \/ hand[o] > 0 => Owned(fs, s, hand)[o] > 0
           /\ Owned(fs, s, hand)[o] > 0 \/ InObject(h, o) => h[o].kind # "freed" /\ h[o].rc > 0
<1>1. h \in [Address -> Object] /\ Fits(fs, s) /\ hand \in [Address -> Nat] /\ DOMAIN h = Address
      /\ Countable(h) /\ (Dead(h, o) <=> h[o].kind = "freed")
  BY GoodFacts
<1> DEFINE F == Held(fs, s)
           G == Refs(h)
           W == Owned(fs, s, hand)
<1>2. FiniteFamily(F) /\ DOMAIN F = DOMAIN fs /\ (\A i \in DOMAIN fs : F[i] = Has(fs, s, i))
      /\ W[o] = Among(F, o) + hand[o] /\ Among(F, o) \in Nat /\ hand[o] \in Nat
  BY <1>1, OwnedFacts
<1>3. InFrame(fs, s, o) => Among(F, o) # 0
  BY <1>2, AmongNat DEF InFrame, Range
<1>4. InFrame(fs, s, o) \/ hand[o] > 0 => W[o] > 0
  BY <1>2, <1>3
<1>5. Among(G, o) \in Nat /\ (InObject(h, o) => Among(G, o) # 0)
  BY <1>1, AmongRefsNat DEF InObject, Range
<1>6. IF Dead(h, o) THEN W[o] = 0 /\ Among(G, o) = 0 ELSE h[o].rc = W[o] + Among(G, o)
  BY <1>1 DEF Good, Counts
<1>7. W[o] \in Nat
  BY <1>2
<1> HIDE DEF F, G, W
<1>8. W[o] > 0 \/ InObject(h, o) => h[o].kind # "freed" /\ h[o].rc > 0
  BY <1>1, <1>5, <1>6, <1>7
<1> QED
  BY <1>4, <1>8 DEF W

\* The functions that frames are calls of
Called(fs) == {fs[i].fn : i \in {j \in DOMAIN fs : fs[j].fr \in {"over", "curried"}}} \ Fn

\* A frame other than "over" calls only what is held.
LEMMA CallsHeld ==
    ASSUME NEW h, NEW s, NEW fs, NEW hand, Good(h, s, fs, hand),
           NEW i \in DOMAIN fs, NEW v \in Address, Calls(h, fs, s, i, v), fs[i].fr # "over"
    PROVE  \/ InFrame(fs, s, v)
           \/ \E p \in Called(fs) : p \in Address /\ h[p].refs # <<>> /\ v = Head(h[p].refs)
<1>1. v \notin Fn /\ \A o \in Address : o \notin Fn
  BY AddressFacts
<1>2. CASE fs[i].fr = "curried"
  <2>1. v = Head(h[fs[i].fn].refs)
    BY <1>1, <1>2 DEF Calls
  <2>2. FrameOK(h, fs, s, i) /\ \A o \in Address : ObjectOK(h, o)
    BY DEF Good
  <2>3. fs[i].fn \in Address /\ h[fs[i].fn].kind = "curried"
    BY <1>2, <2>2 DEF FrameOK
  <2>4. h[fs[i].fn].refs # <<>>
    BY <2>2, <2>3 DEF ObjectOK
  <2>5. fs[i].fn \in Called(fs)
    BY <1>1, <1>2, <2>3 DEF Called
  <2> QED
    BY <2>1, <2>3, <2>4, <2>5
<1>3. CASE fs[i].fr \notin {"over", "curried"}
  <2>1. v \in Range(Has(fs, s, i))
    BY <1>1, <1>3 DEF Calls
  <2> QED
    BY <2>1 DEF InFrame
<1> QED
  BY <1>2, <1>3

\* What a frame is the call of is held, too: as long as the frames below have
\* what they have, and what they are calls of.
LEMMA CalledHeld ==
    ASSUME NEW h, NEW s, NEW fs, NEW hand, Good(h, s, fs, hand), NEW v \in Called(fs)
    PROVE  /\ v \in Address /\ h[v].kind = "curried"
           /\ \/ InFrame(fs, s, v)
              \/ \E p \in Called(fs) : p \in Address /\ h[p].refs # <<>> /\ v = Head(h[p].refs)
<1>1. PICK i \in DOMAIN fs : fs[i].fr \in {"over", "curried"} /\ v = fs[i].fn /\ v \notin Fn
  BY DEF Called
<1>2. \A j \in DOMAIN fs : FrameOK(h, fs, s, j)
  BY DEF Good
<1>3. DOMAIN fs = 1 .. Len(fs) /\ Len(fs) \in Nat
  BY GoodFacts
<1>4. i # 1 /\ i - 1 \in DOMAIN fs
  <2>1. i # 1
    BY <1>1, <1>2 DEF FrameOK
  <2> QED
    BY <1>3, <2>1
<1>5. /\ v \in Address /\ h[v].kind = "curried" /\ Calls(h, fs, s, i - 1, v)
      /\ fs[i].fr = "over" => fs[i - 1].fr # "over"
  <2>1. FrameOK(h, fs, s, i)
    BY <1>2
  <2>2. CASE fs[i].fr = "over"
    BY <1>1, <1>4, <2>1, <2>2 DEF FrameOK, Callable
  <2>3. CASE fs[i].fr = "curried"
    BY <1>1, <1>4, <2>1, <2>3 DEF FrameOK
  <2> QED
    BY <1>1, <2>2, <2>3
<1>6. CASE fs[i - 1].fr # "over"
  BY <1>4, <1>5, <1>6, CallsHeld
<1>7. CASE fs[i - 1].fr = "over"
  <2>1. v = fs[i - 1].fn
    BY <1>1, <1>5, <1>7 DEF Calls
  <2>2. i - 1 # 1 /\ i - 2 \in DOMAIN fs
    <3>1. i - 1 # 1
      BY <1>2, <1>4, <1>7 DEF FrameOK
    <3> QED
      BY <1>3, <1>4, <3>1
  <2>3. (i - 1) - 1 = i - 2
    BY <1>3
  <2>4. fs[i - 2].fr # "over" /\ Calls(h, fs, s, i - 2, v)
    <3>1. FrameOK(h, fs, s, i - 1)
      BY <1>2, <1>4
    <3> QED
      BY <1>7, <2>1, <2>2, <2>3, <3>1 DEF FrameOK
  <2> QED
    BY <1>5, <2>2, <2>4, CallsHeld
<1> QED
  BY <1>5, <1>6, <1>7

\* What is called at all is there, with a count.
LEMMA CallLives ==
    ASSUME NEW h, NEW s, NEW fs, NEW hand, Good(h, s, fs, hand),
           NEW i \in DOMAIN fs, NEW v \in Address, Calls(h, fs, s, i, v)
    PROVE  h[v].kind # "freed" /\ h[v].rc > 0
<1>1. v \notin Fn
  BY AddressFacts
<1>2. \/ InFrame(fs, s, v)
      \/ \E p \in Called(fs) : p \in Address /\ h[p].refs # <<>> /\ v = Head(h[p].refs)
  <2>1. CASE fs[i].fr # "over"
    BY <2>1, CallsHeld
  <2>2. CASE fs[i].fr = "over"
    <3>1. v \in Called(fs)
      BY <1>1, <2>2 DEF Calls, Called
    <3> QED
      BY <3>1, CalledHeld
  <2> QED
    BY <2>1, <2>2
<1>3. ASSUME NEW p \in Address, h[p].refs # <<>>, v = Head(h[p].refs)
      PROVE  InObject(h, v)
  <2>1. h[p].refs \in Seq(Value)
    BY GoodFacts, ObjectFacts
  <2>2. 1 \in DOMAIN h[p].refs /\ h[p].refs[1] = v
    BY <1>3, <2>1
  <2> QED
    BY <2>2 DEF InObject, Range
<1> QED
  BY <1>2, <1>3, Live

-----------------------------------------------------------------------------
(* Changes of the heap *)

\* An object with another count, and one that is gone
Same(h, g, o) == g[o].kind = h[o].kind /\ g[o].refs = h[o].refs /\ g[o].arity = h[o].arity
Gone(g, o) == g[o].kind = "freed" /\ g[o].refs = <<>>

Changed(h, g, s, fs, hand, w) ==
    /\ Good(h, s, fs, hand)
    /\ g \in [Address -> Object] /\ w \in [Address -> Nat] /\ Counts(g, Owned(fs, s, w))
    /\ \A o \in Address : Same(h, g, o) \/ Gone(g, o) \/ (h[o].kind = "freed" /\ ObjectOK(g, o))
    /\ \A v \in Called(fs) : g[v].kind # "freed"

\* A heap with the right counts is good if what is called is left.
LEMMA HeapChanged ==
    ASSUME NEW h, NEW g, NEW s, NEW fs, NEW hand, NEW w, Changed(h, g, s, fs, hand, w)
    PROVE  Good(g, s, fs, w)
<1>1. /\ Good(h, s, fs, hand) /\ Fits(fs, s)
      /\ g \in [Address -> Object] /\ w \in [Address -> Nat] /\ Counts(g, Owned(fs, s, w))
      /\ \A o \in Address : Same(h, g, o) \/ Gone(g, o) \/ (h[o].kind = "freed" /\ ObjectOK(g, o))
      /\ \A v \in Called(fs) : g[v].kind # "freed"
  BY GoodFacts DEF Changed
<1>2. (\A o \in Address : ObjectOK(h, o)) /\ \A i \in DOMAIN fs : FrameOK(h, fs, s, i)
  BY <1>1 DEF Good
<1>3. DOMAIN g = Address /\ Countable(g) /\ Owned(fs, s, w) \in [Address -> Nat]
      /\ \A o \in Address : o # Const
  BY <1>1, HeapFacts, OwnedFacts, AddressFacts
<1>4. ASSUME NEW o \in Address, NEW p \in Address, g[p].refs # <<>>, o = Head(g[p].refs)
      PROVE  g[o].kind # "freed"
  <2>1. g[p].refs \in Seq(Value)
    BY <1>1, HeapFacts, ObjectFacts
  <2>2. 1 \in DOMAIN g[p].refs /\ g[p].refs[1] = o
    BY <1>4, <2>1
  <2>3. Among(Refs(g), o) # 0
    BY <1>3, <2>2, AmongRefsNat
  <2> QED
    BY <1>1, <1>3, <2>3 DEF Counts, Dead
<1>5. ASSUME NEW o \in Address
      PROVE  ObjectOK(g, o)
  <2>1. CASE Same(h, g, o)
    <3>1. ObjectOK(h, o)
      BY <1>2
    <3>2. /\ g[o].kind = "freed" => g[o].refs = <<>>
          /\ g[o].kind = "curried" => g[o].arity > 0 /\ g[o].refs # <<>> /\ Callable(h, Head(g[o].refs))
      BY <2>1, <3>1 DEF ObjectOK, Same
    <3>3. ASSUME g[o].kind = "curried"
          PROVE  Callable(g, Head(g[o].refs))
      <4> DEFINE v == Head(g[o].refs)
      <4>1. Callable(h, v) /\ g[o].refs # <<>>
        BY <3>2, <3>3
      <4> HIDE DEF v
      <4>2. CASE v \in Fn
        BY <4>2 DEF Callable, v
      <4>3. CASE v \in Address /\ h[v].kind = "curried"
        <5>1. g[v].kind # "freed"
          BY <1>4, <4>1, <4>3 DEF v
        <5>2. g[v].kind = "curried"
          BY <1>1, <4>3, <5>1 DEF Same, Gone
        <5> QED
          BY <4>3, <5>2 DEF Callable, v
      <4> QED
        BY <4>1, <4>2, <4>3 DEF Callable
    <3> QED
      BY <3>2, <3>3 DEF ObjectOK
  <2>2. CASE Gone(g, o)
    BY <2>2 DEF Gone, ObjectOK
  <2> QED
    BY <1>1, <2>1, <2>2
<1>6. ASSUME NEW v \in Called(fs)
      PROVE  v \in Address /\ Same(h, g, v)
  BY <1>1, CalledHeld DEF Gone
<1>7. ASSUME NEW i \in DOMAIN fs
      PROVE  FrameOK(g, fs, s, i)
  <2>1. FrameOK(h, fs, s, i)
    BY <1>2
  <2>2. CASE i = 1
    BY <2>1, <2>2 DEF FrameOK
  <2>3. CASE i # 1
    <3>1. /\ fs[i].fr = "body" => fs[i].fn \in Fn /\ (fs[i].fn \in Islam => fs[i].n = 0)
          /\ fs[i].fr = "again" => fs[i].n = 0 /\ fs[i].held = <<fs[i].fn>>
          /\ fs[i].fr = "over" => /\ fs[i].held = <<>> /\ Callable(h, fs[i].fn)
                                  /\ fs[i - 1].fr # "over" /\ Calls(h, fs, s, i - 1, fs[i].fn)
          /\ fs[i].fr = "curried" => /\ fs[i].n = 0 /\ fs[i].held = <<>> /\ fs[i].fn \in Address
                                     /\ h[fs[i].fn].kind = "curried" /\ Calls(h, fs, s, i - 1, fs[i].fn)
      BY <2>1, <2>3 DEF FrameOK
    <3>2. i - 1 \in DOMAIN fs
      BY <1>1, <2>3, FramesFacts DEF Fits
    <3>3. ASSUME NEW v, Calls(h, fs, s, i - 1, v)
          PROVE  Calls(g, fs, s, i - 1, v)
      <4>1. CASE fs[i - 1].fr = "curried"
        <5>1. fs[i - 1].fn \in Address
          BY <1>2, <3>2, <4>1 DEF FrameOK
        <5>2. fs[i - 1].fn \in Called(fs)
          BY <3>2, <4>1, <5>1, AddressFacts DEF Called
        <5>3. g[fs[i - 1].fn].refs = h[fs[i - 1].fn].refs
          BY <1>6, <5>2 DEF Same
        <5> QED
          BY <3>3, <5>3 DEF Calls
      <4>2. CASE fs[i - 1].fr # "curried"
        BY <3>3, <4>2 DEF Calls
      <4> QED
        BY <4>1, <4>2
    <3>4. fs[i].fr \in {"over", "curried"} /\ fs[i].fn \notin Fn =>
            fs[i].fn \in Address /\ g[fs[i].fn].kind = h[fs[i].fn].kind
      BY <1>6 DEF Called, Same
    <3>5. fs[i].fr = "over" => Callable(g, fs[i].fn)
      BY <3>1, <3>4 DEF Callable
    <3>6. fs[i].fr = "curried" => g[fs[i].fn].kind = "curried"
      BY <3>1, <3>4, AddressFacts
    <3> QED
      BY <2>3, <3>1, <3>3, <3>5, <3>6 DEF FrameOK
  <2> QED
    BY <2>2, <2>3
<1> QED
  BY <1>1, <1>5, <1>7 DEF Good

\* A count replaced
LEMMA RcEdit ==
    \A x \in Object : \A n \in Nat : \A y : y = [x EXCEPT !.rc = n] =>
        y \in Object /\ y.rc = n /\ y.kind = x.kind /\ y.refs = x.refs /\ y.arity = x.arity
BY DEF Object

\* References that are put into hand or out of it
LEMMA MoreFacts ==
    ASSUME NEW fs, NEW s, Fits(fs, s), NEW hand \in [Address -> Nat], NEW os, IsFiniteSet(DOMAIN os)
    PROVE  /\ More(hand, os) \in [Address -> Nat]
           /\ \A o \in Address : More(hand, os)[o] = hand[o] + Occurs(os, o)
           /\ Owned(fs, s, More(hand, os)) = More(Owned(fs, s, hand), os)
           /\ \A o \in Address : Owned(fs, s, More(hand, os))[o] = Owned(fs, s, hand)[o] + Occurs(os, o)
<1>1. \A o : Occurs(os, o) \in Nat
  BY OccursNat
<1>2. DOMAIN hand = Address
  OBVIOUS
<1>3. More(hand, os) \in [Address -> Nat] /\ \A o \in Address : More(hand, os)[o] = hand[o] + Occurs(os, o)
  BY <1>1, <1>2 DEF More
<1>4. /\ Owned(fs, s, hand) \in [Address -> Nat] /\ Owned(fs, s, More(hand, os)) \in [Address -> Nat]
      /\ \A o \in Address : /\ Owned(fs, s, hand)[o] = Among(Held(fs, s), o) + hand[o]
                            /\ Owned(fs, s, More(hand, os))[o] = Among(Held(fs, s), o) + More(hand, os)[o]
                            /\ Among(Held(fs, s), o) \in Nat
  <2>1. More(hand, os) \in [Address -> Nat]
    BY <1>3
  <2>2. /\ Owned(fs, s, More(hand, os)) \in [Address -> Nat]
        /\ \A o \in Address : Owned(fs, s, More(hand, os))[o] = Among(Held(fs, s), o) + More(hand, os)[o]
    BY <2>1, OwnedFacts
  <2>3. /\ Owned(fs, s, hand) \in [Address -> Nat]
        /\ \A o \in Address : Owned(fs, s, hand)[o] = Among(Held(fs, s), o) + hand[o]
        /\ \A o : Among(Held(fs, s), o) \in Nat
    BY OwnedFacts
  <2> QED
    BY <2>2, <2>3
<1>5. \A o \in Address : Owned(fs, s, More(hand, os))[o] = Owned(fs, s, hand)[o] + Occurs(os, o)
  BY <1>1, <1>3, <1>4
<1>6. Owned(fs, s, More(hand, os)) = More(Owned(fs, s, hand), os)
  BY <1>1, <1>4, <1>5 DEF More
<1> QED
  BY <1>3, <1>5, <1>6

\* eth_ref of what is there: it is in hand then.
LEMMA Took ==
    ASSUME NEW h, NEW s, NEW fs, NEW hand, Good(h, s, fs, hand), NEW os, IsFiniteSet(DOMAIN os),
           \A i \in DOMAIN os : Exists(h, os[i])
    PROVE  /\ Good(IncAll(h, os), s, fs, More(hand, os))
           /\ \A o \in Address : Same(h, IncAll(h, os), o)
           /\ \A Z : CountedBut(h, Z) => CountedBut(IncAll(h, os), Z \ Range(os))
<1> DEFINE g == IncAll(h, os)
           W == Owned(fs, s, hand)
<1>1. h \in [Address -> Object] /\ DOMAIN h = Address /\ Countable(h) /\ Fits(fs, s)
      /\ hand \in [Address -> Nat] /\ W \in [Address -> Nat] /\ Counts(h, W)
      /\ \A o \in Address : Dead(h, o) <=> h[o].kind = "freed"
  BY GoodFacts DEF Good
<1>2. \A o : Occurs(os, o) \in Nat /\ (Occurs(os, o) = 0 <=> \A i \in DOMAIN os : os[i] # o)
  BY OccursNat
<1>3. DOMAIN g = Address /\ \A o \in Address : g[o] = [h[o] EXCEPT !.rc = h[o].rc + Occurs(os, o)]
  BY <1>1 DEF IncAll
<1>4. ASSUME NEW o \in Address
      PROVE  g[o] \in Object /\ Same(h, g, o) /\ g[o].rc = h[o].rc + Occurs(os, o)
  <2>1. h[o] \in Object /\ h[o].rc + Occurs(os, o) \in Nat
    BY <1>1, <1>2, ObjectFacts
  <2> QED
    BY <1>3, <2>1, RcEdit DEF Same
<1>5. g \in [Address -> Object]
  <2>1. g = [o \in Address |-> g[o]]
    BY <1>1 DEF IncAll
  <2> QED
    BY <1>4, <2>1
<1>6. \A o \in Address : Dead(h, o) => Occurs(os, o) = 0
  <2> SUFFICES ASSUME NEW o \in Address, h[o].kind = "freed", NEW i \in DOMAIN os, os[i] = o
               PROVE  FALSE
    BY <1>1, <1>2
  <2>1. Exists(h, o)
    BY Zenon
  <2> QED
    BY <2>1, AddressFacts DEF Exists
<1>7. Counts(g, More(W, os))
  BY <1>1, <1>6, IncAllCounts
<1>8. More(hand, os) \in [Address -> Nat] /\ Counts(g, Owned(fs, s, More(hand, os)))
  BY <1>1, <1>7, MoreFacts
<1>9. \A v \in Called(fs) : g[v].kind # "freed"
  BY <1>4, CalledHeld DEF Same
<1>10. Changed(h, g, s, fs, hand, More(hand, os))
  BY <1>4, <1>5, <1>8, <1>9 DEF Changed
<1>11. ASSUME NEW Z, CountedBut(h, Z)
       PROVE  CountedBut(g, Z \ Range(os))
  <2> SUFFICES ASSUME NEW o \in Address, g[o].kind # "freed", g[o].rc = 0
               PROVE  o \in Z \ Range(os)
    BY DEF CountedBut
  <2>1. h[o].kind # "freed" /\ h[o].rc \in Nat /\ g[o].rc = h[o].rc + Occurs(os, o)
    BY <1>1, <1>4, ObjectFacts DEF Same
  <2>2. h[o].rc = 0 /\ Occurs(os, o) = 0
    BY <1>2, <2>1
  <2> QED
    BY <1>2, <1>11, <2>1, <2>2 DEF CountedBut, Range
<1> QED
  BY <1>4, <1>10, <1>11, HeapChanged

\* Counts that go down with what was in hand.
LEMMA Lowered ==
    ASSUME NEW h, NEW s, NEW fs, NEW hand \in [Address -> Nat], NEW os, IsFiniteSet(DOMAIN os),
           Good(h, s, fs, More(hand, os))
    PROVE  /\ Good(DecAll(h, os), s, fs, hand)
           /\ \A o \in Address : Same(h, DecAll(h, os), o)
           /\ \A Z : CountedBut(h, Z) => CountedBut(DecAll(h, os), Z \union Range(os))
<1> DEFINE g == DecAll(h, os)
           W == Owned(fs, s, hand)
<1>1. h \in [Address -> Object] /\ DOMAIN h = Address /\ Countable(h) /\ Fits(fs, s)
      /\ Counts(h, Owned(fs, s, More(hand, os)))
      /\ \A o \in Address : Dead(h, o) <=> h[o].kind = "freed"
  BY GoodFacts DEF Good
<1>2. \A o : Occurs(os, o) \in Nat /\ (Occurs(os, o) = 0 <=> \A i \in DOMAIN os : os[i] # o)
  BY OccursNat
<1>3. /\ W \in [Address -> Nat]
      /\ \A o \in Address : Owned(fs, s, More(hand, os))[o] = W[o] + Occurs(os, o)
  <2>1. Fits(fs, s)
    BY <1>1
  <2> QED
    BY <2>1, OwnedFacts, MoreFacts, SMTT(30)
<1>4. \A o : Among(Refs(h), o) \in Nat
  BY <1>1, AmongRefsNat
<1>5. ASSUME NEW o \in Address
      PROVE  /\ IF Dead(h, o) THEN W[o] = 0 /\ Among(Refs(h), o) = 0 /\ Occurs(os, o) = 0
                ELSE h[o].rc = (W[o] + Occurs(os, o)) + Among(Refs(h), o)
             /\ h[o].rc - Occurs(os, o) \in Nat
  <2>1. IF Dead(h, o) THEN W[o] + Occurs(os, o) = 0 /\ Among(Refs(h), o) = 0
        ELSE h[o].rc = (W[o] + Occurs(os, o)) + Among(Refs(h), o)
    BY <1>1, <1>3 DEF Counts
  <2>2. h[o].rc \in Nat /\ W[o] \in Nat
    BY <1>1, <1>3, ObjectFacts
  <2> QED
    BY <1>2, <1>4, <2>1, <2>2
<1>6. DOMAIN g = Address /\ \A o \in Address : g[o] = [h[o] EXCEPT !.rc = h[o].rc - Occurs(os, o)]
  BY <1>1 DEF DecAll
<1>7. ASSUME NEW o \in Address
      PROVE  g[o] \in Object /\ Same(h, g, o) /\ g[o].rc = h[o].rc - Occurs(os, o)
  <2>1. h[o] \in Object /\ h[o].rc - Occurs(os, o) \in Nat
    BY <1>1, <1>5
  <2> QED
    BY <1>6, <2>1, RcEdit DEF Same
<1>8. g \in [Address -> Object]
  <2>1. g = [o \in Address |-> g[o]]
    BY <1>1 DEF DecAll
  <2> QED
    BY <1>7, <2>1
<1>9. Refs(g) = Refs(h)
  BY <1>1, <1>6, <1>7 DEF Refs, Same
<1>10. ASSUME NEW o \in Address
       PROVE  IF Dead(g, o) THEN W[o] = 0 /\ Among(Refs(g), o) = 0 ELSE g[o].rc = W[o] + Among(Refs(g), o)
  <2>1. Dead(g, o) = Dead(h, o) /\ g[o].rc = h[o].rc - Occurs(os, o)
    BY <1>7 DEF Dead, Same
  <2>2. W[o] \in Nat
    BY <1>3
  <2> QED
    BY <1>2, <1>4, <1>5, <1>9, <2>1, <2>2
<1>11. Counts(g, W)
  BY <1>6, <1>10 DEF Counts
<1>12. \A v \in Called(fs) : g[v].kind # "freed"
  BY <1>7, CalledHeld DEF Same
<1>13. Changed(h, g, s, fs, More(hand, os), hand)
  BY <1>7, <1>8, <1>11, <1>12 DEF Changed
<1>14. ASSUME NEW Z, CountedBut(h, Z)
       PROVE  CountedBut(g, Z \union Range(os))
  <2> SUFFICES ASSUME NEW o \in Address, g[o].kind # "freed", g[o].rc = 0, o \notin Range(os)
               PROVE  o \in Z
    BY DEF CountedBut
  <2>1. h[o].kind # "freed" /\ h[o].rc \in Nat /\ g[o].rc = h[o].rc - Occurs(os, o)
    BY <1>1, <1>7, ObjectFacts DEF Same
  <2>2. Occurs(os, o) = 0
    BY <1>2 DEF Range
  <2> QED
    BY <1>14, <2>1, <2>2 DEF CountedBut
<1> QED
  BY <1>7, <1>13, <1>14, HeapChanged

\* UnrefAll, object by object.
LEMMA UnrefFields ==
    ASSUME NEW h \in [Address -> Object], NEW os, IsFiniteSet(DOMAIN os),
           NEW S \in [Address -> Nat], Counts(h, More(S, os)), \A o \in Address : ObjectOK(h, o),
           NEW g, g = UnrefAll(h, os)
    PROVE  /\ g \in [Address -> Object] /\ Counts(g, S)
           /\ \A o \in Address : Same(h, g, o) \/ Gone(g, o)
           /\ \A o \in Address : o \notin Deleted(h, os) /\ h[o].kind # "freed" => Same(h, g, o)
           /\ \A o \in Address : g[o].kind # "freed" /\ h[o].rc > 0 => g[o].rc > 0
<1> DEFINE r == Release(h, os)
           D == Deleted(h, os)
<1>1. DOMAIN h = Address /\ Countable(h) /\ DOMAIN S = Address /\ \A o \in Address : o # Const
  BY HeapFacts, AddressFacts
<1>2. DOMAIN g = Address /\ \A o \in Address : g[o] = IF Dead(r, o) THEN Nothing ELSE r[o]
  BY <1>1 DEF UnrefAll
<1>3. /\ Countable(r) /\ DOMAIN r = Address
      /\ \A o \in D : r[o].kind = "freed" /\ r[o].refs = <<>>
      /\ \A o \in Address \ D : r[o].kind = h[o].kind /\ r[o].refs = h[o].refs
  BY <1>1, ReleaseFields
<1>4. /\ Counts(r, S)
      /\ \A o \in Address : ~Dead(r, o) /\ h[o].rc > 0 => r[o].rc > 0
  BY <1>1, ReleaseCounts
<1>5. \A o : Among(Refs(r), o) \in Nat
  BY <1>3, AmongRefsNat
<1>6. Nothing \in Object /\ Nothing.kind = "freed" /\ Nothing.refs = <<>> /\ Nothing.arity = 0
      /\ Nothing.rc = 0
  <2>1. <<>> \in Seq(Value)
    BY EmptySeq
  <2> QED
    BY <2>1 DEF Nothing, Object
<1>7. ASSUME NEW o \in Address, Dead(r, o)
      PROVE  /\ g[o] \in Object /\ Gone(g, o) /\ r[o].refs = <<>>
             /\ o \notin D => Same(h, g, o) \/ h[o].kind = "freed"
  <2>1. g[o] = Nothing
    BY <1>2, <1>7
  <2>2. r[o].kind = "freed"
    BY <1>1, <1>7 DEF Dead
  <2>3. r[o].refs = <<>>
    <3>1. CASE o \in D
      BY <1>3, <3>1
    <3>2. CASE o \notin D
      <4>1. ObjectOK(h, o) /\ h[o].kind = "freed" /\ r[o].refs = h[o].refs
        BY <1>3, <2>2, <3>2
      <4> QED
        BY <4>1 DEF ObjectOK
    <3> QED
      BY <3>1, <3>2
  <2> QED
    BY <1>3, <1>6, <2>1, <2>2, <2>3 DEF Gone
<1>8. ASSUME NEW o \in Address, ~Dead(r, o)
      PROVE  g[o] \in Object /\ Same(h, g, o) /\ g[o] = r[o] /\ o \notin D /\ h[o].kind # "freed"
  <2>1. g[o] = r[o] /\ r[o].kind # "freed"
    BY <1>1, <1>2, <1>8 DEF Dead
  <2>2. o \notin D
    BY <1>3, <2>1
  <2>3. h[o].kind # "freed"
    BY <1>3, <2>1, <2>2
  <2>4. r[o] = [h[o] EXCEPT !.rc = h[o].rc - GivenUp(h, os, D, o)]
    <3>1. r[o] = IF o \in D THEN [h[o] EXCEPT !.rc = 0, !.kind = "freed", !.refs = <<>>]
                 ELSE IF Dead(h, o) THEN h[o]
                 ELSE [h[o] EXCEPT !.rc = h[o].rc - GivenUp(h, os, D, o)]
      BY <1>1 DEF Release
    <3>2. ~Dead(h, o)
      BY <2>3 DEF Dead
    <3> HIDE DEF r, D
    <3> QED
      BY <2>2, <3>1, <3>2
  <2>5. h[o].rc - GivenUp(h, os, D, o) \in Nat
    <3>1. h[o].rc - GivenUp(h, os, D, o) = r[o].rc
      <4>1. r[o].rc = IF Dead(h, o) THEN h[o].rc ELSE h[o].rc - GivenUp(h, os, D, o)
        BY <1>1, <2>2, ReleaseFields
      <4> QED
        BY <2>3, <4>1 DEF Dead
    <3>2. r[o].rc = S[o] + Among(Refs(r), o) /\ S[o] \in Nat
      BY <1>3, <1>4, <1>8 DEF Counts
    <3> QED
      BY <1>5, <3>1, <3>2
  <2>6. h[o] \in Object
    OBVIOUS
  <2>7. r[o] \in Object /\ r[o].kind = h[o].kind /\ r[o].refs = h[o].refs /\ r[o].arity = h[o].arity
    <3> HIDE DEF r, D
    <3> QED
      BY <2>4, <2>5, <2>6, RcEdit
  <2> QED
    BY <2>1, <2>2, <2>3, <2>7 DEF Same

<1> HIDE DEF r, D
<1>10. g \in [Address -> Object]
  <2>1. g = [o \in Address |-> g[o]]
    BY <1>1 DEF UnrefAll
  <2> QED
    BY <1>7, <1>8, <2>1
<1>11. Refs(g) = Refs(r) /\ \A o \in Address : Dead(g, o) <=> Dead(r, o)
  <2>1. \A o \in Address : g[o].refs = r[o].refs /\ (Dead(g, o) <=> Dead(r, o))
    BY <1>1, <1>7, <1>8 DEF Gone, Dead
  <2> QED
    BY <1>2, <1>3, <2>1 DEF Refs
<1>12. Counts(g, S)
  <2>1. \A o \in Address : IF Dead(r, o) THEN S[o] = 0 /\ Among(Refs(r), o) = 0
                           ELSE r[o].rc = S[o] + Among(Refs(r), o)
    BY <1>3, <1>4 DEF Counts
  <2>2. \A o \in Address : ~Dead(r, o) => g[o].rc = r[o].rc
    BY <1>8
  <2> QED
    BY <1>2, <1>11, <2>1, <2>2 DEF Counts
<1>13. \A o \in Address : g[o].kind # "freed" /\ h[o].rc > 0 => g[o].rc > 0
  BY <1>4, <1>7, <1>8 DEF Gone
<1> QED
  BY <1>7, <1>8, <1>10, <1>12, <1>13 DEF D


\* eth_unref of what was in hand.
LEMMA Gave ==
    ASSUME NEW h, NEW s, NEW fs, NEW hand \in [Address -> Nat], NEW os, IsFiniteSet(DOMAIN os),
           Good(h, s, fs, More(hand, os))
    PROVE  /\ Good(UnrefAll(h, os), s, fs, hand)
           /\ \A o \in Address : Same(h, UnrefAll(h, os), o) \/ Gone(UnrefAll(h, os), o)
           /\ \A Z : CountedBut(h, Z) => CountedBut(UnrefAll(h, os), Z)
<1> DEFINE g == UnrefAll(h, os)
           W == Owned(fs, s, hand)
           B == Called(fs)
<1>1. /\ h \in [Address -> Object] /\ DOMAIN h = Address /\ Countable(h) /\ Fits(fs, s)
      /\ Counts(h, Owned(fs, s, More(hand, os))) /\ \A o \in Address : ObjectOK(h, o)
  BY GoodFacts DEF Good
<1>2. W \in [Address -> Nat] /\ Counts(h, More(W, os))
  <2>1. Fits(fs, s) /\ Counts(h, Owned(fs, s, More(hand, os)))
    BY <1>1
  <2> QED
    BY <2>1, OwnedFacts, MoreFacts
<1>3. \A o \in B : o \in Address /\ h[o].kind = "curried"
  BY CalledHeld
<1>4. ASSUME NEW o \in B
      PROVE  W[o] > 0 \/ \E p \in B : \E i \in DOMAIN h[p].refs : h[p].refs[i] = o
  <2>1. \/ InFrame(fs, s, o)
        \/ \E p \in B : p \in Address /\ h[p].refs # <<>> /\ o = Head(h[p].refs)
    BY CalledHeld
  <2>2. CASE InFrame(fs, s, o)
    BY <1>1, <1>3, <2>2, InFrameOwned
  <2>3. ASSUME NEW p \in B, p \in Address, h[p].refs # <<>>, o = Head(h[p].refs)
        PROVE  1 \in DOMAIN h[p].refs /\ h[p].refs[1] = o
    <3>1. h[p].refs \in Seq(Value)
      BY <1>1, <2>3, ObjectFacts
    <3> QED
      BY <2>3, <3>1
  <2> QED
    BY <2>1, <2>2, <2>3
<1>5. \A o \in B : o \notin Deleted(h, os)
  <2>1. B \in SUBSET DOMAIN h
    BY <1>1, <1>3
  <2> HIDE DEF B, W
  <2>2. W \in [DOMAIN h -> Nat]
    BY <1>1, <1>2
  <2> QED
    BY <1>1, <1>2, <1>4, <2>1, <2>2, Protected
<1>6. /\ g \in [Address -> Object] /\ Counts(g, W)
      /\ \A o \in Address : Same(h, g, o) \/ Gone(g, o)
      /\ \A o \in Address : o \notin Deleted(h, os) /\ h[o].kind # "freed" => Same(h, g, o)
      /\ \A o \in Address : g[o].kind # "freed" /\ h[o].rc > 0 => g[o].rc > 0
  <2> HIDE DEF W
  <2> QED
    BY <1>1, <1>2, UnrefFields
<1> HIDE DEF g
<1>7. \A v \in Called(fs) : g[v].kind # "freed"
  BY <1>3, <1>5, <1>6 DEF Same
<1>8. Changed(h, g, s, fs, More(hand, os), hand)
  BY <1>6, <1>7 DEF Changed
<1>9. ASSUME NEW Z, CountedBut(h, Z)
      PROVE  CountedBut(g, Z)
  <2> SUFFICES ASSUME NEW o \in Address, g[o].kind # "freed", g[o].rc = 0
               PROVE  o \in Z
    BY DEF CountedBut
  <2>1. h[o].kind # "freed" /\ h[o].rc \in Nat
    BY <1>1, <1>6, ObjectFacts DEF Same, Gone
  <2>2. h[o].rc = 0
    BY <1>6, <2>1
  <2> QED
    BY <1>9, <2>1, <2>2 DEF CountedBut
<1> QED
  BY <1>6, <1>8, <1>9, HeapChanged DEF g

\* A new object in a place without one
HeapFilled(h, g, a, S, T) ==
    /\ Countable(h) /\ Countable(g) /\ a \in DOMAIN h /\ DOMAIN g = DOMAIN h
    /\ \A o \in DOMAIN h \ {a} : g[o] = h[o]
    /\ Dead(h, a) /\ h[a].refs = <<>> /\ g[a].kind # "freed" /\ g[a].rc = 0
    /\ S \in [DOMAIN h -> Nat] /\ Counts(h, S) /\ T \in [DOMAIN h -> Nat]
    /\ \A o \in DOMAIN h : S[o] = T[o] + Occurs(g[a].refs, o)

\* A new object takes over the references to what it refers to.
LEMMA FillCounts ==
    ASSUME NEW h, NEW g, NEW a, NEW S, NEW T, HeapFilled(h, g, a, S, T)
    PROVE  Counts(g, T)
<1> USE DEF HeapFilled
<1> DEFINE F == Refs(h)
           G == Refs(g)
<1>1. /\ FiniteFamily(F) /\ FiniteFamily(G) /\ DOMAIN F = DOMAIN h /\ DOMAIN G = DOMAIN F
      /\ \A q \in DOMAIN F \ {a} : G[q] = F[q]
      /\ F[a] = <<>> /\ G[a] = g[a].refs
  <2>1. FiniteFamily(F) /\ FiniteFamily(G) /\ DOMAIN F = DOMAIN h /\ DOMAIN G = DOMAIN g
    BY RefsFinite
  <2>2. \A q \in DOMAIN h : F[q] = h[q].refs /\ G[q] = g[q].refs
    BY DEF Refs
  <2> QED
    BY <2>1, <2>2
<1> HIDE DEF F, G
<1>2. ASSUME NEW o \in DOMAIN h
      PROVE  IF Dead(g, o) THEN T[o] = 0 /\ Among(G, o) = 0 ELSE g[o].rc = T[o] + Among(G, o)
  <2>1. Among(G, o) = Among(F, o) - Occurs(<<>>, o) + Occurs(g[a].refs, o)
    BY <1>1, AmongEdit
  <2>2. Among(F, o) \in Nat /\ Among(G, o) \in Nat /\ Occurs(<<>>, o) = 0
    BY <1>1, AmongNat, OccursEmpty
  <2>3. Occurs(g[a].refs, o) \in Nat
    BY OccursNat DEF Countable
  <2>4. IF Dead(h, o) THEN S[o] = 0 /\ Among(F, o) = 0 ELSE h[o].rc = S[o] + Among(F, o)
    BY DEF Counts, F
  <2>5. S[o] = T[o] + Occurs(g[a].refs, o) /\ S[o] \in Nat /\ T[o] \in Nat
    OBVIOUS
  <2>6. CASE o = a
    <3>1. ~Dead(g, o) /\ g[o].rc = 0 /\ Dead(h, o)
      BY <2>6 DEF Dead
    <3> QED
      BY <2>1, <2>2, <2>3, <2>4, <2>5, <3>1
  <2>7. CASE o # a
    <3>1. Dead(g, o) = Dead(h, o) /\ g[o] = h[o]
      BY <2>7 DEF Dead
    <3> QED
      BY <2>1, <2>2, <2>3, <2>4, <2>5, <3>1
  <2> QED
    BY <2>6, <2>7
<1> QED
  BY <1>2 DEF Counts, G

\* There is a first place without an object, if there is one at all.
LEMMA FreshFacts ==
    ASSUME NEW h, Free(h) # {}
    PROVE  Fresh(h) \in Address /\ h[Fresh(h)].kind = "freed"
<1>1. Free(h) \in SUBSET Nat
  BY AddressFacts DEF Free
<1>2. \E a \in Free(h) : \A b \in Free(h) : a <= b
  BY <1>1, SmallestNumber
<1>3. Fresh(h) \in Free(h)
  BY <1>2 DEF Fresh
<1> QED
  BY <1>3 DEF Free

NewObject(h, x) ==
    /\ x \in Object /\ x.rc = 0 /\ x.kind # "freed"
    /\ x.kind = "curried" => x.arity > 0 /\ x.refs # <<>> /\ Callable(h, Head(x.refs))

\* A new object gets references that were in hand.
Makes(h, g, s, fs, hand, x) ==
    /\ g = With(h, x) /\ Free(h) # {} /\ NewObject(h, x)
    /\ hand \in [Address -> Nat] /\ Good(h, s, fs, More(hand, x.refs))

LEMMA Filled ==
    ASSUME NEW h, NEW g, NEW s, NEW fs, NEW hand, NEW x, Makes(h, g, s, fs, hand, x)
    PROVE  /\ Good(g, s, fs, hand)
           /\ Fresh(h) \in Address /\ h[Fresh(h)].kind = "freed" /\ g[Fresh(h)] = x
           /\ \A o \in Address \ {Fresh(h)} : g[o] = h[o]
           /\ \A Z : CountedBut(h, Z) => CountedBut(g, Z \union {Fresh(h)})
<1> DEFINE a == Fresh(h)
           W == Owned(fs, s, hand)
<1> USE DEF Makes
<1>1. a \in Address /\ h[a].kind = "freed"
  BY FreshFacts
<1>2. /\ h \in [Address -> Object] /\ DOMAIN h = Address /\ Countable(h) /\ Fits(fs, s)
      /\ Counts(h, Owned(fs, s, More(hand, x.refs))) /\ \A o \in Address : ObjectOK(h, o)
  BY GoodFacts DEF Good
<1>3. x \in Object /\ x.rc = 0 /\ x.kind # "freed"
      /\ (x.kind = "curried" => x.arity > 0 /\ x.refs # <<>> /\ Callable(h, Head(x.refs)))
  BY DEF NewObject
<1>4. g \in [Address -> Object] /\ g[a] = x /\ \A o \in Address \ {a} : g[o] = h[o]
  BY <1>1, <1>2, <1>3 DEF With
<1>5. IsFiniteSet(DOMAIN x.refs)
  BY <1>3, ObjectFacts
<1>6. /\ W \in [Address -> Nat] /\ Owned(fs, s, More(hand, x.refs)) \in [Address -> Nat]
      /\ \A o \in Address : Owned(fs, s, More(hand, x.refs))[o] = W[o] + Occurs(x.refs, o)
  <2>1. More(hand, x.refs) \in [Address -> Nat]
    BY <1>2, <1>5, MoreFacts
  <2>2. Owned(fs, s, More(hand, x.refs)) \in [Address -> Nat]
    BY <1>2, <2>1, OwnedFacts
  <2>3. W \in [Address -> Nat]
    BY <1>2, OwnedFacts
  <2> QED
    BY <1>2, <1>5, <2>2, <2>3, MoreFacts
<1> HIDE DEF W, a
<1>7. HeapFilled(h, g, a, Owned(fs, s, More(hand, x.refs)), W)
  <2>1. Countable(g) /\ DOMAIN g = Address
    BY <1>4, HeapFacts
  <2>2. Dead(h, a) /\ h[a].refs = <<>>
    <3>1. ObjectOK(h, a)
      BY <1>1, <1>2
    <3> QED
      BY <1>1, <3>1, AddressFacts DEF Dead, ObjectOK
  <2> HIDE DEF W
  <2> QED
    BY <1>1, <1>2, <1>3, <1>4, <1>6, <2>1, <2>2 DEF HeapFilled
<1>8. Counts(g, W)
  BY <1>7, FillCounts
<1>9. ObjectOK(g, a)
  <2>1. ASSUME x.kind = "curried"
        PROVE  Callable(g, Head(x.refs))
    <3>1. Callable(h, Head(x.refs))
      BY <1>3, <2>1
    <3> QED
      BY <1>1, <1>4, <3>1 DEF Callable
  <2> QED
    BY <1>3, <1>4, <2>1 DEF ObjectOK
<1>10. \A v \in Called(fs) : g[v].kind # "freed"
  <2>1. \A v \in Called(fs) : v \in Address /\ h[v].kind = "curried"
    BY CalledHeld
  <2> QED
    BY <1>1, <1>4, <2>1
<1>11. \A o \in Address : Same(h, g, o) \/ (h[o].kind = "freed" /\ ObjectOK(g, o))
  BY <1>1, <1>4, <1>9 DEF Same
<1>12. Changed(h, g, s, fs, More(hand, x.refs), hand)
  <2>1. Good(h, s, fs, More(hand, x.refs)) /\ hand \in [Address -> Nat]
    OBVIOUS
  <2>2. Counts(g, Owned(fs, s, hand))
    BY <1>8 DEF W
  <2> QED
    BY <1>4, <1>10, <1>11, <2>1, <2>2 DEF Changed
<1>13. ASSUME NEW Z, CountedBut(h, Z)
       PROVE  CountedBut(g, Z \union {a})
  BY <1>4, <1>13 DEF CountedBut
<1> QED
  BY <1>1, <1>4, <1>12, <1>13, HeapChanged DEF a

-----------------------------------------------------------------------------
(* Changes of the frames and of the stack *)

\* The first k frames of two sequences are the same, and so is what they have.
Alike(fs, gs, s, t, k) == Agree(fs, gs, s, t, k) /\ \A i \in 1 .. k : fs[i] = gs[i]

LEMMA SameFrames ==
    ASSUME NEW fs, NEW gs, NEW s, NEW t, NEW k, Alike(fs, gs, s, t, k), NEW h, NEW i \in 1 .. k
    PROVE  /\ Has(fs, s, i) = Has(gs, t, i)
           /\ \A v : Calls(h, fs, s, i, v) => Calls(h, gs, t, i, v)
           /\ FrameOK(h, fs, s, i) => FrameOK(h, gs, t, i)
<1>1. \A j \in 1 .. k : fs[j] = gs[j] /\ Share(fs, s, j) = Share(gs, t, j)
  BY SameShares DEF Alike
<1>2. k \in Nat
  BY DEF Alike, Agree
<1>3. \A j \in 1 .. k : Has(fs, s, j) = Has(gs, t, j)
  BY <1>1 DEF Has
<1>4. \A j \in 1 .. k : \A v : Calls(h, fs, s, j, v) => Calls(h, gs, t, j, v)
  BY <1>1, <1>3 DEF Calls
<1>5. CASE i = 1
  <2>1. fs[i] = gs[i]
    BY <1>1
  <2>2. FrameOK(h, fs, s, i) => FrameOK(h, gs, t, i)
    BY <1>5, <2>1 DEF FrameOK
  <2> QED
    BY <1>3, <1>4, <2>2
<1>6. CASE i # 1
  <2>1. i - 1 \in 1 .. k
    BY <1>2, <1>6
  <2>2. fs[i] = gs[i] /\ fs[i - 1] = gs[i - 1]
    BY <1>1, <2>1
  <2>3. \A v : Calls(h, fs, s, i - 1, v) => Calls(h, gs, t, i - 1, v)
    BY <1>4, <2>1
  <2>4. FrameOK(h, fs, s, i) => FrameOK(h, gs, t, i)
    BY <1>6, <2>2, <2>3 DEF FrameOK
  <2> QED
    BY <1>3, <1>4, <2>4
<1> QED
  BY <1>5, <1>6

\* All that is on the stack above what the frames have there can go, and more
\* can come.
Resize(fs, s, t) ==
    t \in Seq(Value) /\ Slots(fs, DOMAIN fs) <= Len(t) /\ Bottom(s, t, Slots(fs, DOMAIN fs))

LEMMA Resized ==
    ASSUME NEW h, NEW s, NEW fs, NEW hand, Good(h, s, fs, hand), NEW t, Resize(fs, s, t)
    PROVE  /\ Good(h, t, fs, hand)
           /\ \A i \in DOMAIN fs : \A v : Calls(h, fs, s, i, v) => Calls(h, fs, t, i, v)
           /\ \A i \in DOMAIN fs : Has(fs, s, i) = Has(fs, t, i)
<1>1. Fits(fs, s) /\ fs \in Seq(FrameType) /\ DOMAIN fs = 1 .. Len(fs) /\ Len(fs) \in Nat
      /\ hand \in [Address -> Nat]
  BY GoodFacts
<1>2. Fits(fs, t)
  BY <1>1 DEF Resize, Fits
<1>3. Alike(fs, fs, s, t, Len(fs))
  BY <1>1, <1>2 DEF Resize, Alike, Agree
<1>4. \A i \in 1 .. Len(fs) : /\ Has(fs, s, i) = Has(fs, t, i)
                              /\ \A v : Calls(h, fs, s, i, v) => Calls(h, fs, t, i, v)
                              /\ FrameOK(h, fs, s, i) => FrameOK(h, fs, t, i)
  BY <1>3, SameFrames
<1>5. Held(fs, s) = Held(fs, t)
  <2>1. \A i \in DOMAIN fs : fs[i].held \o Share(fs, s, i) = fs[i].held \o Share(fs, t, i)
    BY <1>1, <1>4 DEF Has
  <2> QED
    BY <2>1 DEF Held
<1>6. Owned(fs, s, hand) = Owned(fs, t, hand)
  BY <1>5 DEF Owned
<1> QED
  BY <1>1, <1>2, <1>4, <1>6 DEF Good

\* gs is fs with a frame more.
OneMore(fs, gs, s) ==
    /\ Fits(fs, s) /\ Fits(gs, s) /\ Len(gs) = Len(fs) + 1
    /\ \A i \in 1 .. Len(fs) : gs[i] = fs[i]

\* What it has is added.
LEMMA OneMoreFacts ==
    ASSUME NEW fs, NEW gs, NEW s, OneMore(fs, gs, s)
    PROVE  /\ Alike(fs, gs, s, s, Len(fs)) /\ Alike(gs, fs, s, s, Len(fs))
           /\ Has(gs, s, Len(gs)) \in Seq(Value)
           /\ \A o : Among(Held(gs, s), o) = Among(Held(fs, s), o) + Occurs(Has(gs, s, Len(gs)), o)
           /\ \A hand \in [Address -> Nat] :
                Owned(fs, s, More(hand, Has(gs, s, Len(gs)))) = Owned(gs, s, hand)
<1> DEFINE p == Len(gs)
<1>1. /\ Fits(fs, s) /\ Fits(gs, s) /\ p = Len(fs) + 1
      /\ \A i \in 1 .. Len(fs) : gs[i] = fs[i]
      /\ fs \in Seq(FrameType) /\ gs \in Seq(FrameType)
  BY DEF OneMore, Fits
<1>2. Len(fs) \in Nat /\ DOMAIN fs = 1 .. Len(fs) /\ DOMAIN gs = 1 .. p /\ p \in DOMAIN gs
      /\ Len(fs) <= Len(gs)
  BY <1>1, FramesFacts
<1>3. Slots(fs, DOMAIN fs) <= Len(s) /\ Slots(gs, DOMAIN fs) = Slots(fs, DOMAIN fs)
  <2>1. \A i \in DOMAIN fs : gs[i].n = fs[i].n
    BY <1>1, <1>2
  <2> QED
    BY <1>1, <2>1, SameSlots DEF Fits
<1>4. Alike(fs, gs, s, s, Len(fs)) /\ Alike(gs, fs, s, s, Len(fs))
  BY <1>1, <1>2, <1>3 DEF Alike, Agree, Bottom
<1>5. \A i \in 1 .. Len(fs) : Has(fs, s, i) = Has(gs, s, i)
  BY <1>4, SameFrames
<1>6. None \in [Address -> Nat]
  BY DEF None
<1>7. /\ FiniteFamily(Held(fs, s)) /\ DOMAIN Held(fs, s) = DOMAIN fs
      /\ \A i \in DOMAIN fs : Held(fs, s)[i] = Has(fs, s, i)
  BY <1>1, <1>6, OwnedFacts
<1>8. /\ FiniteFamily(Held(gs, s)) /\ DOMAIN Held(gs, s) = DOMAIN gs
      /\ \A i \in DOMAIN gs : Held(gs, s)[i] = Has(gs, s, i) /\ Has(gs, s, i) \in Seq(Value)
  BY <1>1, <1>6, OwnedFacts
<1>9. \A o : Among(Held(gs, s), o) = Among(Held(fs, s), o) + Occurs(Has(gs, s, p), o)
  <2> DEFINE F == Held(fs, s)
             G == Held(gs, s)
  <2>1. /\ FiniteFamily(F) /\ FiniteFamily(G) /\ p \notin DOMAIN F /\ DOMAIN G = DOMAIN F \union {p}
        /\ (\A q \in DOMAIN F : G[q] = F[q]) /\ G[p] = Has(gs, s, p)
    BY <1>1, <1>2, <1>5, <1>7, <1>8
  <2>2. F = Part(F, DOMAIN F)
    BY <1>7 DEF Held, Part
  <2> HIDE DEF F, G
  <2>3. \A o : Among(G, o) = Among(F, o) + Occurs(G[p], o)
    BY <2>1, <2>2, AmongMore
  <2> QED
    BY <2>1, <2>3 DEF F, G
<1>10. ASSUME NEW hand \in [Address -> Nat]
       PROVE  Owned(fs, s, More(hand, Has(gs, s, p))) = Owned(gs, s, hand)
  <2> DEFINE os == Has(gs, s, p)
  <2>1. \A o : Occurs(os, o) \in Nat /\ Among(Held(fs, s), o) \in Nat
    <3>1. IsFiniteSet(DOMAIN os)
      BY <1>2, <1>8, SeqDomains
    <3> QED
      BY <1>7, <3>1, OccursNat, AmongNat
  <2> HIDE DEF os
  <2>2. \A o \in Address : More(hand, os)[o] = hand[o] + Occurs(os, o)
    BY DEF More
  <2>3. \A o \in Address : Among(Held(fs, s), o) + More(hand, os)[o] = Among(Held(gs, s), o) + hand[o]
    <3>1. \A o \in Address : hand[o] \in Nat
      OBVIOUS
    <3>2. \A o : Among(Held(gs, s), o) = Among(Held(fs, s), o) + Occurs(os, o)
      BY <1>9 DEF os
    <3> QED
      BY <2>1, <2>2, <3>1, <3>2
  <2> QED
    BY <2>3 DEF Owned, os
<1>11. Has(gs, s, p) \in Seq(Value)
  BY <1>2, <1>8
<1> QED
  BY <1>4, <1>9, <1>10, <1>11

\* A frame that ends leaves what it had in hand.
LEMMA Ended ==
    ASSUME NEW h, NEW s, NEW fs, NEW hand, Good(h, s, fs, hand), fs # <<>>
    PROVE  /\ OneMore(Front(fs), fs, s) /\ Has(fs, s, Len(fs)) \in Seq(Value)
           /\ Good(h, s, Front(fs), More(hand, Has(fs, s, Len(fs))))
           /\ \A i \in 1 .. Len(fs) - 1 : \A v : Calls(h, fs, s, i, v) => Calls(h, Front(fs), s, i, v)
<1> DEFINE gs == Front(fs)
           w == More(hand, Has(fs, s, Len(fs)))
<1>1. Fits(fs, s) /\ hand \in [Address -> Nat] /\ fs \in Seq(FrameType) /\ DOMAIN fs = 1 .. Len(fs)
      /\ h \in [Address -> Object]
  BY GoodFacts, SMTT(30)
<1>2. /\ gs \in Seq(FrameType) /\ Len(fs) \in Nat \ {0} /\ Len(gs) = Len(fs) - 1
      /\ DOMAIN gs = 1 .. Len(fs) - 1
      /\ \A i \in 1 .. Len(fs) - 1 : gs[i] = fs[i]
  BY <1>1, FrontFacts
<1>3. Fits(gs, s)
  <2>1. Slots(gs, DOMAIN gs) = Slots(fs, 1 .. Len(fs) - 1)
    BY <1>2, SameSlots
  <2>2. Len(fs) \in DOMAIN fs /\ Len(fs) \in 1 .. Len(fs) /\ fs[Len(fs)].n \in Nat
        /\ 1 .. Len(fs) - 1 \in SUBSET DOMAIN fs
    BY <1>1, <1>2, FramesFacts
  <2>3. Slots(fs, 1 .. Len(fs)) = Slots(fs, 1 .. Len(fs) - 1) + fs[Len(fs)].n
        /\ Slots(fs, 1 .. Len(fs) - 1) \in Nat
    BY <1>1, <2>2, SlotsFacts
  <2>4. Slots(fs, 1 .. Len(fs)) <= Len(s) /\ s \in Seq(Value) /\ Len(s) \in Nat
    BY <1>1, SeqDomains DEF Fits
  <2> QED
    BY <1>2, <2>1, <2>2, <2>3, <2>4 DEF Fits
<1> HIDE DEF gs
<1>4. OneMore(gs, fs, s)
  BY <1>1, <1>2, <1>3 DEF OneMore
<1>5. Alike(fs, gs, s, s, Len(gs)) /\ Has(fs, s, Len(fs)) \in Seq(Value)
      /\ Owned(gs, s, w) = Owned(fs, s, hand)
  BY <1>1, <1>4, OneMoreFacts
<1>6. \A i \in 1 .. Len(fs) - 1 : /\ FrameOK(h, fs, s, i) => FrameOK(h, gs, s, i)
                                  /\ \A v : Calls(h, fs, s, i, v) => Calls(h, gs, s, i, v)
  BY <1>2, <1>5, SameFrames
<1>7. w \in [Address -> Nat]
  <2>1. IsFiniteSet(DOMAIN Has(fs, s, Len(fs)))
    BY <1>5, SeqDomains
  <2> QED
    BY <1>1, <2>1, MoreFacts
<1>8. /\ Counts(h, Owned(gs, s, w)) /\ (\A o \in Address : ObjectOK(h, o))
      /\ \A i \in DOMAIN gs : FrameOK(h, gs, s, i)
  <2>1. /\ Counts(h, Owned(fs, s, hand)) /\ (\A o \in Address : ObjectOK(h, o))
        /\ \A i \in DOMAIN fs : FrameOK(h, fs, s, i)
    BY DEF Good
  <2>2. Counts(h, Owned(gs, s, w))
    BY <1>5, <2>1, Zenon
  <2>3. \A i \in DOMAIN gs : FrameOK(h, gs, s, i)
    BY <1>1, <1>2, <1>6, <2>1
  <2> QED
    BY <2>1, <2>2, <2>3
<1>9. Good(h, s, gs, w)
  BY <1>1, <1>3, <1>7, <1>8 DEF Good
<1> QED
  BY <1>4, <1>5, <1>6, <1>9 DEF gs

\* A frame that starts has what was in hand.
Starts(h, s, fs, hand, f) ==
    LET gs == Append(fs, f)
    IN  /\ hand \in [Address -> Nat] /\ f \in FrameType /\ Fits(gs, s)
        /\ Good(h, s, fs, More(hand, Has(gs, s, Len(gs))))
        /\ FrameOK(h, gs, s, Len(gs))

LEMMA Started ==
    ASSUME NEW h, NEW s, NEW fs, NEW hand, NEW f, Starts(h, s, fs, hand, f)
    PROVE  /\ Good(h, s, Append(fs, f), hand)
           /\ \A i \in DOMAIN fs : \A v : Calls(h, fs, s, i, v) => Calls(h, Append(fs, f), s, i, v)
<1> DEFINE gs == Append(fs, f)
           w == More(hand, Has(gs, s, Len(gs)))
<1>1. /\ hand \in [Address -> Nat] /\ f \in FrameType /\ Fits(gs, s) /\ Good(h, s, fs, w)
      /\ FrameOK(h, gs, s, Len(gs))
  BY DEF Starts
<1>2. Fits(fs, s) /\ fs \in Seq(FrameType) /\ DOMAIN fs = 1 .. Len(fs) /\ h \in [Address -> Object]
      /\ Len(fs) \in Nat
  BY <1>1, GoodFacts
<1>3. /\ gs \in Seq(FrameType) /\ Len(gs) = Len(fs) + 1 /\ DOMAIN gs = 1 .. Len(fs) + 1
      /\ \A i \in 1 .. Len(fs) : gs[i] = fs[i]
  <2>1. gs \in Seq(FrameType)
    BY <1>1 DEF Fits
  <2> QED
    BY <1>1, <1>2, <2>1, AppendProperties, SeqDomains
<1> HIDE DEF gs
<1>4. OneMore(fs, gs, s)
  BY <1>1, <1>2, <1>3 DEF OneMore
<1>5. Alike(fs, gs, s, s, Len(fs)) /\ Owned(fs, s, w) = Owned(gs, s, hand)
  BY <1>1, <1>4, OneMoreFacts
<1>6. \A i \in 1 .. Len(fs) : /\ FrameOK(h, fs, s, i) => FrameOK(h, gs, s, i)
                              /\ \A v : Calls(h, fs, s, i, v) => Calls(h, gs, s, i, v)
  BY <1>5, SameFrames
<1>7. /\ Counts(h, Owned(fs, s, w)) /\ (\A o \in Address : ObjectOK(h, o))
      /\ \A i \in DOMAIN fs : FrameOK(h, fs, s, i)
  BY <1>1 DEF Good
<1>8. Counts(h, Owned(gs, s, hand))
  BY <1>5, <1>7, Zenon
<1>9. \A i \in DOMAIN gs : FrameOK(h, gs, s, i)
  <2> TAKE i \in DOMAIN gs
  <2>1. CASE i = Len(gs)
    BY <1>1, <2>1
  <2>2. CASE i # Len(gs)
    <3>1. i \in 1 .. Len(fs)
      BY <1>2, <1>3, <2>2
    <3> QED
      BY <1>2, <1>6, <1>7, <3>1
  <2> QED
    BY <2>1, <2>2
<1>10. Good(h, s, gs, hand)
  BY <1>1, <1>2, <1>7, <1>8, <1>9 DEF Good
<1> QED
  BY <1>2, <1>6, <1>10 DEF gs

\* The share of the innermost frame, when a places above it are in use.
LEMMA TopShare ==
    ASSUME NEW fs, NEW s, Fits(fs, s), fs # <<>>, NEW a \in Nat,
           Len(s) = a + Slots(fs, DOMAIN fs)
    PROVE  /\ Share(fs, s, Len(fs)) = SubSeq(s, a + 1, a + Last(fs).n)
           /\ Last(fs).n \in Nat /\ a + Last(fs).n <= Len(s)
           /\ Slots(Front(fs), DOMAIN Front(fs)) = Len(s) - (a + Last(fs).n)
           /\ Slots(Front(fs), DOMAIN Front(fs)) \in Nat
<1> DEFINE n == Last(fs).n
           b == Slots(fs, 1 .. Len(fs) - 1)
<1>1. fs \in Seq(FrameType) /\ Len(s) \in Nat
  BY SeqDomains DEF Fits
<1>2. /\ Len(fs) \in Nat \ {0} /\ Len(fs) \in DOMAIN fs /\ DOMAIN fs = 1 .. Len(fs)
      /\ Last(fs) = fs[Len(fs)] /\ DOMAIN Front(fs) = 1 .. Len(fs) - 1
      /\ \A i \in 1 .. Len(fs) - 1 : fs[i] = Front(fs)[i]
  BY <1>1, FrontFacts
<1>3. n \in Nat
  BY <1>1, <1>2, FramesFacts
<1>4. Slots(fs, DOMAIN fs) = b + n /\ b \in Nat
  <2>1. 1 .. Len(fs) - 1 \in SUBSET DOMAIN fs
    BY <1>2
  <2> QED
    BY <1>1, <1>2, <2>1, SlotsFacts
<1>5. Slots(Front(fs), DOMAIN Front(fs)) = b
  BY <1>2, SameSlots
<1>6. Share(fs, s, Len(fs)) = SubSeq(s, (Len(s) - b) - n + 1, Len(s) - b)
  BY <1>2 DEF Share
<1> HIDE DEF n, b
<1>7. Len(s) - b = a + n /\ (Len(s) - b) - n + 1 = a + 1
  BY <1>1, <1>3, <1>4
<1> QED
  <2>1. a + n <= Len(s) /\ b = Len(s) - (a + n)
    BY <1>1, <1>3, <1>4
  <2>2. Share(fs, s, Len(fs)) = SubSeq(s, a + 1, a + n)
    BY <1>6, <1>7
  <2> QED
    BY <1>3, <1>4, <1>5, <2>1, <2>2 DEF n

\* A frame that starts gets the lowest of the places that are in use above the
\* others.
NewTop(fs, gs, s, f, a) ==
    /\ gs = Append(fs, f) /\ Fits(fs, s) /\ f \in FrameType /\ a \in Nat /\ f.n <= a
    /\ Len(s) = a + Slots(fs, DOMAIN fs)

LEMMA NewTopFacts ==
    ASSUME NEW fs, NEW gs, NEW s, NEW f, NEW a, NewTop(fs, gs, s, f, a)
    PROVE  /\ Fits(gs, s) /\ gs \in Seq(FrameType) /\ gs # <<>> /\ Last(gs) = f
           /\ Len(gs) = Len(fs) + 1 /\ gs[Len(gs)] = f /\ Len(fs) \in Nat
           /\ \A i \in 1 .. Len(fs) : gs[i] = fs[i]
           /\ Share(gs, s, Len(gs)) = SubSeq(s, (a - f.n) + 1, a)
           /\ Slots(gs, DOMAIN gs) = Slots(fs, DOMAIN fs) + f.n
           /\ f.n \in Nat /\ Len(s) \in Nat /\ Slots(fs, DOMAIN fs) \in Nat
           /\ \A h : \A i \in 1 .. Len(fs) : \A v : Calls(h, fs, s, i, v) => Calls(h, gs, s, i, v)
<1>1. /\ fs \in Seq(FrameType) /\ s \in Seq(Value) /\ f \in FrameType /\ a \in Nat /\ f.n <= a
      /\ Len(s) = a + Slots(fs, DOMAIN fs) /\ f.n \in Nat
  BY FrameFacts DEF NewTop, Fits
<1>1a. gs = Append(fs, f)
  BY DEF NewTop
<1>2. Len(fs) \in Nat /\ DOMAIN fs = 1 .. Len(fs) /\ Len(s) \in Nat
  BY <1>1, SeqDomains
<1>3. /\ gs \in Seq(FrameType) /\ gs # <<>> /\ Len(gs) = Len(fs) + 1 /\ gs[Len(gs)] = f
      /\ \A i \in 1 .. Len(fs) : gs[i] = fs[i]
  BY <1>1, <1>1a, <1>2, AppendProperties
<1>4. DOMAIN gs = 1 .. Len(gs) /\ Len(gs) \in DOMAIN gs /\ Len(gs) - 1 = Len(fs)
  BY <1>2, <1>3, SeqDomains
<1>5. Slots(gs, 1 .. Len(fs)) = Slots(fs, DOMAIN fs) /\ Slots(fs, DOMAIN fs) \in Nat
  <2>1. \A i \in 1 .. Len(fs) : gs[i].n = fs[i].n
    BY <1>3
  <2> QED
    BY <1>1, <1>2, <2>1, SameSlots, SlotsFacts, SMTT(30)
<1>6. Slots(gs, DOMAIN gs) = Slots(fs, DOMAIN fs) + f.n
  <2>1. Slots(gs, 1 .. Len(gs)) = Slots(gs, 1 .. Len(gs) - 1) + gs[Len(gs)].n
    BY <1>3, <1>4, SlotsFacts
  <2> QED
    BY <1>3, <1>4, <1>5, <2>1
<1>7. Fits(gs, s)
  BY <1>1, <1>3, <1>5, <1>6 DEF Fits
<1>8. Share(gs, s, Len(gs)) = SubSeq(s, (Len(s) - Slots(fs, DOMAIN fs)) - f.n + 1, Len(s) - Slots(fs, DOMAIN fs))
  BY <1>3, <1>4, <1>5 DEF Share
<1>9. Len(s) - Slots(fs, DOMAIN fs) = a
  BY <1>1, <1>5
<1>10. Share(gs, s, Len(gs)) = SubSeq(s, (a - f.n) + 1, a)
  BY <1>8, <1>9
<1>11. Last(gs) = f
  BY <1>3 DEF Last
<1>12. \A h : \A i \in 1 .. Len(fs) : \A v : Calls(h, fs, s, i, v) => Calls(h, gs, s, i, v)
  <2>1. OneMore(fs, gs, s)
    BY <1>3, <1>7 DEF OneMore, NewTop
  <2>2. Alike(fs, gs, s, s, Len(fs))
    BY <2>1, OneMoreFacts
  <2> QED
    BY <2>2, SameFrames
<1> QED
  BY <1>1, <1>2, <1>3, <1>5, <1>6, <1>7, <1>10, <1>11, <1>12

\* What is left without the n topmost places, place by place
LEMMA LowerPart ==
    ASSUME NEW s \in Seq(Value), NEW n \in Nat, n <= Len(s), NEW m \in Nat, m <= Len(s) - n,
           NEW t \in Seq(Value), Len(t) = Len(s) - n, \A i \in 1 .. Len(s) - n : t[i] = s[n + i]
    PROVE  Bottom(s, t, m)
<1>1. Len(s) \in Nat
  BY SeqDomains
<1>2. ASSUME NEW j \in 1 .. m
      PROVE  s[Len(s) - m + j] = t[Len(t) - m + j]
  <2> DEFINE i == Len(t) - m + j
  <2>1. i \in 1 .. Len(s) - n /\ n + i = Len(s) - m + j
    BY <1>1
  <2> HIDE DEF i
  <2>2. t[i] = s[n + i]
    BY <2>1
  <2> QED
    BY <2>1, <2>2 DEF i
<1> QED
  BY <1>1, <1>2 DEF Bottom

\* What is above n places taken off the stack,
LEMMA Lower ==
    ASSUME NEW s \in Seq(Value), NEW n \in Nat, n <= Len(s), NEW m \in Nat, m <= Len(s) - n,
           NEW t, t = SubSeq(s, n + 1, Len(s))
    PROVE  t \in Seq(Value) /\ Len(t) = Len(s) - n /\ Bottom(s, t, m)
<1>1. Len(s) \in Nat /\ \A j \in n + 1 .. Len(s) : s[j] \in Value
  BY SeqDomains, ElementOfSeq
<1>2. /\ t \in Seq(Value) /\ Len(t) = IF n + 1 <= Len(s) THEN Len(s) - (n + 1) + 1 ELSE 0
      /\ \A i \in 1 .. Len(s) - (n + 1) + 1 : t[i] = s[(n + 1) + i - 1]
  <2>1. n + 1 \in Int /\ Len(s) \in Int
    BY <1>1
  <2> QED
    BY <1>1, <2>1, SubSeqProperties
<1>3. Len(t) = Len(s) - n
  BY <1>1, <1>2
<1>4. \A i \in 1 .. Len(s) - n : t[i] = s[n + i]
  <2> TAKE i \in 1 .. Len(s) - n
  <2>1. i \in 1 .. Len(s) - (n + 1) + 1 /\ (n + 1) + i - 1 = n + i
    BY <1>1
  <2> QED
    BY <1>2, <2>1
<1> QED
  BY <1>2, <1>3, <1>4, LowerPart

\* or put on it.
LEMMA Higher ==
    ASSUME NEW s \in Seq(Value), NEW p \in Seq(Value), NEW m \in Nat, m <= Len(s),
           NEW t, t = p \o s
    PROVE  /\ t \in Seq(Value) /\ Len(t) = Len(p) + Len(s) /\ Bottom(s, t, m)
           /\ \A i \in 1 .. Len(p) : t[i] = p[i]
           /\ \A i \in 1 .. Len(s) : t[Len(p) + i] = s[i]
<1>1. Len(s) \in Nat /\ Len(p) \in Nat
  BY SeqDomains
<1>2. /\ t \in Seq(Value) /\ Len(t) = Len(p) + Len(s)
      /\ \A i \in 1 .. Len(p) : t[i] = p[i]
      /\ \A i \in 1 .. Len(s) : t[Len(p) + i] = s[i]
  BY Joined
<1>3. ASSUME NEW j \in 1 .. m
      PROVE  s[Len(s) - m + j] = t[Len(t) - m + j]
  <2>1. Len(s) - m + j \in 1 .. Len(s) /\ Len(p) + (Len(s) - m + j) = Len(t) - m + j
    BY <1>1, <1>2
  <2>2. t[Len(p) + (Len(s) - m + j)] = s[Len(s) - m + j]
    BY <1>2, <2>1
  <2> QED
    BY <2>1, <2>2
<1> QED
  BY <1>1, <1>2, <1>3 DEF Bottom

\* The n topmost places
LEMMA Upper ==
    ASSUME NEW s \in Seq(Value), NEW n \in Nat, n <= Len(s), NEW m \in Nat, m <= n,
           NEW t, t = SubSeq(s, m + 1, n)
    PROVE  /\ t \in Seq(Value) /\ Len(t) = n - m /\ DOMAIN t = 1 .. n - m
           /\ \A i \in 1 .. n - m : t[i] = s[m + i] /\ m + i \in 1 .. Len(s)
           /\ Range(t) = {s[j] : j \in m + 1 .. n}
<1>1. Len(s) \in Nat /\ \A j \in m + 1 .. n : s[j] \in Value
  BY SeqDomains, ElementOfSeq
<1>2. /\ t \in Seq(Value) /\ Len(t) = IF m + 1 <= n THEN n - (m + 1) + 1 ELSE 0
      /\ \A i \in 1 .. n - (m + 1) + 1 : t[i] = s[(m + 1) + i - 1]
  <2>1. m + 1 \in Int /\ n \in Int
    OBVIOUS
  <2> QED
    BY <1>1, <2>1, SubSeqProperties
<1>3. Len(t) = n - m /\ DOMAIN t = 1 .. n - m
  BY <1>2, SeqDomains
<1>4. \A i \in 1 .. n - m : t[i] = s[m + i] /\ m + i \in 1 .. Len(s)
  <2> TAKE i \in 1 .. n - m
  <2>1. (m + 1) + i - 1 = m + i /\ i \in 1 .. n - (m + 1) + 1 /\ m + i \in 1 .. Len(s)
    BY <1>1
  <2> QED
    BY <1>2, <2>1
<1>5. Range(t) = {s[j] : j \in m + 1 .. n}
  <2>1. ASSUME NEW j \in m + 1 .. n
        PROVE  s[j] \in Range(t)
    <3>1. j - m \in 1 .. n - m /\ m + (j - m) = j
      OBVIOUS
    <3>2. t[j - m] = s[j]
      BY <1>4, <3>1
    <3> QED
      BY <1>3, <3>1, <3>2 DEF Range
  <2>2. ASSUME NEW i \in DOMAIN t
        PROVE  t[i] \in {s[j] : j \in m + 1 .. n}
    <3>1. m + i \in m + 1 .. n /\ t[i] = s[m + i]
      BY <1>3, <1>4
    <3> QED
      BY <3>1
  <2> QED
    BY <2>1, <2>2, ZenonT(30) DEF Range
<1> QED
  BY <1>2, <1>3, <1>4, <1>5

-----------------------------------------------------------------------------
(* Frames and control *)

\* The fields of a frame that is made,
LEMMA FrameMade ==
    \A fr \in Frames : \A fn, that \in Value \union {NoFn} : \A args, held \in Seq(Value) :
    \A n \in Nat : \A f : f = Frame(fr, fn, args, held, n, that) =>
        f \in FrameType /\ f.fr = fr /\ f.fn = fn /\ f.held = held /\ f.n = n /\ f.that = that
BY DEF Frame, FrameType

\* and of one that holds something else.
LEMMA FrameHolds ==
    \A f \in FrameType : \A held \in Seq(Value) : \A g : g = [f EXCEPT !.held = held] =>
        /\ g \in FrameType /\ g.held = held
        /\ g.fr = f.fr /\ g.fn = f.fn /\ g.n = f.n /\ g.that = f.that
BY DEF FrameType

\* A frame starts with eth_this as it was.
LEMMA ThisPushed ==
    ASSUME NEW fs \in Seq(FrameType), NEW th, ThisOK(fs, th), NEW f \in FrameType, f.that = th
    PROVE  ThisOK(Append(fs, f), Self(f))
<1> DEFINE gs == Append(fs, f)
<1>1. Len(fs) \in Nat /\ DOMAIN fs = 1 .. Len(fs)
  BY SeqDomains
<1>2. /\ gs \in Seq(FrameType) /\ Len(gs) = Len(fs) + 1 /\ gs[Len(fs) + 1] = f
      /\ \A i \in 1 .. Len(fs) : gs[i] = fs[i]
  BY AppendProperties
<1>3. DOMAIN gs = 1 .. Len(fs) + 1 /\ Last(gs) = f
  BY <1>2, SeqDomains DEF Last
<1> HIDE DEF gs
<1>4. ASSUME NEW i \in DOMAIN gs, i > 1
      PROVE  gs[i].that = Self(gs[i - 1])
  <2>1. i - 1 \in 1 .. Len(fs) /\ gs[i - 1] = fs[i - 1]
    BY <1>1, <1>2, <1>3, <1>4
  <2>2. CASE i = Len(fs) + 1
    <3>1. fs # <<>> /\ Last(fs) = fs[i - 1]
      <4>1. i - 1 = Len(fs)
        BY <1>1, <2>2
      <4>2. fs # <<>>
        BY <1>1, <2>1
      <4> QED
        BY <4>1, <4>2 DEF Last
    <3>2. th = Self(fs[i - 1])
      BY <3>1 DEF ThisOK
    <3> QED
      BY <1>2, <2>1, <2>2, <3>2
  <2>3. CASE i # Len(fs) + 1
    <3>1. i \in DOMAIN fs /\ gs[i] = fs[i]
      BY <1>1, <1>2, <1>3, <2>3
    <3> QED
      BY <1>4, <2>1, <3>1 DEF ThisOK
  <2> QED
    BY <2>2, <2>3
<1>5. ThisOK(gs, Self(f))
  BY <1>3, <1>4 DEF ThisOK
<1> QED
  BY <1>5 DEF gs

\* When it ends, eth_this is what the frame below has.
LEMMA ThisPopped ==
    ASSUME NEW fs \in Seq(FrameType), fs # <<>>, NEW th, ThisOK(fs, th)
    PROVE  ThisOK(Front(fs), Last(fs).that) /\ th = Self(Last(fs))
<1> DEFINE gs == Front(fs)
<1>1. /\ gs \in Seq(FrameType) /\ Len(gs) = Len(fs) - 1 /\ Len(fs) \in Nat \ {0}
      /\ Last(fs) = fs[Len(fs)] /\ DOMAIN gs = 1 .. Len(fs) - 1 /\ DOMAIN fs = 1 .. Len(fs)
      /\ \A d \in 1 .. Len(fs) - 1 : gs[d] = fs[d]
  BY FrontFacts
<1> HIDE DEF gs
<1>2. ASSUME NEW i \in DOMAIN gs, i > 1
      PROVE  gs[i].that = Self(gs[i - 1])
  <2>1. i \in DOMAIN fs /\ gs[i] = fs[i] /\ gs[i - 1] = fs[i - 1]
    BY <1>1, <1>2
  <2> QED
    BY <1>2, <2>1 DEF ThisOK
<1>3. ASSUME gs # <<>>
      PROVE  Last(fs).that = Self(Last(gs))
  <2>1. Len(gs) \in Nat \ {0}
    BY <1>1, <1>3, EmptySeq
  <2>2. Len(fs) \in DOMAIN fs /\ Len(fs) > 1 /\ gs[Len(gs)] = fs[Len(fs) - 1]
    BY <1>1, <2>1
  <2>3. fs[Len(fs)].that = Self(fs[Len(fs) - 1])
    BY <2>2 DEF ThisOK
  <2> QED
    BY <1>1, <2>2, <2>3 DEF Last
<1>4. ThisOK(gs, Last(fs).that)
  BY <1>2, <1>3 DEF ThisOK
<1>5. th = Self(Last(fs))
  BY DEF ThisOK
<1> QED
  BY <1>4, <1>5 DEF gs

\* What can be called or exists is a value.
LEMMA ValueFacts ==
    ASSUME NEW h, NEW v
    PROVE  /\ Callable(h, v) => Exists(h, v)
           /\ Exists(h, v) => v \in Value /\ v \in Value \union {NoFn} /\ v # NoFn
           /\ Exists(h, v) => (Counted(v) <=> v \in Address)
<1>1. Address \intersect Fn = {} /\ NoFn \notin Value
  BY AddressFacts
<1> QED
  BY <1>1 DEF Callable, Exists, Value, Counted

\* hand is a bag.
LEMMA Hands ==
    /\ None \in [Address -> Nat]
    /\ \A hand \in [Address -> Nat] : More(hand, <<>>) = hand
    /\ \A v, w \in [Address -> Nat] : (\A o \in Address : v[o] = w[o]) => v = w
<1>1. None \in [Address -> Nat]
  BY DEF None
<1>2. ASSUME NEW hand \in [Address -> Nat]
      PROVE  More(hand, <<>>) = hand
  <2>1. \A o \in Address : hand[o] + Occurs(<<>>, o) = hand[o]
    BY OccursEmpty
  <2> QED
    BY <2>1 DEF More
<1>3. \A v, w \in [Address -> Nat] : (\A o \in Address : v[o] = w[o]) => v = w
  OBVIOUS
<1> QED
  BY <1>1, <1>2, <1>3

\* What the invariant says of the innermost frame; a places are above it.
LEMMA InvFacts ==
    ASSUME NEW h, NEW s, NEW fs, NEW c, NEW th, InvAt(h, s, fs, c, th),
           NEW a, a = (IF c.op = "apply" THEN c.n ELSE 0), NEW top, top = Last(fs)
    PROVE  /\ Good(h, s, fs, None) /\ ControlOK(h, s, fs, c) /\ ThisOK(fs, th)
           /\ CountedBut(h, OnTheWay(s, c)) /\ c \in Control
           /\ fs \in Seq(FrameType) /\ fs # <<>> /\ Len(fs) \in Nat \ {0} /\ Len(fs) \in DOMAIN fs
           /\ top \in FrameType /\ top = fs[Len(fs)] /\ FrameOK(h, fs, s, Len(fs))
           /\ s \in Seq(Value) /\ Len(s) \in Nat /\ a \in Nat /\ top.n \in Nat
           /\ Len(s) = a + Slots(fs, DOMAIN fs) /\ Slots(fs, DOMAIN fs) \in Nat /\ a + top.n <= Len(s)
           /\ Has(fs, s, Len(fs)) = top.held \o SubSeq(s, a + 1, a + top.n)
           /\ th \in Value \union {NoFn}
<1>1. /\ Good(h, s, fs, None) /\ ControlOK(h, s, fs, c) /\ ThisOK(fs, th)
      /\ CountedBut(h, OnTheWay(s, c))
  BY DEF InvAt
<1>2. fs # <<>> /\ c \in Control /\ Len(s) = a + Slots(fs, DOMAIN fs)
  BY <1>1 DEF ControlOK
<1>3. a \in Nat
  BY <1>2 DEF Control
<1>4. Fits(fs, s) /\ fs \in Seq(FrameType) /\ s \in Seq(Value) /\ Len(s) \in Nat /\ DOMAIN fs = 1 .. Len(fs)
  BY <1>1, GoodFacts
<1>5. Len(fs) \in Nat \ {0} /\ Len(fs) \in DOMAIN fs /\ top \in FrameType /\ top = fs[Len(fs)]
  BY <1>2, <1>4, FrontFacts
<1>6. /\ Share(fs, s, Len(fs)) = SubSeq(s, a + 1, a + top.n)
      /\ top.n \in Nat /\ a + top.n <= Len(s)
  BY <1>2, <1>3, <1>4, TopShare
<1>7. FrameOK(h, fs, s, Len(fs))
  BY <1>1, <1>5 DEF Good
<1>8. th \in Value \union {NoFn}
  <2>1. th = Self(top)
    BY <1>1, <1>2, <1>4, ThisPopped
  <2> QED
    BY <1>5, <2>1, FrameFacts DEF Self
<1>9. Slots(fs, DOMAIN fs) \in Nat
  BY <1>4, SlotsFacts
<1> QED
  BY <1>1, <1>2, <1>3, <1>4, <1>5, <1>6, <1>7, <1>8, <1>9 DEF Has

-----------------------------------------------------------------------------
(* Frames that come and go *)

\* What may stand on the frames fs.
Fine(h, fs, s, f) ==
    IF fs = <<>> THEN f.fr = "body" /\ f.fn = NoFn /\ f.n = 0
    ELSE /\ f.fr = "body" => f.fn \in Fn /\ (f.fn \in Islam => f.n = 0)
         /\ f.fr = "again" => f.n = 0 /\ f.held = <<f.fn>>
         /\ f.fr = "over" => /\ f.held = <<>> /\ Callable(h, f.fn)
                             /\ Last(fs).fr # "over" /\ Calls(h, fs, s, Len(fs), f.fn)
         /\ f.fr = "curried" => /\ f.n = 0 /\ f.held = <<>> /\ f.fn \in Address
                                /\ h[f.fn].kind = "curried" /\ Calls(h, fs, s, Len(fs), f.fn)

\* f starts; it has what is in hand, and the lowest of the a places above fs.
Push(h, s, fs, gs, hand, th, f, a) ==
    /\ NewTop(fs, gs, s, f, a) /\ hand \in [Address -> Nat]
    /\ Good(h, s, fs, More(hand, f.held \o SubSeq(s, (a - f.n) + 1, a)))
    /\ Fine(h, fs, s, f) /\ ThisOK(fs, th) /\ f.that = th

Lot(f, s, a) == f.held \o SubSeq(s, (a - f.n) + 1, a)

LEMMA PushFacts ==
    ASSUME NEW h, NEW s, NEW fs, NEW gs, NEW hand, NEW th, NEW f, NEW a,
           Push(h, s, fs, gs, hand, th, f, a)
    PROVE  /\ Good(h, s, gs, hand) /\ ThisOK(gs, Self(f))
           /\ gs # <<>> /\ Last(gs) = f /\ Len(gs) = Len(fs) + 1 /\ Len(fs) \in Nat
           /\ Has(gs, s, Len(gs)) = Lot(f, s, a)
           /\ Len(s) = (a - f.n) + Slots(gs, DOMAIN gs) /\ Len(s) \in Nat /\ f.n \in Nat /\ a \in Nat
           /\ \A i \in 1 .. Len(fs) : \A v : Calls(h, fs, s, i, v) => Calls(h, gs, s, i, v)
<1>1. /\ NewTop(fs, gs, s, f, a) /\ hand \in [Address -> Nat]
      /\ Good(h, s, fs, More(hand, f.held \o SubSeq(s, (a - f.n) + 1, a)))
      /\ Fine(h, fs, s, f) /\ ThisOK(fs, th) /\ f.that = th
  BY DEF Push
<1>2. /\ Fits(fs, s) /\ f \in FrameType /\ a \in Nat /\ f.n <= a
      /\ Len(s) = a + Slots(fs, DOMAIN fs) /\ gs = Append(fs, f)
  BY <1>1 DEF NewTop
<1>3. /\ Fits(gs, s) /\ gs \in Seq(FrameType) /\ gs # <<>> /\ Last(gs) = f
      /\ Len(gs) = Len(fs) + 1 /\ gs[Len(gs)] = f /\ Len(fs) \in Nat
      /\ \A i \in 1 .. Len(fs) : gs[i] = fs[i]
      /\ Share(gs, s, Len(gs)) = SubSeq(s, (a - f.n) + 1, a)
      /\ Slots(gs, DOMAIN gs) = Slots(fs, DOMAIN fs) + f.n
      /\ f.n \in Nat /\ Len(s) \in Nat /\ Slots(fs, DOMAIN fs) \in Nat
  <2>1. Fits(gs, s) /\ gs \in Seq(FrameType) /\ gs # <<>> /\ Last(gs) = f
    BY <1>1, NewTopFacts
  <2>2. Len(gs) = Len(fs) + 1 /\ gs[Len(gs)] = f /\ Len(fs) \in Nat
    BY <1>1, NewTopFacts
  <2>3. \A i \in 1 .. Len(fs) : gs[i] = fs[i]
    BY <1>1, NewTopFacts
  <2>4. Share(gs, s, Len(gs)) = SubSeq(s, (a - f.n) + 1, a)
    BY <1>1, NewTopFacts
  <2>5. Slots(gs, DOMAIN gs) = Slots(fs, DOMAIN fs) + f.n
    BY <1>1, NewTopFacts
  <2>6. f.n \in Nat /\ Len(s) \in Nat /\ Slots(fs, DOMAIN fs) \in Nat
    BY <1>1, NewTopFacts
  <2> QED
    BY <2>1, <2>2, <2>3, <2>4, <2>5, <2>6
<1>3a. \A i \in 1 .. Len(fs) : \A v : Calls(h, fs, s, i, v) => Calls(h, gs, s, i, v)
  BY <1>1, NewTopFacts
<1>4. Has(gs, s, Len(gs)) = f.held \o SubSeq(s, (a - f.n) + 1, a)
  BY <1>3 DEF Has
<1>4a. Has(gs, s, Len(gs)) = Lot(f, s, a)
  BY <1>4 DEF Lot
<1>5. Len(s) = (a - f.n) + Slots(gs, DOMAIN gs)
  BY <1>2, <1>3
<1>6. fs \in Seq(FrameType)
  BY <1>2 DEF Fits
<1>7. FrameOK(h, gs, s, Len(gs))
  <2>1. CASE fs = <<>>
    <3>1. Len(gs) = 1
      BY <1>3, <2>1, EmptySeq
    <3> QED
      BY <1>1, <1>3, <2>1, <3>1 DEF FrameOK, Fine
  <2>2. CASE fs # <<>>
    <3>1. /\ Len(gs) # 1 /\ Len(gs) - 1 = Len(fs) /\ Len(fs) \in 1 .. Len(fs)
          /\ gs[Len(gs) - 1] = fs[Len(fs)] /\ Last(fs) = fs[Len(fs)]
      <4>1. Len(fs) \in Nat \ {0} /\ Last(fs) = fs[Len(fs)]
        BY <1>6, <2>2, FrontFacts
      <4> QED
        BY <1>3, <4>1
    <3>2. \A v : Calls(h, fs, s, Len(fs), v) => Calls(h, gs, s, Len(gs) - 1, v)
      BY <1>3a, <3>1
    <3> QED
      BY <1>1, <1>3, <2>2, <3>1, <3>2 DEF FrameOK, Fine
  <2> QED
    BY <2>1, <2>2
<1>8. Good(h, s, gs, hand)
  <2>1. Good(h, s, fs, More(hand, Has(gs, s, Len(gs))))
    BY <1>1, <1>4
  <2>2. Starts(h, s, fs, hand, f)
    BY <1>1, <1>2, <1>3, <1>7, <2>1 DEF Starts
  <2> QED
    BY <1>2, <2>2, Started
<1>9. ThisOK(gs, Self(f))
  BY <1>1, <1>2, <1>6, ThisPushed
<1> QED
  BY <1>2, <1>3, <1>3a, <1>4a, <1>5, <1>8, <1>9

\* The innermost frame ends, below a places in use.
Pop(h, s, fs, hand, th, a) ==
    /\ Good(h, s, fs, hand) /\ fs # <<>> /\ a \in Nat
    /\ Len(s) = a + Slots(fs, DOMAIN fs) /\ ThisOK(fs, th)

LEMMA PopFacts ==
    ASSUME NEW h, NEW s, NEW fs, NEW hand, NEW th, NEW a, Pop(h, s, fs, hand, th, a),
           NEW top, top = Last(fs), NEW gs, gs = Front(fs)
    PROVE  /\ Good(h, s, gs, More(hand, top.held \o SubSeq(s, a + 1, a + top.n)))
           /\ ThisOK(gs, top.that) /\ th = Self(top)
           /\ top \in FrameType /\ top.n \in Nat /\ top.held \in Seq(Value)
           /\ Has(fs, s, Len(fs)) = top.held \o SubSeq(s, a + 1, a + top.n)
           /\ top.held \o SubSeq(s, a + 1, a + top.n) \in Seq(Value)
           /\ Len(s) = (a + top.n) + Slots(gs, DOMAIN gs) /\ Slots(gs, DOMAIN gs) \in Nat
           /\ gs \in Seq(FrameType) /\ Len(gs) = Len(fs) - 1 /\ Len(fs) \in Nat \ {0}
           /\ Fits(gs, s)
           /\ \A i \in 1 .. Len(gs) : gs[i] = fs[i]
           /\ \A i \in 1 .. Len(gs) : \A v : Calls(h, fs, s, i, v) => Calls(h, gs, s, i, v)
           /\ Fine(h, gs, s, top)
           /\ Len(fs) > 1 => gs # <<>> /\ Last(gs) = fs[Len(fs) - 1]
<1>1. /\ Good(h, s, fs, hand) /\ fs # <<>> /\ a \in Nat
      /\ Len(s) = a + Slots(fs, DOMAIN fs) /\ ThisOK(fs, th)
  BY DEF Pop
<1>2. /\ Fits(fs, s) /\ fs \in Seq(FrameType) /\ s \in Seq(Value) /\ Len(s) \in Nat
      /\ DOMAIN fs = 1 .. Len(fs)
  BY <1>1, GoodFacts, SMTT(30)
<1>3. /\ gs \in Seq(FrameType) /\ Len(gs) = Len(fs) - 1 /\ Len(fs) \in Nat \ {0}
      /\ top = fs[Len(fs)] /\ top \in FrameType /\ \A i \in 1 .. Len(gs) : gs[i] = fs[i]
  BY <1>1, <1>2, FrontFacts
<1>4. /\ Share(fs, s, Len(fs)) = SubSeq(s, a + 1, a + top.n)
      /\ top.n \in Nat /\ a + top.n <= Len(s)
      /\ Slots(gs, DOMAIN gs) = Len(s) - (a + top.n)
      /\ Slots(gs, DOMAIN gs) \in Nat
  BY <1>1, <1>2, TopShare
<1>5. Has(fs, s, Len(fs)) = top.held \o SubSeq(s, a + 1, a + top.n)
  BY <1>3, <1>4 DEF Has
<1>6. /\ Has(fs, s, Len(fs)) \in Seq(Value) /\ Good(h, s, gs, More(hand, Has(fs, s, Len(fs))))
      /\ \A i \in 1 .. Len(fs) - 1 : \A v : Calls(h, fs, s, i, v) => Calls(h, gs, s, i, v)
  BY <1>1, Ended
<1>7. ThisOK(gs, top.that) /\ th = Self(top)
  BY <1>1, <1>2, ThisPopped
<1>8. Len(s) = (a + top.n) + Slots(gs, DOMAIN gs)
  BY <1>1, <1>2, <1>4
<1>9. Len(fs) > 1 => gs # <<>> /\ Last(gs) = fs[Len(fs) - 1]
  <2> HAVE Len(fs) > 1
  <2>1. gs # <<>>
    BY <1>3, EmptySeq
  <2>2. Last(gs) = gs[Len(gs)] /\ Len(gs) \in 1 .. Len(gs)
    BY <1>3, <2>1, FrontFacts
  <2> QED
    BY <1>3, <2>1, <2>2
<1>10. Fine(h, gs, s, top)
  <2>1. FrameOK(h, fs, s, Len(fs))
    BY <1>1, <1>2, <1>3 DEF Good
  <2>2. CASE Len(fs) = 1
    <3>1. gs = <<>>
      BY <1>3, <2>2, EmptySeq
    <3> QED
      BY <1>3, <2>1, <2>2, <3>1 DEF FrameOK, Fine
  <2>3. CASE Len(fs) # 1
    <3>1. /\ gs # <<>> /\ Last(gs) = fs[Len(fs) - 1] /\ Len(gs) = Len(fs) - 1
          /\ Len(fs) - 1 \in 1 .. Len(fs) - 1
      BY <1>3, <1>9, <2>3
    <3>2. \A v : Calls(h, fs, s, Len(fs) - 1, v) => Calls(h, gs, s, Len(gs), v)
      BY <1>6, <3>1
    <3> QED
      BY <1>3, <2>1, <2>3, <3>1, <3>2 DEF FrameOK, Fine
  <2> QED
    BY <2>2, <2>3
<1>11. top.held \in Seq(Value) /\ Fits(gs, s)
  BY <1>3, <1>6, FrameFacts, GoodFacts
<1> QED
  <2>1. Good(h, s, gs, More(hand, top.held \o SubSeq(s, a + 1, a + top.n)))
    BY <1>5, <1>6
  <2>2. top.held \o SubSeq(s, a + 1, a + top.n) \in Seq(Value)
    BY <1>5, <1>6
  <2>3. \A i \in 1 .. Len(gs) : \A v : Calls(h, fs, s, i, v) => Calls(h, gs, s, i, v)
    BY <1>3, <1>6
  <2> QED
    BY <1>3, <1>4, <1>5, <1>7, <1>8, <1>9, <1>10, <1>11, <2>1, <2>2, <2>3
-----------------------------------------------------------------------------
(* The invariant, from what a step has arranged *)

\* An application comes next,
Applies(h, s, fs, v, n, th) ==
    /\ Good(h, s, fs, None) /\ ThisOK(fs, th) /\ fs # <<>> /\ n \in Nat
    /\ Callable(h, v) /\ Calls(h, fs, s, Len(fs), v) /\ \A i \in 1 .. n : Exists(h, s[i])
    /\ Last(fs).fr = "over" => n = ArityIn(h, v)
    /\ Len(s) = n + Slots(fs, DOMAIN fs)
    /\ CountedBut(h, Firsts(s, n))

\* the frame below goes on with a result,
Returns(h, s, fs, c, th) ==
    /\ Good(h, s, fs, None) /\ ThisOK(fs, th) /\ fs # <<>>
    /\ c \in Control /\ c.op = "ret" /\ Exists(h, c.val)
    /\ Len(s) \in Nat /\ Len(s) = Slots(fs, DOMAIN fs)
    /\ CountedBut(h, {c.val})

\* or a body.
Runs(h, s, fs, th) ==
    /\ Good(h, s, fs, None) /\ ThisOK(fs, th) /\ fs # <<>> /\ Last(fs).fr = "body"
    /\ Len(s) \in Nat /\ Len(s) = Slots(fs, DOMAIN fs)
    /\ CountedBut(h, {})

LEMMA AppliesInv ==
    ASSUME NEW h, NEW s, NEW fs, NEW v, NEW n, NEW th, Applies(h, s, fs, v, n, th),
           NEW c, c = Applying(v, n)
    PROVE  InvAt(h, s, fs, c, th)
<1>1. /\ Good(h, s, fs, None) /\ ThisOK(fs, th) /\ fs # <<>> /\ n \in Nat
      /\ Callable(h, v) /\ Calls(h, fs, s, Len(fs), v) /\ \A i \in 1 .. n : Exists(h, s[i])
      /\ Last(fs).fr = "over" => n = ArityIn(h, v)
      /\ Len(s) = n + Slots(fs, DOMAIN fs)
      /\ CountedBut(h, Firsts(s, n))
  BY DEF Applies
<1>2. c \in Control /\ c.op = "apply" /\ c.val = v /\ c.n = n
  <2>1. v \in Value \union {NoFn}
    BY <1>1, ValueFacts
  <2> QED
    BY <1>1, <2>1 DEF Applying, Control
<1>3. ControlOK(h, s, fs, c)
  BY <1>1, <1>2 DEF ControlOK
<1>4. OnTheWay(s, c) = Firsts(s, n)
  BY <1>2 DEF OnTheWay
<1> QED
  BY <1>1, <1>3, <1>4 DEF InvAt

LEMMA ReturnsInv ==
    ASSUME NEW h, NEW s, NEW fs, NEW c, NEW th, Returns(h, s, fs, c, th)
    PROVE  InvAt(h, s, fs, c, th)
<1>1. /\ Good(h, s, fs, None) /\ ThisOK(fs, th) /\ fs # <<>>
      /\ c \in Control /\ c.op = "ret" /\ Exists(h, c.val)
      /\ Len(s) \in Nat /\ Len(s) = Slots(fs, DOMAIN fs)
      /\ CountedBut(h, {c.val})
  BY DEF Returns
<1>2. ControlOK(h, s, fs, c)
  BY <1>1 DEF ControlOK
<1>3. OnTheWay(s, c) = {c.val}
  BY <1>1 DEF OnTheWay
<1> QED
  BY <1>1, <1>2, <1>3 DEF InvAt

LEMMA RunsInv ==
    ASSUME NEW h, NEW s, NEW fs, NEW th, Runs(h, s, fs, th)
    PROVE  InvAt(h, s, fs, Running, th)
<1>1. /\ Good(h, s, fs, None) /\ ThisOK(fs, th) /\ fs # <<>> /\ Last(fs).fr = "body"
      /\ Len(s) \in Nat /\ Len(s) = Slots(fs, DOMAIN fs)
      /\ CountedBut(h, {})
  BY DEF Runs
<1>2. Running \in Control /\ Running.op = "body"
  BY DEF Running, Control
<1>3. ControlOK(h, s, fs, Running)
  BY <1>1, <1>2 DEF ControlOK
<1>4. OnTheWay(s, Running) = {}
  BY <1>2 DEF OnTheWay
<1> QED
  BY <1>1, <1>3, <1>4 DEF InvAt

\* A result
LEMMA ResultFacts ==
    ASSUME NEW h, NEW v, Exists(h, v)
    PROVE  Returning(v) \in Control /\ Returning(v).op = "ret" /\ Returning(v).val = v
<1>1. v \in Value \union {NoFn}
  BY ValueFacts
<1> QED
  BY <1>1 DEF Returning, Control

\* A bag in hand may be taken in another way.
LEMMA SameBag ==
    ASSUME NEW u \in [Address -> Nat], NEW w \in [Address -> Nat], NEW os, NEW ps,
           \A o \in Address : u[o] + Occurs(os, o) = w[o] + Occurs(ps, o)
    PROVE  More(u, os) = More(w, ps)
BY DEF More

LEMMA MoreNat ==
    ASSUME NEW u \in [Address -> Nat], NEW os, IsFiniteSet(DOMAIN os)
    PROVE  More(u, os) \in [Address -> Nat] /\ \A o \in Address : More(u, os)[o] = u[o] + Occurs(os, o)
BY OccursNat DEF More

\* The n topmost places
TopOf(s, n, t) == s \in Seq(Value) /\ n \in Nat /\ n <= Len(s) /\ t = SubSeq(s, 1, n)

LEMMA Topmost ==
    ASSUME NEW s, NEW n, NEW t, TopOf(s, n, t)
    PROVE  /\ t \in Seq(Value) /\ Len(t) = n /\ DOMAIN t = 1 .. n /\ IsFiniteSet(DOMAIN t)
           /\ \A i \in 1 .. n : t[i] = s[i]
           /\ Range(t) = Firsts(s, n)
<1>0. s \in Seq(Value) /\ n \in Nat /\ n <= Len(s) /\ t = SubSeq(s, 1, n)
  BY DEF TopOf
<1>1. Len(s) \in Nat /\ \A j \in 1 .. n : s[j] \in Value
  BY <1>0, SeqDomains, ElementOfSeq
<1>2. /\ t \in Seq(Value) /\ Len(t) = IF 1 <= n THEN n - 1 + 1 ELSE 0
      /\ \A i \in 1 .. n - 1 + 1 : t[i] = s[1 + i - 1]
  <2>1. 1 \in Int /\ n \in Int
    BY <1>0
  <2> QED
    BY <1>0, <1>1, <2>1, SubSeqProperties
<1>3. Len(t) = n /\ DOMAIN t = 1 .. n /\ IsFiniteSet(DOMAIN t)
  <2>1. Len(t) = n
    BY <1>0, <1>2
  <2> QED
    BY <1>2, <2>1, SeqDomains
<1>4. \A i \in 1 .. n : t[i] = s[i]
  BY <1>0, <1>2
<1> QED
  BY <1>2, <1>3, <1>4 DEF Range, Firsts

\* What a frame or an object has exists.
LEMMA HasExists ==
    ASSUME NEW h, NEW s, NEW fs, NEW hand, Good(h, s, fs, hand), NEW v
    PROVE  /\ \A i \in DOMAIN fs : v \in Range(Has(fs, s, i)) => Exists(h, v)
           /\ \A o \in Address : v \in Range(h[o].refs) => Exists(h, v)
<1>1. /\ Fits(fs, s) /\ hand \in [Address -> Nat] /\ h \in [Address -> Object]
  BY GoodFacts
<1>2. ASSUME NEW i \in DOMAIN fs, v \in Range(Has(fs, s, i))
      PROVE  Exists(h, v)
  <2>1. v \in Value
    <3>1. Has(fs, s, i) \in Seq(Value)
      BY <1>1, OwnedFacts
    <3> QED
      BY <1>2, <3>1, ElementOfSeq, SeqDomains DEF Range
  <2>2. CASE v \in Address
    <3>1. InFrame(fs, s, v)
      BY <1>2 DEF InFrame
    <3>2. h[v].kind # "freed"
      BY <2>2, <3>1, Live
    <3> QED
      BY <2>2, <3>2 DEF Exists
  <2> QED
    BY <2>1, <2>2 DEF Value, Exists
<1>3. ASSUME NEW o \in Address, v \in Range(h[o].refs)
      PROVE  Exists(h, v)
  <2>1. v \in Value
    <3>1. h[o].refs \in Seq(Value)
      BY <1>1, ObjectFacts
    <3> QED
      BY <1>3, <3>1, ElementOfSeq, SeqDomains DEF Range
  <2>2. CASE v \in Address
    <3>1. InObject(h, v)
      BY <1>3 DEF InObject
    <3>2. h[v].kind # "freed"
      BY <2>2, <3>1, Live
    <3> QED
      BY <2>2, <3>2 DEF Exists
  <2> QED
    BY <2>1, <2>2 DEF Value, Exists
<1> QED
  BY <1>2, <1>3

\* A change of counts changes neither what exists nor what can be called, nor
\* where there is room.
LEMMA SameHeap ==
    ASSUME NEW h, NEW g, \A o \in Address : Same(h, g, o)
    PROVE  /\ \A v : Exists(h, v) <=> Exists(g, v)
           /\ \A v : Callable(h, v) <=> Callable(g, v)
           /\ \A v : Exists(h, v) => ArityIn(h, v) = ArityIn(g, v)
           /\ Free(h) = Free(g) /\ Fresh(h) = Fresh(g)
<1>1. \A o \in Address : h[o].kind = g[o].kind /\ h[o].refs = g[o].refs /\ h[o].arity = g[o].arity
  BY DEF Same
<1>2. (\A v : Exists(h, v) <=> Exists(g, v)) /\ (\A v : Callable(h, v) <=> Callable(g, v))
  BY <1>1 DEF Exists, Callable
<1>3. \A v : Exists(h, v) => ArityIn(h, v) = ArityIn(g, v)
  BY <1>1 DEF Exists, ArityIn
<1>4. Free(h) = Free(g)
  BY <1>1 DEF Free
<1>5. Fresh(h) = Fresh(g)
  BY <1>4 DEF Fresh
<1> QED
  BY <1>2, <1>3, <1>4, <1>5

\* Calls go by what objects refer to.
LEMMA SameCalls ==
    ASSUME NEW h, NEW s, NEW fs, NEW hand, Good(h, s, fs, hand), NEW g,
           \A o \in Address : Same(h, g, o), NEW i \in DOMAIN fs, NEW v, Calls(h, fs, s, i, v)
    PROVE  Calls(g, fs, s, i, v)
<1>1. CASE fs[i].fr = "curried"
  <2>1. FrameOK(h, fs, s, i)
    BY DEF Good
  <2>2. fs[i].fn \in Address
    BY <1>1, <2>1 DEF FrameOK
  <2>3. g[fs[i].fn].refs = h[fs[i].fn].refs
    BY <2>2 DEF Same
  <2> QED
    BY <1>1, <2>3 DEF Calls
<1>2. CASE fs[i].fr # "curried"
  BY <1>2 DEF Calls
<1> QED
  BY <1>1, <1>2

\* One value
LEMMA SingleFacts ==
    ASSUME NEW v
    PROVE  /\ DOMAIN <<v>> = {1} /\ IsFiniteSet(DOMAIN <<v>>) /\ Range(<<v>>) = {v} /\ <<v>>[1] = v
           /\ \A o : Occurs(<<v>>, o) = IF v = o THEN 1 ELSE 0
<1>1. DOMAIN <<v>> = {1} /\ <<v>>[1] = v
  OBVIOUS
<1>2. IsFiniteSet(DOMAIN <<v>>)
  BY <1>1, FS_Singleton
<1>3. Range(<<v>>) = {v}
  BY <1>1 DEF Range
<1> QED
  BY <1>1, <1>2, <1>3, OccursSingle

\* eth_drop
LEMMA Drops ==
    ASSUME NEW h, NEW s, NEW fs, NEW hand, Good(h, s, fs, hand), NEW v, Exists(h, v),
           NEW g, g = Drop(h, v)
    PROVE  /\ Good(g, s, fs, hand)
           /\ \A Z : CountedBut(h, Z) => CountedBut(g, Z \ {v})
<1>1. hand \in [Address -> Nat] /\ (Counted(v) <=> v \in Address)
  BY GoodFacts, ValueFacts
<1>2. CASE Counted(v) /\ h[v].rc = 0
  <2> DEFINE u == IncAll(h, <<v>>)
  <2>1. g = UnrefAll(u, <<v>>)
    BY <1>2 DEF Drop, Inc
  <2>2. IsFiniteSet(DOMAIN <<v>>) /\ Range(<<v>>) = {v} /\ \A i \in DOMAIN <<v>> : Exists(h, <<v>>[i])
    BY SingleFacts
  <2>3. /\ Good(u, s, fs, More(hand, <<v>>))
        /\ \A Z : CountedBut(h, Z) => CountedBut(u, Z \ {v})
    BY <2>2, Took
  <2> HIDE DEF u
  <2>4. /\ Good(UnrefAll(u, <<v>>), s, fs, hand)
        /\ \A Z : CountedBut(u, Z) => CountedBut(UnrefAll(u, <<v>>), Z)
    BY <1>1, <2>2, <2>3, Gave
  <2> QED
    BY <2>1, <2>3, <2>4
<1>3. CASE ~(Counted(v) /\ h[v].rc = 0)
  <2>1. g = h
    BY <1>3 DEF Drop
  <2>2. \A Z : CountedBut(h, Z) => CountedBut(h, Z \ {v})
    BY <1>1, <1>3 DEF CountedBut
  <2> QED
    BY <2>1, <2>2
<1> QED
  BY <1>2, <1>3
-----------------------------------------------------------------------------
(* The steps of an application *)

\* Arguments that are on their way exist, and are what is above the frames.
ApplyState ==
    /\ Good(heap, sp, frames, None) /\ Pop(heap, sp, frames, None, this, ctl.n)
    /\ ThisOK(frames, this) /\ this \in Value \union {NoFn}
    /\ frames \in Seq(FrameType) /\ frames # <<>> /\ Len(frames) \in DOMAIN frames
    /\ Len(frames) \in Nat \ {0} /\ Fits(frames, sp)
    /\ sp \in Seq(Value) /\ Len(sp) \in Nat /\ ctl.n \in Nat /\ ctl.n <= Len(sp)
    /\ Len(sp) = ctl.n + Slots(frames, DOMAIN frames) /\ Slots(frames, DOMAIN frames) \in Nat
    /\ Callable(heap, ctl.val) /\ Calls(heap, frames, sp, Len(frames), ctl.val)
    /\ \A i \in 1 .. ctl.n : Exists(heap, sp[i])
    /\ Last(frames).fr = "over" => ctl.n = ArityIn(heap, ctl.val)
    /\ CountedBut(heap, Firsts(sp, ctl.n))
    /\ pushed \in Nat

LEMMA ApplyFacts ==
    ASSUME Inv, ctl.op = "apply"
    PROVE  ApplyState
<1>0. InvAt(heap, sp, frames, ctl, this) /\ pushed \in Nat
  BY DEF Inv
<1>1. /\ Good(heap, sp, frames, None) /\ ThisOK(frames, this) /\ ControlOK(heap, sp, frames, ctl)
      /\ frames \in Seq(FrameType) /\ frames # <<>> /\ Len(frames) \in DOMAIN frames
      /\ Len(frames) \in Nat \ {0}
      /\ sp \in Seq(Value) /\ Len(sp) \in Nat /\ ctl.n \in Nat
      /\ Len(sp) = ctl.n + Slots(frames, DOMAIN frames) /\ Slots(frames, DOMAIN frames) \in Nat
      /\ CountedBut(heap, OnTheWay(sp, ctl)) /\ this \in Value \union {NoFn}
  BY <1>0, InvFacts
<1>2. /\ Callable(heap, ctl.val) /\ Calls(heap, frames, sp, Len(frames), ctl.val)
      /\ \A i \in 1 .. ctl.n : Exists(heap, sp[i])
      /\ Last(frames).fr = "over" => ctl.n = ArityIn(heap, ctl.val)
  BY <1>1 DEF ControlOK
<1>3. CountedBut(heap, Firsts(sp, ctl.n))
  BY <1>1 DEF OnTheWay
<1>4. Fits(frames, sp)
  BY <1>1, GoodFacts
<1>5. Pop(heap, sp, frames, None, this, ctl.n)
  BY <1>1 DEF Pop
<1>6. ctl.n <= Len(sp)
  BY <1>1
<1> QED
  BY <1>0, <1>1, <1>2, <1>3, <1>4, <1>5, <1>6 DEF ApplyState

\* The arguments
LEMMA PushedFacts ==
    ASSUME ApplyState, NEW t, t = Pushed(ctl.n)
    PROVE  /\ t \in Seq(Value) /\ Len(t) = ctl.n /\ DOMAIN t = 1 .. ctl.n /\ IsFiniteSet(DOMAIN t)
           /\ \A i \in 1 .. ctl.n : t[i] = sp[i]
           /\ Range(t) = Firsts(sp, ctl.n)
           /\ \A i \in DOMAIN t : Exists(heap, t[i])
<1>1. /\ sp \in Seq(Value) /\ ctl.n \in Nat /\ ctl.n <= Len(sp)
      /\ \A i \in 1 .. ctl.n : Exists(heap, sp[i])
  BY DEF ApplyState
<1>2. TopOf(sp, ctl.n, t)
  BY <1>1 DEF Pushed, TopOf
<1>3. /\ t \in Seq(Value) /\ Len(t) = ctl.n /\ DOMAIN t = 1 .. ctl.n /\ IsFiniteSet(DOMAIN t)
      /\ \A i \in 1 .. ctl.n : t[i] = sp[i]
      /\ Range(t) = Firsts(sp, ctl.n)
  BY <1>2, Topmost
<1> QED
  BY <1>1, <1>3

\* What comes off the stack leaves the frames alone.
LEMMA ApplyLowers ==
    ASSUME ApplyState, NEW t, t = Below(ctl.n)
    PROVE  t \in Seq(Value) /\ Len(t) = Slots(frames, DOMAIN frames) /\ Resize(frames, sp, t)
<1>1. /\ sp \in Seq(Value) /\ Len(sp) \in Nat /\ ctl.n \in Nat
      /\ Len(sp) = ctl.n + Slots(frames, DOMAIN frames) /\ Slots(frames, DOMAIN frames) \in Nat
  BY DEF ApplyState
<1> DEFINE m == Slots(frames, DOMAIN frames)
<1>2. m \in Nat /\ m <= Len(sp) - ctl.n /\ ctl.n <= Len(sp) /\ Len(sp) - ctl.n = m
      /\ t = SubSeq(sp, ctl.n + 1, Len(sp))
  BY <1>1 DEF Below
<1> HIDE DEF m
<1>3. t \in Seq(Value) /\ Len(t) = Len(sp) - ctl.n /\ Bottom(sp, t, m)
  BY <1>1, <1>2, Lower
<1> QED
  BY <1>2, <1>3 DEF Resize, m

\* More on the stack leaves them alone, too.
Rises(fs, s, p, t) == Fits(fs, s) /\ p \in Seq(Value) /\ t = p \o s

LEMMA GoesHigher ==
    ASSUME NEW fs, NEW s, NEW p, NEW t, Rises(fs, s, p, t)
    PROVE  /\ t \in Seq(Value) /\ Len(t) = Len(p) + Len(s) /\ Resize(fs, s, t)
           /\ Len(p) \in Nat /\ Len(s) \in Nat
           /\ \A i \in 1 .. Len(p) : t[i] = p[i]
           /\ \A i \in 1 .. Len(s) : t[Len(p) + i] = s[i]
<1> DEFINE m == Slots(fs, DOMAIN fs)
<1>0. Fits(fs, s) /\ p \in Seq(Value) /\ t = p \o s
  BY DEF Rises
<1>1. s \in Seq(Value) /\ m \in Nat /\ m <= Len(s) /\ Len(s) \in Nat /\ Len(p) \in Nat
  BY <1>0, SlotsFacts, SeqDomains DEF Fits
<1> HIDE DEF m
<1>2. t \in Seq(Value) /\ Len(t) = Len(p) + Len(s) /\ Bottom(s, t, m)
  BY <1>0, <1>1, Higher
<1>3. \A i \in 1 .. Len(p) : t[i] = p[i]
  BY <1>0, <1>1, Joined
<1>4. \A i \in 1 .. Len(s) : t[Len(p) + i] = s[i]
  BY <1>0, <1>1, Joined
<1>5. m <= Len(t)
  BY <1>1, <1>2
<1> QED
  BY <1>0, <1>1, <1>2, <1>3, <1>4, <1>5 DEF Resize, m

\* A function starts with its arguments, in a frame or on the stack.
LEMMA BeginKeeps ==
    ASSUME Inv, NEW f \in Fn, Begin(f)
    PROVE  Inv'
<1>0. /\ ctl.op = "apply" /\ ctl.val = f /\ ctl.n = Arity[f]
      /\ heap' = IncAll(heap, Pushed(ctl.n)) /\ this' = f /\ ctl' = Running /\ pushed' = pushed
      /\ sp' = IF f \in Islam THEN Below(ctl.n) ELSE sp
      /\ frames' = Append(frames, IF f \in Islam THEN Frame("body", f, Pushed(ctl.n), Pushed(ctl.n), 0, this)
                                 ELSE Frame("body", f, Pushed(ctl.n), <<>>, ctl.n, this))
  BY DEF Begin
<1> DEFINE t == Pushed(ctl.n)
           g == IF f \in Islam THEN Frame("body", f, t, t, 0, this) ELSE Frame("body", f, t, <<>>, ctl.n, this)
<1>1. ApplyState
  BY <1>0, ApplyFacts
<1>2. /\ Good(heap, sp, frames, None) /\ ThisOK(frames, this) /\ this \in Value \union {NoFn}
      /\ frames \in Seq(FrameType) /\ frames # <<>>
      /\ sp \in Seq(Value) /\ ctl.n \in Nat
      /\ Len(sp) = ctl.n + Slots(frames, DOMAIN frames) /\ Slots(frames, DOMAIN frames) \in Nat
      /\ CountedBut(heap, Firsts(sp, ctl.n)) /\ pushed \in Nat
  BY <1>1 DEF ApplyState
<1>3. /\ t \in Seq(Value) /\ Range(t) = Firsts(sp, ctl.n) /\ IsFiniteSet(DOMAIN t)
      /\ \A i \in DOMAIN t : Exists(heap, t[i])
  BY <1>1, PushedFacts
<1>4. Good(heap', sp, frames, More(None, t)) /\ CountedBut(heap', {})
  <2>1. /\ Good(IncAll(heap, t), sp, frames, More(None, t))
        /\ \A Z : CountedBut(heap, Z) => CountedBut(IncAll(heap, t), Z \ Range(t))
    BY <1>2, <1>3, Took
  <2>2. CountedBut(heap', Firsts(sp, ctl.n) \ Range(t))
    BY <1>0, <1>2, <2>1
  <2> QED
    BY <1>0, <1>3, <2>1, <2>2 DEF CountedBut
<1>5. Good(heap', sp', frames, More(None, t)) /\ sp' \in Seq(Value)
  <2>1. CASE f \in Islam
    <3>1. sp' = Below(ctl.n)
      BY <1>0, <2>1
    <3>2. sp' \in Seq(Value) /\ Resize(frames, sp, sp')
      BY <1>1, <3>1, ApplyLowers
    <3> QED
      BY <1>4, <3>2, Resized
  <2>2. CASE f \notin Islam
    BY <1>0, <1>2, <1>4, <2>2
  <2> QED
    BY <2>1, <2>2
<1>6. /\ g \in FrameType /\ g.fr = "body" /\ g.fn = f /\ g.that = this
      /\ g.held = (IF f \in Islam THEN t ELSE <<>>) /\ g.n = (IF f \in Islam THEN 0 ELSE ctl.n)
  <2>1. "body" \in Frames /\ f \in Value \union {NoFn} /\ <<>> \in Seq(Value) /\ 0 \in Nat
    BY EmptySeq DEF Frames, Value
  <2>2. CASE f \in Islam
    <3>1. g = Frame("body", f, t, t, 0, this)
      BY <2>2
    <3> HIDE DEF g, t
    <3>2. /\ g \in FrameType /\ g.fr = "body" /\ g.fn = f /\ g.held = t /\ g.n = 0 /\ g.that = this
      BY <1>2, <1>3, <2>1, <3>1 DEF Frame, FrameType
    <3> QED
      BY <2>2, <3>2
  <2>3. CASE f \notin Islam
    <3>1. g = Frame("body", f, t, <<>>, ctl.n, this)
      BY <2>3
    <3> HIDE DEF g, t
    <3>2. /\ g \in FrameType /\ g.fr = "body" /\ g.fn = f /\ g.held = <<>> /\ g.n = ctl.n /\ g.that = this
      BY <1>2, <1>3, <2>1, <3>1 DEF Frame, FrameType
    <3> QED
      BY <2>3, <3>2
  <2> QED
    BY <2>2, <2>3
<1>7. frames' = Append(frames, g)
  BY <1>0
<1> HIDE DEF g
<1>8. g.n \in Nat /\ g.n - g.n = 0 /\ (g.n - g.n) + 1 = 1
  BY <1>6, FrameFacts
<1>9. NewTop(frames, frames', sp', g, g.n)
  <2>1. Fits(frames, sp')
    BY <1>5, GoodFacts
  <2>2. Len(sp') = g.n + Slots(frames, DOMAIN frames)
    <3>1. CASE f \in Islam
      <4>1. sp' = Below(ctl.n)
        BY <1>0, <3>1
      <4>2. Len(sp') = Slots(frames, DOMAIN frames)
        BY <1>1, <4>1, ApplyLowers
      <4> QED
        BY <1>2, <1>6, <3>1, <4>2
    <3>2. CASE f \notin Islam
      BY <1>0, <1>2, <1>6, <3>2
    <3> QED
      BY <3>1, <3>2
  <2> QED
    BY <1>6, <1>7, <1>8, <2>1, <2>2 DEF NewTop
<1>10. g.held \o SubSeq(sp', (g.n - g.n) + 1, g.n) = t
  <2>1. g.held \o SubSeq(sp', (g.n - g.n) + 1, g.n) = g.held \o SubSeq(sp', 1, g.n)
    BY <1>8
  <2>2. CASE f \in Islam
    <3>1. SubSeq(sp', 1, g.n) = <<>> /\ g.held = t
      BY <1>6, <2>2, SubSeqEmpty
    <3> HIDE DEF t
    <3> QED
      BY <1>3, <2>1, <3>1, ConcatEmptySeq
  <2>3. CASE f \notin Islam
    <3>1. SubSeq(sp', 1, g.n) = t /\ g.held = <<>>
      BY <1>0, <1>6, <2>3 DEF Pushed
    <3> HIDE DEF t
    <3> QED
      BY <1>3, <2>1, <3>1, ConcatEmptySeq
  <2> QED
    BY <2>2, <2>3
<1>11. Push(heap', sp', frames, frames', None, this, g, g.n)
  <2>1. Fine(heap', frames, sp', g)
    BY <1>2, <1>6 DEF Fine
  <2> QED
    BY <1>2, <1>5, <1>6, <1>9, <1>10, <2>1, Hands DEF Push
<1>12. Runs(heap', sp', frames', this')
  <2>1. /\ Good(heap', sp', frames', None) /\ ThisOK(frames', Self(g)) /\ frames' # <<>> /\ Last(frames') = g
        /\ Len(sp') = (g.n - g.n) + Slots(frames', DOMAIN frames') /\ Len(sp') \in Nat
    BY <1>11, PushFacts
  <2>2. Fits(frames', sp')
    BY <2>1, GoodFacts
  <2>3. Slots(frames', DOMAIN frames') \in Nat
    BY <2>2, SlotsFacts DEF Fits
  <2>4. Self(g) = this'
    BY <1>0, <1>6 DEF Self
  <2>5. Len(sp') = Slots(frames', DOMAIN frames')
    BY <1>8, <2>1, <2>3
  <2> QED
    BY <1>4, <1>6, <2>1, <2>4, <2>5 DEF Runs
<1>13. InvAt(heap', sp', frames', ctl', this')
  BY <1>0, <1>12, RunsInv
<1> QED
  BY <1>0, <1>2, <1>13 DEF Inv, InvAt
\* What is called is held, so that its arguments stay in it; they are pushed in
\* front of the new ones.
LEMMA CurriedKeeps ==
    ASSUME Inv, Curried
    PROVE  Inv'
<1> DEFINE f == ctl.val
           p == Waited(f)
           g == Frame("curried", f, <<>>, <<>>, 0, this)
           n == ctl.n + Len(p)
<1>0. ctl.op = "apply" /\ IsCurried(f) /\ ctl.n = ArityOf(f)
  BY DEF Curried
<1>1. ApplyState
  BY <1>0, ApplyFacts
<1>2. /\ Good(heap, sp, frames, None) /\ ThisOK(frames, this) /\ this \in Value \union {NoFn}
      /\ frames \in Seq(FrameType) /\ frames # <<>> /\ Len(frames) \in DOMAIN frames
      /\ Fits(frames, sp) /\ sp \in Seq(Value) /\ ctl.n \in Nat /\ Len(sp) \in Nat
      /\ Len(sp) = ctl.n + Slots(frames, DOMAIN frames) /\ Slots(frames, DOMAIN frames) \in Nat
      /\ Callable(heap, f) /\ Calls(heap, frames, sp, Len(frames), f)
      /\ (\A i \in 1 .. ctl.n : Exists(heap, sp[i])) /\ ctl.n <= Len(sp)
      /\ CountedBut(heap, Firsts(sp, ctl.n)) /\ pushed \in Nat
  BY <1>1 DEF ApplyState
<1>3. f \in Address /\ heap[f].kind = "curried" /\ heap[f].rc > 0 /\ heap \in [Address -> Object]
  <2>1. f \in Address /\ heap[f].kind = "curried"
    BY <1>0, <1>2 DEF IsCurried, Counted, Callable
  <2>2. heap[f].rc > 0
    BY <1>2, <2>1, CallLives
  <2> QED
    BY <1>2, <2>1, <2>2, GoodFacts
<1>4. /\ heap' = heap /\ sp' = p \o sp /\ ctl' = Applying(Behind(f), n)
      /\ frames' = Append(frames, g) /\ this' = f /\ pushed' = pushed
  <2>1. heap[f].rc # 0
    BY <1>3
  <2> QED
    BY <1>0, <2>1 DEF Curried
<1>5. /\ p \in Seq(Value) /\ Callable(heap, Behind(f))
      /\ \A i \in 1 .. Len(p) : Exists(heap, p[i])
  <2> DEFINE rs == heap[f].refs
  <2>1. rs # <<>> /\ Callable(heap, Head(rs))
    BY <1>2, <1>3 DEF Good, ObjectOK
  <2>2. rs \in Seq(Value)
    BY <1>3, ObjectFacts
  <2>3. p = Tail(rs) /\ Behind(f) = Head(rs)
    BY DEF Waited, Behind
  <2> HIDE DEF p
  <2>4. p \in Seq(Value) /\ Len(p) = Len(rs) - 1 /\ \A i \in 1 .. Len(p) : p[i] = rs[i + 1]
    BY <2>1, <2>2, <2>3, HeadTailProperties
  <2>5. \A i \in 1 .. Len(p) : p[i] \in Range(rs)
    <3> TAKE i \in 1 .. Len(p)
    <3>1. i + 1 \in DOMAIN rs
      BY <2>2, <2>4, SeqDomains
    <3> QED
      BY <2>4, <3>1 DEF Range
  <2>6. \A v : v \in Range(rs) => Exists(heap, v)
    BY <1>2, <1>3, HasExists
  <2> QED
    BY <2>1, <2>3, <2>4, <2>5, <2>6
<1> HIDE DEF f, p, g, n
<1>6. /\ sp' \in Seq(Value) /\ Len(sp') = Len(p) + Len(sp) /\ Resize(frames, sp, sp')
      /\ Len(p) \in Nat
      /\ \A i \in 1 .. Len(p) : sp'[i] = p[i]
      /\ \A i \in 1 .. Len(sp) : sp'[Len(p) + i] = sp[i]
  <2>1. Rises(frames, sp, p, sp')
    BY <1>2, <1>4, <1>5 DEF Rises
  <2> QED
    BY <2>1, GoesHigher
<1>7. /\ Good(heap', sp', frames, None) /\ Calls(heap', frames, sp', Len(frames), f)
  BY <1>2, <1>4, <1>6, Resized
<1>8. /\ g \in FrameType /\ g.fr = "curried" /\ g.fn = f /\ g.held = <<>> /\ g.n = 0 /\ g.that = this
  <2>1. "curried" \in Frames /\ f \in Value \union {NoFn} /\ <<>> \in Seq(Value) /\ 0 \in Nat
    BY <1>3, EmptySeq DEF Frames, Value
  <2>2. g = Frame("curried", f, <<>>, <<>>, 0, this)
    BY DEF g
  <2> QED
    BY <1>2, <2>1, <2>2 DEF Frame, FrameType
<1>9. n \in Nat /\ n = ctl.n + Len(p) /\ Len(sp') = n + Slots(frames, DOMAIN frames)
  BY <1>2, <1>6 DEF n
<1>10. Push(heap', sp', frames, frames', None, this, g, n)
  <2>1. NewTop(frames, frames', sp', g, n)
    <3>1. Fits(frames, sp')
      BY <1>7, GoodFacts
    <3> QED
      BY <1>4, <1>8, <1>9, <3>1 DEF NewTop
  <2>2. g.held \o SubSeq(sp', (n - g.n) + 1, n) = <<>>
    <3>1. (n - g.n) + 1 = n + 1
      BY <1>8, <1>9
    <3>2. SubSeq(sp', n + 1, n) = <<>>
      BY <1>9, SubSeqEmpty
    <3> QED
      BY <1>8, <3>1, <3>2, EmptySeq, ConcatEmptySeq
  <2>3. Good(heap', sp', frames, More(None, <<>>))
    BY <1>7, Hands
  <2>4. Fine(heap', frames, sp', g)
    BY <1>2, <1>3, <1>4, <1>7, <1>8 DEF Fine
  <2> QED
    BY <1>2, <1>8, <2>1, <2>2, <2>3, <2>4, Hands DEF Push
<1>11. Applies(heap', sp', frames', Behind(f), n, this')
  <2>1. /\ Good(heap', sp', frames', None) /\ ThisOK(frames', Self(g)) /\ frames' # <<>> /\ Last(frames') = g
        /\ Len(sp') = (n - g.n) + Slots(frames', DOMAIN frames') /\ Len(frames') = Len(frames) + 1
    BY <1>10, PushFacts
  <2>2. Self(g) = this'
    BY <1>4, <1>8 DEF Self
  <2>3. Len(sp') = n + Slots(frames', DOMAIN frames')
    BY <1>8, <1>9, <2>1
  <2>4. Callable(heap', Behind(f)) /\ Calls(heap', frames', sp', Len(frames'), Behind(f))
    <3>1. frames'[Len(frames')] = g
      BY <2>1 DEF Last
    <3> QED
      BY <1>4, <1>5, <1>8, <3>1 DEF Calls, Behind
  <2>5. \A i \in 1 .. n : Exists(heap', sp'[i])
    <3> TAKE i \in 1 .. n
    <3>1. CASE i <= Len(p)
      BY <1>4, <1>5, <1>6, <3>1
    <3>2. CASE ~(i <= Len(p))
      <4> DEFINE k == i - Len(p)
      <4>1. k \in 1 .. ctl.n /\ k \in 1 .. Len(sp) /\ Len(p) + k = i
        BY <1>2, <1>6, <1>9, <3>2, SMTT(30)
      <4> HIDE DEF k
      <4> QED
        BY <1>2, <1>4, <1>6, <4>1
    <3> QED
      BY <3>1, <3>2
  <2>6. CountedBut(heap', Firsts(sp', n))
    <3>1. ASSUME NEW i \in 1 .. ctl.n
          PROVE  sp[i] \in Firsts(sp', n)
      <4>1. Len(p) + i \in 1 .. n /\ i \in 1 .. Len(sp)
        <5>1. ctl.n \in Nat /\ ctl.n <= Len(sp) /\ Len(sp) \in Nat
          BY <1>2
        <5>2. Len(p) \in Nat /\ n = ctl.n + Len(p)
          BY <1>6, <1>9
        <5> QED
          BY <5>1, <5>2
      <4>2. sp'[Len(p) + i] = sp[i]
        BY <1>6, <4>1
      <4> QED
        BY <4>1, <4>2 DEF Firsts
    <3>2. Firsts(sp, ctl.n) \subseteq Firsts(sp', n)
      BY <3>1 DEF Firsts
    <3> QED
      BY <1>2, <1>4, <3>2 DEF CountedBut
  <2> QED
    BY <1>8, <1>9, <2>1, <2>2, <2>3, <2>4, <2>5, <2>6 DEF Applies
<1>12. InvAt(heap', sp', frames', ctl', this')
  BY <1>4, <1>11, AppliesInv
<1> QED
  BY <1>2, <1>4, <1>12 DEF Inv, InvAt
\* New objects
LEMMA NewIs == \A kind : New(kind) = [rc |-> 0, kind |-> kind, refs |-> <<>>, arity |-> 0]
BY DEF New, Nothing

LEMMA SuspendedIs ==
    \A f, t : Suspended(f, t)
                = [rc |-> 0, kind |-> "curried", refs |-> <<f>> \o t, arity |-> ArityOf(f) - Len(t)]
<1> TAKE f, t
<1> DEFINE r == <<f>> \o t
           a == ArityOf(f) - Len(t)
           x == New("curried")
           y == [x EXCEPT !.refs = r]
<1>1. x = [rc |-> 0, kind |-> "curried", refs |-> <<>>, arity |-> 0]
  BY NewIs
<1> HIDE DEF x, r, a
<1>2. y = [rc |-> 0, kind |-> "curried", refs |-> r, arity |-> 0]
  BY <1>1
<1> HIDE DEF y
<1>3. [y EXCEPT !.arity = a] = [rc |-> 0, kind |-> "curried", refs |-> r, arity |-> a]
  BY <1>2
<1> QED
  BY <1>3 DEF Suspended, x, y, r, a

\* Fewer arguments: a new function has them, and the one that was applied.
LEMMA PartialKeeps ==
    ASSUME Inv, Partial
    PROVE  Inv'
<1> DEFINE f == ctl.val
           t == Pushed(ctl.n)
           os == <<f>> \o t
           h == IncAll(heap, os)
           x == Suspended(f, t)
<1>0. /\ ctl.op = "apply" /\ ctl.n < ArityOf(f) /\ Free(heap) # {}
      /\ heap' = With(h, x) /\ sp' = Below(ctl.n) /\ ctl' = Returning(Fresh(heap))
      /\ frames' = frames /\ this' = this /\ pushed' = pushed
  BY DEF Partial
<1>1. ApplyState
  BY <1>0, ApplyFacts
<1>2. /\ Good(heap, sp, frames, None) /\ ThisOK(frames, this) /\ frames # <<>> /\ ctl.n \in Nat
      /\ Callable(heap, f) /\ CountedBut(heap, Firsts(sp, ctl.n)) /\ pushed \in Nat
      /\ Slots(frames, DOMAIN frames) \in Nat
  BY <1>1 DEF ApplyState
<1>3. /\ t \in Seq(Value) /\ Len(t) = ctl.n /\ Range(t) = Firsts(sp, ctl.n) /\ DOMAIN t = 1 .. ctl.n
      /\ \A i \in DOMAIN t : Exists(heap, t[i])
  BY <1>1, PushedFacts
<1>4. f \in Value /\ Exists(heap, f)
  BY <1>2, ValueFacts
<1>5. heap \in [Address -> Object]
  BY <1>2, GoodFacts
<1>6. ArityOf(f) \in Nat
  <2>1. CASE f \in Fn
    BY <2>1, ApplicationAssumption DEF ArityOf, Counted
  <2>2. CASE f \notin Fn
    <3>1. f \in Address /\ heap[f].arity \in Nat
      BY <1>4, <1>5, <2>2, ObjectFacts DEF Value
    <3> QED
      BY <2>2, <3>1 DEF ArityOf, Counted
  <2> QED
    BY <2>1, <2>2
<1> HIDE DEF f, t
<1>7. /\ os \in Seq(Value) /\ os # <<>> /\ Head(os) = f /\ IsFiniteSet(DOMAIN os)
      /\ \A i \in DOMAIN os : Exists(heap, os[i])
      /\ Range(t) \subseteq Range(os)
  <2>1. <<f>> \in Seq(Value) /\ Len(<<f>>) = 1 /\ <<f>>[1] = f
    BY <1>4
  <2>2. /\ os \in Seq(Value) /\ Len(os) = 1 + Len(t) /\ os[1] = f
        /\ \A i \in 1 .. Len(t) : os[1 + i] = t[i]
    BY <1>3, <2>1, Joined
  <2> HIDE DEF os
  <2>3. DOMAIN os = 1 .. 1 + Len(t) /\ IsFiniteSet(DOMAIN os) /\ Len(t) \in Nat
    BY <1>2, <1>3, <2>2, SeqDomains
  <2>4. os # <<>> /\ Head(os) = f
    BY <2>2, <2>3, HeadTailProperties, EmptySeq
  <2>5. \A i \in DOMAIN os : Exists(heap, os[i])
    <3> TAKE i \in DOMAIN os
    <3>1. CASE i = 1
      BY <1>4, <2>2, <3>1
    <3>2. CASE i # 1
      <4>1. i - 1 \in 1 .. Len(t) /\ 1 + (i - 1) = i
        BY <2>3, <3>2
      <4>2. os[i] = t[i - 1] /\ i - 1 \in DOMAIN t
        BY <1>3, <2>2, <4>1
      <4> QED
        BY <1>3, <4>2
    <3> QED
      BY <3>1, <3>2
  <2>6. Range(t) \subseteq Range(os)
    <3>1. \A i \in DOMAIN t : 1 + i \in DOMAIN os /\ os[1 + i] = t[i]
      BY <1>3, <2>2, <2>3
    <3> QED
      BY <3>1 DEF Range
  <2> QED
    BY <2>2, <2>3, <2>4, <2>5, <2>6
<1>8. /\ Good(h, sp, frames, More(None, os)) /\ (\A o \in Address : Same(heap, h, o))
      /\ CountedBut(h, {})
  <2>1. /\ Good(h, sp, frames, More(None, os)) /\ (\A o \in Address : Same(heap, h, o))
        /\ \A Z : CountedBut(heap, Z) => CountedBut(h, Z \ Range(os))
    BY <1>2, <1>7, Took
  <2>2. CountedBut(h, Firsts(sp, ctl.n) \ Range(os))
    BY <1>2, <2>1
  <2>3. Firsts(sp, ctl.n) \ Range(os) = {}
    BY <1>3, <1>7
  <2> QED
    BY <2>1, <2>2, <2>3
<1>9. Callable(h, f) /\ Free(h) # {} /\ Fresh(h) = Fresh(heap)
  BY <1>0, <1>2, <1>8, SameHeap
<1> HIDE DEF os, h
<1>10. /\ x \in Object /\ x.rc = 0 /\ x.kind = "curried" /\ x.refs = os /\ x.arity = ArityOf(f) - Len(t)
       /\ ArityOf(f) - Len(t) \in Nat /\ ArityOf(f) - Len(t) > 0
  <2>1. ArityOf(f) - Len(t) \in Nat /\ ArityOf(f) - Len(t) > 0
    BY <1>0, <1>2, <1>3, <1>6 DEF f
  <2>2. x = [rc |-> 0, kind |-> "curried", refs |-> os, arity |-> ArityOf(f) - Len(t)]
    BY SuspendedIs DEF os
  <2> HIDE DEF x
  <2> QED
    BY <1>7, <2>1, <2>2 DEF Object
<1> HIDE DEF x
<1>11. NewObject(h, x)
  <2>1. x.refs # <<>> /\ Callable(h, Head(x.refs))
    BY <1>7, <1>9, <1>10
  <2> QED
    BY <1>10, <2>1 DEF NewObject
<1>12. Good(heap', sp, frames, None) /\ CountedBut(heap', {Fresh(heap)}) /\ Exists(heap', Fresh(heap))
  <2>1. Good(h, sp, frames, More(None, x.refs))
    BY <1>8, <1>10
  <2>2. /\ Good(heap', sp, frames, None)
        /\ Fresh(h) \in Address /\ heap'[Fresh(h)] = x
        /\ \A Z : CountedBut(h, Z) => CountedBut(heap', Z \union {Fresh(h)})
    <3>1. Makes(h, heap', sp, frames, None, x)
      BY <1>0, <1>9, <1>11, <2>1, Hands DEF Makes
    <3> QED
      BY <3>1, Filled
  <2>3. CountedBut(heap', {} \union {Fresh(heap)})
    BY <1>0, <1>8, <1>9, <2>2
  <2>4. Exists(heap', Fresh(heap))
    BY <1>0, <1>9, <1>10, <2>2 DEF Exists
  <2> QED
    BY <1>0, <2>2, <2>3, <2>4
<1>13. Good(heap', sp', frames, None) /\ sp' \in Seq(Value) /\ Len(sp') = Slots(frames, DOMAIN frames)
  <2>1. sp' \in Seq(Value) /\ Len(sp') = Slots(frames, DOMAIN frames) /\ Resize(frames, sp, sp')
    BY <1>0, <1>1, ApplyLowers
  <2> QED
    BY <1>12, <2>1, Resized
<1>14. Returns(heap', sp', frames', ctl', this')
  <2>1. ctl' \in Control /\ ctl'.op = "ret" /\ ctl'.val = Fresh(heap)
    BY <1>0, <1>12, ResultFacts
  <2> QED
    BY <1>0, <1>2, <1>12, <1>13, <2>1 DEF Returns
<1>15. InvAt(heap', sp', frames', ctl', this')
  BY <1>14, ReturnsInv
<1> QED
  BY <1>0, <1>2, <1>15 DEF Inv, InvAt

\* More arguments: those that wait are kept by the frame that waits for the
\* result.
LEMMA OverKeeps ==
    ASSUME Inv, Over
    PROVE  Inv'
<1> DEFINE f == ctl.val
           arity == ArityOf(f)
           m == ctl.n - arity
           w == SubSeq(sp, arity + 1, ctl.n)
           g == Frame("over", f, <<>>, <<>>, m, this)
<1>0. /\ ctl.op = "apply" /\ ctl.n > arity
      /\ heap' = IncAll(heap, w) /\ sp' = sp /\ ctl' = Applying(f, arity)
      /\ frames' = Append(frames, g) /\ this' = this /\ pushed' = pushed
  BY DEF Over
<1>1. ApplyState
  BY <1>0, ApplyFacts
<1>2. /\ Good(heap, sp, frames, None) /\ ThisOK(frames, this) /\ this \in Value \union {NoFn}
      /\ frames \in Seq(FrameType) /\ frames # <<>> /\ Len(frames) \in DOMAIN frames
      /\ Fits(frames, sp) /\ sp \in Seq(Value) /\ ctl.n \in Nat /\ Len(sp) \in Nat
      /\ Len(sp) = ctl.n + Slots(frames, DOMAIN frames) /\ Slots(frames, DOMAIN frames) \in Nat
      /\ Callable(heap, f) /\ Calls(heap, frames, sp, Len(frames), f)
      /\ (\A i \in 1 .. ctl.n : Exists(heap, sp[i])) /\ ctl.n <= Len(sp)
      /\ (Last(frames).fr = "over" => ctl.n = ArityIn(heap, f))
      /\ CountedBut(heap, Firsts(sp, ctl.n)) /\ pushed \in Nat
  BY <1>1 DEF ApplyState
<1>3. f \in Value /\ Exists(heap, f) /\ heap \in [Address -> Object]
  BY <1>2, ValueFacts, GoodFacts
<1>4. arity \in Nat /\ arity = ArityIn(heap, f)
  <2>1. CASE f \in Fn
    BY <2>1, ApplicationAssumption DEF ArityOf, Counted, ArityIn
  <2>2. CASE f \notin Fn
    <3>1. f \in Address /\ heap[f].arity \in Nat
      BY <1>3, <2>2, ObjectFacts DEF Value
    <3> QED
      BY <2>2, <3>1 DEF ArityOf, Counted, ArityIn
  <2> QED
    BY <2>1, <2>2
<1> HIDE DEF f, arity
<1>5. m \in Nat /\ ctl.n - m = arity /\ m <= ctl.n /\ arity <= ctl.n
  BY <1>0, <1>2, <1>4
<1>6. /\ w \in Seq(Value) /\ Len(w) = m /\ DOMAIN w = 1 .. m /\ IsFiniteSet(DOMAIN w)
      /\ \A i \in 1 .. m : w[i] = sp[arity + i] /\ arity + i \in 1 .. ctl.n
      /\ \A j \in arity + 1 .. ctl.n : sp[j] \in Range(w)
  <2>1. \A j \in arity + 1 .. ctl.n : sp[j] \in Value
    BY <1>2, <1>4, ElementOfSeq
  <2>2. /\ w \in Seq(Value) /\ Len(w) = IF arity + 1 <= ctl.n THEN ctl.n - (arity + 1) + 1 ELSE 0
        /\ \A i \in 1 .. ctl.n - (arity + 1) + 1 : w[i] = sp[(arity + 1) + i - 1]
    <3>1. arity + 1 \in Int /\ ctl.n \in Int
      BY <1>2, <1>4
    <3> QED
      BY <2>1, <3>1, SubSeqProperties
  <2> HIDE DEF w
  <2>3. Len(w) = m /\ DOMAIN w = 1 .. m /\ IsFiniteSet(DOMAIN w)
    <3>1. Len(w) = m
      <4>1. ctl.n \in Nat /\ arity \in Nat /\ ctl.n > arity
        BY <1>0, <1>2, <1>4
      <4>2. m = ctl.n - arity
        BY <1>5, <4>1
      <4>3. Len(w) = IF arity + 1 <= ctl.n THEN ctl.n - (arity + 1) + 1 ELSE 0
        BY <2>2
      <4> QED
        BY <4>1, <4>2, <4>3
    <3> QED
      BY <2>2, <3>1, SeqDomains
  <2>8. ctl.n \in Nat /\ arity \in Nat /\ m \in Nat /\ ctl.n - m = arity
    BY <1>2, <1>4, <1>5
  <2> HIDE DEF m
  <2>4. \A i \in 1 .. m : w[i] = sp[arity + i] /\ arity + i \in 1 .. ctl.n
    <3> TAKE i \in 1 .. m
    <3>1. (arity + 1) + i - 1 = arity + i /\ i \in 1 .. ctl.n - (arity + 1) + 1 /\ arity + i \in 1 .. ctl.n
      BY <2>8
    <3> QED
      BY <2>2, <3>1
  <2>5. \A j \in arity + 1 .. ctl.n : sp[j] \in Range(w)
    <3> TAKE j \in arity + 1 .. ctl.n
    <3>1. j - arity \in 1 .. m /\ arity + (j - arity) = j
      BY <2>8
    <3>2. w[j - arity] = sp[j]
      BY <2>4, <3>1
    <3> QED
      BY <2>3, <3>1, <3>2 DEF Range
  <2> QED
    BY <2>2, <2>3, <2>4, <2>5
<1>7. \A i \in DOMAIN w : Exists(heap, w[i])
  BY <1>2, <1>6
<1> HIDE DEF w, g, m
<1>8. /\ Good(heap', sp, frames, More(None, w)) /\ (\A o \in Address : Same(heap, heap', o))
      /\ CountedBut(heap', Firsts(sp, ctl.n) \ Range(w))
  <2>1. /\ Good(IncAll(heap, w), sp, frames, More(None, w))
        /\ (\A o \in Address : Same(heap, IncAll(heap, w), o))
        /\ \A Z : CountedBut(heap, Z) => CountedBut(IncAll(heap, w), Z \ Range(w))
    BY <1>2, <1>6, <1>7, Took
  <2> QED
    BY <1>0, <1>2, <2>1
<1>9. /\ g \in FrameType /\ g.fr = "over" /\ g.fn = f /\ g.held = <<>> /\ g.n = m /\ g.that = this
  <2>1. "over" \in Frames /\ f \in Value \union {NoFn} /\ <<>> \in Seq(Value) /\ m \in Nat
    BY <1>3, <1>5, EmptySeq DEF Frames, Value
  <2>2. g = Frame("over", f, <<>>, <<>>, m, this)
    BY DEF g
  <2> QED
    BY <1>2, <2>1, <2>2 DEF Frame, FrameType
<1>10. Callable(heap', f) /\ Calls(heap', frames, sp, Len(frames), f) /\ arity = ArityIn(heap', f)
  BY <1>2, <1>3, <1>4, <1>8, SameHeap, SameCalls
<1>11. Push(heap', sp, frames, frames', None, this, g, ctl.n)
  <2>1. NewTop(frames, frames', sp, g, ctl.n)
    BY <1>0, <1>2, <1>5, <1>9 DEF NewTop
  <2>2. g.held \o SubSeq(sp, (ctl.n - g.n) + 1, ctl.n) = w
    <3>1. SubSeq(sp, (ctl.n - g.n) + 1, ctl.n) = w
      BY <1>5, <1>9 DEF w
    <3> QED
      BY <1>6, <1>9, <3>1, ConcatEmptySeq
  <2>3. Fine(heap', frames, sp, g)
    <3>1. Last(frames).fr # "over"
      BY <1>0, <1>2, <1>4
    <3> QED
      BY <1>2, <1>9, <1>10, <3>1 DEF Fine
  <2> QED
    BY <1>2, <1>8, <1>9, <2>1, <2>2, <2>3, Hands DEF Push
<1>12. Applies(heap', sp', frames', f, arity, this')
  <2>1. /\ Good(heap', sp, frames', None) /\ ThisOK(frames', Self(g)) /\ frames' # <<>> /\ Last(frames') = g
        /\ Len(sp) = (ctl.n - g.n) + Slots(frames', DOMAIN frames') /\ Len(frames') = Len(frames) + 1
    BY <1>11, PushFacts
  <2>2. Self(g) = this'
    BY <1>0, <1>9 DEF Self
  <2>3. Len(sp) = arity + Slots(frames', DOMAIN frames')
    BY <1>5, <1>9, <2>1
  <2>4. Calls(heap', frames', sp, Len(frames'), f)
    <3>1. frames'[Len(frames')] = g
      BY <2>1 DEF Last
    <3> QED
      BY <1>9, <3>1 DEF Calls
  <2>5. \A i \in 1 .. arity : Exists(heap', sp[i])
    <3> TAKE i \in 1 .. arity
    <3>1. i \in 1 .. ctl.n
      BY <1>2, <1>4, <1>5
    <3> QED
      BY <1>2, <1>8, <3>1, SameHeap
  <2>6. CountedBut(heap', Firsts(sp, arity))
    <3>1. Firsts(sp, ctl.n) \ Range(w) \subseteq Firsts(sp, arity)
      <4> SUFFICES ASSUME NEW i \in 1 .. ctl.n, sp[i] \notin Range(w)
                   PROVE  sp[i] \in Firsts(sp, arity)
        BY DEF Firsts
      <4>1. i \notin arity + 1 .. ctl.n
        BY <1>6
      <4>2. i \in 1 .. arity
        BY <1>2, <1>4, <4>1
      <4> QED
        BY <4>2 DEF Firsts
    <3> QED
      BY <1>8, <3>1 DEF CountedBut
  <2> QED
    BY <1>0, <1>4, <1>9, <1>10, <2>1, <2>2, <2>3, <2>4, <2>5, <2>6 DEF Applies
<1>13. InvAt(heap', sp', frames', ctl', this')
  BY <1>0, <1>12, AppliesInv
<1> QED
  BY <1>0, <1>2, <1>13 DEF Inv, InvAt
-----------------------------------------------------------------------------
(* The ways back *)

\* When nothing is on its way on the stack
LEMMA PopQuiet ==
    ASSUME NEW h, NEW s, NEW fs, NEW hand, NEW th, Pop(h, s, fs, hand, th, 0),
           NEW top, top = Last(fs), NEW gs, gs = Front(fs)
    PROVE  /\ Good(h, s, gs, More(hand, top.held \o SubSeq(s, 1, top.n)))
           /\ top.held \o SubSeq(s, 1, top.n) \in Seq(Value)
           /\ Has(fs, s, Len(fs)) = top.held \o SubSeq(s, 1, top.n)
           /\ Len(s) = top.n + Slots(gs, DOMAIN gs) /\ Slots(gs, DOMAIN gs) \in Nat
           /\ TopOf(s, top.n, SubSeq(s, 1, top.n))
<1> DEFINE a == 0
<1>0. Pop(h, s, fs, hand, th, a)
  OBVIOUS
<1> HIDE DEF a
<1>1. /\ Good(h, s, gs, More(hand, top.held \o SubSeq(s, a + 1, a + top.n)))
      /\ top.n \in Nat
      /\ Has(fs, s, Len(fs)) = top.held \o SubSeq(s, a + 1, a + top.n)
      /\ top.held \o SubSeq(s, a + 1, a + top.n) \in Seq(Value)
      /\ Len(s) = (a + top.n) + Slots(gs, DOMAIN gs) /\ Slots(gs, DOMAIN gs) \in Nat
      /\ Fits(gs, s)
  <2>1. Good(h, s, gs, More(hand, top.held \o SubSeq(s, a + 1, a + top.n)))
    BY <1>0, PopFacts
  <2>2. top.n \in Nat
    BY <1>0, PopFacts
  <2>3. Has(fs, s, Len(fs)) = top.held \o SubSeq(s, a + 1, a + top.n)
    <3>1. Good(h, s, fs, hand) /\ fs # <<>> /\ a \in Nat /\ Len(s) = a + Slots(fs, DOMAIN fs)
      BY <1>0 DEF Pop
    <3>2. Fits(fs, s) /\ fs \in Seq(FrameType)
      BY <3>1, GoodFacts
    <3>3. Share(fs, s, Len(fs)) = SubSeq(s, a + 1, a + top.n)
      BY <3>1, <3>2, TopShare
    <3>4. top = fs[Len(fs)]
      BY <3>1, <3>2, FrontFacts
    <3> QED
      BY <3>3, <3>4 DEF Has
  <2>4. top.held \o SubSeq(s, a + 1, a + top.n) \in Seq(Value)
    BY <1>0, PopFacts
  <2>5. Len(s) = (a + top.n) + Slots(gs, DOMAIN gs) /\ Slots(gs, DOMAIN gs) \in Nat
    BY <1>0, PopFacts
  <2>6. Fits(gs, s)
    BY <1>0, PopFacts
  <2> QED
    BY <2>1, <2>2, <2>3, <2>4, <2>5, <2>6
<1>2. a + top.n = top.n /\ a + 1 = 1
  BY <1>1 DEF a
<1>3. s \in Seq(Value) /\ Len(s) = top.n + Slots(gs, DOMAIN gs)
  BY <1>1, <1>2 DEF Fits
<1>4. TopOf(s, top.n, SubSeq(s, 1, top.n))
  BY <1>1, <1>3 DEF TopOf
<1> QED
  BY <1>1, <1>2, <1>3, <1>4

\* What is in hand exists.
LEMMA HandExists ==
    ASSUME NEW h, NEW s, NEW fs, NEW v \in Value, Good(h, s, fs, More(None, <<v>>))
    PROVE  Exists(h, v)
<1>1. CASE v \in Address
  <2>1. More(None, <<v>>)[v] = 0 + 1
    BY <1>1, SingleFacts DEF More, None
  <2>2. More(None, <<v>>)[v] > 0
    BY <2>1
  <2>3. h[v].kind # "freed"
    BY <1>1, <2>2, Live
  <2> QED
    BY <1>1, <2>3 DEF Exists
<1>2. CASE v \notin Address
  BY <1>2 DEF Value, Exists
<1> QED
  BY <1>1, <1>2

\* A result is on its way.
ReturnState ==
    /\ Good(heap, sp, frames, None) /\ Pop(heap, sp, frames, None, this, 0)
    /\ ThisOK(frames, this) /\ this \in Value \union {NoFn}
    /\ frames \in Seq(FrameType) /\ frames # <<>> /\ Len(frames) \in DOMAIN frames
    /\ Fits(frames, sp) /\ sp \in Seq(Value) /\ Len(sp) \in Nat
    /\ Len(sp) = Slots(frames, DOMAIN frames)
    /\ ctl \in Control /\ Exists(heap, ctl.val) /\ CountedBut(heap, {ctl.val})
    /\ pushed \in Nat

LEMMA ReturnFacts ==
    ASSUME Inv, ctl.op = "ret"
    PROVE  ReturnState
<1>0. InvAt(heap, sp, frames, ctl, this) /\ pushed \in Nat
  BY DEF Inv
<1>1. /\ Good(heap, sp, frames, None) /\ ThisOK(frames, this) /\ ControlOK(heap, sp, frames, ctl)
      /\ frames \in Seq(FrameType) /\ frames # <<>> /\ Len(frames) \in DOMAIN frames
      /\ sp \in Seq(Value) /\ Len(sp) \in Nat
      /\ Len(sp) = 0 + Slots(frames, DOMAIN frames) /\ Slots(frames, DOMAIN frames) \in Nat
      /\ CountedBut(heap, OnTheWay(sp, ctl)) /\ this \in Value \union {NoFn} /\ ctl \in Control
  BY <1>0, InvFacts
<1>2. Exists(heap, ctl.val)
  BY <1>1 DEF ControlOK
<1>3. CountedBut(heap, {ctl.val})
  BY <1>1 DEF OnTheWay
<1>4. Fits(frames, sp)
  BY <1>1, GoodFacts
<1>5. Pop(heap, sp, frames, None, this, 0)
  BY <1>1 DEF Pop
<1> QED
  BY <1>0, <1>1, <1>2, <1>3, <1>4, <1>5 DEF ReturnState

\* Nothing is.
BodyState ==
    /\ Good(heap, sp, frames, None) /\ Pop(heap, sp, frames, None, this, 0)
    /\ ThisOK(frames, this) /\ this \in Value \union {NoFn}
    /\ frames \in Seq(FrameType) /\ frames # <<>> /\ Len(frames) \in DOMAIN frames
    /\ Fits(frames, sp) /\ sp \in Seq(Value) /\ Len(sp) \in Nat
    /\ Len(sp) = Slots(frames, DOMAIN frames)
    /\ Last(frames).fr = "body" /\ CountedBut(heap, {})
    /\ pushed \in Nat

LEMMA BodyFacts ==
    ASSUME Inv, ctl = Running
    PROVE  BodyState
<1>0. InvAt(heap, sp, frames, ctl, this) /\ pushed \in Nat
  BY DEF Inv
<1>a. ctl.op = "body"
  BY DEF Running
<1>1. /\ Good(heap, sp, frames, None) /\ ThisOK(frames, this) /\ ControlOK(heap, sp, frames, ctl)
      /\ frames \in Seq(FrameType) /\ frames # <<>> /\ Len(frames) \in DOMAIN frames
      /\ sp \in Seq(Value) /\ Len(sp) \in Nat
      /\ Len(sp) = 0 + Slots(frames, DOMAIN frames) /\ Slots(frames, DOMAIN frames) \in Nat
      /\ CountedBut(heap, OnTheWay(sp, ctl)) /\ this \in Value \union {NoFn} /\ ctl \in Control
  BY <1>0, <1>a, InvFacts
<1>2. Last(frames).fr = "body"
  BY <1>a, <1>1 DEF ControlOK
<1>3. CountedBut(heap, {})
  BY <1>a, <1>1 DEF OnTheWay
<1>4. Fits(frames, sp)
  BY <1>1, GoodFacts
<1>5. Pop(heap, sp, frames, None, this, 0)
  BY <1>1 DEF Pop
<1> QED
  BY <1>0, <1>1, <1>2, <1>3, <1>4, <1>5 DEF BodyState

\* The end of an application of a function made by partial application, or of a
\* part of an application: the frame goes, and its share of the stack.
LEMMA EndCurriedKeeps ==
    ASSUME Inv, EndCurried
    PROVE  Inv'
<1> DEFINE top == Last(frames)
           low == Front(frames)
<1>0. /\ ctl.op = "ret" /\ top.fr = "curried" /\ frames' = low /\ this' = top.that
      /\ heap' = heap /\ sp' = sp /\ ctl' = ctl /\ pushed' = pushed
  BY DEF EndCurried, Top, Popped
<1>1. ReturnState
  BY <1>0, ReturnFacts
<1>2. /\ Pop(heap, sp, frames, None, this, 0) /\ sp \in Seq(Value) /\ Len(sp) \in Nat
      /\ ctl \in Control /\ Exists(heap, ctl.val) /\ CountedBut(heap, {ctl.val}) /\ pushed \in Nat
  BY <1>1 DEF ReturnState
<1> HIDE DEF top, low
<1>3. /\ Good(heap, sp, low, More(None, top.held \o SubSeq(sp, 1, top.n)))
      /\ Len(sp) = top.n + Slots(low, DOMAIN low) /\ Slots(low, DOMAIN low) \in Nat
  BY <1>2, PopQuiet DEF top, low
<1>4. ThisOK(low, top.that) /\ Fine(heap, low, sp, top)
  BY <1>2, PopFacts DEF top, low
<1>5. low # <<>> /\ top.n = 0 /\ top.held = <<>>
  BY <1>0, <1>4 DEF Fine
<1>6. Good(heap, sp, low, None)
  <2>1. top.held \o SubSeq(sp, 1, top.n) = <<>>
    BY <1>5, SubSeqEmpty, EmptySeq, ConcatEmptySeq
  <2> QED
    BY <1>3, <2>1, Hands
<1>7. Len(sp) = Slots(low, DOMAIN low)
  BY <1>3, <1>5
<1>8. Returns(heap', sp', frames', ctl', this')
  BY <1>0, <1>2, <1>4, <1>5, <1>6, <1>7 DEF Returns
<1>9. InvAt(heap', sp', frames', ctl', this')
  BY <1>8, ReturnsInv
<1> QED
  BY <1>0, <1>2, <1>9 DEF Inv, InvAt

LEMMA AgainKeeps ==
    ASSUME Inv, Again
    PROVE  Inv'
<1> DEFINE top == Last(frames)
           low == Front(frames)
           v == ctl.val
           h == IncAll(heap, <<v>>)
           g == UnrefAll(h, top.held)
<1>0. /\ ctl.op = "ret" /\ top.fr = "again" /\ frames' = low /\ heap' = DecAll(g, <<v>>)
      /\ this' = this /\ sp' = sp /\ ctl' = ctl /\ pushed' = pushed
  BY DEF Again, Top, Popped
<1>1. ReturnState
  BY <1>0, ReturnFacts
<1>2. /\ Good(heap, sp, frames, None) /\ Pop(heap, sp, frames, None, this, 0)
      /\ sp \in Seq(Value) /\ Len(sp) \in Nat
      /\ ctl \in Control /\ Exists(heap, v) /\ CountedBut(heap, {v}) /\ pushed \in Nat
  BY <1>1 DEF ReturnState
<1> HIDE DEF top, low, v, h, g
<1>3. IsFiniteSet(DOMAIN <<v>>) /\ Range(<<v>>) = {v} /\ \A i \in DOMAIN <<v>> : Exists(heap, <<v>>[i])
  BY <1>2, SingleFacts
<1>4. Good(h, sp, frames, More(None, <<v>>)) /\ CountedBut(h, {})
  <2>1. /\ Good(h, sp, frames, More(None, <<v>>))
        /\ \A Z : CountedBut(heap, Z) => CountedBut(h, Z \ Range(<<v>>))
    BY <1>2, <1>3, Took DEF h
  <2>2. {v} \ Range(<<v>>) = {}
    BY <1>3
  <2> QED
    BY <1>2, <2>1, <2>2
<1>5. None \in [Address -> Nat] /\ More(None, <<v>>) \in [Address -> Nat]
  BY <1>3, Hands, MoreNat
<1>6. Pop(h, sp, frames, More(None, <<v>>), this, 0)
  BY <1>2, <1>4 DEF Pop
<1>7. /\ Good(h, sp, low, More(More(None, <<v>>), top.held \o SubSeq(sp, 1, top.n)))
      /\ Len(sp) = top.n + Slots(low, DOMAIN low) /\ Slots(low, DOMAIN low) \in Nat
  BY <1>6, PopQuiet DEF top, low
<1>8. ThisOK(low, top.that) /\ this = Self(top) /\ Fine(h, low, sp, top) /\ top.held \in Seq(Value)
  BY <1>6, PopFacts DEF top, low
<1>9. low # <<>> /\ top.n = 0
  BY <1>0, <1>8 DEF Fine
<1>10. Good(g, sp, low, More(None, <<v>>)) /\ CountedBut(g, {})
  <2>1. top.held \o SubSeq(sp, 1, top.n) = top.held
    BY <1>8, <1>9, SubSeqEmpty, ConcatEmptySeq
  <2>2. Good(h, sp, low, More(More(None, <<v>>), top.held)) /\ IsFiniteSet(DOMAIN top.held)
    BY <1>7, <1>8, <2>1, SeqDomains
  <2>3. /\ Good(g, sp, low, More(None, <<v>>))
        /\ \A Z : CountedBut(h, Z) => CountedBut(g, Z)
    BY <1>5, <2>2, Gave DEF g
  <2> QED
    BY <1>4, <2>3
<1>11. Good(heap', sp, low, None) /\ CountedBut(heap', {v}) /\ Exists(heap', v)
  <2>1. /\ Good(DecAll(g, <<v>>), sp, low, None) /\ (\A o \in Address : Same(g, DecAll(g, <<v>>), o))
        /\ \A Z : CountedBut(g, Z) => CountedBut(DecAll(g, <<v>>), Z \union Range(<<v>>))
    BY <1>3, <1>5, <1>10, Lowered
  <2>2. {} \union Range(<<v>>) = {v}
    BY <1>3
  <2>3. Exists(g, v)
    <3>1. v \in Value
      BY <1>2, ValueFacts
    <3> QED
      BY <1>10, <3>1, HandExists
  <2>4. Exists(DecAll(g, <<v>>), v)
    BY <2>1, <2>3, SameHeap
  <2> QED
    BY <1>0, <1>10, <2>1, <2>2, <2>4
<1>12. Returns(heap', sp', frames', ctl', this')
  <2>1. Len(sp) = Slots(low, DOMAIN low)
    BY <1>7, <1>9
  <2>2. ThisOK(low, this)
    BY <1>0, <1>8 DEF Self
  <2> QED
    BY <1>0, <1>2, <1>9, <1>11, <2>1, <2>2 DEF Returns, v
<1>13. InvAt(heap', sp', frames', ctl', this')
  BY <1>12, ReturnsInv
<1> QED
  BY <1>0, <1>2, <1>13 DEF Inv, InvAt
\* A function that comes back takes the arguments that wait.
LEMMA OverFunctionKeeps ==
    ASSUME Inv, OverFunction
    PROVE  Inv'
<1> DEFINE top == Last(frames)
           low == Front(frames)
           f == ctl.val
           n == top.n
           P == SubSeq(sp, 1, n)
           h == DecAll(heap, P)
           g == Frame("again", f, <<>>, <<f>>, 0, this)
<1>0. /\ ctl.op = "ret" /\ top.fr = "over" /\ IsFunction(f)
      /\ heap' = IncAll(h, <<f>>) /\ frames' = Append(low, g) /\ ctl' = Applying(f, n)
      /\ this' = this /\ sp' = sp /\ pushed' = pushed
  BY DEF OverFunction, Top, Popped, Pushed
<1>1. ReturnState
  BY <1>0, ReturnFacts
<1>2. /\ Good(heap, sp, frames, None) /\ Pop(heap, sp, frames, None, this, 0)
      /\ sp \in Seq(Value) /\ Len(sp) \in Nat /\ this \in Value \union {NoFn}
      /\ Exists(heap, f) /\ CountedBut(heap, {f}) /\ pushed \in Nat
      /\ Len(frames) \in DOMAIN frames
  BY <1>1 DEF ReturnState
<1>3. Callable(heap, f) /\ f \in Value
  <2>1. f \in Value
    BY <1>2, ValueFacts
  <2>2. Callable(heap, f)
    BY <1>0, <2>1 DEF IsFunction, IsCurried, Counted, Callable, Value
  <2> QED
    BY <2>1, <2>2
<1> HIDE DEF top, low, f, n, P, h, g
<1>4. /\ Good(heap, sp, low, More(None, top.held \o P))
      /\ Has(frames, sp, Len(frames)) = top.held \o P
      /\ Len(sp) = n + Slots(low, DOMAIN low) /\ Slots(low, DOMAIN low) \in Nat
      /\ TopOf(sp, n, P)
  <2>1. Good(heap, sp, low, More(None, top.held \o P))
    BY <1>2, PopQuiet DEF top, low, P, n
  <2>2. Has(frames, sp, Len(frames)) = top.held \o P
    BY <1>2, PopQuiet DEF top, P, n
  <2>3. Len(sp) = n + Slots(low, DOMAIN low) /\ Slots(low, DOMAIN low) \in Nat
    BY <1>2, PopQuiet DEF top, low, n
  <2>4. TopOf(sp, n, P)
    BY <1>2, PopQuiet DEF top, P, n
  <2> QED
    BY <2>1, <2>2, <2>3, <2>4
<1>5. /\ ThisOK(low, top.that) /\ this = Self(top) /\ Fine(heap, low, sp, top) /\ n \in Nat
      /\ Fits(low, sp) /\ low \in Seq(FrameType)
  BY <1>2, PopFacts DEF top, low, n
<1>6. low # <<>> /\ top.held = <<>>
  BY <1>0, <1>5 DEF Fine
<1>7. /\ P \in Seq(Value) /\ DOMAIN P = 1 .. n /\ IsFiniteSet(DOMAIN P)
      /\ (\A i \in 1 .. n : P[i] = sp[i]) /\ Range(P) = Firsts(sp, n)
  <2>1. TopOf(sp, n, P)
    BY <1>4
  <2> QED
    BY <2>1, Topmost
<1>8. top.held \o P = P
  <2>1. <<>> \o P = P
    BY <1>7, ConcatEmptySeq
  <2> QED
    BY <1>6, <2>1
<1>9. \A i \in 1 .. n : Exists(heap, sp[i])
  <2> TAKE i \in 1 .. n
  <2>1. sp[i] \in Range(Has(frames, sp, Len(frames)))
    BY <1>4, <1>7, <1>8 DEF Range
  <2> QED
    BY <1>2, <2>1, HasExists
<1>10. /\ Good(h, sp, low, None) /\ (\A o \in Address : Same(heap, h, o))
       /\ CountedBut(h, {f} \union Range(P))
  <2>1. Good(heap, sp, low, More(None, P)) /\ None \in [Address -> Nat]
    BY <1>4, <1>8, Hands
  <2>2. /\ Good(h, sp, low, None) /\ (\A o \in Address : Same(heap, h, o))
        /\ \A Z : CountedBut(heap, Z) => CountedBut(h, Z \union Range(P))
    BY <1>7, <2>1, Lowered DEF h
  <2> QED
    BY <1>2, <2>2
<1>11. IsFiniteSet(DOMAIN <<f>>) /\ Range(<<f>>) = {f} /\ \A i \in DOMAIN <<f>> : Exists(h, <<f>>[i])
  <2>1. Exists(h, f)
    BY <1>2, <1>10, SameHeap
  <2> QED
    BY <2>1, SingleFacts
<1>12. /\ Good(heap', sp, low, More(None, <<f>>)) /\ (\A o \in Address : Same(h, heap', o))
       /\ CountedBut(heap', Firsts(sp, n))
  <2>1. /\ Good(IncAll(h, <<f>>), sp, low, More(None, <<f>>))
        /\ (\A o \in Address : Same(h, IncAll(h, <<f>>), o))
        /\ \A Z : CountedBut(h, Z) => CountedBut(IncAll(h, <<f>>), Z \ Range(<<f>>))
    BY <1>10, <1>11, Took
  <2>2. CountedBut(heap', ({f} \union Range(P)) \ Range(<<f>>))
    BY <1>0, <1>10, <2>1
  <2>3. ({f} \union Range(P)) \ Range(<<f>>) \subseteq Firsts(sp, n)
    BY <1>7, <1>11
  <2>4. CountedBut(heap', Firsts(sp, n))
    BY <2>2, <2>3 DEF CountedBut
  <2> QED
    BY <1>0, <2>1, <2>4
<1>13. /\ g \in FrameType /\ g.fr = "again" /\ g.fn = f /\ g.held = <<f>> /\ g.n = 0 /\ g.that = this
  <2>1. "again" \in Frames /\ f \in Value \union {NoFn} /\ <<>> \in Seq(Value) /\ <<f>> \in Seq(Value) /\ 0 \in Nat
    BY <1>3, EmptySeq DEF Frames
  <2>2. g = Frame("again", f, <<>>, <<f>>, 0, this)
    BY DEF g
  <2> QED
    BY <1>2, <2>1, <2>2 DEF Frame, FrameType
<1>14. g.held \o SubSeq(sp, (n - g.n) + 1, n) = <<f>>
  <2>1. (n - g.n) + 1 = n + 1
    BY <1>5, <1>13
  <2>2. SubSeq(sp, n + 1, n) = <<>>
    BY <1>5, SubSeqEmpty
  <2>3. <<f>> \in Seq(Value)
    BY <1>3
  <2> QED
    BY <1>13, <2>1, <2>2, <2>3, ConcatEmptySeq
<1>15. Push(heap', sp, low, frames', None, this, g, n)
  <2>1. NewTop(low, frames', sp, g, n)
    BY <1>0, <1>4, <1>5, <1>13 DEF NewTop
  <2>2. Fine(heap', low, sp, g)
    BY <1>6, <1>13 DEF Fine
  <2>3. ThisOK(low, this)
    BY <1>0, <1>5 DEF Self
  <2> QED
    BY <1>12, <1>13, <1>14, <2>1, <2>2, <2>3, Hands DEF Push
<1>16. Applies(heap', sp', frames', f, n, this')
  <2>1. /\ Good(heap', sp, frames', None) /\ ThisOK(frames', Self(g)) /\ frames' # <<>> /\ Last(frames') = g
        /\ Len(sp) = (n - g.n) + Slots(frames', DOMAIN frames')
    BY <1>15, PushFacts
  <2>2. Has(frames', sp, Len(frames')) = <<f>>
    <3>1. Has(frames', sp, Len(frames')) = Lot(g, sp, n)
      BY <1>15, PushFacts
    <3> QED
      BY <1>14, <3>1 DEF Lot
  <2>3. Self(g) = this'
    BY <1>0, <1>13 DEF Self
  <2>4. Len(sp) = n + Slots(frames', DOMAIN frames')
    BY <1>5, <1>13, <2>1
  <2>5. Calls(heap', frames', sp, Len(frames'), f)
    <3>1. frames'[Len(frames')] = g
      BY <2>1 DEF Last
    <3> QED
      BY <1>11, <1>13, <2>2, <3>1 DEF Calls
  <2>6. Callable(heap', f) /\ \A i \in 1 .. n : Exists(heap', sp[i])
    BY <1>3, <1>9, <1>10, <1>12, SameHeap
  <2> QED
    BY <1>0, <1>5, <1>12, <1>13, <2>1, <2>3, <2>4, <2>5, <2>6 DEF Applies
<1>17. InvAt(heap', sp', frames', ctl', this')
  BY <1>0, <1>16, AppliesInv
<1> QED
  BY <1>0, <1>2, <1>17 DEF Inv, InvAt
\* A reference to one value is taken,
LEMMA TookOne ==
    ASSUME NEW h, NEW s, NEW fs, NEW hand, Good(h, s, fs, hand), NEW v, Exists(h, v),
           NEW g, g = IncAll(h, <<v>>)
    PROVE  /\ Good(g, s, fs, More(hand, <<v>>)) /\ More(hand, <<v>>) \in [Address -> Nat]
           /\ \A o \in Address : Same(h, g, o)
           /\ \A Z : CountedBut(h, Z) => CountedBut(g, Z \ {v})
<1>1. hand \in [Address -> Nat]
  BY GoodFacts
<1>2. IsFiniteSet(DOMAIN <<v>>) /\ Range(<<v>>) = {v} /\ \A i \in DOMAIN <<v>> : Exists(h, <<v>>[i])
  BY SingleFacts
<1>3. /\ Good(g, s, fs, More(hand, <<v>>)) /\ (\A o \in Address : Same(h, g, o))
      /\ \A Z : CountedBut(h, Z) => CountedBut(g, Z \ Range(<<v>>))
  BY <1>2, Took
<1>4. More(hand, <<v>>) \in [Address -> Nat]
  BY <1>1, <1>2, MoreNat
<1> QED
  BY <1>2, <1>3, <1>4

\* and let go without a deletion.
LEMMA LoweredOne ==
    ASSUME NEW h, NEW s, NEW fs, NEW hand \in [Address -> Nat], NEW v \in Value,
           Good(h, s, fs, More(hand, <<v>>)), NEW g, g = DecAll(h, <<v>>)
    PROVE  /\ Good(g, s, fs, hand) /\ Exists(h, v) /\ Exists(g, v)
           /\ \A o \in Address : Same(h, g, o)
           /\ \A Z : CountedBut(h, Z) => CountedBut(g, Z \union {v})
<1>1. IsFiniteSet(DOMAIN <<v>>) /\ Range(<<v>>) = {v}
  BY SingleFacts
<1>2. /\ Good(g, s, fs, hand) /\ (\A o \in Address : Same(h, g, o))
      /\ \A Z : CountedBut(h, Z) => CountedBut(g, Z \union Range(<<v>>))
  BY <1>1, Lowered
<1>3. Exists(h, v)
  <2>1. CASE v \in Address
    <3>1. More(hand, <<v>>)[v] = hand[v] + 1 /\ hand[v] \in Nat
      BY <2>1, SingleFacts DEF More
    <3>2. More(hand, <<v>>)[v] > 0
      BY <3>1
    <3>3. h[v].kind # "freed"
      BY <2>1, <3>2, Live
    <3> QED
      BY <2>1, <3>3 DEF Exists
  <2>2. CASE v \notin Address
    BY <2>2 DEF Value, Exists
  <2> QED
    BY <2>1, <2>2
<1>4. Exists(g, v)
  BY <1>2, <1>3, SameHeap
<1> QED
  BY <1>1, <1>2, <1>3, <1>4

\* A new object that has nothing
LEMMA NewMade ==
    ASSUME NEW h, NEW s, NEW fs, NEW hand, Good(h, s, fs, hand), NEW kind \in {"atom", "exn"},
           Free(h) # {}, NEW g, g = With(h, New(kind))
    PROVE  /\ Good(g, s, fs, hand) /\ Exists(g, Fresh(h)) /\ Fresh(h) \in Address
           /\ \A v : Exists(h, v) => Exists(g, v)
           /\ \A v : Callable(h, v) => Callable(g, v)
           /\ \A Z : CountedBut(h, Z) => CountedBut(g, Z \union {Fresh(h)})
<1> DEFINE x == New(kind)
<1>1. x = [rc |-> 0, kind |-> kind, refs |-> <<>>, arity |-> 0]
  BY NewIs
<1>2. x \in Object /\ x.rc = 0 /\ x.kind = kind /\ x.refs = <<>>
  <2>1. <<>> \in Seq(Value)
    BY EmptySeq
  <2> HIDE DEF x
  <2> QED
    BY <1>1, <2>1 DEF Object
<1> HIDE DEF x
<1>3. hand \in [Address -> Nat] /\ More(hand, x.refs) = hand
  BY <1>2, GoodFacts, Hands
<1>4. Makes(h, g, s, fs, hand, x)
  <2>1. NewObject(h, x)
    BY <1>2 DEF NewObject
  <2> QED
    BY <1>3, <2>1 DEF Makes, x
<1>5. /\ Good(g, s, fs, hand)
      /\ Fresh(h) \in Address /\ h[Fresh(h)].kind = "freed" /\ g[Fresh(h)] = x
      /\ \A o \in Address \ {Fresh(h)} : g[o] = h[o]
      /\ \A Z : CountedBut(h, Z) => CountedBut(g, Z \union {Fresh(h)})
  BY <1>4, Filled
<1>6. Exists(g, Fresh(h))
  BY <1>2, <1>5 DEF Exists
<1>7. \A v : Exists(h, v) => Exists(g, v)
  BY <1>5 DEF Exists
<1>8. \A v : Callable(h, v) => Callable(g, v)
  BY <1>5 DEF Callable
<1> QED
  BY <1>5, <1>6, <1>7, <1>8

\* What is below the topmost n places
LEMMA Lowers ==
    ASSUME NEW fs, NEW s, NEW n, Fits(fs, s), n \in Nat, Len(s) = n + Slots(fs, DOMAIN fs),
           NEW t, t = SubSeq(s, n + 1, Len(s))
    PROVE  t \in Seq(Value) /\ Len(t) = Slots(fs, DOMAIN fs) /\ Len(t) \in Nat /\ Resize(fs, s, t)
<1> DEFINE m == Slots(fs, DOMAIN fs)
<1>1. s \in Seq(Value) /\ m \in Nat /\ Len(s) \in Nat
  BY SlotsFacts, SeqDomains DEF Fits
<1>2. m <= Len(s) - n /\ n <= Len(s) /\ Len(s) - n = m
  BY <1>1
<1> HIDE DEF m
<1>3. t \in Seq(Value) /\ Len(t) = Len(s) - n /\ Bottom(s, t, m)
  BY <1>1, <1>2, Lower
<1> QED
  BY <1>1, <1>2, <1>3 DEF Resize, m
\* What is not a function comes back: the arguments that wait are given back,
LEMMA OverOtherBack ==
    ASSUME Inv, OverOther, NEW top, top = Last(frames), NEW low, low = Front(frames),
           NEW v, v = ctl.val, NEW n, n = top.n, NEW P, P = SubSeq(sp, 1, n),
           NEW back, back = DecAll(UnrefAll(IncAll(heap, <<v>>), P), <<v>>)
    PROVE  /\ Good(back, sp, low, None) /\ CountedBut(back, {v}) /\ Exists(back, v)
           /\ ThisOK(low, top.that) /\ this = Self(top) /\ low # <<>> /\ n \in Nat /\ Fits(low, sp)
           /\ Len(sp) = n + Slots(low, DOMAIN low)
           /\ ctl.op = "ret" /\ ctl \in Control /\ pushed \in Nat
<1> DEFINE h == IncAll(heap, <<v>>)
           less == UnrefAll(h, P)
<1>0. ctl.op = "ret" /\ top.fr = "over" /\ back = DecAll(less, <<v>>)
  BY DEF OverOther, Top
<1>1. ReturnState
  BY <1>0, ReturnFacts
<1>2. /\ Good(heap, sp, frames, None) /\ Pop(heap, sp, frames, None, this, 0)
      /\ sp \in Seq(Value) /\ Len(sp) \in Nat /\ ctl \in Control
      /\ Exists(heap, v) /\ CountedBut(heap, {v}) /\ pushed \in Nat
  BY <1>1 DEF ReturnState
<1>3. v \in Value
  BY <1>2, ValueFacts
<1> HIDE DEF h, less
<1>4. /\ Good(h, sp, frames, More(None, <<v>>)) /\ More(None, <<v>>) \in [Address -> Nat]
      /\ CountedBut(h, {})
  <2>1. /\ Good(h, sp, frames, More(None, <<v>>)) /\ More(None, <<v>>) \in [Address -> Nat]
        /\ \A Z : CountedBut(heap, Z) => CountedBut(h, Z \ {v})
    BY <1>2, TookOne DEF h
  <2>2. {v} \ {v} = {}
    OBVIOUS
  <2> QED
    BY <1>2, <2>1, <2>2
<1>5. Pop(h, sp, frames, More(None, <<v>>), this, 0)
  BY <1>2, <1>4 DEF Pop
<1>6. /\ Good(h, sp, low, More(More(None, <<v>>), top.held \o P))
      /\ Len(sp) = n + Slots(low, DOMAIN low) /\ TopOf(sp, n, P)
  BY <1>5, PopQuiet
<1>7. /\ ThisOK(low, top.that) /\ this = Self(top) /\ Fine(h, low, sp, top) /\ n \in Nat
      /\ Fits(low, sp)
  BY <1>5, PopFacts
<1>8. low # <<>> /\ top.held = <<>>
  BY <1>0, <1>7 DEF Fine
<1>9. P \in Seq(Value) /\ IsFiniteSet(DOMAIN P) /\ top.held \o P = P
  <2>1. P \in Seq(Value) /\ IsFiniteSet(DOMAIN P)
    BY <1>6, Topmost
  <2> QED
    BY <1>8, <2>1, ConcatEmptySeq
<1>10. Good(less, sp, low, More(None, <<v>>)) /\ CountedBut(less, {})
  <2>1. Good(h, sp, low, More(More(None, <<v>>), P))
    BY <1>6, <1>9
  <2>2. /\ Good(less, sp, low, More(None, <<v>>))
        /\ \A Z : CountedBut(h, Z) => CountedBut(less, Z)
    BY <1>4, <1>9, <2>1, Gave DEF less
  <2> QED
    BY <1>4, <2>2
<1>11. Good(back, sp, low, None) /\ CountedBut(back, {v}) /\ Exists(back, v)
  <2>1. /\ Good(back, sp, low, None) /\ Exists(back, v)
        /\ \A Z : CountedBut(less, Z) => CountedBut(back, Z \union {v})
    BY <1>0, <1>3, <1>10, Hands, LoweredOne
  <2>2. {} \union {v} = {v}
    OBVIOUS
  <2> QED
    BY <1>10, <2>1, <2>2
<1> QED
  BY <1>0, <1>2, <1>6, <1>7, <1>8, <1>11

\* and an exception comes back.
LEMMA OverOtherKeeps ==
    ASSUME Inv, OverOther
    PROVE  Inv'
<1> DEFINE top == Last(frames)
           low == Front(frames)
           v == ctl.val
           n == top.n
           P == SubSeq(sp, 1, n)
           back == DecAll(UnrefAll(IncAll(heap, <<v>>), P), <<v>>)
           g == Drop(back, v)
<1>0. /\ top.fr = "over"
      /\ IF back[v].kind = "exn" THEN heap' = back /\ ctl' = ctl
         ELSE Free(g) # {} /\ heap' = With(g, New("exn")) /\ ctl' = Returning(Fresh(g))
      /\ sp' = SubSeq(sp, n + 1, Len(sp)) /\ frames' = low /\ this' = this /\ pushed' = pushed
  BY DEF OverOther, Top, Popped, Pushed, Below
<1>1. /\ Good(back, sp, low, None) /\ CountedBut(back, {v}) /\ Exists(back, v)
      /\ ThisOK(low, top.that) /\ this = Self(top) /\ low # <<>> /\ n \in Nat /\ Fits(low, sp)
      /\ Len(sp) = n + Slots(low, DOMAIN low)
      /\ ctl.op = "ret" /\ ctl \in Control /\ pushed \in Nat
  BY OverOtherBack
<1> HIDE DEF top, low, v, n, P, back, g
<1>2. Good(heap', sp, low, None) /\ ctl' \in Control /\ ctl'.op = "ret"
       /\ Exists(heap', ctl'.val) /\ CountedBut(heap', {ctl'.val})
  <2>1. CASE back[v].kind = "exn"
    BY <1>0, <1>1, <2>1 DEF v
  <2>2. CASE back[v].kind # "exn"
    <3>1. Free(g) # {} /\ heap' = With(g, New("exn")) /\ ctl' = Returning(Fresh(g))
      BY <1>0, <2>2
    <3>2. Good(g, sp, low, None) /\ CountedBut(g, {})
      <4>1. Good(g, sp, low, None) /\ \A Z : CountedBut(back, Z) => CountedBut(g, Z \ {v})
        BY <1>1, Drops DEF g
      <4>2. {v} \ {v} = {}
        OBVIOUS
      <4> QED
        BY <1>1, <4>1, <4>2
    <3>3. /\ Good(heap', sp, low, None) /\ Exists(heap', Fresh(g))
          /\ \A Z : CountedBut(g, Z) => CountedBut(heap', Z \union {Fresh(g)})
      BY <3>1, <3>2, NewMade
    <3>4. CountedBut(heap', {Fresh(g)})
      <4>1. {} \union {Fresh(g)} = {Fresh(g)}
        OBVIOUS
      <4> QED
        BY <3>2, <3>3, <4>1
    <3>5. ctl' \in Control /\ ctl'.op = "ret" /\ ctl'.val = Fresh(g)
      BY <3>1, <3>3, ResultFacts
    <3> QED
      BY <3>3, <3>4, <3>5
  <2> QED
    BY <2>1, <2>2
<1>3. sp' \in Seq(Value) /\ Len(sp') = Slots(low, DOMAIN low) /\ Len(sp') \in Nat /\ Resize(low, sp, sp')
  BY <1>0, <1>1, Lowers
<1>4. Good(heap', sp', low, None)
  BY <1>2, <1>3, Resized
<1>5. ThisOK(low, this)
  BY <1>0, <1>1 DEF Self
<1>6. Returns(heap', sp', frames', ctl', this')
  BY <1>0, <1>1, <1>2, <1>3, <1>4, <1>5 DEF Returns
<1>7. InvAt(heap', sp', frames', ctl', this')
  BY <1>6, ReturnsInv
<1> QED
  BY <1>0, <1>1, <1>7 DEF Inv, InvAt

\* A body where it was
LEMMA FineBody ==
    ASSUME NEW h, NEW fs, NEW s, NEW f, NEW g, Fine(h, fs, s, f), f.fr = "body",
           g.fr = "body", g.fn = f.fn, g.n = f.n
    PROVE  Fine(h, fs, s, g)
<1>1. CASE fs = <<>>
  BY <1>1 DEF Fine
<1>2. CASE fs # <<>>
  BY <1>2 DEF Fine
<1> QED
  BY <1>1, <1>2

\* A body gets a result, and keeps it or not.
LEMMA TakeKeeps ==
    ASSUME Inv, Take
    PROVE  Inv'
<1> DEFINE top == Last(frames)
           low == Front(frames)
           v == ctl.val
           n == top.n
           P == SubSeq(sp, 1, n)
           h == IncAll(heap, <<v>>)
           held == Append(top.held, v)
           g == [top EXCEPT !.held = held]
<1>0. /\ ctl.op = "ret" /\ top.fr = "body"
      /\ \/ heap' = h /\ frames' = Append(low, g)
         \/ heap' = Drop(heap, v) /\ frames' = frames
      /\ ctl' = Running /\ sp' = sp /\ this' = this /\ pushed' = pushed
  BY DEF Take, Top, Popped, Inc
<1>1. ReturnState
  BY <1>0, ReturnFacts
<1>2. /\ Good(heap, sp, frames, None) /\ Pop(heap, sp, frames, None, this, 0)
      /\ sp \in Seq(Value) /\ Len(sp) \in Nat /\ ThisOK(frames, this) /\ frames # <<>>
      /\ Exists(heap, v) /\ CountedBut(heap, {v}) /\ pushed \in Nat
      /\ Len(sp) = Slots(frames, DOMAIN frames)
  BY <1>1 DEF ReturnState
<1>3. v \in Value /\ {v} \ {v} = {}
  BY <1>2, ValueFacts
<1>4. CASE heap' = h /\ frames' = Append(low, g)
  <2> HIDE DEF top, low, v, n, P, h, held, g
  <2>1. /\ Good(h, sp, frames, More(None, <<v>>)) /\ More(None, <<v>>) \in [Address -> Nat]
        /\ CountedBut(h, {})
    <3>1. /\ Good(h, sp, frames, More(None, <<v>>)) /\ More(None, <<v>>) \in [Address -> Nat]
          /\ \A Z : CountedBut(heap, Z) => CountedBut(h, Z \ {v})
      BY <1>2, TookOne DEF h
    <3> QED
      BY <1>2, <1>3, <3>1
  <2>2. Pop(h, sp, frames, More(None, <<v>>), this, 0)
    BY <1>2, <2>1 DEF Pop
  <2>3. /\ Good(h, sp, low, More(More(None, <<v>>), top.held \o P))
        /\ Len(sp) = n + Slots(low, DOMAIN low) /\ TopOf(sp, n, P)
    BY <2>2, PopQuiet DEF top, low, n, P
  <2>4. /\ ThisOK(low, top.that) /\ this = Self(top) /\ Fine(h, low, sp, top) /\ n \in Nat
        /\ Fits(low, sp) /\ top \in FrameType /\ top.held \in Seq(Value)
    BY <2>2, PopFacts DEF top, low, n
  <2>5. P \in Seq(Value)
    BY <2>3, Topmost
  <2>6. held \in Seq(Value)
    BY <1>3, <2>4, AppendProperties DEF held
  <2>7. /\ g \in FrameType /\ g.held = held
        /\ g.fr = top.fr /\ g.fn = top.fn /\ g.n = n /\ g.that = top.that
    BY <2>4, <2>6, FrameHolds DEF g, n
  <2>8. More(More(None, <<v>>), top.held \o P) = More(None, held \o P)
    <3>1. None \in [Address -> Nat]
      BY Hands
    <3>2. ASSUME NEW o \in Address
          PROVE  More(None, <<v>>)[o] + Occurs(top.held \o P, o) = None[o] + Occurs(held \o P, o)
      <4>1. Occurs(top.held \o P, o) = Occurs(top.held, o) + Occurs(P, o)
        BY <2>4, <2>5, OccursConcat
      <4>2. Occurs(held \o P, o) = Occurs(held, o) + Occurs(P, o)
        BY <2>5, <2>6, OccursConcat
      <4>3. Occurs(held, o) = Occurs(top.held, o) + (IF v = o THEN 1 ELSE 0)
        BY <1>3, <2>4, OccursAppend DEF held
      <4>4. More(None, <<v>>)[o] = None[o] + (IF v = o THEN 1 ELSE 0)
        BY <3>1, SingleFacts, MoreNat
      <4>5. Occurs(top.held, o) \in Nat /\ Occurs(P, o) \in Nat /\ None[o] \in Nat
        BY <2>4, <2>5, SeqDomains, OccursNat, <3>1
      <4> QED
        BY <4>1, <4>2, <4>3, <4>4, <4>5
    <3> QED
      BY <2>1, <3>1, <3>2, SameBag
  <2>9. g.held \o SubSeq(sp, (n - g.n) + 1, n) = held \o P
    <3>1. (n - g.n) + 1 = 1
      BY <2>4, <2>7
    <3> QED
      BY <2>7, <3>1 DEF P
  <2>10. Push(h, sp, low, frames', None, top.that, g, n)
    <3>1. NewTop(low, frames', sp, g, n)
      BY <1>4, <2>3, <2>4, <2>7 DEF NewTop
    <3>2. Fine(h, low, sp, g)
      <4>1. g.fr = "body"
        BY <1>0, <2>7
      <4>2. top.fr = "body"
        BY <1>0
      <4>3. g.n = top.n
        BY <2>7 DEF n
      <4> QED
        BY <2>4, <2>7, <4>1, <4>2, <4>3, FineBody
    <3>3. Good(h, sp, low, More(None, g.held \o SubSeq(sp, (n - g.n) + 1, n)))
      BY <2>3, <2>8, <2>9
    <3> QED
      BY <2>4, <2>7, <3>1, <3>2, <3>3, Hands DEF Push
  <2>11. /\ Good(h, sp, frames', None) /\ ThisOK(frames', Self(g)) /\ frames' # <<>>
         /\ Last(frames') = g /\ Len(sp) = (n - g.n) + Slots(frames', DOMAIN frames')
    BY <2>10, PushFacts
  <2>12. Self(g) = this
    BY <2>4, <2>7 DEF Self
  <2>13. Len(sp) = Slots(frames', DOMAIN frames')
    <3>1. Slots(frames', DOMAIN frames') \in Nat
      <4>1. Fits(frames', sp)
        BY <2>11, GoodFacts
      <4> QED
        BY <4>1, SlotsFacts DEF Fits
    <3> QED
      BY <2>4, <2>7, <2>11, <3>1
  <2>14. Last(frames').fr = "body"
    BY <1>0, <2>7, <2>11 DEF top
  <2>15. Runs(heap', sp', frames', this')
    BY <1>0, <1>2, <1>4, <2>1, <2>11, <2>12, <2>13, <2>14 DEF Runs
  <2> QED
    BY <1>0, <1>2, <2>15, RunsInv DEF Inv
<1>5. CASE heap' = Drop(heap, v) /\ frames' = frames
  <2>1. Good(heap', sp, frames, None) /\ CountedBut(heap', {})
    <3> HIDE DEF v
    <3>1. Good(heap', sp, frames, None) /\ \A Z : CountedBut(heap, Z) => CountedBut(heap', Z \ {v})
      BY <1>2, <1>5, Drops
    <3> QED
      BY <1>2, <1>3, <3>1
  <2>2. Runs(heap', sp', frames', this')
    BY <1>0, <1>2, <1>5, <2>1 DEF Runs, top
  <2> QED
    BY <1>0, <1>2, <2>2, RunsInv DEF Inv
<1> QED
  BY <1>0, <1>4, <1>5
\* In hand, the order makes no difference.
LEMMA Swapped ==
    ASSUME NEW u \in [Address -> Nat], NEW a \in Seq(Value), NEW b \in Seq(Value)
    PROVE  More(u, a \o b) = More(u, b \o a)
<1>1. ASSUME NEW o \in Address
      PROVE  u[o] + Occurs(a \o b, o) = u[o] + Occurs(b \o a, o)
  <2>1. Occurs(a \o b, o) = Occurs(a, o) + Occurs(b, o)
    BY OccursConcat
  <2>2. Occurs(b \o a, o) = Occurs(b, o) + Occurs(a, o)
    BY OccursConcat
  <2>3. Occurs(a, o) \in Nat /\ Occurs(b, o) \in Nat
    BY SeqDomains, OccursNat
  <2> QED
    BY <2>1, <2>2, <2>3
<1> QED
  BY <1>1, SameBag

\* A body gives back what it has, and returns v.
Leaves(h, v) ==
    /\ BodyState /\ Len(frames) > 1 /\ Leave(h, v)
    /\ Good(h, sp, frames, None) /\ Exists(h, v) /\ CountedBut(h, {v})

LEMMA LeaveKeeps ==
    ASSUME NEW h, NEW v, Leaves(h, v)
    PROVE  Inv'
<1> DEFINE top == Last(frames)
           low == Front(frames)
           n == top.n
           P == SubSeq(sp, 1, n)
           g == IncAll(h, <<v>>)
           u == UnrefAll(g, P \o top.held)
<1>0. /\ heap' = DecAll(u, <<v>>) /\ sp' = SubSeq(sp, n + 1, Len(sp)) /\ this' = top.that
      /\ frames' = low /\ ctl' = Returning(v) /\ pushed' = pushed
  BY DEF Leaves, Leave, Inc, Top, Popped, Pushed, Below, Usable
<1>1. /\ Good(h, sp, frames, None) /\ Exists(h, v) /\ CountedBut(h, {v}) /\ Len(frames) > 1
      /\ Pop(heap, sp, frames, None, this, 0) /\ pushed \in Nat
  BY DEF Leaves, BodyState
<1>2. v \in Value /\ {v} \ {v} = {} /\ {} \union {v} = {v}
  BY <1>1, ValueFacts
<1> HIDE DEF top, low, n, P, g, u
<1>3. /\ Good(g, sp, frames, More(None, <<v>>)) /\ More(None, <<v>>) \in [Address -> Nat]
      /\ CountedBut(g, {})
  <2>1. /\ Good(g, sp, frames, More(None, <<v>>)) /\ More(None, <<v>>) \in [Address -> Nat]
        /\ \A Z : CountedBut(h, Z) => CountedBut(g, Z \ {v})
    BY <1>1, TookOne DEF g
  <2> QED
    BY <1>1, <1>2, <2>1
<1>4. Pop(g, sp, frames, More(None, <<v>>), this, 0)
  BY <1>1, <1>3 DEF Pop
<1>5. /\ Good(g, sp, low, More(More(None, <<v>>), top.held \o P))
      /\ Len(sp) = n + Slots(low, DOMAIN low) /\ TopOf(sp, n, P)
  BY <1>4, PopQuiet DEF top, low, n, P
<1>6. /\ ThisOK(low, top.that) /\ n \in Nat /\ Fits(low, sp) /\ top.held \in Seq(Value)
      /\ low # <<>>
  BY <1>1, <1>4, PopFacts DEF top, low, n
<1>7. P \in Seq(Value) /\ P \o top.held \in Seq(Value) /\ IsFiniteSet(DOMAIN (P \o top.held))
  <2>1. P \in Seq(Value)
    BY <1>5, Topmost
  <2>2. P \o top.held \in Seq(Value)
    BY <1>6, <2>1, Joined
  <2> QED
    BY <2>1, <2>2, SeqDomains
<1>8. Good(g, sp, low, More(More(None, <<v>>), P \o top.held))
  <2>1. More(More(None, <<v>>), top.held \o P) = More(More(None, <<v>>), P \o top.held)
    BY <1>3, <1>6, <1>7, Swapped
  <2> QED
    BY <1>5, <2>1
<1>9. Good(u, sp, low, More(None, <<v>>)) /\ CountedBut(u, {})
  <2>1. /\ Good(u, sp, low, More(None, <<v>>))
        /\ \A Z : CountedBut(g, Z) => CountedBut(u, Z)
    BY <1>3, <1>7, <1>8, Gave DEF u
  <2> QED
    BY <1>3, <2>1
<1>10. Good(heap', sp, low, None) /\ CountedBut(heap', {v}) /\ Exists(heap', v)
  <2>1. /\ Good(heap', sp, low, None) /\ Exists(heap', v)
        /\ \A Z : CountedBut(u, Z) => CountedBut(heap', Z \union {v})
    BY <1>0, <1>2, <1>9, Hands, LoweredOne
  <2> QED
    BY <1>2, <1>9, <2>1
<1>11. sp' \in Seq(Value) /\ Len(sp') = Slots(low, DOMAIN low) /\ Len(sp') \in Nat /\ Resize(low, sp, sp')
  BY <1>0, <1>5, <1>6, Lowers
<1>12. Good(heap', sp', low, None)
  BY <1>10, <1>11, Resized
<1>13. ctl' \in Control /\ ctl'.op = "ret" /\ ctl'.val = v
  BY <1>0, <1>10, ResultFacts
<1>14. Returns(heap', sp', frames', ctl', this')
  BY <1>0, <1>6, <1>10, <1>11, <1>12, <1>13 DEF Returns
<1>15. InvAt(heap', sp', frames', ctl', this')
  BY <1>14, ReturnsInv
<1> QED
  BY <1>0, <1>1, <1>15 DEF Inv, InvAt

\* What a body can use exists.
LEMMA UsableFacts ==
    ASSUME BodyState
    PROVE  /\ Usable \in Seq(Value)
           /\ \A v \in Range(Usable) : Exists(heap, v)
           /\ Usable = SubSeq(sp, 1, Top.n) \o Top.held
           /\ Top \in FrameType /\ Top.n \in Nat /\ Top.held \in Seq(Value)
           /\ SubSeq(sp, 1, Top.n) \in Seq(Value) /\ Len(SubSeq(sp, 1, Top.n)) = Top.n
<1> DEFINE P == SubSeq(sp, 1, Top.n)
<1>0. Usable = P \o Top.held
  BY DEF Usable, Pushed
<1>1. /\ Good(heap, sp, frames, None) /\ Pop(heap, sp, frames, None, this, 0)
      /\ Len(frames) \in DOMAIN frames
  BY DEF BodyState
<1>2. Top.held \in Seq(Value) /\ Top \in FrameType /\ Top.n \in Nat
  BY <1>1, PopFacts DEF Top
<1>3. Has(frames, sp, Len(frames)) = Top.held \o P /\ TopOf(sp, Top.n, P)
  BY <1>1, PopQuiet DEF Top
<1> HIDE DEF P
<1>4. P \in Seq(Value) /\ Len(P) = Top.n
  BY <1>3, Topmost
<1>5. Usable \in Seq(Value)
  BY <1>0, <1>2, <1>4, Joined
<1>6. ASSUME NEW v \in Range(Usable)
      PROVE  Exists(heap, v)
  <2>1. PICK i \in DOMAIN Usable : Usable[i] = v
    BY DEF Range
  <2>2. v \in Range(Top.held \o P)
    <3>1. /\ DOMAIN Usable = 1 .. Len(P) + Len(Top.held) /\ Len(P) \in Nat /\ Len(Top.held) \in Nat
          /\ DOMAIN (Top.held \o P) = 1 .. Len(Top.held) + Len(P)
      BY <1>0, <1>2, <1>4
    <3>2. CASE i <= Len(P)
      <4>1. i \in 1 .. Len(P)
        BY <2>1, <3>1, <3>2
      <4>2. (Top.held \o P)[Len(Top.held) + i] = P[i] /\ (P \o Top.held)[i] = P[i]
        BY <1>2, <1>4, <4>1, Joined, SMTT(30)
      <4>3. Len(Top.held) + i \in DOMAIN (Top.held \o P)
        BY <3>1, <4>1
      <4> QED
        BY <1>0, <2>1, <4>2, <4>3 DEF Range
    <3>3. CASE ~(i <= Len(P))
      <4> DEFINE j == i - Len(P)
      <4>1. j \in 1 .. Len(Top.held) /\ Len(P) + j = i
        BY <2>1, <3>1, <3>3
      <4> HIDE DEF j
      <4>2. (Top.held \o P)[j] = Top.held[j] /\ (P \o Top.held)[Len(P) + j] = Top.held[j]
        BY <1>2, <1>4, <4>1, Joined
      <4>3. j \in DOMAIN (Top.held \o P)
        BY <3>1, <4>1
      <4> QED
        BY <1>0, <2>1, <4>1, <4>2, <4>3 DEF Range
    <3> QED
      BY <3>2, <3>3
  <2> QED
    BY <1>1, <1>3, <2>2, HasExists
<1>7. Usable = SubSeq(sp, 1, Top.n) \o Top.held
  BY <1>0 DEF P
<1>8. SubSeq(sp, 1, Top.n) \in Seq(Value) /\ Len(SubSeq(sp, 1, Top.n)) = Top.n
  BY <1>4 DEF P
<1> QED
  BY <1>2, <1>5, <1>6, <1>7, <1>8

\* A body returns a value that it has, a function of the program or a new object.
LEMMA ReturnKeeps ==
    ASSUME Inv, Return
    PROVE  Inv'
<1>0. ctl = Running /\ Len(frames) > 1
  BY DEF Return
<1>1. BodyState
  BY <1>0, BodyFacts
<1>2. Good(heap, sp, frames, None) /\ CountedBut(heap, {})
  BY <1>1 DEF BodyState
<1>3. ASSUME NEW v \in Fn \union Range(Usable), Leave(heap, v)
      PROVE  Inv'
  <2>1. Exists(heap, v)
    BY <1>1, UsableFacts DEF Exists
  <2>2. CountedBut(heap, {v})
    BY <1>2 DEF CountedBut
  <2>3. Leaves(heap, v)
    BY <1>0, <1>1, <1>2, <1>3, <2>1, <2>2 DEF Leaves
  <2> QED
    BY <2>3, LeaveKeeps
<1>4. ASSUME NEW kind \in {"atom", "exn"}, Free(heap) # {}, Leave(With(heap, New(kind)), Fresh(heap))
      PROVE  Inv'
  <2> DEFINE h == With(heap, New(kind))
             v == Fresh(heap)
  <2>1. /\ Good(h, sp, frames, None) /\ Exists(h, v)
        /\ \A Z : CountedBut(heap, Z) => CountedBut(h, Z \union {v})
    BY <1>2, <1>4, NewMade
  <2>2. Leave(h, v)
    BY <1>4
  <2>3. {} \union {v} = {v}
    OBVIOUS
  <2> HIDE DEF h, v
  <2>4. Leaves(h, v)
    BY <1>0, <1>1, <1>2, <2>1, <2>2, <2>3 DEF Leaves
  <2> QED
    BY <2>4, LeaveKeeps
<1>5. \/ \E v \in Fn \union Range(Usable) : Leave(heap, v)
      \/ \E kind \in {"atom", "exn"} : Free(heap) # {} /\ Leave(With(heap, New(kind)), Fresh(heap))
  BY DEF Return
<1> QED
  BY <1>3, <1>4, <1>5
\* What is in either of two sequences is in both together.
LEMMA RangeJoined ==
    ASSUME NEW S, NEW a \in Seq(S), NEW b \in Seq(S)
    PROVE  \A v : v \in Range(a) \union Range(b) => v \in Range(a \o b)
<1>1. /\ DOMAIN a = 1 .. Len(a) /\ DOMAIN b = 1 .. Len(b) /\ Len(a) \in Nat /\ Len(b) \in Nat
      /\ DOMAIN (a \o b) = 1 .. Len(a) + Len(b)
  BY SeqDomains
<1>2. ASSUME NEW v \in Range(a)
      PROVE  v \in Range(a \o b)
  <2>1. PICK i \in 1 .. Len(a) : a[i] = v
    BY <1>1 DEF Range
  <2>2. (a \o b)[i] = v /\ i \in DOMAIN (a \o b)
    BY <1>1, <2>1, Joined
  <2> QED
    BY <2>2 DEF Range
<1>3. ASSUME NEW v \in Range(b)
      PROVE  v \in Range(a \o b)
  <2>1. PICK i \in 1 .. Len(b) : b[i] = v
    BY <1>1 DEF Range
  <2>2. (a \o b)[Len(a) + i] = v /\ Len(a) + i \in DOMAIN (a \o b)
    BY <1>1, <2>1, Joined
  <2> QED
    BY <2>2 DEF Range
<1> QED
  BY <1>2, <1>3

\* A body that stays innermost may hold something else than before, if that is
\* in hand.
Retains(h, held, g, gs) ==
    /\ BodyState /\ held \in Seq(Value)
    /\ g = [Last(frames) EXCEPT !.held = held] /\ gs = Append(Front(frames), g)
    /\ Good(h, sp, Front(frames), More(None, held \o SubSeq(sp, 1, Last(frames).n)))

LEMMA Retained ==
    ASSUME NEW h, NEW held, NEW g, NEW gs, Retains(h, held, g, gs)
    PROVE  /\ Good(h, sp, gs, None) /\ ThisOK(gs, this) /\ gs # <<>> /\ Last(gs).fr = "body"
           /\ Len(sp) = Slots(gs, DOMAIN gs) /\ Len(sp) \in Nat
           /\ Len(gs) \in DOMAIN gs /\ gs[Len(gs)].fr = "body"
           /\ \A v : v \in Range(held) \union Range(SubSeq(sp, 1, Last(frames).n))
                        => v \in Range(Has(gs, sp, Len(gs)))
<1> DEFINE top == Last(frames)
           low == Front(frames)
           n == top.n
           P == SubSeq(sp, 1, n)
<1>1. /\ BodyState /\ held \in Seq(Value)
      /\ g = [top EXCEPT !.held = held] /\ gs = Append(low, g)
      /\ Good(h, sp, low, More(None, held \o P))
  BY DEF Retains
<1>2. /\ Good(heap, sp, frames, None) /\ Pop(heap, sp, frames, None, this, 0)
      /\ top.fr = "body" /\ Len(sp) \in Nat
  BY <1>1 DEF BodyState
<1> HIDE DEF top, low, n, P
<1>3. Len(sp) = n + Slots(low, DOMAIN low) /\ TopOf(sp, n, P)
  BY <1>2, PopQuiet DEF top, low, n, P
<1>4. /\ ThisOK(low, top.that) /\ this = Self(top) /\ Fine(heap, low, sp, top) /\ n \in Nat
      /\ Fits(low, sp) /\ top \in FrameType
  BY <1>2, PopFacts DEF top, low, n
<1>5. /\ g \in FrameType /\ g.held = held
      /\ g.fr = top.fr /\ g.fn = top.fn /\ g.n = top.n /\ g.that = top.that
  BY <1>1, <1>4, FrameHolds
<1>6. g.n = n
  BY <1>5 DEF n
<1>7. Fine(h, low, sp, g)
  <2>1. g.fr = "body"
    BY <1>2, <1>5
  <2>2. Fine(heap, low, sp, g)
    BY <1>2, <1>4, <1>5, <2>1, FineBody
  <2>3. CASE low = <<>>
    BY <2>1, <2>2, <2>3 DEF Fine
  <2>4. CASE low # <<>>
    BY <2>1, <2>2, <2>4 DEF Fine
  <2> QED
    BY <2>3, <2>4
<1>8. g.held \o SubSeq(sp, (n - g.n) + 1, n) = held \o P
  <2>1. (n - g.n) + 1 = 1
    BY <1>4, <1>6
  <2> QED
    BY <1>5, <2>1 DEF P
<1>9. Push(h, sp, low, gs, None, top.that, g, n)
  <2>1. NewTop(low, gs, sp, g, n)
    BY <1>1, <1>3, <1>4, <1>5, <1>6 DEF NewTop
  <2>2. Good(h, sp, low, More(None, g.held \o SubSeq(sp, (n - g.n) + 1, n)))
    BY <1>1, <1>8
  <2> QED
    BY <1>4, <1>5, <1>7, <2>1, <2>2, Hands DEF Push
<1>10. /\ Good(h, sp, gs, None) /\ ThisOK(gs, Self(g)) /\ gs # <<>> /\ Last(gs) = g
       /\ Len(sp) = (n - g.n) + Slots(gs, DOMAIN gs) /\ Has(gs, sp, Len(gs)) = Lot(g, sp, n)
  BY <1>9, PushFacts
<1>11. Self(g) = this
  BY <1>4, <1>5 DEF Self
<1>12. gs \in Seq(FrameType) /\ Slots(gs, DOMAIN gs) \in Nat
  <2>1. Fits(gs, sp)
    BY <1>10, GoodFacts
  <2> QED
    BY <2>1, SlotsFacts DEF Fits
<1>13. Len(sp) = Slots(gs, DOMAIN gs)
  BY <1>4, <1>6, <1>10, <1>12
<1>14. Len(gs) \in DOMAIN gs /\ gs[Len(gs)] = g
  BY <1>10, <1>12, FrontFacts
<1>15. Has(gs, sp, Len(gs)) = held \o P
  BY <1>8, <1>10 DEF Lot
<1>16. P \in Seq(Value)
  BY <1>3, Topmost
<1>17. \A v : v \in Range(held) \union Range(P) => v \in Range(held \o P)
  BY <1>1, <1>16, RangeJoined
<1>18. Last(gs).fr = "body" /\ gs[Len(gs)].fr = "body"
  BY <1>2, <1>5, <1>10, <1>14
<1>19. \A v : v \in Range(held) \union Range(P) => v \in Range(Has(gs, sp, Len(gs)))
  BY <1>15, <1>17
<1> QED
  BY <1>2, <1>10, <1>11, <1>13, <1>14, <1>18, <1>19 DEF P, n, top

\* The program lets go of something.
LEMMA ForgetKeeps ==
    ASSUME Inv, NEW k \in DOMAIN Top.held, Forget(k)
    PROVE  Inv'
<1> DEFINE top == Last(frames)
           low == Front(frames)
           n == top.n
           P == SubSeq(sp, 1, n)
           v == top.held[k]
           held == RemoveAt(top.held, k)
           g == [top EXCEPT !.held = held]
<1>0. /\ ctl = Running /\ Len(frames) = 1 /\ k \in DOMAIN top.held
      /\ heap' = UnrefAll(heap, <<v>>) /\ frames' = <<g>>
      /\ sp' = sp /\ ctl' = ctl /\ this' = this /\ pushed' = pushed
  BY DEF Forget, Top
<1>1. BodyState
  BY <1>0, BodyFacts
<1>2. /\ Good(heap, sp, frames, None) /\ Pop(heap, sp, frames, None, this, 0)
      /\ CountedBut(heap, {}) /\ pushed \in Nat
  BY <1>1 DEF BodyState
<1> HIDE DEF top, low, n, P, v, held, g
<1>3. /\ Good(heap, sp, low, More(None, top.held \o P)) /\ TopOf(sp, n, P)
  BY <1>2, PopQuiet DEF top, low, n, P
<1>4. top.held \in Seq(Value) /\ low \in Seq(FrameType) /\ Len(low) = Len(frames) - 1
  BY <1>2, PopFacts DEF top, low
<1>5. P \in Seq(Value)
  BY <1>3, Topmost
<1>6. k \in 1 .. Len(top.held) /\ v \in Value
  BY <1>0, <1>4, ElementOfSeq DEF v
<1>7. held \in Seq(Value) /\ Lacks(top.held, k, held)
  BY <1>4, <1>6, Removed DEF Lacks, held, RemoveAt
<1>8. None \in [Address -> Nat] /\ held \o P \in Seq(Value) /\ IsFiniteSet(DOMAIN (held \o P))
  <2>1. held \o P \in Seq(Value)
    BY <1>5, <1>7, Joined
  <2> QED
    BY <2>1, Hands, SeqDomains
<1>9. More(None, held \o P) \in [Address -> Nat]
  BY <1>8, MoreNat
<1>10. More(None, top.held \o P) = More(More(None, held \o P), <<v>>)
  <2>1. ASSUME NEW o \in Address
        PROVE  None[o] + Occurs(top.held \o P, o) = More(None, held \o P)[o] + Occurs(<<v>>, o)
    <3>1. Occurs(top.held \o P, o) = Occurs(top.held, o) + Occurs(P, o)
      BY <1>4, <1>5, OccursConcat
    <3>2. Occurs(held \o P, o) = Occurs(held, o) + Occurs(P, o)
      BY <1>5, <1>7, OccursConcat
    <3>3. Occurs(held, o) = Occurs(top.held, o) - (IF v = o THEN 1 ELSE 0)
      BY <1>4, <1>6, <1>7, OccursRemoved DEF v
    <3>4. More(None, held \o P)[o] = None[o] + Occurs(held \o P, o)
      BY <1>8, MoreNat
    <3>5. Occurs(<<v>>, o) = IF v = o THEN 1 ELSE 0
      BY SingleFacts
    <3>6. Occurs(top.held, o) \in Nat /\ Occurs(P, o) \in Nat /\ None[o] \in Nat
      BY <1>4, <1>5, <1>8, SeqDomains, OccursNat
    <3> QED
      BY <3>1, <3>2, <3>3, <3>4, <3>5, <3>6
  <2> DEFINE w == More(None, held \o P)
             a == top.held \o P
             b == <<v>>
  <2>2. None \in [Address -> Nat] /\ w \in [Address -> Nat]
    BY <1>8, <1>9
  <2>3. \A o \in Address : None[o] + Occurs(a, o) = w[o] + Occurs(b, o)
    BY <2>1
  <2> HIDE DEF w, a, b
  <2>4. More(None, a) = More(w, b)
    BY <2>2, <2>3, SameBag
  <2> QED
    BY <2>4 DEF w, a, b
<1>11. Good(heap', sp, low, More(None, held \o P)) /\ CountedBut(heap', {})
  <2>1. IsFiniteSet(DOMAIN <<v>>)
    BY SingleFacts
  <2>2. Good(heap, sp, low, More(More(None, held \o P), <<v>>))
    BY <1>3, <1>10
  <2>3. /\ Good(heap', sp, low, More(None, held \o P))
        /\ \A Z : CountedBut(heap, Z) => CountedBut(heap', Z)
    BY <1>0, <1>9, <2>1, <2>2, Gave
  <2> QED
    BY <1>2, <2>3
<1>12. frames' = Append(low, g)
  <2>1. low = <<>>
    BY <1>0, <1>4, EmptySeq
  <2> QED
    BY <1>0, <2>1
<1>13. Retains(heap', held, g, frames')
  BY <1>1, <1>7, <1>11, <1>12 DEF Retains, g, top, low, n, P
<1>14. /\ Good(heap', sp, frames', None) /\ ThisOK(frames', this) /\ frames' # <<>>
       /\ Last(frames').fr = "body" /\ Len(sp) = Slots(frames', DOMAIN frames') /\ Len(sp) \in Nat
  BY <1>13, Retained
<1>15. Runs(heap', sp', frames', this')
  BY <1>0, <1>11, <1>14 DEF Runs
<1> QED
  BY <1>0, <1>2, <1>15, RunsInv DEF Inv
-----------------------------------------------------------------------------
(* What a body keeps *)

\* The elements of a finite set in some order
LEMMA InOrder ==
    ASSUME NEW K, IsFiniteSet(K), NEW p, p = SetToSeq(K)
    PROVE  p \in Bijection(1 .. Cardinality(K), K)
<1>1. Cardinality(K) \in Nat /\ ExistsBijection(1 .. Cardinality(K), K)
  BY FS_CardinalityType
<1>2. \E f \in [1 .. Cardinality(K) -> K] : IsInjective(f)
  BY <1>1 DEF ExistsBijection, Bijection, Injection
<1>3. p \in [1 .. Cardinality(K) -> K] /\ IsInjective(p)
  BY <1>2 DEF SetToSeq
<1>4. p \in Injection(1 .. Cardinality(K), K)
  BY <1>3 DEF Injection
<1>5. Cardinality(1 .. Cardinality(K)) = Cardinality(K)
  BY <1>1, FS_Interval
<1>6. p \in Surjection(1 .. Cardinality(K), K)
  BY <1>4, <1>5, FS_Injection
<1> QED
  BY <1>4, <1>6 DEF Bijection

\* The elements of s at the places K
Picked(s, K, t) == LET p == SetToSeq(K) IN t = [i \in DOMAIN p |-> s[p[i]]]

LEMMA PickedFacts ==
    ASSUME NEW S, NEW s \in Seq(S), NEW K \in SUBSET DOMAIN s, NEW t, Picked(s, K, t)
    PROVE  /\ t \in Seq(S)
           /\ \A i \in K : s[i] \in Range(t)
           /\ \A o : Occurs(t, o) = Cardinality({i \in K : s[i] = o})
<1> DEFINE p == SetToSeq(K)
           n == Cardinality(K)
<1>1. IsFiniteSet(DOMAIN s) /\ IsFiniteSet(K)
  BY SeqDomains, FS_Subset
<1>2. n \in Nat
  BY <1>1, FS_CardinalityType
<1>3. p \in Bijection(1 .. n, K)
  BY <1>1, InOrder
<1>4. t = [i \in DOMAIN p |-> s[p[i]]]
  BY DEF Picked
<1> HIDE DEF p, n
<1>5. /\ p \in [1 .. n -> K] /\ \A i, j \in 1 .. n : p[i] = p[j] => i = j
      /\ \A k \in K : \E i \in 1 .. n : p[i] = k
  BY <1>3 DEF Bijection, Injection, Surjection, IsInjective
<1>6. DOMAIN t = 1 .. n /\ (\A i \in 1 .. n : t[i] = s[p[i]]) /\ t = [i \in 1 .. n |-> t[i]]
  BY <1>4, <1>5
<1>7. t \in Seq(S)
  <2>1. \A i \in 1 .. n : t[i] \in S
    BY <1>5, <1>6, ElementOfSeq, SeqDomains
  <2>2. t \in [1 .. n -> S]
    BY <1>6, <2>1
  <2> QED
    BY <1>2, <2>2
<1>8. \A i \in K : s[i] \in Range(t)
  BY <1>5, <1>6 DEF Range
<1>9. ASSUME NEW o
      PROVE  Occurs(t, o) = Cardinality({i \in K : s[i] = o})
  <2> DEFINE A == {i \in DOMAIN t : t[i] = o}
             B == {i \in K : s[i] = o}
             f == [i \in A |-> p[i]]
  <2>1. f \in Bijection(A, B)
    <3>1. \A i \in A : f[i] \in B
      BY <1>5, <1>6
    <3>2. \A i, j \in A : f[i] = f[j] => i = j
      BY <1>5, <1>6
    <3>3. \A j \in B : \E i \in A : f[i] = j
      BY <1>5, <1>6
    <3> HIDE DEF A, B
    <3> QED
      BY <3>1, <3>2, <3>3 DEF Bijection, Injection, Surjection, IsInjective
  <2>2. IsFiniteSet(A)
    <3>1. IsFiniteSet(1 .. n) /\ A \in SUBSET (1 .. n)
      BY <1>2, <1>6, FS_Interval
    <3> HIDE DEF A
    <3> QED
      BY <3>1, FS_Subset
  <2>3. Cardinality(A) = Cardinality(B)
    <3> HIDE DEF A, B, f
    <3> QED
      BY <2>1, <2>2, FS_Bijection DEF ExistsBijection
  <2> QED
    BY <2>3 DEF Occurs
<1> QED
  BY <1>7, <1>8, <1>9

\* Those at the other places, n places further on, are the rest.
Rest(s, n, K, F) ==
    DOMAIN F = {i + n : i \in DOMAIN s \ K} /\ \A i \in DOMAIN s \ K : F[i + n] = s[i]

LEMMA RestFacts ==
    ASSUME NEW S, NEW s \in Seq(S), NEW K \in SUBSET DOMAIN s, NEW t, Picked(s, K, t),
           NEW n \in Nat, NEW F, Rest(s, n, K, F)
    PROVE  /\ IsFiniteSet(DOMAIN F)
           /\ \A o : Occurs(s, o) = Occurs(t, o) + Occurs(F, o)
<1>1. IsFiniteSet(DOMAIN s) /\ DOMAIN s \in SUBSET Nat
  BY SeqDomains
<1>2. IsFiniteSet(DOMAIN F)
  <2>1. IsFiniteSet(DOMAIN s \ K) /\ DOMAIN s \ K \in SUBSET Nat
    BY <1>1, FS_Subset
  <2>2. IsFiniteSet({i + n : i \in DOMAIN s \ K})
    BY <2>1, Shifted
  <2> QED
    BY <2>2 DEF Rest
<1>3. ASSUME NEW o
      PROVE  Occurs(s, o) = Occurs(t, o) + Occurs(F, o)
  <2> DEFINE A == {i \in K : s[i] = o}
             B == {i \in DOMAIN s \ K : s[i] = o}
  <2>1. IsFiniteSet(A) /\ IsFiniteSet(B) /\ B \in SUBSET Nat
    BY <1>1, FS_Subset
  <2>2. {i \in DOMAIN s : s[i] = o} = A \union B /\ A \intersect B = {}
    OBVIOUS
  <2>3. Occurs(t, o) = Cardinality(A)
    BY PickedFacts
  <2>4. {i \in DOMAIN F : F[i] = o} = {i + n : i \in B}
    <3>1. ASSUME NEW x \in DOMAIN F, F[x] = o
          PROVE  x \in {i + n : i \in B}
      BY <3>1 DEF Rest
    <3>2. ASSUME NEW i \in B
          PROVE  i + n \in DOMAIN F /\ F[i + n] = o
      BY DEF Rest
    <3> QED
      BY <3>1, <3>2
  <2>5. Occurs(F, o) = Cardinality({i + n : i \in B})
    BY <2>4 DEF Occurs
  <2>6. Cardinality({i + n : i \in B}) = Cardinality(B)
    <3> HIDE DEF B
    <3> QED
      BY <2>1, Shifted
  <2>7. Occurs(s, o) = Cardinality(A \union B)
    BY <2>2 DEF Occurs
  <2> HIDE DEF A, B
  <2>8. Cardinality(A \union B) = Cardinality(A) + Cardinality(B)
    <3>1. Cardinality(A \intersect B) = 0
      BY <2>2, FS_EmptySet
    <3>2. Cardinality(A \union B) = Cardinality(A) + Cardinality(B) - Cardinality(A \intersect B)
      BY <2>1, FS_Union
    <3> QED
      BY <2>1, <3>1, <3>2, FS_CardinalityType
  <2> QED
    BY <2>3, <2>5, <2>6, <2>7, <2>8
<1> QED
  BY <1>2, <1>3
-----------------------------------------------------------------------------
(* Bodies that apply *)

\* Arguments are what the body has and what it makes.
Selects(n, from) ==
    /\ BodyState /\ n \in 1 .. MaxArgs /\ from \in [1 .. n -> 0 .. Len(Usable)]
    /\ Affordable(from)

LEMMA SelectFacts ==
    ASSUME NEW n, NEW from, Selects(n, from), NEW w, w = WithNew(from), NEW args, args = Arguments(from)
    PROVE  /\ Good(w, sp, frames, None) /\ CountedBut(w, Range(args))
           /\ args \in Seq(Value) /\ Len(args) = n /\ DOMAIN args = 1 .. n /\ Len(from) = n /\ n \in Nat
           /\ IsFiniteSet(DOMAIN args) /\ \A i \in DOMAIN args : Exists(w, args[i])
           /\ \A v : Callable(heap, v) => Callable(w, v)
           /\ \A i \in 1 .. n : from[i] # 0 => args[i] = Usable[from[i]]
<1>1. /\ BodyState /\ n \in 1 .. MaxArgs /\ from \in [1 .. n -> 0 .. Len(Usable)]
      /\ Free(heap) # {}
  BY DEF Selects, Affordable
<1>2. Good(heap, sp, frames, None) /\ CountedBut(heap, {})
  BY <1>1 DEF BodyState
<1>3. Usable \in Seq(Value) /\ DOMAIN Usable = 1 .. Len(Usable) /\ Len(Usable) \in Nat
      /\ \A v \in Range(Usable) : Exists(heap, v)
  BY <1>1, UsableFacts, SeqDomains
<1>4. n \in Nat /\ DOMAIN from = 1 .. n /\ Len(from) = n
  <2>1. n \in Nat
    BY <1>1, ApplicationAssumption
  <2>2. DOMAIN from = 1 .. n
    BY <1>1
  <2> QED
    BY <2>1, <2>2
<1>5. /\ DOMAIN args = 1 .. n /\ args = [i \in 1 .. n |-> args[i]]
      /\ \A i \in 1 .. n : args[i] = IF from[i] = 0 THEN Fresh(heap) ELSE Usable[from[i]]
  BY <1>4 DEF Arguments
<1>6. ASSUME NEW i \in 1 .. n, from[i] # 0
      PROVE  args[i] = Usable[from[i]] /\ Exists(heap, args[i])
  <2>1. from[i] \in DOMAIN Usable
    BY <1>1, <1>3, <1>6
  <2> QED
    BY <1>3, <1>5, <1>6, <2>1 DEF Range
<1>7. /\ Good(w, sp, frames, None) /\ CountedBut(w, Range(args))
      /\ \A v : Exists(heap, v) => Exists(w, v)
      /\ \A v : Callable(heap, v) => Callable(w, v)
      /\ \A i \in 1 .. n : from[i] = 0 => Exists(w, args[i])
  <2>1. CASE 0 \in Range(from)
    <3>1. w = With(heap, New("atom"))
      BY <2>1 DEF WithNew
    <3>2. /\ Good(w, sp, frames, None) /\ Exists(w, Fresh(heap))
          /\ \A v : Exists(heap, v) => Exists(w, v)
          /\ \A v : Callable(heap, v) => Callable(w, v)
          /\ \A Z : CountedBut(heap, Z) => CountedBut(w, Z \union {Fresh(heap)})
      BY <1>1, <1>2, <3>1, NewMade
    <3>3. PICK k \in 1 .. n : from[k] = 0
      BY <1>4, <2>1 DEF Range
    <3>4. Fresh(heap) \in Range(args)
      BY <1>5, <3>3 DEF Range
    <3>5. CountedBut(w, {} \union {Fresh(heap)})
      BY <1>2, <3>2
    <3>6. CountedBut(w, Range(args))
      BY <3>4, <3>5 DEF CountedBut
    <3> QED
      BY <1>5, <3>2, <3>6
  <2>2. CASE 0 \notin Range(from)
    <3>1. w = heap
      BY <2>2 DEF WithNew
    <3>2. CountedBut(w, Range(args))
      BY <1>2, <3>1 DEF CountedBut
    <3>3. \A i \in 1 .. n : from[i] # 0
      BY <1>4, <2>2 DEF Range
    <3> QED
      BY <1>2, <3>1, <3>2, <3>3
  <2> QED
    BY <2>1, <2>2
<1>8. \A i \in 1 .. n : Exists(w, args[i])
  BY <1>6, <1>7
<1>9. args \in Seq(Value) /\ Len(args) = n
  <2>1. \A i \in 1 .. n : args[i] \in Value
    BY <1>8, ValueFacts
  <2>2. args \in [1 .. n -> Value]
    BY <1>5, <2>1
  <2> QED
    BY <1>4, <2>2
<1>10. IsFiniteSet(DOMAIN args)
  BY <1>9, SeqDomains
<1> QED
  BY <1>4, <1>5, <1>6, <1>7, <1>8, <1>9, <1>10

\* The body gives up what it gives for the last time.
Gives(n, j, from, given) ==
    /\ Selects(n, from) /\ given \in SUBSET DOMAIN Usable /\ MayGive(j, from, given) /\ Keep(given)

LEMMA GiveFacts ==
    ASSUME NEW n, NEW j, NEW from, NEW given, Gives(n, j, from, given),
           NEW d, d = Given(WithNew(from), given), NEW args, args = Arguments(from)
    PROVE  /\ Good(d, sp, frames', None) /\ CountedBut(d, Range(args))
           /\ ThisOK(frames', this) /\ frames' # <<>> /\ Last(frames').fr = "body"
           /\ Len(sp) = Slots(frames', DOMAIN frames') /\ Len(sp) \in Nat
           /\ Len(frames') \in DOMAIN frames' /\ frames'[Len(frames')].fr = "body"
           /\ \A i \in DOMAIN Usable \ given : Usable[i] \in Range(Has(frames', sp, Len(frames')))
           /\ args \in Seq(Value) /\ Len(args) = n /\ DOMAIN args = 1 .. n /\ Len(from) = n /\ n \in Nat
           /\ IsFiniteSet(DOMAIN args) /\ \A i \in DOMAIN args : Exists(d, args[i])
           /\ \A v : Callable(heap, v) => Callable(d, v)
<1> DEFINE top == Last(frames)
           low == Front(frames)
           m == top.n
           P == SubSeq(sp, 1, m)
           K == {i \in DOMAIN top.held : i + m \notin given}
           held == [i \in DOMAIN SetToSeq(K) |-> top.held[SetToSeq(K)[i]]]
           F == [i \in given |-> Usable[i]]
           w == WithNew(from)
           g == [top EXCEPT !.held = held]
<1>1. /\ Selects(n, from) /\ BodyState /\ given \in SUBSET DOMAIN Usable
      /\ given \subseteq Range(from) \ {0, j} /\ (\A i \in given : i > m)
      /\ frames' = Append(low, g) /\ d = DecAll(w, F)
  BY DEF Gives, Selects, MayGive, Keep, Given, Top, Popped
<1>2. /\ Good(heap, sp, frames, None) /\ Pop(heap, sp, frames, None, this, 0)
  BY <1>1 DEF BodyState
<1>3. /\ Usable \in Seq(Value) /\ Usable = P \o top.held /\ top.held \in Seq(Value)
      /\ P \in Seq(Value) /\ Len(P) = m /\ m \in Nat
  BY <1>1, UsableFacts DEF Top
<1>4. Picked(top.held, K, held) /\ K \in SUBSET DOMAIN top.held
  BY DEF Picked
<1> HIDE DEF top, low, m, P, K, held, F, w, g
<1>5. /\ Good(w, sp, frames, None) /\ CountedBut(w, Range(args))
      /\ args \in Seq(Value) /\ Len(args) = n /\ DOMAIN args = 1 .. n /\ Len(from) = n /\ n \in Nat
      /\ IsFiniteSet(DOMAIN args) /\ (\A i \in DOMAIN args : Exists(w, args[i]))
      /\ (\A v : Callable(heap, v) => Callable(w, v))
      /\ \A i \in 1 .. n : from[i] # 0 => args[i] = Usable[from[i]]
  BY <1>1, SelectFacts DEF w
<1>6. Pop(w, sp, frames, None, this, 0)
  BY <1>2, <1>5 DEF Pop
<1>7. Good(w, sp, low, More(None, top.held \o P))
  BY <1>6, PopQuiet DEF top, low, m, P
<1>8. /\ DOMAIN Usable = 1 .. m + Len(top.held) /\ Len(top.held) \in Nat
      /\ DOMAIN top.held = 1 .. Len(top.held)
      /\ (\A i \in 1 .. m : Usable[i] = P[i])
      /\ (\A i \in 1 .. Len(top.held) : Usable[m + i] = top.held[i])
  <2>1. Len(top.held) \in Nat /\ DOMAIN top.held = 1 .. Len(top.held) /\ Len(Usable) = m + Len(top.held)
    BY <1>3, SeqDomains, Joined, ZenonT(40)
  <2>2. DOMAIN Usable = 1 .. m + Len(top.held)
    BY <1>3, <2>1
  <2>3. \A i \in 1 .. m : Usable[i] = P[i]
    BY <1>3, Joined
  <2>4. \A i \in 1 .. Len(top.held) : Usable[m + i] = top.held[i]
    BY <1>3, Joined
  <2> QED
    BY <2>1, <2>2, <2>3, <2>4
<1>9. Rest(top.held, m, K, F)
  <2>1. DOMAIN F = given
    BY DEF F
  <2>2. ASSUME NEW i \in given
        PROVE  i - m \in DOMAIN top.held \ K /\ i = (i - m) + m
    BY <1>1, <1>3, <1>8 DEF K
  <2>3. ASSUME NEW i \in DOMAIN top.held \ K
        PROVE  i + m \in given /\ Usable[i + m] = top.held[i]
    <3>1. i + m \in given
      BY DEF K
    <3>2. i \in Nat /\ i + m = m + i
      BY <1>3, <1>8
    <3>3. Usable[m + i] = top.held[i]
      BY <1>8
    <3> QED
      BY <3>1, <3>2, <3>3
  <2>4. given = {i + m : i \in DOMAIN top.held \ K}
    BY <2>2, <2>3
  <2>5. \A i \in DOMAIN top.held \ K : F[i + m] = top.held[i]
    BY <2>3 DEF F
  <2> QED
    BY <2>1, <2>4, <2>5 DEF Rest
<1>10. held \in Seq(Value) /\ \A i \in K : top.held[i] \in Range(held)
  BY <1>3, <1>4, PickedFacts
<1>11. IsFiniteSet(DOMAIN F) /\ \A o : Occurs(top.held, o) = Occurs(held, o) + Occurs(F, o)
  BY <1>3, <1>4, <1>9, RestFacts
<1>12. /\ None \in [Address -> Nat] /\ held \o P \in Seq(Value)
       /\ IsFiniteSet(DOMAIN (held \o P))
  <2>1. held \o P \in Seq(Value)
    BY <1>3, <1>10, Joined
  <2> QED
    BY <2>1, Hands, SeqDomains
<1>13. More(None, held \o P) \in [Address -> Nat]
  BY <1>12, MoreNat
<1>14. More(None, top.held \o P) = More(More(None, held \o P), F)
  <2>1. ASSUME NEW o \in Address
        PROVE  None[o] + Occurs(top.held \o P, o) = More(None, held \o P)[o] + Occurs(F, o)
    <3>1. Occurs(top.held \o P, o) = Occurs(top.held, o) + Occurs(P, o)
      BY <1>3, OccursConcat
    <3>2. Occurs(held \o P, o) = Occurs(held, o) + Occurs(P, o)
      BY <1>3, <1>10, OccursConcat
    <3>3. Occurs(top.held, o) = Occurs(held, o) + Occurs(F, o)
      BY <1>11
    <3>4. More(None, held \o P)[o] = None[o] + Occurs(held \o P, o)
      BY <1>12, MoreNat
    <3>5. Occurs(held, o) \in Nat /\ Occurs(P, o) \in Nat /\ Occurs(F, o) \in Nat /\ None[o] \in Nat
      BY <1>3, <1>10, <1>11, <1>12, SeqDomains, OccursNat
    <3> QED
      BY <3>1, <3>2, <3>3, <3>4, <3>5
  <2> DEFINE x == More(None, held \o P)
             a == top.held \o P
  <2>2. None \in [Address -> Nat] /\ x \in [Address -> Nat]
    BY <1>12, <1>13
  <2>3. \A o \in Address : None[o] + Occurs(a, o) = x[o] + Occurs(F, o)
    BY <2>1
  <2> HIDE DEF x, a
  <2>4. More(None, a) = More(x, F)
    BY <2>2, <2>3, SameBag
  <2> QED
    BY <2>4 DEF x, a
<1>15. /\ Good(d, sp, low, More(None, held \o P)) /\ \A o \in Address : Same(w, d, o)
       /\ CountedBut(d, Range(args) \union Range(F))
  <2>1. Good(w, sp, low, More(More(None, held \o P), F))
    BY <1>7, <1>14
  <2> DEFINE x == More(None, held \o P)
             e == DecAll(w, F)
  <2>2. x \in [Address -> Nat] /\ Good(w, sp, low, More(x, F)) /\ IsFiniteSet(DOMAIN F)
    BY <1>11, <1>13, <2>1
  <2> HIDE DEF x
  <2>3. Good(e, sp, low, x)
    BY <2>2, Lowered
  <2>4. \A o \in Address : Same(w, e, o)
    BY <2>2, Lowered
  <2>5. CountedBut(w, Range(args)) => CountedBut(e, Range(args) \union Range(F))
    BY <2>2, Lowered
  <2>6. d = e
    BY <1>1
  <2> HIDE DEF e
  <2> QED
    BY <1>5, <2>3, <2>4, <2>5, <2>6 DEF x
<1>16. Range(F) \subseteq Range(args)
  <2> SUFFICES ASSUME NEW i \in given
               PROVE  Usable[i] \in Range(args)
    BY DEF Range, F
  <2>1. PICK k \in DOMAIN from : from[k] = i
    BY <1>1 DEF Range
  <2>2. k \in 1 .. n /\ from[k] # 0
    BY <1>1, <2>1 DEF Selects
  <2> QED
    BY <1>5, <2>1, <2>2 DEF Range
<1>17. CountedBut(d, Range(args))
  BY <1>15, <1>16 DEF CountedBut
<1>18. (\A i \in DOMAIN args : Exists(d, args[i])) /\ \A v : Callable(heap, v) => Callable(d, v)
  BY <1>5, <1>15, SameHeap
<1>19. Retains(d, held, g, frames')
  BY <1>1, <1>10, <1>15 DEF Retains, g, top, low, m, P
<1>20. /\ Good(d, sp, frames', None) /\ ThisOK(frames', this) /\ frames' # <<>> /\ Last(frames').fr = "body"
       /\ Len(sp) = Slots(frames', DOMAIN frames') /\ Len(sp) \in Nat
       /\ Len(frames') \in DOMAIN frames' /\ frames'[Len(frames')].fr = "body"
       /\ \A v : v \in Range(held) \union Range(P) => v \in Range(Has(frames', sp, Len(frames')))
  BY <1>19, Retained DEF P, m, top
<1>21. ASSUME NEW i \in DOMAIN Usable \ given
       PROVE  Usable[i] \in Range(Has(frames', sp, Len(frames')))
  <2>1. CASE i <= m
    <3>1. i \in 1 .. m /\ i \in DOMAIN P
      BY <1>3, <1>8, <2>1
    <3>2. Usable[i] \in Range(P)
      BY <1>8, <3>1 DEF Range
    <3> QED
      BY <1>20, <3>2
  <2>2. CASE ~(i <= m)
    <3> DEFINE k == i - m
    <3>1. k \in 1 .. Len(top.held) /\ k + m = i /\ m + k = i
      BY <1>3, <1>8, <2>2
    <3> HIDE DEF k
    <3>2. k \in K
      BY <1>8, <3>1 DEF K
    <3>3. Usable[i] \in Range(held)
      BY <1>8, <1>10, <3>1, <3>2
    <3> QED
      BY <1>20, <3>3
  <2> QED
    BY <2>1, <2>2
<1> QED
  BY <1>5, <1>17, <1>18, <1>20, <1>21
\* A function of the program, or one that the body has and does not give up
LEMMA CalleeFacts ==
    ASSUME BodyState, NEW c \in Callees
    PROVE  /\ Callable(heap, c[1])
           /\ c[1] \in Fn \/ (c[2] \in DOMAIN Usable /\ c[1] = Usable[c[2]])
<1>1. CASE \E f \in Fn : c = <<f, 0>>
  BY <1>1 DEF Callable
<1>2. CASE \E j \in {i \in DOMAIN Usable : IsFunction(Usable[i])} : c = <<Usable[j], j>>
  <2>1. PICK j \in DOMAIN Usable : IsFunction(Usable[j]) /\ c = <<Usable[j], j>>
    BY <1>2
  <2>2. Exists(heap, Usable[j])
    BY <2>1, UsableFacts DEF Range
  <2>3. Callable(heap, Usable[j])
    BY <2>1, <2>2 DEF IsFunction, IsCurried, Counted, Callable, Exists
  <2> QED
    BY <2>1, <2>3
<1> QED
  BY <1>1, <1>2 DEF Callees

LEMMA ApplyKeeps ==
    ASSUME Inv, ctl = Running, NEW n \in 1 .. MaxArgs, NEW from \in [1 .. n -> 0 .. Len(Usable)],
           NEW given \in SUBSET DOMAIN Usable, NEW c \in Callees, Apply(c[1], c[2], from, given)
    PROVE  Inv'
<1> DEFINE args == Arguments(from)
           f == c[1]
<1>0. /\ Affordable(from) /\ MayGive(c[2], from, given) /\ Keep(given)
      /\ heap' = Given(WithNew(from), given) /\ sp' = args \o sp
      /\ ctl' = Applying(f, Len(from)) /\ pushed' = pushed + Len(from) /\ this' = this
  BY DEF Apply
<1>1. BodyState
  BY BodyFacts
<1>2. Gives(n, c[2], from, given)
  BY <1>0, <1>1 DEF Gives, Selects
<1>3. Callable(heap, f) /\ (f \in Fn \/ (c[2] \in DOMAIN Usable /\ f = Usable[c[2]]))
  BY <1>1, CalleeFacts
<1> HIDE DEF args, f
<1>4. /\ Good(heap', sp, frames', None) /\ CountedBut(heap', Range(args))
      /\ ThisOK(frames', this) /\ frames' # <<>> /\ Last(frames').fr = "body"
      /\ Len(sp) = Slots(frames', DOMAIN frames') /\ Len(sp) \in Nat
      /\ Len(frames') \in DOMAIN frames' /\ frames'[Len(frames')].fr = "body"
      /\ (\A i \in DOMAIN Usable \ given : Usable[i] \in Range(Has(frames', sp, Len(frames'))))
      /\ args \in Seq(Value) /\ Len(args) = n /\ DOMAIN args = 1 .. n /\ Len(from) = n /\ n \in Nat
      /\ (\A i \in DOMAIN args : Exists(heap', args[i]))
      /\ (\A v : Callable(heap, v) => Callable(heap', v))
  BY <1>0, <1>2, GiveFacts DEF args
<1>5. Callable(heap', f) /\ Calls(heap', frames', sp, Len(frames'), f)
  <2>1. f \in Fn \/ f \in Range(Has(frames', sp, Len(frames')))
    <3>1. c[2] \notin given
      BY <1>0 DEF MayGive
    <3> QED
      BY <1>3, <1>4, <3>1
  <2>2. Calls(heap', frames', sp, Len(frames'), f)
    BY <1>4, <2>1 DEF Calls
  <2> QED
    BY <1>3, <1>4, <2>2
<1>6. Rises(frames', sp, args, sp')
  <2>1. Fits(frames', sp)
    BY <1>4, GoodFacts
  <2> QED
    BY <1>0, <1>4, <2>1 DEF Rises
<1>7. /\ sp' \in Seq(Value) /\ Len(sp') = Len(args) + Len(sp) /\ Resize(frames', sp, sp')
      /\ \A i \in 1 .. Len(args) : sp'[i] = args[i]
  BY <1>6, GoesHigher
<1>8. Good(heap', sp', frames', None) /\ Calls(heap', frames', sp', Len(frames'), f)
  BY <1>4, <1>5, <1>7, Resized
<1>9. Firsts(sp', n) = Range(args)
  BY <1>4, <1>7 DEF Firsts, Range
<1>10. CountedBut(heap', Firsts(sp', n))
  BY <1>4, <1>9
<1>11. \A i \in 1 .. n : Exists(heap', sp'[i])
  BY <1>4, <1>7
<1>12. Len(sp') = n + Slots(frames', DOMAIN frames')
  BY <1>4, <1>7
<1>13. Applies(heap', sp', frames', f, n, this')
  BY <1>0, <1>4, <1>5, <1>8, <1>10, <1>11, <1>12 DEF Applies
<1>14. InvAt(heap', sp', frames', ctl', this')
  BY <1>0, <1>4, <1>13, AppliesInv
<1>15. pushed' \in Nat
  <2>1. pushed \in Nat
    BY <1>1 DEF BodyState
  <2> QED
    BY <1>0, <1>4, <2>1
<1> QED
  BY <1>14, <1>15 DEF Inv

\* What is not a function is not applied: an exception comes back.
LEMMA RefuseKeeps ==
    ASSUME Inv, ctl = Running, NEW n \in 1 .. MaxArgs, NEW from \in [1 .. n -> 0 .. Len(Usable)],
           NEW given \in SUBSET DOMAIN Usable, NEW j \in DOMAIN Usable, Refuse(j, from, given)
    PROVE  Inv'
<1> DEFINE args == Arguments(from)
           d == Given(WithNew(from), given)
           more == IncAll(d, args)
           less == UnrefAll(more, args)
<1>0. /\ Affordable(from) /\ MayGive(j, from, given) /\ Keep(given)
      /\ Free(less) # {} /\ heap' = With(less, New("exn")) /\ ctl' = Returning(Fresh(less))
      /\ pushed' = pushed + Len(from) /\ sp' = sp /\ this' = this
  BY DEF Refuse
<1>1. BodyState
  BY BodyFacts
<1>2. Gives(n, j, from, given)
  BY <1>0, <1>1 DEF Gives, Selects
<1> HIDE DEF args, d, more, less
<1>4. /\ Good(d, sp, frames', None) /\ CountedBut(d, Range(args))
      /\ ThisOK(frames', this) /\ frames' # <<>>
      /\ Len(sp) = Slots(frames', DOMAIN frames') /\ Len(sp) \in Nat
      /\ Len(from) = n /\ n \in Nat
      /\ IsFiniteSet(DOMAIN args) /\ (\A i \in DOMAIN args : Exists(d, args[i]))
  BY <1>2, GiveFacts DEF args, d
<1>5. Good(more, sp, frames', More(None, args)) /\ CountedBut(more, {})
  <2>1. /\ Good(more, sp, frames', More(None, args))
        /\ \A Z : CountedBut(d, Z) => CountedBut(more, Z \ Range(args))
    BY <1>4, Took DEF more
  <2>2. Range(args) \ Range(args) = {}
    OBVIOUS
  <2> QED
    BY <1>4, <2>1, <2>2
<1>6. Good(less, sp, frames', None) /\ CountedBut(less, {})
  <2>1. /\ Good(less, sp, frames', None)
        /\ \A Z : CountedBut(more, Z) => CountedBut(less, Z)
    BY <1>4, <1>5, Hands, Gave DEF less
  <2> QED
    BY <1>5, <2>1
<1>7. Good(heap', sp, frames', None) /\ Exists(heap', Fresh(less)) /\ CountedBut(heap', {Fresh(less)})
  <2>1. /\ Good(heap', sp, frames', None) /\ Exists(heap', Fresh(less))
        /\ \A Z : CountedBut(less, Z) => CountedBut(heap', Z \union {Fresh(less)})
    BY <1>0, <1>6, NewMade
  <2>2. {} \union {Fresh(less)} = {Fresh(less)}
    OBVIOUS
  <2> QED
    BY <1>6, <2>1, <2>2
<1>8. ctl' \in Control /\ ctl'.op = "ret" /\ ctl'.val = Fresh(less)
  BY <1>0, <1>7, ResultFacts
<1>9. Returns(heap', sp', frames', ctl', this')
  BY <1>0, <1>4, <1>7, <1>8 DEF Returns
<1>10. InvAt(heap', sp', frames', ctl', this')
  BY <1>9, ReturnsInv
<1>11. pushed' \in Nat
  <2>1. pushed \in Nat
    BY <1>1 DEF BodyState
  <2> QED
    BY <1>0, <1>4, <2>1
<1> QED
  BY <1>10, <1>11 DEF Inv

\* A body of bytecode turns into another one.
LEMMA TailCallKeeps ==
    ASSUME Inv, ctl = Running, NEW n \in 1 .. MaxArgs, NEW from \in [1 .. n -> 0 .. Len(Usable)],
           NEW f \in Islam, TailCall(f, from)
    PROVE  Inv'
<1> DEFINE args == Arguments(from)
           top == Last(frames)
           low == Front(frames)
           w == WithNew(from)
           more == IncAll(w, args)
           g == Frame("body", f, args, args, 0, top.that)
           a == 0
<1>0. /\ Affordable(from) /\ top.fn \in Islam
      /\ heap' = UnrefAll(more, top.held) /\ frames' = Append(low, g)
      /\ this' = f /\ pushed' = pushed + Len(from) /\ sp' = sp /\ ctl' = ctl
  BY DEF TailCall, Top, Popped
<1>1. BodyState
  BY BodyFacts
<1>2. Selects(n, from)
  BY <1>0, <1>1 DEF Selects
<1>3. /\ Pop(heap, sp, frames, None, this, 0) /\ pushed \in Nat /\ top.fr = "body"
  BY <1>1 DEF BodyState
<1>4. top.fn \in Fn /\ f \in Fn /\ NoFn \notin Fn /\ f \in Value
  BY <1>0, ApplicationAssumption DEF Value
<1> HIDE DEF args, top, low, w, more, g, a
<1>5. /\ Good(w, sp, frames, None) /\ CountedBut(w, Range(args))
      /\ args \in Seq(Value) /\ Len(from) = n /\ n \in Nat
      /\ IsFiniteSet(DOMAIN args) /\ (\A i \in DOMAIN args : Exists(w, args[i]))
  BY <1>2, SelectFacts DEF w, args
<1>6. Good(more, sp, frames, More(None, args)) /\ CountedBut(more, {})
  <2>1. /\ Good(more, sp, frames, More(None, args))
        /\ \A Z : CountedBut(w, Z) => CountedBut(more, Z \ Range(args))
    BY <1>5, Took DEF more
  <2>2. Range(args) \ Range(args) = {}
    OBVIOUS
  <2> QED
    BY <1>5, <2>1, <2>2
<1>7. More(None, args) \in [Address -> Nat]
  BY <1>5, Hands, MoreNat
<1>8. Pop(more, sp, frames, More(None, args), this, 0)
  BY <1>3, <1>6 DEF Pop
<1>9. /\ Good(more, sp, low, More(More(None, args), top.held \o SubSeq(sp, 1, top.n)))
      /\ Len(sp) = top.n + Slots(low, DOMAIN low) /\ Slots(low, DOMAIN low) \in Nat
  BY <1>8, PopQuiet DEF top, low
<1>10. /\ ThisOK(low, top.that) /\ Fine(more, low, sp, top) /\ top.held \in Seq(Value)
       /\ top \in FrameType /\ Fits(low, sp)
  BY <1>8, PopFacts DEF top, low
<1>11. low # <<>> /\ top.n = 0
  <2>1. low # <<>>
    BY <1>4, <1>10 DEF Fine
  <2> QED
    BY <1>0, <1>3, <1>10, <2>1 DEF Fine
<1>12. top.held \o SubSeq(sp, 1, top.n) = top.held
  BY <1>10, <1>11, SubSeqEmpty, ConcatEmptySeq
<1>13. Good(heap', sp, low, More(None, args)) /\ CountedBut(heap', {})
  <2>1. Good(more, sp, low, More(More(None, args), top.held)) /\ IsFiniteSet(DOMAIN top.held)
    BY <1>9, <1>10, <1>12, SeqDomains
  <2>2. /\ Good(heap', sp, low, More(None, args))
        /\ \A Z : CountedBut(more, Z) => CountedBut(heap', Z)
    BY <1>0, <1>7, <2>1, Gave
  <2> QED
    BY <1>6, <2>2
<1>14. /\ g \in FrameType /\ g.fr = "body" /\ g.fn = f /\ g.held = args /\ g.n = a /\ g.that = top.that
       /\ a = 0
  <2>1. top.that \in Value \union {NoFn} /\ 0 \in Nat
    BY <1>10, FrameFacts
  <2> QED
    BY <1>4, <1>5, <2>1, FrameMade DEF g, a, Frames
<1>15. Push(heap', sp, low, frames', None, top.that, g, a)
  <2>1. NewTop(low, frames', sp, g, a)
    BY <1>0, <1>9, <1>10, <1>11, <1>14 DEF NewTop
  <2>2. Fine(heap', low, sp, g)
    BY <1>4, <1>11, <1>14 DEF Fine
  <2>3. Good(heap', sp, low, More(None, g.held \o SubSeq(sp, (a - g.n) + 1, a)))
    <3>1. (a - g.n) + 1 = 1 /\ a = 0
      BY <1>14
    <3>2. args \o SubSeq(sp, 1, 0) = args
      BY <1>5, SubSeqEmpty, ConcatEmptySeq
    <3>3. g.held \o SubSeq(sp, (a - g.n) + 1, a) = args
      BY <1>14, <3>1, <3>2
    <3> QED
      BY <1>13, <3>3
  <2> QED
    BY <1>10, <1>14, <2>1, <2>2, <2>3, Hands DEF Push
<1>16. /\ Good(heap', sp, frames', None) /\ ThisOK(frames', Self(g)) /\ frames' # <<>>
       /\ Last(frames') = g /\ Len(sp) = (a - g.n) + Slots(frames', DOMAIN frames') /\ Len(sp) \in Nat
  BY <1>15, PushFacts
<1>17. Self(g) = f /\ Last(frames').fr = "body"
  BY <1>14, <1>16 DEF Self
<1>18. Len(sp) = Slots(frames', DOMAIN frames')
  <2>1. Slots(frames', DOMAIN frames') \in Nat
    <3>1. Fits(frames', sp)
      BY <1>16, GoodFacts
    <3> QED
      BY <3>1, SlotsFacts DEF Fits
  <2> QED
    BY <1>14, <1>16, <2>1
<1>19. Runs(heap', sp', frames', this')
  BY <1>0, <1>13, <1>16, <1>17, <1>18 DEF Runs
<1>20. pushed' \in Nat
  BY <1>0, <1>3, <1>5
<1> QED
  BY <1>0, <1>19, <1>20, RunsInv DEF Inv
-----------------------------------------------------------------------------
(* The invariant *)

\* In the beginning the program has nothing.
LEMMA InitInv ==
    ASSUME Init
    PROVE  Inv
<1> DEFINE f == Frame("body", NoFn, <<>>, <<>>, 0, NoFn)
           z == 0
           e == <<>>
<1>1. /\ heap = [a \in Address |-> Nothing] /\ sp = e /\ pushed = 0 /\ this = NoFn
      /\ frames = <<f>> /\ ctl = Running
  BY DEF Init
<1>2. e \in Seq(FrameType) /\ e \in Seq(Value) /\ Len(e) = 0 /\ DOMAIN e = {} /\ e = <<>>
  BY EmptySeq
<1>3. \A o \in Address : heap[o] = [rc |-> 0, kind |-> "freed", refs |-> <<>>, arity |-> 0]
  BY <1>1 DEF Nothing
<1>4. \A o \in Address : heap[o].kind = "freed" /\ heap[o].refs = <<>> /\ heap[o] \in Object
  <2> TAKE o \in Address
  <2> DEFINE x == heap[o]
  <2>1. x = [rc |-> 0, kind |-> "freed", refs |-> <<>>, arity |-> 0] /\ <<>> \in Seq(Value)
    BY <1>3, EmptySeq
  <2> HIDE DEF x
  <2>2. x.kind = "freed" /\ x.refs = <<>> /\ x \in Object
    BY <2>1 DEF Object
  <2> QED
    BY <2>2 DEF x
<1>5. heap \in [Address -> Object] /\ DOMAIN heap = Address
  BY <1>1, <1>4
<1>6. \A o \in Address : Dead(heap, o)
  BY <1>4, AddressFacts DEF Dead
<1>7. /\ f \in FrameType /\ f.fr = "body" /\ f.fn = NoFn /\ f.held = <<>> /\ f.n = z /\ f.that = NoFn
      /\ z \in Nat /\ z = 0
  <2>1. "body" \in Frames /\ NoFn \in Value \union {NoFn}
    BY DEF Frames
  <2>2. z \in Nat /\ e \in Seq(Value)
    BY <1>2
  <2>5. z = 0
    OBVIOUS
  <2>3. f = Frame("body", NoFn, e, e, z, NoFn)
    OBVIOUS
  <2> HIDE DEF z, e, f
  <2>4. f \in FrameType /\ f.fr = "body" /\ f.fn = NoFn /\ f.held = e /\ f.n = z /\ f.that = NoFn
    BY <2>1, <2>2, <2>3, FrameMade DEF Frame, FrameType
  <2> QED
    BY <1>2, <2>2, <2>5, <2>4
<1> HIDE DEF f, e, z
<1>8. Slots(e, DOMAIN e) = 0 /\ Fits(e, e)
  <2>1. Slots(e, {}) = 0
    BY <1>2, SlotsFacts
  <2> QED
    BY <1>2, <2>1 DEF Fits
<1>9. None \in [Address -> Nat] /\ \A o \in Address : None[o] = 0
  BY Hands DEF None
<1>10. Counts(heap, Owned(e, e, None))
  <2> SUFFICES ASSUME NEW o \in Address
               PROVE  Owned(e, e, None)[o] = 0 /\ Among(Refs(heap), o) = 0
    BY <1>5, <1>6 DEF Counts
  <2>1. FiniteFamily(Held(e, e)) /\ DOMAIN Held(e, e) = DOMAIN e
        /\ Owned(e, e, None)[o] = Among(Held(e, e), o) + None[o]
    BY <1>8, <1>9, OwnedFacts
  <2>2. Among(Held(e, e), o) = 0
    BY <1>2, <2>1, AmongNat
  <2>3. Countable(heap)
    BY <1>5, HeapFacts
  <2>4. Among(Refs(heap), o) = 0
    <3>1. \A p \in Address : DOMAIN heap[p].refs = {}
      BY <1>4
    <3> QED
      BY <1>5, <2>3, <3>1, AmongRefsNat
  <2> QED
    BY <1>9, <2>1, <2>2, <2>4
<1>11. Good(heap, e, e, None)
  <2>1. \A o \in Address : ObjectOK(heap, o)
    BY <1>4 DEF ObjectOK
  <2>2. \A i \in DOMAIN e : FrameOK(heap, e, e, i)
    BY <1>2
  <2> QED
    BY <1>5, <1>8, <1>9, <1>10, <2>1, <2>2 DEF Good
<1>12. Push(heap, e, e, frames, None, NoFn, f, z)
  <2>1. NewTop(e, frames, e, f, z)
    BY <1>1, <1>2, <1>7, <1>8 DEF NewTop
  <2>2. Good(heap, e, e, More(None, f.held \o SubSeq(e, (z - f.n) + 1, z)))
    <3>1. SubSeq(e, (z - f.n) + 1, z) = <<>>
      BY <1>7, SubSeqEmpty
    <3>2. f.held \o SubSeq(e, (z - f.n) + 1, z) = <<>>
      BY <1>2, <1>7, <3>1, ConcatEmptySeq
    <3>3. More(None, <<>>) = None
      BY Hands
    <3> QED
      BY <1>11, <3>2, <3>3
  <2>3. Fine(heap, e, e, f)
    BY <1>2, <1>7 DEF Fine
  <2>4. ThisOK(e, NoFn)
    BY <1>2 DEF ThisOK
  <2> QED
    BY <1>7, <1>9, <2>1, <2>2, <2>3, <2>4 DEF Push
<1>13. /\ Good(heap, e, frames, None) /\ ThisOK(frames, Self(f)) /\ frames # <<>> /\ Last(frames) = f
       /\ Len(e) = (z - f.n) + Slots(frames, DOMAIN frames)
  BY <1>12, PushFacts
<1>14. Self(f) = NoFn
  BY <1>7 DEF Self
<1>15. Len(e) = Slots(frames, DOMAIN frames) /\ Len(e) \in Nat
  <2>1. Slots(frames, DOMAIN frames) \in Nat
    <3>1. Fits(frames, e)
      BY <1>13, GoodFacts
    <3> QED
      BY <3>1, SlotsFacts DEF Fits
  <2> QED
    BY <1>2, <1>7, <1>13, <2>1
<1>16. CountedBut(heap, {})
  BY <1>4 DEF CountedBut
<1>17. Runs(heap, sp, frames, this)
  BY <1>1, <1>7, <1>13, <1>14, <1>15, <1>16 DEF Runs
<1> QED
  BY <1>1, <1>17, RunsInv DEF Inv

LEMMA NextInv ==
    ASSUME Inv, [Next]_vars
    PROVE  Inv'
<1>1. CASE /\ ctl = Running
           /\ \E n \in 1 .. MaxArgs : \E from \in [1 .. n -> 0 .. Len(Usable)] :
                \/ \E given \in SUBSET DOMAIN Usable :
                     \/ \E c \in Callees : Apply(c[1], c[2], from, given)
                     \/ \E j \in DOMAIN Usable : Refuse(j, from, given)
                \/ \E f \in Islam : TailCall(f, from)
  BY <1>1, ApplyKeeps, RefuseKeeps, TailCallKeeps
<1>2. CASE \E f \in Fn : Begin(f)
  BY <1>2, BeginKeeps
<1>3. CASE ctl.op = "apply" /\ (Curried \/ Partial \/ Over)
  BY <1>3, CurriedKeeps, PartialKeeps, OverKeeps
<1>4. CASE ctl.op = "ret" /\ (OverFunction \/ OverOther \/ Again \/ EndCurried \/ Take)
  BY <1>4, OverFunctionKeeps, OverOtherKeeps, AgainKeeps, EndCurriedKeeps, TakeKeeps
<1>5. CASE Return
  BY <1>5, ReturnKeeps
<1>6. CASE \E i \in DOMAIN Top.held : Forget(i)
  BY <1>6, ForgetKeeps
<1>7. CASE UNCHANGED vars
  BY <1>7 DEF Inv, vars
<1> QED
  BY <1>1, <1>2, <1>3, <1>4, <1>5, <1>6, <1>7 DEF Next

\* The invariant holds in all states of every program.
THEOREM AlwaysInv == Spec => []Inv
BY InitInv, NextInv, PTL DEF Spec
-----------------------------------------------------------------------------
(* What follows from the invariant *)

\* The types of the variables
LEMMA InvType ==
    ASSUME Inv
    PROVE  TypeOK
<1>1. InvAt(heap, sp, frames, ctl, this) /\ pushed \in Nat
  BY DEF Inv
<1>2. /\ Good(heap, sp, frames, None) /\ frames \in Seq(FrameType) /\ frames # <<>>
      /\ sp \in Seq(Value) /\ ctl \in Control /\ this \in Value \union {NoFn}
  BY <1>1, InvFacts
<1>3. heap \in [Address -> Object] /\ \A o \in Address : ObjectOK(heap, o)
  BY <1>2 DEF Good
<1>4. \A o \in Address : heap[o].kind = "curried" => heap[o].arity > 0 /\ heap[o].refs # <<>>
  BY <1>3 DEF ObjectOK
<1> QED
  BY <1>1, <1>2, <1>3, <1>4 DEF TypeOK

\* Every place of the stack below the arguments of an application is in the
\* share of a frame.
LEMMA Shared ==
    ASSUME NEW fs, NEW s, Fits(fs, s), NEW a \in Nat, Len(s) = a + Slots(fs, DOMAIN fs),
           NEW k \in 1 .. Len(s), k > a
    PROVE  \E i \in DOMAIN fs : s[k] \in Range(Share(fs, s, i))
<1> DEFINE L == Len(s)
           A == {i \in DOMAIN fs : Slots(fs, 1 .. i) > L - k}
<1>1. fs \in Seq(FrameType) /\ L \in Nat /\ Len(fs) \in Nat /\ DOMAIN fs = 1 .. Len(fs)
  BY SeqDomains DEF Fits
<1>2. \A i \in 0 .. Len(fs) : Slots(fs, 1 .. i) \in Nat
  <2> TAKE i \in 0 .. Len(fs)
  <2>1. 1 .. i \in SUBSET DOMAIN fs
    BY <1>1
  <2> QED
    BY <1>1, <2>1, SlotsFacts
<1>3. Slots(fs, 1 .. 0) = 0
  <2>1. 1 .. 0 = {}
    OBVIOUS
  <2> QED
    BY <1>1, <2>1, SlotsFacts
<1>4. Slots(fs, 1 .. Len(fs)) > L - k
  BY <1>1, <1>2
<1>5. Len(fs) # 0
  BY <1>3, <1>4, <1>1
<1>6. A # {} /\ A \in SUBSET Nat
  BY <1>1, <1>4, <1>5
<1>7. PICK i \in A : \A x \in A : i <= x
  BY <1>6, SmallestNumber
<1> DEFINE b == Slots(fs, 1 .. i)
           c == Slots(fs, 1 .. i - 1)
           j == k - (L - b)
<1>8. /\ i \in DOMAIN fs /\ i \in 1 .. Len(fs) /\ b > L - k /\ b \in Nat /\ c \in Nat
      /\ b = c + fs[i].n /\ fs[i].n \in Nat
  <2>1. i \in 1 .. Len(fs) /\ b > L - k
    BY <1>1, <1>7
  <2>2. i \in 0 .. Len(fs) /\ i - 1 \in 0 .. Len(fs)
    BY <1>1, <2>1
  <2>3. b = c + fs[i].n
    BY <1>1, <2>1, SlotsFacts
  <2>4. fs[i].n \in Nat
    BY <1>1, <2>1, FramesFacts
  <2>5. b \in Nat /\ c \in Nat
    BY <1>2, <2>2
  <2> QED
    BY <1>1, <2>1, <2>3, <2>4, <2>5
<1>9. c <= L - k
  <2>1. CASE i = 1
    <3>1. i - 1 = 0
      BY <2>1
    <3>2. c = 0
      BY <1>3, <3>1
    <3> QED
      BY <1>1, <3>2
  <2>2. CASE i # 1
    <3>1. i - 1 \in DOMAIN fs /\ i - 1 < i
      BY <1>1, <1>8, <2>2
    <3>2. i - 1 \notin A
      BY <1>1, <1>7, <1>8, <3>1
    <3>3. ~(c > L - k)
      BY <3>1, <3>2
    <3> QED
      BY <1>1, <1>8, <3>3
  <2> QED
    BY <2>1, <2>2
<1>10. k \in Nat /\ i \in DOMAIN fs
  BY <1>1, <1>8
<1> HIDE DEF L, A, b, c
<1>11. j \in 1 .. fs[i].n /\ L - b + j = k
  <2> DEFINE n == fs[i].n
  <2>1. L \in Nat /\ k \in Nat /\ b \in Nat /\ c \in Nat /\ n \in Nat
    BY <1>1, <1>8, <1>10
  <2>2. b = c + n /\ b > L - k /\ c <= L - k
    BY <1>8, <1>9
  <2> HIDE DEF n
  <2>3. 1 <= j /\ j <= n /\ L - b + j = k /\ j \in Int
    BY <2>1, <2>2
  <2> QED
    BY <2>1, <2>3 DEF n
<1> HIDE DEF j
<1>12. j \in 1 .. fs[i].n
  BY <1>11
<1>13. Share(fs, s, i)[j] = s[Len(s) - Slots(fs, 1 .. i) + j]
  BY <1>10, <1>12, ShareFacts
<1>14. Share(fs, s, i)[j] = s[k]
  BY <1>11, <1>13 DEF L, b
<1>15. DOMAIN Share(fs, s, i) = 1 .. fs[i].n
  BY <1>10, ShareFacts
<1>16. s[k] \in Range(Share(fs, s, i))
  BY <1>12, <1>14, <1>15 DEF Range
<1> QED
  BY <1>10, <1>16

\* What a frame has in its share it has.
LEMMA HasParts ==
    ASSUME NEW fs, NEW s, Fits(fs, s), NEW i \in DOMAIN fs
    PROVE  \A v : v \in Range(fs[i].held) \union Range(Share(fs, s, i)) => v \in Range(Has(fs, s, i))
<1>1. fs[i].held \in Seq(Value) /\ Share(fs, s, i) \in Seq(Value)
  BY FramesFacts, FrameFacts, ShareFacts DEF Fits
<1> QED
  BY <1>1, RangeJoined DEF Has

\* The function of a frame exists; the program has none.
LEMMA FunctionsExist ==
    ASSUME NEW h, NEW s, NEW fs, NEW hand, Good(h, s, fs, hand), NEW i \in DOMAIN fs
    PROVE  fs[i].fn = NoFn \/ Exists(h, fs[i].fn)
<1>1. /\ Fits(fs, s) /\ FrameOK(h, fs, s, i) /\ fs[i].fr \in Frames /\ fs[i].fn \in Value \union {NoFn}
  BY GoodFacts, FramesFacts, FrameFacts DEF Good
<1>2. CASE i = 1
  BY <1>1, <1>2 DEF FrameOK
<1>3. CASE i # 1
  <2>1. CASE fs[i].fr = "body"
    BY <1>1, <1>3, <2>1 DEF FrameOK, Exists
  <2>2. CASE fs[i].fr = "again"
    <3>1. fs[i].held = <<fs[i].fn>>
      BY <1>1, <1>3, <2>2 DEF FrameOK
    <3>2. fs[i].fn \in Range(fs[i].held)
      BY <3>1, SingleFacts
    <3>3. fs[i].fn \in Range(Has(fs, s, i))
      BY <1>1, <3>2, HasParts
    <3> QED
      BY <3>3, HasExists
  <2>3. CASE fs[i].fr = "over"
    <3>1. Callable(h, fs[i].fn)
      BY <1>1, <1>3, <2>3 DEF FrameOK
    <3> QED
      BY <3>1, ValueFacts
  <2>4. CASE fs[i].fr = "curried"
    <3>1. Callable(h, fs[i].fn)
      BY <1>1, <1>3, <2>4 DEF FrameOK, Callable
    <3> QED
      BY <3>1, ValueFacts
  <2> QED
    BY <1>1, <2>1, <2>2, <2>3, <2>4 DEF Frames
<1> QED
  BY <1>2, <1>3

\* So does the function that eth_this names in it.
LEMMA SelvesExist ==
    ASSUME NEW h, NEW s, NEW fs, NEW hand, Good(h, s, fs, hand), NEW th, ThisOK(fs, th)
    PROVE  \A i \in DOMAIN fs : Self(fs[i]) = NoFn \/ Exists(h, Self(fs[i]))
<1> DEFINE A == {i \in DOMAIN fs : ~(Self(fs[i]) = NoFn \/ Exists(h, Self(fs[i])))}
<1>1. /\ fs \in Seq(FrameType) /\ DOMAIN fs = 1 .. Len(fs) /\ Len(fs) \in Nat
      /\ \A i \in DOMAIN fs : FrameOK(h, fs, s, i)
  BY GoodFacts DEF Good
<1>2. A = {}
  <2> SUFFICES ASSUME A # {}
               PROVE  FALSE
    OBVIOUS
  <2>1. A \in SUBSET Nat
    BY <1>1
  <2>2. PICK m \in A : \A x \in A : m <= x
    BY <2>1, SmallestNumber
  <2>3. m \in DOMAIN fs /\ m \in Nat /\ ~(Self(fs[m]) = NoFn \/ Exists(h, Self(fs[m])))
    BY <1>1, <2>2
  <2>4. fs[m].fr \notin {"body", "curried"}
    BY <2>3, FunctionsExist DEF Self
  <2>5. m # 1
    BY <1>1, <2>3, <2>4 DEF FrameOK
  <2>6. m > 1 /\ m - 1 \in DOMAIN fs /\ m - 1 < m
    BY <1>1, <2>3, <2>5
  <2>7. Self(fs[m]) = Self(fs[m - 1])
    BY <2>3, <2>4, <2>6 DEF Self, ThisOK
  <2>8. m - 1 \in A
    BY <2>3, <2>6, <2>7
  <2>9. m <= m - 1
    BY <2>2, <2>8
  <2> QED
    BY <2>3, <2>9
<1> QED
  BY <1>2

\* Nothing that somebody has is gone.
LEMMA InvPresent ==
    ASSUME Inv
    PROVE  NothingDangles
<1> DEFINE a == IF ctl.op = "apply" THEN ctl.n ELSE 0
<1>1. InvAt(heap, sp, frames, ctl, this)
  BY DEF Inv
<1>2. /\ Good(heap, sp, frames, None) /\ ControlOK(heap, sp, frames, ctl) /\ ThisOK(frames, this)
      /\ frames # <<>> /\ Len(frames) \in DOMAIN frames /\ Last(frames) = frames[Len(frames)]
      /\ sp \in Seq(Value) /\ Len(sp) \in Nat /\ a \in Nat /\ ctl \in Control
      /\ Len(sp) = a + Slots(frames, DOMAIN frames)
  BY <1>1, InvFacts
<1>3. /\ Fits(frames, sp) /\ DOMAIN sp = 1 .. Len(sp)
      /\ \A o \in Address : Dead(heap, o) <=> heap[o].kind = "freed"
  BY <1>2, GoodFacts
<1>4. \A v : v = NoFn \/ Exists(heap, v) => v \in Present
  BY <1>3 DEF Exists, Present
<1>5. ASSUME NEW k \in DOMAIN sp
      PROVE  Exists(heap, sp[k])
  <2>1. CASE k <= a
    <3>1. ctl.op = "apply" /\ k \in 1 .. ctl.n
      BY <1>2, <1>3, <2>1
    <3> QED
      BY <1>2, <3>1 DEF ControlOK
  <2>2. CASE ~(k <= a)
    <3> HIDE DEF a
    <3>1. k \in 1 .. Len(sp) /\ k > a
      BY <1>2, <1>3, <2>2
    <3>2. PICK i \in DOMAIN frames : sp[k] \in Range(Share(frames, sp, i))
      BY <1>2, <1>3, <3>1, Shared
    <3>3. sp[k] \in Range(Has(frames, sp, i))
      BY <1>3, <3>2, HasParts
    <3> QED
      BY <1>2, <3>3, HasExists
  <2> QED
    BY <2>1, <2>2
<1>6. Range(sp) \subseteq Present
  BY <1>4, <1>5 DEF Range
<1>7. ctl.val \in Present
  <2>1. CASE ctl.op = "body"
    BY <1>2, <1>4, <2>1 DEF ControlOK, Running
  <2>2. CASE ctl.op = "apply"
    BY <1>2, <1>4, <2>2, ValueFacts DEF ControlOK
  <2>3. CASE ctl.op = "ret"
    BY <1>2, <1>4, <2>3 DEF ControlOK
  <2>4. ctl.op \in {"body", "apply", "ret"}
    BY <1>2 DEF Control
  <2> QED
    BY <2>1, <2>2, <2>3, <2>4
<1>8. this \in Present
  <2>1. this = Self(frames[Len(frames)])
    BY <1>2 DEF ThisOK
  <2> QED
    BY <1>2, <1>4, <2>1, SelvesExist
<1>9. ASSUME NEW i \in DOMAIN frames
      PROVE  Range(frames[i].held) \union {frames[i].fn} \subseteq Present
  <2>1. \A v \in Range(frames[i].held) : Exists(heap, v)
    BY <1>2, <1>3, HasParts, HasExists
  <2>2. frames[i].fn = NoFn \/ Exists(heap, frames[i].fn)
    BY <1>2, FunctionsExist
  <2> QED
    BY <1>4, <2>1, <2>2
<1>10. ASSUME NEW o \in Address
       PROVE  Range(heap[o].refs) \subseteq Present
  BY <1>2, <1>4, HasExists
<1> QED
  BY <1>6, <1>7, <1>8, <1>9, <1>10 DEF NothingDangles

\* The counts
LEMMA InvCounts ==
    ASSUME Inv
    PROVE  CountsExact
<1>1. InvAt(heap, sp, frames, ctl, this)
  BY DEF Inv
<1>2. /\ Good(heap, sp, frames, None) /\ CountedBut(heap, OnTheWay(sp, ctl))
      /\ sp \in Seq(Value) /\ Len(sp) \in Nat
  BY <1>1, InvFacts
<1>3. /\ DOMAIN heap = Address /\ Fits(frames, sp) /\ None \in [Address -> Nat]
      /\ \A o \in Address : Dead(heap, o) <=> heap[o].kind = "freed"
  BY <1>2, GoodFacts
<1>4. ASSUME NEW o \in Address, ~Dead(heap, o)
      PROVE  heap[o].rc = Among(Refs(heap), o) + Among(Held(frames, sp), o)
  <2>1. heap[o].rc = Owned(frames, sp, None)[o] + Among(Refs(heap), o)
    BY <1>2, <1>3, <1>4 DEF Good, Counts
  <2>2. Owned(frames, sp, None)[o] = Among(Held(frames, sp), o) + None[o]
    BY DEF Owned
  <2>5. Among(Held(frames, sp), o) \in Nat
    BY <1>3, OwnedFacts
  <2>3. None[o] = 0
    BY DEF None
  <2>4. Among(Refs(heap), o) \in Nat
    <3>1. Countable(heap)
      BY <1>2, GoodFacts
    <3> QED
      BY <3>1, AmongRefsNat
  <2> QED
    BY <2>1, <2>2, <2>3, <2>4, <2>5
<1>5. ASSUME NEW o \in Address, ~Dead(heap, o), heap[o].rc = 0
      PROVE  \/ ctl.op = "apply" /\ o \in Range(Pushed(ctl.n))
             \/ ctl.op = "ret" /\ o = ctl.val
  <2>1. o \in OnTheWay(sp, ctl)
    BY <1>2, <1>3, <1>5 DEF CountedBut
  <2>2. CASE ctl.op = "apply"
    <3>1. ApplyState
      BY <2>2, ApplyFacts
    <3>2. Range(Pushed(ctl.n)) = Firsts(sp, ctl.n)
      BY <3>1, PushedFacts
    <3> QED
      BY <2>1, <2>2, <3>2 DEF OnTheWay
  <2>3. CASE ctl.op # "apply"
    BY <2>1, <2>3 DEF OnTheWay
  <2> QED
    BY <2>2, <2>3
<1> QED
  BY <1>4, <1>5 DEF CountsExact

\* The stack, and eth_this
LEMMA InvStack ==
    ASSUME Inv
    PROVE  StackExact /\ ThisIsRunning
<1>1. InvAt(heap, sp, frames, ctl, this)
  BY DEF Inv
<1>2. /\ ControlOK(heap, sp, frames, ctl) /\ ThisOK(frames, this) /\ frames # <<>>
  BY <1>1 DEF InvAt, ControlOK
<1>3. StackExact
  BY <1>2 DEF ControlOK, StackExact, Applied
<1>4. ThisIsRunning
  <2> SUFFICES ASSUME ctl = Running
               PROVE  this = Top.fn
    BY DEF ThisIsRunning
  <2>1. ctl.op = "body"
    BY DEF Running
  <2>2. Last(frames).fr = "body"
    BY <1>2, <2>1 DEF ControlOK
  <2>3. this = Self(Last(frames))
    BY <1>2 DEF ThisOK
  <2> QED
    BY <2>2, <2>3 DEF Self, Top
<1> QED
  BY <1>3, <1>4

-----------------------------------------------------------------------------
(* The theorems *)

\* The variables keep their types, and a function made by partial application
\* waits for an argument and refers to the function behind it (function.c
\* 265-277).
THEOREM TypesKept == Spec => []TypeOK
BY AlwaysInv, InvType, PTL

\* No argument, no value of a body and no function that is called has been
\* deleted, though a body may give up the last reference that the program has to
\* what it passes on (function.c 183-246, 284-368; ether.h 3539-3646).
THEOREM NothingDeletedInUse == Spec => []NothingDangles
BY AlwaysInv, InvPresent, PTL

\* An application takes its arguments off the stack again, on every way out
\* (function.c 284-368; ether.h 3539-3574).
THEOREM StackBalanced == Spec => []StackExact
BY AlwaysInv, InvStack, PTL

\* Counts are exact: nothing leaks, and what has no count is on its way to
\* somebody (function.c 183-368; ether.h 3539-3646).
THEOREM CountsKept == Spec => []CountsExact
BY AlwaysInv, InvCounts, PTL

\* A body that goes on after an application finds eth_this as it was (ether.h
\* 3539-3550; function.c 223-246).
THEOREM ThisRestored == Spec => []ThisIsRunning
BY AlwaysInv, InvStack, PTL
=============================================================================
