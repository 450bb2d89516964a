--------------------------- MODULE RecScopeProofs ---------------------------
(* Proofs about RecScope, for every set of members and every value of the    *)
(* bounds.  The argument: a body can only be entered from outside through a  *)
(* counted reference, and that reference stays until the outermost call is   *)
(* over; so while members are reached through uncounted pointers one member  *)
(* has a positive count, which eth_drop_out sees when it recounts.           *)
EXTENDS RecScope, FiniteSetTheorems, SequenceTheorems, TLAPS

-----------------------------------------------------------------------------
(* The inductive invariant *)

\* Where a call stands, and what can be in flight there.
Phases ==
    /\ mode \in {"run", "release"} => flight = <<>>
    /\ mode = "enter" => Len(flight) >= 1
    /\ mode = "leave" => Len(flight) = 1
    /\ mode # "run" => stack # <<>>

\* Calls and values in flight exist only while the scope is live.
OnlyWhenLive ==
    /\ scope # "live" => stack = <<>>
    /\ scope = "building" => scpRc = 0
    /\ scope = "freed" => \A m \in Member : rc[m] = 0

\* The outermost call was made through a counted reference.
BasePinned == stack # <<>> => stack[1] \in Member

\* A live scope has a member with references.
SomeoneCounts == scope = "live" => \E m \in Member : rc[m] # 0

IInv ==
    /\ TypeOK
    /\ RcExact
    /\ Phases
    /\ OnlyWhenLive
    /\ BasePinned
    /\ SomeoneCounts
    /\ ScopeCountSound

-----------------------------------------------------------------------------
(* Counting the pinned frames *)

\* The pinned frames of a stack form a finite set.
LEMMA FramesFinite ==
    ASSUME NEW S, NEW s \in Seq(S), NEW m
    PROVE  /\ IsFiniteSet(Frames(s, m))
           /\ Cardinality(Frames(s, m)) \in Nat
<1>1. IsFiniteSet(1 .. Len(s))
  BY FS_Interval
<1>2. Frames(s, m) \subseteq 1 .. Len(s)
  BY DEF Frames
<1>. QED  BY <1>1, <1>2, FS_Subset, FS_CardinalityType

\* An empty stack pins nothing.
LEMMA FramesEmpty ==
    ASSUME NEW m
    PROVE  Cardinality(Frames(<<>>, m)) = 0
<1>1. Frames(<<>>, m) = {}
  BY DEF Frames
<1>. QED  BY <1>1, FS_EmptySet

\* A call adds the frame it pushes, and no other.
LEMMA FramesPush ==
    ASSUME NEW S, NEW s \in Seq(S), NEW x \in S, NEW m
    PROVE  Cardinality(Frames(Append(s, x), m))
             = Cardinality(Frames(s, m)) + (IF x = m THEN 1 ELSE 0)
<1>. DEFINE t == Append(s, x)
<1>1. /\ Len(t) = Len(s) + 1
      /\ \A i \in 1 .. Len(s) : t[i] = s[i]
      /\ t[Len(s) + 1] = x
      /\ Len(s) \in Nat
  OBVIOUS
<1>2. CASE x = m
  <2>1. Frames(t, m) = Frames(s, m) \union {Len(s) + 1}
    BY <1>1, <1>2 DEF Frames
  <2>2. Len(s) + 1 \notin Frames(s, m)
    BY <1>1 DEF Frames
  <2>. QED  BY <2>1, <2>2, <1>2, FramesFinite, FS_AddElement
<1>3. CASE x # m
  <2>1. Frames(t, m) = Frames(s, m)
    BY <1>1, <1>3 DEF Frames
  <2>. QED  BY <2>1, <1>3, FramesFinite
<1>. QED  BY <1>2, <1>3

\* A sequence without its last element.
LEMMA ButLast ==
    ASSUME NEW S, NEW s \in Seq(S), s # <<>>
    PROVE  /\ Len(s) \in Nat \ {0}
           /\ s[Len(s)] \in S
           /\ SubSeq(s, 1, Len(s) - 1) \in Seq(S)
           /\ Len(SubSeq(s, 1, Len(s) - 1)) = Len(s) - 1
           /\ \A i \in 1 .. Len(s) - 1 : SubSeq(s, 1, Len(s) - 1)[i] = s[i]
<1>1. Len(s) \in Nat \ {0}
  BY EmptySeq
<1>2. \A i \in 1 .. Len(s) : s[i] \in S
  BY ElementOfSeq
<1>3. \A n \in Nat \ {0} :
        /\ (IF 1 <= n - 1 THEN (n - 1) - 1 + 1 ELSE 0) = n - 1
        /\ \A i \in 1 .. n - 1 : i \in 1 .. (n - 1) - 1 + 1 /\ 1 + i - 1 = i
  OBVIOUS
<1>4. /\ SubSeq(s, 1, Len(s) - 1) \in Seq(S)
      /\ Len(SubSeq(s, 1, Len(s) - 1))
           = IF 1 <= Len(s) - 1 THEN (Len(s) - 1) - 1 + 1 ELSE 0
      /\ \A i \in 1 .. (Len(s) - 1) - 1 + 1 :
           SubSeq(s, 1, Len(s) - 1)[i] = s[1 + i - 1]
  <2>1. 1 \in Int /\ Len(s) - 1 \in Int /\ \A i \in 1 .. Len(s) - 1 : s[i] \in S
    BY <1>1, <1>2
  <2>. QED  BY <2>1, SubSeqProperties
<1>5. Len(SubSeq(s, 1, Len(s) - 1)) = Len(s) - 1
  BY <1>1, <1>3, <1>4, Zenon
<1>6. ASSUME NEW i \in 1 .. Len(s) - 1
      PROVE  SubSeq(s, 1, Len(s) - 1)[i] = s[i]
  <2>1. i \in 1 .. (Len(s) - 1) - 1 + 1 /\ 1 + i - 1 = i
    BY <1>1, <1>3, Zenon
  <2>. QED  BY <1>4, <2>1, Zenon
<1>7. s[Len(s)] \in S
  BY <1>1, <1>2
<1>. QED  BY <1>1, <1>4, <1>5, <1>6, <1>7, Zenon

\* The end of a call removes its own frame, and no other.
LEMMA FramesPop ==
    ASSUME NEW S, NEW s \in Seq(S), s # <<>>, NEW m,
           NEW t, t = SubSeq(s, 1, Len(s) - 1)
    PROVE  Cardinality(Frames(s, m))
             = Cardinality(Frames(t, m)) + (IF s[Len(s)] = m THEN 1 ELSE 0)
<1>1. /\ Len(s) \in Nat \ {0}
      /\ t \in Seq(S)
      /\ Len(t) = Len(s) - 1
      /\ \A i \in 1 .. Len(s) - 1 : t[i] = s[i]
  BY ButLast, Zenon
<1>2. CASE s[Len(s)] = m
  <2>1. Frames(s, m) = Frames(t, m) \union {Len(s)}
    BY <1>1, <1>2 DEF Frames
  <2>2. Len(s) \notin Frames(t, m)
    BY <1>1 DEF Frames
  <2>3. IsFiniteSet(Frames(t, m)) /\ Cardinality(Frames(t, m)) \in Nat
    BY <1>1, FramesFinite, Zenon
  <2>4. Cardinality(Frames(s, m)) = Cardinality(Frames(t, m)) + 1
    BY <2>1, <2>2, <2>3, FS_AddElement
  <2>. QED  BY <2>4, <1>2
<1>3. CASE s[Len(s)] # m
  <2>1. Frames(s, m) = Frames(t, m)
    BY <1>1, <1>3 DEF Frames
  <2>. QED  BY <1>1, <1>3, <2>1, FramesFinite
<1>. QED  BY <1>2, <1>3

\* The member that the outermost call pins has a positive number of frames.
LEMMA FramesBase ==
    ASSUME NEW S, NEW s \in Seq(S), s # <<>>
    PROVE  Cardinality(Frames(s, s[1])) >= 1
<1>1. 1 \in Frames(s, s[1])
  BY EmptySeq DEF Frames
<1>2. IsFiniteSet(Frames(s, s[1])) /\ Cardinality(Frames(s, s[1])) \in Nat
  BY FramesFinite
<1>3. Cardinality(Frames(s, s[1])) # 0
  BY <1>1, <1>2, FS_EmptySet
<1>. QED  BY <1>2, <1>3

\* With the counts exact and the outermost call pinned, a scope none of whose
\* members has references executes nothing.
LEMMA IdleWhenZero ==
    ASSUME NEW s \in Seq(Member \union {NoPin}), s # <<>> => s[1] \in Member,
           NEW r, NEW e \in [Member -> Nat],
           \A m \in Member : r[m] = e[m] + Cardinality(Frames(s, m)),
           \A m \in Member : r[m] = 0
    PROVE  s = <<>>
<1>. SUFFICES ASSUME s # <<>>
              PROVE  FALSE
  OBVIOUS
<1>. DEFINE n == Cardinality(Frames(s, s[1]))
<1>1. n >= 1 /\ n \in Nat
  BY FramesBase, FramesFinite
<1>2. e[s[1]] + n = 0 /\ e[s[1]] \in Nat
  OBVIOUS
<1>. QED  BY <1>1, <1>2

-----------------------------------------------------------------------------
(* Counting the members in use *)

\* Sets of members are finite, and a larger one has no fewer elements.
LEMMA MemberSets ==
    ASSUME NEW U \in SUBSET Member, NEW V \in SUBSET Member
    PROVE  /\ Cardinality(U) \in Nat
           /\ U \subseteq V => Cardinality(U) <= Cardinality(V)
           /\ Cardinality(V) = 0 <=> V = {}
<1>1. IsFiniteSet(U) /\ IsFiniteSet(V)
  BY ScopeAssumption, FS_Subset
<1>. QED  BY <1>1, FS_Subset, FS_CardinalityType, FS_EmptySet

\* When at most one member leaves the set in use, a counter that is positive
\* and not above its size may be decremented.
LEMMA OneLeaves ==
    ASSUME NEW U \in SUBSET Member, NEW V \in SUBSET Member,
           NEW m \in Member, U \ {m} \subseteq V,
           NEW n \in Nat, n >= 1, n <= Cardinality(U)
    PROVE  n - 1 \in Nat /\ n - 1 <= Cardinality(V)
<1>1. IsFiniteSet(U) /\ IsFiniteSet(V) /\ IsFiniteSet(U \ {m})
  BY ScopeAssumption, FS_Subset
<1>2. Cardinality(U \ {m}) >= Cardinality(U) - 1
  <2>1. CASE m \in U
    BY <1>1, <2>1, FS_RemoveElement, FS_CardinalityType
  <2>2. CASE m \notin U
    <3>1. U \ {m} = U
      BY <2>2
    <3>. QED  BY <1>1, <3>1, FS_CardinalityType
  <2>. QED  BY <2>1, <2>2
<1>3. Cardinality(U \ {m}) <= Cardinality(V)
  BY MemberSets
<1>. QED  BY <1>1, <1>2, <1>3, FS_CardinalityType

\* What is in use or in flight are members.
LEMMA UsedAreMembers ==
    ASSUME NEW c, NEW q \in Seq(Member)
    PROVE  /\ InUse(c) \in SUBSET Member
           /\ {q[i] : i \in 1 .. Len(q)} \in SUBSET Member
BY ElementOfSeq DEF InUse

\* What eth_drop_out does to the scope, whoever calls it: the counter stays
\* sound, and the scope goes only when no member has references.
LEMMA DropAtSound ==
    ASSUME TypeOK, ScopeCountSound, scope = "live",
           flight' \in Seq(Member),
           NEW m \in Member, DropAt(rc', m),
           (InUse(rc) \union InFlight) \ {m} \subseteq InUse(rc') \union InFlight'
    PROVE  /\ scpRc' \in Nat
           /\ scope' \in {"live", "freed"}
           /\ ScopeCountSound'
           /\ scope' = "freed" => \A x \in Member : rc'[x] = 0
<1>. DEFINE U == InUse(rc) \union InFlight
            V == InUse(rc') \union InFlight'
<1>1. U \in SUBSET Member /\ V \in SUBSET Member /\ InUse(rc') \in SUBSET Member
  BY UsedAreMembers DEF TypeOK, InFlight
<1>2. scpRc \in Nat /\ scpRc >= 1 /\ scpRc <= Cardinality(U)
  BY DEF TypeOK, ScopeCountSound
<1>3. scpRc - 1 \in Nat /\ scpRc - 1 <= Cardinality(V)
  BY <1>1, <1>2, OneLeaves
<1>4. CASE rc'[m] # 0
  <2>1. UNCHANGED <<scpRc, scope>>
    BY <1>4 DEF DropAt
  <2>2. U \subseteq V
    BY <1>4 DEF InUse
  <2>3. Cardinality(U) <= Cardinality(V) /\ Cardinality(U) \in Nat /\ Cardinality(V) \in Nat
    BY <1>1, <2>2, MemberSets
  <2>. QED  BY <1>2, <2>1, <2>3 DEF ScopeCountSound
<1>5. CASE rc'[m] = 0 /\ scpRc - 1 # 0
  <2>1. scpRc' = scpRc - 1 /\ scope' = scope
    BY <1>5 DEF DropAt, DropOut
  <2>. QED  BY <1>2, <1>3, <1>5, <2>1 DEF ScopeCountSound
<1>6. CASE rc'[m] = 0 /\ scpRc - 1 = 0
  <2>1. /\ scpRc' = Cardinality(InUse(rc'))
        /\ scope' = IF InUse(rc') = {} THEN "freed" ELSE scope
    BY <1>6 DEF DropAt, DropOut
  <2>2. /\ Cardinality(InUse(rc')) \in Nat
        /\ Cardinality(V) \in Nat
        /\ Cardinality(InUse(rc')) <= Cardinality(V)
        /\ Cardinality(InUse(rc')) = 0 <=> InUse(rc') = {}
    BY <1>1, MemberSets
  <2>3. CASE InUse(rc') = {}
    BY <2>1, <2>2, <2>3 DEF ScopeCountSound, InUse
  <2>4. CASE InUse(rc') # {}
    BY <2>1, <2>2, <2>4 DEF ScopeCountSound
  <2>. QED  BY <2>3, <2>4
<1>. QED  BY <1>4, <1>5, <1>6

\* With nothing in flight a sound positive counter shows a member in use.
LEMMA CountedMember ==
    ASSUME NEW c, NEW n \in Nat, n >= 1, NEW Q, Q = {},
           n <= Cardinality(InUse(c) \union Q)
    PROVE  \E m \in Member : c[m] # 0
<1>1. InUse(c) \in SUBSET Member
  BY DEF InUse
<1>2. InUse(c) \union Q = InUse(c)
  OBVIOUS
<1>3. Cardinality(InUse(c)) \in Nat /\ (Cardinality(InUse(c)) = 0 <=> InUse(c) = {})
  BY <1>1, MemberSets
<1>4. InUse(c) # {}
  BY <1>2, <1>3
<1>. QED  BY <1>4 DEF InUse

\* The number of frames that pin a member is a natural number.
LEMMA PinsNat ==
    ASSUME TypeOK
    PROVE  \A m \in Member : Pins(m) \in Nat
BY FramesFinite DEF TypeOK, Pins

-----------------------------------------------------------------------------
(* One lemma per action: it preserves the inductive invariant *)

\* FN and the REF after it.
LEMMA BuildStep ==
    ASSUME IInv, NEW m \in Member, Build(m)
    PROVE  IInv'
<1>. USE DEF IInv, Build
<1>1. TypeOK'
  BY DEF TypeOK
<1>2. RcExact'
  <2>1. Cardinality(Frames(stack, m)) = 0
    BY FramesEmpty DEF OnlyWhenLive
  <2>. QED  BY <2>1 DEF TypeOK, RcExact, Pins
<1>3. Phases' /\ OnlyWhenLive' /\ BasePinned' /\ SomeoneCounts' /\ ScopeCountSound'
  BY DEF Phases, OnlyWhenLive, BasePinned, SomeoneCounts, ScopeCountSound
<1>. QED  BY <1>1, <1>2, <1>3

\* eth_create_scp.
LEMMA MkScopeStep ==
    ASSUME IInv, MkScope
    PROVE  IInv'
<1>. USE DEF IInv, MkScope
<1>1. InUse(rc) = Member /\ InFlight = {}
  BY EmptySeq DEF InUse, TypeOK, InFlight, Phases, OnlyWhenLive
<1>2. Cardinality(Member) \in Nat /\ Cardinality(Member) >= 1
  BY ScopeAssumption, FS_CardinalityType, FS_EmptySet
<1>3. TypeOK'
  BY <1>2 DEF TypeOK
<1>4. RcExact' /\ Phases' /\ OnlyWhenLive' /\ BasePinned'
  BY DEF RcExact, Pins, Phases, OnlyWhenLive, BasePinned
<1>5. SomeoneCounts'
  BY ScopeAssumption DEF SomeoneCounts, TypeOK
<1>6. ScopeCountSound'
  <2>1. InUse(rc') \union InFlight' = Member
    BY <1>1 DEF InUse, InFlight
  <2>. QED  BY <1>2, <2>1 DEF ScopeCountSound
<1>. QED  BY <1>3, <1>4, <1>5, <1>6

\* eth_ref.
LEMMA RefStep ==
    ASSUME IInv, NEW m \in Member, Ref(m)
    PROVE  IInv'
<1>. USE DEF IInv, Ref
<1>1. TypeOK'
  BY DEF TypeOK
<1>2. RcExact'
  <2>1. \A x \in Member : Pins(x) \in Nat /\ Pins(x)' = Pins(x)
    BY PinsNat DEF Pins
  <2>. QED  BY <2>1 DEF TypeOK, RcExact
<1>3. Phases' /\ OnlyWhenLive' /\ BasePinned'
  BY DEF Phases, OnlyWhenLive, BasePinned
<1>4. SomeoneCounts'
  BY DEF SomeoneCounts, TypeOK
<1>5. ScopeCountSound'
  <2>1. InUse(rc) \union InFlight \subseteq InUse(rc') \union InFlight'
    BY DEF InUse, InFlight, TypeOK
  <2>2. InUse(rc) \union InFlight \in SUBSET Member /\ InUse(rc') \union InFlight' \in SUBSET Member
    BY <1>1, UsedAreMembers DEF TypeOK, InFlight
  <2>3. /\ Cardinality(InUse(rc) \union InFlight) \in Nat
        /\ Cardinality(InUse(rc') \union InFlight') \in Nat
        /\ Cardinality(InUse(rc) \union InFlight) <= Cardinality(InUse(rc') \union InFlight')
    BY <2>1, <2>2, MemberSets
  <2>. QED  BY <2>3 DEF ScopeCountSound, TypeOK
<1>. QED  BY <1>1, <1>2, <1>3, <1>4, <1>5

\* eth_unref of a reference that a register or an object owned.
LEMMA UnrefStep ==
    ASSUME IInv, NEW m \in Member, Unref(m)
    PROVE  IInv'
<1>. USE DEF IInv, Unref
<1>1. /\ rc' \in [Member -> Nat] /\ env' \in [Member -> Nat]
      /\ RcExact'
  <2>1. \A x \in Member : Pins(x) \in Nat /\ Pins(x)' = Pins(x)
    BY PinsNat DEF Pins
  <2>2. rc[m] >= 1 /\ env[m] >= 1
    BY <2>1 DEF TypeOK, RcExact
  <2>. QED  BY <2>1, <2>2 DEF TypeOK, RcExact
<1>2. /\ scpRc' \in Nat
      /\ scope' \in {"live", "freed"}
      /\ ScopeCountSound'
      /\ scope' = "freed" => \A x \in Member : rc'[x] = 0
  <2>1. (InUse(rc) \union InFlight) \ {m} \subseteq InUse(rc') \union InFlight'
    BY DEF InUse, InFlight, TypeOK
  <2>. QED  BY <2>1, DropAtSound DEF TypeOK
<1>3. TypeOK'
  BY <1>1, <1>2 DEF TypeOK
<1>4. BasePinned' /\ Phases'
  BY DEF BasePinned, Phases
<1>5. OnlyWhenLive'
  <2>1. \A x \in Member : rc'[x] = env'[x] + Cardinality(Frames(stack, x))
    BY <1>1 DEF RcExact, Pins
  <2>2. stack \in Seq(Member \union {NoPin}) /\ (stack # <<>> => stack[1] \in Member)
    BY DEF TypeOK, BasePinned
  <2>3. ASSUME scope' = "freed"
        PROVE  stack = <<>>
    <3>1. (\A x \in Member : rc'[x] = 0) /\ env' \in [Member -> Nat]
      BY <1>1, <1>2, <2>3
    <3>. HIDE DEF IInv, Unref
    <3>. QED  BY <2>1, <2>2, <3>1, IdleWhenZero, Zenon
  <2>. QED  BY <1>2, <2>3 DEF OnlyWhenLive
<1>6. SomeoneCounts'
  <2>1. InFlight' = {}
    BY EmptySeq DEF Phases, InFlight
  <2>. QED  BY <1>2, <2>1, CountedMember DEF SomeoneCounts, ScopeCountSound
<1>. QED  BY <1>1, <1>2, <1>3, <1>4, <1>5, <1>6

\* While a call is running its pinned reference is what keeps some count
\* positive: the steps of a call need not argue about the scope's life.
LEMMA BusyStep ==
    ASSUME scope' = "live", TypeOK', RcExact', Phases', BasePinned',
           stack' # <<>>, ScopeCountSound'
    PROVE  IInv'
<1>1. SomeoneCounts'
  <2>1. \A x \in Member : rc'[x] = env'[x] + Cardinality(Frames(stack', x))
    BY DEF RcExact, Pins
  <2>2. stack' \in Seq(Member \union {NoPin}) /\ (stack' # <<>> => stack'[1] \in Member)
    BY DEF TypeOK, BasePinned
  <2>3. env' \in [Member -> Nat]
    BY DEF TypeOK
  <2>4. ~ \A x \in Member : rc'[x] = 0
    BY <2>1, <2>2, <2>3, IdleWhenZero, Zenon
  <2>. QED  BY <2>4 DEF SomeoneCounts
<1>. QED  BY <1>1 DEF IInv, OnlyWhenLive

\* Pushing a frame leaves the outermost one where it is.
LEMMA PushBase ==
    ASSUME NEW S, NEW s \in Seq(S), NEW x \in S
    PROVE  /\ Append(s, x) \in Seq(S)
           /\ Append(s, x) # <<>>
           /\ Append(s, x)[1] = IF s = <<>> THEN x ELSE s[1]
<1>1. CASE s = <<>>
  BY <1>1, AppendProperties, EmptySeq
<1>2. CASE s # <<>>
  <2>1. 1 \in 1 .. Len(s)
    BY <1>2, EmptySeq
  <2>. QED  BY <1>2, <2>1, AppendProperties
<1>. QED  BY <1>1, <1>2

\* The sequences of arguments that TLC enumerates are sequences of members.
LEMMA ArgsType ==
    ASSUME NEW args \in Args
    PROVE  args \in Seq(Member) /\ Len(args) \in Nat /\ (args # <<>> => Len(args) >= 1)
<1>1. PICK n \in 0 .. MaxArgs : args \in [1 .. n -> Member]
  BY DEF Args
<1>2. n \in Nat
  BY ScopeAssumption
<1>3. args \in Seq(Member)
  BY <1>1, <1>2, IsASeq
<1>. QED  BY <1>3, EmptySeq, LenProperties

\* Passing arguments takes no member out of the set in use or in flight.
LEMMA PassSound ==
    ASSUME IInv, scope = "live", mode = "run",
           NEW args \in Seq(Member), NEW killed \in SUBSET Member,
           Pass(args, killed), UNCHANGED <<scope, scpRc>>
    PROVE  /\ rc' \in [Member -> Nat]
           /\ ScopeCountSound'
<1>1. \A x \in Member : Pins(x) \in Nat
  BY PinsNat DEF IInv
<1>2. \A x \in killed : rc[x] >= 1
  BY <1>1 DEF IInv, TypeOK, RcExact, Pass
<1>3. rc' \in [Member -> Nat]
  BY <1>2 DEF IInv, TypeOK, Pass
<1>4. InFlight = {}
  BY EmptySeq DEF IInv, Phases, InFlight
<1>5. InUse(rc) \union InFlight \subseteq InUse(rc') \union InFlight'
  <2>1. killed \subseteq InFlight'
    BY DEF Pass, InFlight
  <2>2. \A x \in Member \ killed : rc'[x] = rc[x]
    BY DEF Pass
  <2>. QED  BY <1>4, <2>1, <2>2 DEF InUse
<1>6. InUse(rc) \union InFlight \in SUBSET Member /\ InUse(rc') \union InFlight' \in SUBSET Member
  BY UsedAreMembers DEF IInv, TypeOK, InFlight, Pass
<1>7. /\ Cardinality(InUse(rc) \union InFlight) \in Nat
      /\ Cardinality(InUse(rc') \union InFlight') \in Nat
      /\ Cardinality(InUse(rc) \union InFlight) <= Cardinality(InUse(rc') \union InFlight')
  BY <1>5, <1>6, MemberSets
<1>. QED  BY <1>3, <1>7 DEF IInv, TypeOK, ScopeCountSound

\* APPLY of a register that owns a reference.
LEMMA CallHeldStep ==
    ASSUME IInv, NEW m \in Member, NEW args \in Args, NEW killed \in SUBSET Member,
           CallHeld(m, args, killed)
    PROVE  IInv'
<1>. USE DEF CallHeld
<1>1. args \in Seq(Member) /\ Len(args) \in Nat /\ (args # <<>> => Len(args) >= 1)
  BY ArgsType
<1>2. /\ stack \in Seq(Member \union {NoPin})
      /\ stack' \in Seq(Member \union {NoPin})
      /\ stack' # <<>>
      /\ stack # <<>> => stack'[1] = stack[1]
      /\ stack = <<>> => stack'[1] = m
  BY PushBase DEF IInv, TypeOK
<1>3. rc' \in [Member -> Nat] /\ ScopeCountSound'
  BY <1>1, PassSound
<1>4. env' \in [Member -> Nat]
  <2>1. /\ WithoutKilled(killed) \in [Member -> Nat]
        /\ WithoutKilled(killed)[m] >= 1
    BY DEF IInv, TypeOK, WithoutKilled, Pass
  <2>. QED  BY <2>1
<1>5. TypeOK'
  BY <1>1, <1>2, <1>3, <1>4 DEF IInv, TypeOK, Pass, Modes
<1>6. RcExact'
  <2>1. \A x \in Member : /\ Pins(x) \in Nat
                          /\ Pins(x)' = Pins(x) + (IF m = x THEN 1 ELSE 0)
    BY <1>2, FramesPush, PinsNat DEF Pins, IInv
  <2>2. ASSUME NEW x \in Member
        PROVE  rc'[x] = env'[x] + Pins(x)'
    <3>1. rc[x] = env[x] + Pins(x) /\ rc[x] \in Nat /\ env[x] \in Nat
      BY DEF IInv, TypeOK, RcExact
    <3>2. rc'[x] = IF x \in killed THEN rc[x] - 1 ELSE rc[x]
      BY DEF Pass
    <3>3. env'[x] = (IF x \in killed THEN env[x] - 1 ELSE env[x]) - (IF m = x THEN 1 ELSE 0)
      BY <3>1 DEF WithoutKilled
    <3>4. Pins(x) \in Nat /\ Pins(x)' = Pins(x) + (IF m = x THEN 1 ELSE 0)
      BY <2>1
    <3>. HIDE DEF CallHeld
    <3>5. CASE m = x
      BY <3>1, <3>2, <3>3, <3>4, <3>5
    <3>6. CASE m # x
      BY <3>1, <3>2, <3>3, <3>4, <3>6
    <3>. QED  BY <3>5, <3>6
  <2>. QED  BY <2>2 DEF RcExact
<1>7. Phases' /\ BasePinned'
  BY <1>1, <1>2 DEF Phases, BasePinned, Pass, IInv
<1>. QED  BY <1>2, <1>3, <1>5, <1>6, <1>7, BusyStep

\* APPLY of a scope variable.
LEMMA CallSiblingStep ==
    ASSUME IInv, NEW args \in Args, NEW killed \in SUBSET Member,
           CallSibling(args, killed)
    PROVE  IInv'
<1>. USE DEF CallSibling, Running
<1>1. args \in Seq(Member) /\ Len(args) \in Nat /\ (args # <<>> => Len(args) >= 1)
  BY ArgsType
<1>2. /\ stack \in Seq(Member \union {NoPin})
      /\ stack' \in Seq(Member \union {NoPin})
      /\ stack' # <<>>
      /\ stack'[1] = stack[1]
  BY PushBase DEF IInv, TypeOK
<1>3. rc' \in [Member -> Nat] /\ ScopeCountSound'
  BY <1>1, PassSound
<1>4. env' \in [Member -> Nat]
  BY DEF IInv, TypeOK, WithoutKilled, Pass
<1>5. TypeOK'
  BY <1>1, <1>2, <1>3, <1>4 DEF IInv, TypeOK, Pass, Modes
<1>6. RcExact'
  <2>1. \A x \in Member : Pins(x) \in Nat /\ Pins(x)' = Pins(x)
    <3>1. NoPin \notin Member
      BY ScopeAssumption
    <3>. QED  BY <1>2, <3>1, FramesPush, PinsNat DEF Pins, IInv
  <2>. QED  BY <2>1 DEF IInv, TypeOK, RcExact, Pass, WithoutKilled
<1>7. Phases' /\ BasePinned'
  BY <1>1, <1>2 DEF Phases, BasePinned, Pass, IInv
<1>. QED  BY <1>2, <1>3, <1>5, <1>6, <1>7, BusyStep

\* APPLYTC and LOOP.
LEMMA TailCallStep ==
    ASSUME IInv, NEW args \in Args, NEW killed \in SUBSET Member,
           TailCall(args, killed)
    PROVE  IInv'
<1>. USE DEF TailCall, Running
<1>1. args \in Seq(Member) /\ Len(args) \in Nat /\ (args # <<>> => Len(args) >= 1)
  BY ArgsType
<1>2. rc' \in [Member -> Nat] /\ ScopeCountSound'
  BY <1>1, PassSound
<1>3. env' \in [Member -> Nat]
  BY DEF IInv, TypeOK, WithoutKilled, Pass
<1>4. TypeOK'
  BY <1>1, <1>2, <1>3 DEF IInv, TypeOK, Pass, Modes
<1>5. RcExact'
  <2>1. \A x \in Member : Pins(x) \in Nat /\ Pins(x)' = Pins(x)
    BY PinsNat DEF Pins, IInv
  <2>. QED  BY <2>1 DEF IInv, TypeOK, RcExact, Pass, WithoutKilled
<1>6. Phases' /\ BasePinned'
  BY <1>1 DEF Phases, BasePinned, Pass, IInv
<1>. QED  BY <1>2, <1>4, <1>5, <1>6, BusyStep

\* A call in progress keeps the scope alive.
LEMMA CallMeansLive ==
    ASSUME IInv, mode # "run"
    PROVE  scope = "live" /\ stack # <<>>
BY DEF IInv, TypeOK, Phases, OnlyWhenLive

\* The last argument leaves flight, the others stay.
LEMMA FlightPop ==
    ASSUME NEW q \in Seq(Member), Len(q) >= 1
    PROVE  /\ q[Len(q)] \in Member
           /\ SubSeq(q, 1, Len(q) - 1) \in Seq(Member)
           /\ Len(SubSeq(q, 1, Len(q) - 1)) = Len(q) - 1
           /\ {q[i] : i \in 1 .. Len(q)} \ {q[Len(q)]} \subseteq
                {SubSeq(q, 1, Len(q) - 1)[i] : i \in 1 .. Len(SubSeq(q, 1, Len(q) - 1))}
<1>1. q # <<>>
  BY EmptySeq
<1>2. /\ Len(q) \in Nat \ {0}
      /\ q[Len(q)] \in Member
      /\ SubSeq(q, 1, Len(q) - 1) \in Seq(Member)
      /\ Len(SubSeq(q, 1, Len(q) - 1)) = Len(q) - 1
      /\ \A i \in 1 .. Len(q) - 1 : SubSeq(q, 1, Len(q) - 1)[i] = q[i]
  BY <1>1, ButLast, Zenon
<1>3. ASSUME NEW i \in 1 .. Len(q), q[i] # q[Len(q)]
      PROVE  \E j \in 1 .. Len(SubSeq(q, 1, Len(q) - 1)) :
               SubSeq(q, 1, Len(q) - 1)[j] = q[i]
  <2>1. i \in 1 .. Len(q) - 1
    <3>1. i # Len(q)
      BY <1>3
    <3>. QED  BY <1>2, <3>1
  <2>. QED  BY <1>2, <2>1
<1>. QED  BY <1>2, <1>3

\* The phase and the values in flight after an argument has arrived.
LEMMA ArriveSound ==
    ASSUME IInv, mode = "enter", NEW c, Arrive(c), UNCHANGED stack
    PROVE  /\ flight[Len(flight)] \in Member
           /\ flight' \in Seq(Member)
           /\ mode' \in Modes
           /\ Phases'
           /\ InFlight \ {flight[Len(flight)]} \subseteq InFlight'
<1>1. flight \in Seq(Member) /\ Len(flight) >= 1 /\ Len(flight) \in Nat
  BY LenProperties DEF IInv, TypeOK, Phases
<1>2. /\ flight[Len(flight)] \in Member
      /\ flight' \in Seq(Member)
      /\ Len(flight') = Len(flight) - 1
      /\ InFlight \ {flight[Len(flight)]} \subseteq InFlight'
  BY <1>1, FlightPop, Zenon DEF Arrive, InFlight
<1>3. mode' \in Modes
  BY DEF Arrive, Modes
<1>4. Phases'
  <2>1. CASE Len(flight) = 1
    <3>1. flight' = <<>> /\ mode' = "run"
      BY <1>2, <2>1, EmptySeq DEF Arrive
    <3>. QED  BY <3>1 DEF Phases
  <2>2. CASE Len(flight) # 1
    <3>1. Len(flight') >= 1 /\ mode' = "enter" /\ stack' # <<>>
      BY <1>1, <1>2, <2>2, CallMeansLive DEF Arrive
    <3>. QED  BY <3>1 DEF Phases
  <2>. QED  BY <2>1, <2>2
<1>. QED  BY <1>2, <1>3, <1>4

\* The callee keeps an argument.
LEMMA EnterRefStep ==
    ASSUME IInv, EnterRef
    PROVE  IInv'
<1>. DEFINE m == flight[Len(flight)]
<1>1. /\ mode = "enter"
      /\ Arrive([rc EXCEPT ![m] = @ + 1])
      /\ rc' = [rc EXCEPT ![m] = @ + 1]
      /\ env' = [env EXCEPT ![m] = @ + 1]
      /\ UNCHANGED <<scope, scpRc, stack>>
  BY DEF EnterRef, Arrive
<1>2. /\ m \in Member
      /\ flight' \in Seq(Member)
      /\ mode' \in Modes
      /\ Phases'
      /\ InFlight \ {m} \subseteq InFlight'
  BY <1>1, ArriveSound
<1>3. scope = "live" /\ stack # <<>>
  BY <1>1, CallMeansLive
<1>. HIDE DEF m
<1>4. TypeOK'
  BY <1>1, <1>2 DEF IInv, TypeOK
<1>5. RcExact'
  <2>1. \A x \in Member : Pins(x) \in Nat /\ Pins(x)' = Pins(x)
    BY <1>1, PinsNat DEF Pins, IInv
  <2>. QED  BY <1>1, <1>2, <2>1 DEF IInv, TypeOK, RcExact
<1>6. BasePinned'
  BY <1>1 DEF IInv, BasePinned
<1>7. ScopeCountSound'
  <2>1. InUse(rc) \union InFlight \subseteq InUse(rc') \union InFlight'
    <3>1. InUse(rc) \union {m} \subseteq InUse(rc')
      BY <1>1, <1>2 DEF IInv, TypeOK, InUse
    <3>. QED  BY <1>2, <3>1
  <2>2. InUse(rc) \union InFlight \in SUBSET Member /\ InUse(rc') \union InFlight' \in SUBSET Member
    BY <1>2, UsedAreMembers DEF IInv, TypeOK, InFlight
  <2>3. /\ Cardinality(InUse(rc) \union InFlight) \in Nat
        /\ Cardinality(InUse(rc') \union InFlight') \in Nat
        /\ Cardinality(InUse(rc) \union InFlight) <= Cardinality(InUse(rc') \union InFlight')
    BY <2>1, <2>2, MemberSets
  <2>. QED  BY <1>1, <2>3 DEF IInv, TypeOK, ScopeCountSound
<1>. QED  BY <1>1, <1>2, <1>3, <1>4, <1>5, <1>6, <1>7, BusyStep

\* The callee has no use for an argument.
LEMMA EnterDropStep ==
    ASSUME IInv, EnterDrop
    PROVE  IInv'
<1>. DEFINE m == flight[Len(flight)]
<1>1. /\ mode = "enter"
      /\ Arrive(rc)
      /\ rc' = rc
      /\ DropAt(rc', m)
      /\ UNCHANGED <<env, stack>>
  BY DEF EnterDrop, Arrive
<1>2. /\ m \in Member
      /\ flight' \in Seq(Member)
      /\ mode' \in Modes
      /\ Phases'
      /\ InFlight \ {m} \subseteq InFlight'
  BY <1>1, ArriveSound
<1>3. scope = "live" /\ stack # <<>>
  BY <1>1, CallMeansLive
<1>. HIDE DEF m
<1>4. /\ scpRc' \in Nat
      /\ scope' \in {"live", "freed"}
      /\ ScopeCountSound'
      /\ scope' = "freed" => \A x \in Member : rc'[x] = 0
  <2>1. (InUse(rc) \union InFlight) \ {m} \subseteq InUse(rc') \union InFlight'
    BY <1>1, <1>2
  <2>. QED  BY <1>1, <1>2, <1>3, <2>1, DropAtSound DEF IInv
<1>5. scope' = "live"
  BY <1>1, <1>3, <1>4 DEF IInv, SomeoneCounts
<1>6. TypeOK'
  BY <1>1, <1>2, <1>4 DEF IInv, TypeOK
<1>7. RcExact' /\ BasePinned'
  BY <1>1 DEF IInv, RcExact, Pins, BasePinned
<1>. QED  BY <1>1, <1>2, <1>3, <1>4, <1>5, <1>6, <1>7, BusyStep

\* A single value in flight.
LEMMA OneInFlight ==
    ASSUME NEW m \in Member
    PROVE  /\ <<m>> \in Seq(Member)
           /\ Len(<<m>>) = 1
           /\ {<<m>>[i] : i \in 1 .. Len(<<m>>)} = {m}
OBVIOUS

\* RET of a value that is not a member.
LEMMA ReturnOtherStep ==
    ASSUME IInv, ReturnOther
    PROVE  IInv'
<1>. USE DEF ReturnOther, Running
<1>1. TypeOK' /\ RcExact' /\ Phases' /\ BasePinned' /\ ScopeCountSound'
  BY DEF IInv, TypeOK, Modes, RcExact, Pins, Phases, BasePinned, ScopeCountSound, InFlight
<1>. QED  BY <1>1, BusyStep

\* RET of a register that owns its reference.
LEMMA ReturnHeldStep ==
    ASSUME IInv, NEW m \in Member, ReturnHeld(m)
    PROVE  IInv'
<1>. USE DEF ReturnHeld, Running
<1>1. \A x \in Member : Pins(x) \in Nat /\ Pins(x)' = Pins(x)
  BY PinsNat DEF Pins, IInv
<1>2. rc[m] >= 1 /\ env[m] >= 1
  BY <1>1 DEF IInv, TypeOK, RcExact
<1>3. TypeOK'
  BY <1>2, OneInFlight DEF IInv, TypeOK, Modes
<1>4. RcExact'
  BY <1>1, <1>2 DEF IInv, TypeOK, RcExact
<1>5. Phases' /\ BasePinned'
  BY OneInFlight DEF IInv, Phases, BasePinned
<1>6. ScopeCountSound'
  <2>1. InFlight = {} /\ InFlight' = {m}
    BY EmptySeq, OneInFlight DEF IInv, Phases, InFlight
  <2>2. InUse(rc) \union InFlight \subseteq InUse(rc') \union InFlight'
    BY <2>1 DEF IInv, TypeOK, InUse
  <2>3. InUse(rc) \union InFlight \in SUBSET Member /\ InUse(rc') \union InFlight' \in SUBSET Member
    BY <2>1 DEF InUse
  <2>4. /\ Cardinality(InUse(rc) \union InFlight) \in Nat
        /\ Cardinality(InUse(rc') \union InFlight') \in Nat
        /\ Cardinality(InUse(rc) \union InFlight) <= Cardinality(InUse(rc') \union InFlight')
    BY <2>2, <2>3, MemberSets
  <2>. QED  BY <2>4 DEF IInv, TypeOK, ScopeCountSound
<1>. QED  BY <1>3, <1>4, <1>5, <1>6, BusyStep

\* RET of a scope variable.
LEMMA ReturnSiblingStep ==
    ASSUME IInv, NEW m \in Member, ReturnSibling(m)
    PROVE  IInv'
<1>. USE DEF ReturnSibling, Running
<1>1. TypeOK' /\ RcExact' /\ Phases' /\ BasePinned'
  BY OneInFlight DEF IInv, TypeOK, Modes, RcExact, Pins, Phases, BasePinned
<1>2. ScopeCountSound'
  <2>1. InFlight = {} /\ InFlight' = {m}
    BY EmptySeq, OneInFlight DEF IInv, Phases, InFlight
  <2>2. InUse(rc) \union InFlight \subseteq InUse(rc') \union InFlight'
    BY <2>1 DEF InUse
  <2>3. InUse(rc) \union InFlight \in SUBSET Member /\ InUse(rc') \union InFlight' \in SUBSET Member
    BY <2>1 DEF InUse
  <2>4. /\ Cardinality(InUse(rc) \union InFlight) \in Nat
        /\ Cardinality(InUse(rc') \union InFlight') \in Nat
        /\ Cardinality(InUse(rc) \union InFlight) <= Cardinality(InUse(rc') \union InFlight')
    BY <2>2, <2>3, MemberSets
  <2>. QED  BY <2>4 DEF IInv, TypeOK, ScopeCountSound
<1>. QED  BY <1>1, <1>2, BusyStep

\* The result that arrives is the only value in flight.
LEMMA ResultInFlight ==
    ASSUME IInv, mode = "leave"
    PROVE  flight[1] \in Member /\ InFlight = {flight[1]}
<1>1. flight \in Seq(Member) /\ Len(flight) = 1
  BY DEF IInv, TypeOK, Phases
<1>2. flight[1] \in Member
  BY <1>1, ElementOfSeq
<1>. QED  BY <1>1, <1>2 DEF InFlight

\* The caller keeps the result.
LEMMA TakeResultStep ==
    ASSUME IInv, TakeResult
    PROVE  IInv'
<1>. DEFINE m == flight[1]
<1>1. /\ mode = "leave" /\ mode' = "release" /\ flight' = <<>>
      /\ rc' = [rc EXCEPT ![m] = @ + 1]
      /\ env' = [env EXCEPT ![m] = @ + 1]
      /\ UNCHANGED <<scope, scpRc, stack>>
  BY DEF TakeResult
<1>2. m \in Member /\ InFlight = {m} /\ InFlight' = {}
  <2>1. m \in Member /\ InFlight = {m}
    BY <1>1, ResultInFlight
  <2>2. InFlight' = {}
    BY <1>1, EmptySeq DEF InFlight
  <2>. QED  BY <2>1, <2>2
<1>3. scope = "live" /\ stack # <<>>
  BY <1>1, CallMeansLive
<1>. HIDE DEF m
<1>4. TypeOK'
  BY <1>1, <1>2, EmptySeq DEF IInv, TypeOK, Modes
<1>5. RcExact'
  <2>1. \A x \in Member : Pins(x) \in Nat /\ Pins(x)' = Pins(x)
    BY <1>1, PinsNat DEF Pins, IInv
  <2>. QED  BY <1>1, <1>2, <2>1 DEF IInv, TypeOK, RcExact
<1>6. Phases' /\ BasePinned'
  BY <1>1, <1>3 DEF IInv, Phases, BasePinned
<1>7. ScopeCountSound'
  <2>1. InUse(rc) \union InFlight \subseteq InUse(rc') \union InFlight'
    BY <1>1, <1>2 DEF IInv, TypeOK, InUse
  <2>2. InUse(rc) \union InFlight \in SUBSET Member /\ InUse(rc') \union InFlight' \in SUBSET Member
    BY <1>2 DEF InUse
  <2>3. /\ Cardinality(InUse(rc) \union InFlight) \in Nat
        /\ Cardinality(InUse(rc') \union InFlight') \in Nat
        /\ Cardinality(InUse(rc) \union InFlight) <= Cardinality(InUse(rc') \union InFlight')
    BY <2>1, <2>2, MemberSets
  <2>. QED  BY <1>1, <2>3 DEF IInv, TypeOK, ScopeCountSound
<1>. QED  BY <1>1, <1>3, <1>4, <1>5, <1>6, <1>7, BusyStep

\* The caller has no use for the result.
LEMMA DropResultStep ==
    ASSUME IInv, DropResult
    PROVE  IInv'
<1>. DEFINE m == flight[1]
<1>1. /\ mode = "leave" /\ mode' = "release" /\ flight' = <<>>
      /\ rc' = rc
      /\ DropAt(rc', m)
      /\ UNCHANGED <<env, stack>>
  BY DEF DropResult
<1>2. m \in Member /\ InFlight = {m} /\ InFlight' = {} /\ flight' \in Seq(Member)
  BY <1>1, ResultInFlight, EmptySeq DEF InFlight
<1>3. scope = "live" /\ stack # <<>>
  BY <1>1, CallMeansLive
<1>. HIDE DEF m
<1>4. /\ scpRc' \in Nat
      /\ scope' \in {"live", "freed"}
      /\ ScopeCountSound'
      /\ scope' = "freed" => \A x \in Member : rc'[x] = 0
  <2>1. (InUse(rc) \union InFlight) \ {m} \subseteq InUse(rc') \union InFlight'
    BY <1>1, <1>2
  <2>. QED  BY <1>1, <1>2, <1>3, <2>1, DropAtSound DEF IInv
<1>5. scope' = "live"
  BY <1>1, <1>3, <1>4 DEF IInv, SomeoneCounts
<1>6. TypeOK'
  BY <1>1, <1>2, <1>4 DEF IInv, TypeOK, Modes
<1>7. RcExact' /\ BasePinned' /\ Phases'
  BY <1>1, <1>3 DEF IInv, RcExact, Pins, BasePinned, Phases
<1>. QED  BY <1>1, <1>2, <1>3, <1>4, <1>5, <1>6, <1>7, BusyStep

\* What the end of a call does to the chain of calls.
LEMMA PopSound ==
    ASSUME IInv, mode = "release", PopFrame
    PROVE  /\ stack' \in Seq(Member \union {NoPin})
           /\ Callee \in Member \union {NoPin}
           /\ BasePinned'
           /\ Phases'
           /\ InFlight = {} /\ InFlight' = {}
           /\ \A x \in Member : /\ Pins(x)' \in Nat
                                /\ Pins(x) = Pins(x)' + (IF Callee = x THEN 1 ELSE 0)
<1>1. /\ stack \in Seq(Member \union {NoPin}) /\ stack # <<>>
      /\ stack' = SubSeq(stack, 1, Len(stack) - 1)
      /\ flight = <<>> /\ flight' = <<>> /\ mode' = "run"
  BY CallMeansLive DEF IInv, TypeOK, Phases, PopFrame
<1>2. /\ Len(stack) \in Nat \ {0}
      /\ Callee \in Member \union {NoPin}
      /\ stack' \in Seq(Member \union {NoPin})
      /\ Len(stack') = Len(stack) - 1
      /\ \A i \in 1 .. Len(stack) - 1 : stack'[i] = stack[i]
  BY <1>1, ButLast, Zenon DEF Callee
<1>3. BasePinned'
  <2>1. ASSUME stack' # <<>>
        PROVE  stack'[1] = stack[1]
    <3>1. Len(stack') \in Nat \ {0}
      BY <1>2, <2>1, EmptySeq
    <3>. QED  BY <1>2, <3>1
  <2>. QED  BY <1>1, <2>1 DEF IInv, BasePinned
<1>4. Phases'
  BY <1>1 DEF Phases
<1>5. InFlight = {} /\ InFlight' = {}
  BY <1>1, EmptySeq DEF InFlight
<1>6. ASSUME NEW x \in Member
      PROVE  /\ Pins(x)' \in Nat
             /\ Pins(x) = Pins(x)' + (IF Callee = x THEN 1 ELSE 0)
  <2>1. Cardinality(Frames(stack', x)) \in Nat
    BY <1>2, FramesFinite
  <2>2. Cardinality(Frames(stack, x))
          = Cardinality(Frames(stack', x)) + (IF stack[Len(stack)] = x THEN 1 ELSE 0)
    BY <1>1, FramesPop, Zenon
  <2>. QED  BY <2>1, <2>2 DEF Pins, Callee
<1>. QED  BY <1>2, <1>3, <1>4, <1>5, <1>6

\* The end of a call through a scope variable.
LEMMA LeaveSiblingStep ==
    ASSUME IInv, LeaveSibling
    PROVE  IInv'
<1>1. /\ mode = "release" /\ Callee = NoPin /\ PopFrame
      /\ mode' = "run" /\ flight' = flight
      /\ UNCHANGED <<scope, rc, scpRc, env>>
  BY DEF LeaveSibling, PopFrame
<1>2. /\ stack' \in Seq(Member \union {NoPin})
      /\ BasePinned' /\ Phases'
      /\ InFlight = {} /\ InFlight' = {}
      /\ \A x \in Member : /\ Pins(x)' \in Nat
                           /\ Pins(x) = Pins(x)' + (IF Callee = x THEN 1 ELSE 0)
  BY <1>1, PopSound
<1>3. scope = "live"
  BY <1>1, CallMeansLive
<1>4. TypeOK'
  BY <1>1, <1>2 DEF IInv, TypeOK, Modes
<1>5. RcExact'
  <2>1. \A x \in Member : Pins(x)' = Pins(x)
    BY <1>1, <1>2, ScopeAssumption
  <2>. QED  BY <1>1, <2>1 DEF IInv, RcExact
<1>6. OnlyWhenLive' /\ SomeoneCounts' /\ ScopeCountSound'
  BY <1>1, <1>2, <1>3 DEF IInv, OnlyWhenLive, SomeoneCounts, ScopeCountSound, InUse
<1>. QED  BY <1>2, <1>4, <1>5, <1>6 DEF IInv

\* The end of a call whose callee is used again.
LEMMA KeepCalleeStep ==
    ASSUME IInv, KeepCallee
    PROVE  IInv'
<1>. DEFINE m == Callee
<1>1. /\ mode = "release" /\ m \in Member /\ PopFrame
      /\ mode' = "run" /\ flight' = flight
      /\ env' = [env EXCEPT ![m] = @ + 1]
      /\ UNCHANGED <<scope, rc, scpRc>>
  BY DEF KeepCallee, PopFrame
<1>2. /\ stack' \in Seq(Member \union {NoPin})
      /\ BasePinned' /\ Phases'
      /\ InFlight = {} /\ InFlight' = {}
      /\ \A x \in Member : /\ Pins(x)' \in Nat
                           /\ Pins(x) = Pins(x)' + (IF m = x THEN 1 ELSE 0)
  BY <1>1, PopSound
<1>3. scope = "live"
  BY <1>1, CallMeansLive
<1>. HIDE DEF m
<1>4. TypeOK'
  BY <1>1, <1>2 DEF IInv, TypeOK, Modes
<1>5. RcExact'
  BY <1>1, <1>2 DEF IInv, TypeOK, RcExact
<1>6. OnlyWhenLive' /\ SomeoneCounts' /\ ScopeCountSound'
  BY <1>1, <1>2, <1>3 DEF IInv, OnlyWhenLive, SomeoneCounts, ScopeCountSound, InUse
<1>. QED  BY <1>2, <1>4, <1>5, <1>6 DEF IInv

\* The end of a call that was the last use of the callee.
LEMMA UnrefCalleeStep ==
    ASSUME IInv, UnrefCallee
    PROVE  IInv'
<1>. DEFINE m == Callee
<1>1. /\ mode = "release" /\ m \in Member /\ PopFrame
      /\ mode' = "run" /\ flight' = flight
      /\ rc' = [rc EXCEPT ![m] = @ - 1]
      /\ DropAt(rc', m)
      /\ UNCHANGED env
  BY DEF UnrefCallee, PopFrame
<1>2. /\ stack' \in Seq(Member \union {NoPin})
      /\ BasePinned' /\ Phases'
      /\ InFlight = {} /\ InFlight' = {}
      /\ \A x \in Member : /\ Pins(x)' \in Nat
                           /\ Pins(x) = Pins(x)' + (IF m = x THEN 1 ELSE 0)
  BY <1>1, PopSound
<1>3. scope = "live"
  BY <1>1, CallMeansLive
<1>. HIDE DEF m
<1>4. rc' \in [Member -> Nat] /\ RcExact'
  <2>1. rc[m] >= 1
    BY <1>1, <1>2 DEF IInv, TypeOK, RcExact
  <2>. QED  BY <1>1, <1>2, <2>1 DEF IInv, TypeOK, RcExact
<1>5. /\ scpRc' \in Nat
      /\ scope' \in {"live", "freed"}
      /\ ScopeCountSound'
      /\ scope' = "freed" => \A x \in Member : rc'[x] = 0
  <2>1. (InUse(rc) \union InFlight) \ {m} \subseteq InUse(rc') \union InFlight'
    BY <1>1, <1>2 DEF IInv, TypeOK, InUse
  <2>2. flight' \in Seq(Member)
    BY <1>1 DEF IInv, TypeOK
  <2>. QED  BY <1>1, <1>3, <2>1, <2>2, DropAtSound DEF IInv
<1>6. TypeOK'
  BY <1>1, <1>2, <1>4, <1>5 DEF IInv, TypeOK, Modes
<1>7. OnlyWhenLive'
  <2>1. \A x \in Member : rc'[x] = env'[x] + Cardinality(Frames(stack', x))
    BY <1>4 DEF RcExact, Pins
  <2>2. /\ stack' \in Seq(Member \union {NoPin})
        /\ stack' # <<>> => stack'[1] \in Member
        /\ env' \in [Member -> Nat]
    BY <1>2, <1>6 DEF TypeOK, BasePinned
  <2>3. ASSUME scope' = "freed"
        PROVE  stack' = <<>>
    <3>1. \A x \in Member : rc'[x] = 0
      BY <1>5, <2>3
    <3>. QED  BY <2>1, <2>2, <3>1, IdleWhenZero, Zenon
  <2>. QED  BY <1>5, <2>3 DEF OnlyWhenLive
<1>8. SomeoneCounts'
  BY <1>2, <1>5, CountedMember DEF SomeoneCounts, ScopeCountSound
<1>. QED  BY <1>2, <1>4, <1>5, <1>6, <1>7, <1>8 DEF IInv

-----------------------------------------------------------------------------
(* The theorems *)

\* The initial state satisfies the inductive invariant.
LEMMA InitIInv == Init => IInv
<1>. SUFFICES ASSUME Init
              PROVE  IInv
  OBVIOUS
<1>. USE DEF Init
<1>1. TypeOK
  BY EmptySeq DEF TypeOK, Modes
<1>2. RcExact
  BY FramesEmpty DEF RcExact, Pins
<1>3. Phases /\ OnlyWhenLive /\ BasePinned /\ SomeoneCounts /\ ScopeCountSound
  BY DEF Phases, OnlyWhenLive, BasePinned, SomeoneCounts, ScopeCountSound
<1>. QED  BY <1>1, <1>2, <1>3 DEF IInv

\* Every step preserves it.
LEMMA NextIInv == IInv /\ [Next]_vars => IInv'
<1>. SUFFICES ASSUME IInv, [Next]_vars
              PROVE  IInv'
  OBVIOUS
<1>1. ASSUME NEW m \in Member, Build(m)
      PROVE  IInv'
  BY <1>1, BuildStep
<1>2. CASE MkScope
  BY <1>2, MkScopeStep
<1>3. ASSUME NEW m \in Member, Ref(m)
      PROVE  IInv'
  BY <1>3, RefStep
<1>4. ASSUME NEW m \in Member, Unref(m)
      PROVE  IInv'
  BY <1>4, UnrefStep
<1>5. ASSUME NEW args \in Args, NEW killed \in SUBSET Member,
             NEW m \in Member, CallHeld(m, args, killed)
      PROVE  IInv'
  BY <1>5, CallHeldStep
<1>6. ASSUME NEW args \in Args, NEW killed \in SUBSET Member,
             CallSibling(args, killed) \/ TailCall(args, killed)
      PROVE  IInv'
  BY <1>6, CallSiblingStep, TailCallStep
<1>7. CASE Arrival
  BY <1>7, EnterRefStep, EnterDropStep DEF Arrival
<1>8. CASE ReturnOther \/ TakeResult \/ DropResult
  BY <1>8, ReturnOtherStep, TakeResultStep, DropResultStep
<1>9. ASSUME NEW m \in Member, ReturnHeld(m) \/ ReturnSibling(m)
      PROVE  IInv'
  BY <1>9, ReturnHeldStep, ReturnSiblingStep
<1>10. CASE LeaveSibling \/ KeepCallee \/ UnrefCallee
  BY <1>10, LeaveSiblingStep, KeepCalleeStep, UnrefCalleeStep
<1>11. CASE UNCHANGED vars
  BY <1>11 DEF vars, IInv, TypeOK, RcExact, Pins, Phases, OnlyWhenLive,
               BasePinned, SomeoneCounts, ScopeCountSound, InFlight
<1>. QED
  BY <1>1, <1>2, <1>3, <1>4, <1>5, <1>6, <1>7, <1>8, <1>9, <1>10, <1>11
  DEF Next, Call, Return

\* The inductive invariant holds throughout.
LEMMA IInvAlways == Spec => []IInv
BY InitIInv, NextIInv, PTL DEF Spec

\* Every count stays a natural number: none of the decrements wraps.
THEOREM TypeCorrect == Spec => []TypeOK
<1>1. IInv => TypeOK
  BY DEF IInv
<1>. QED  BY <1>1, IInvAlways, PTL

\* header.rc counts exactly the references that registers, objects and pending
\* calls own.
THEOREM CountsExact == Spec => []RcExact
<1>1. IInv => RcExact
  BY DEF IInv
<1>. QED  BY <1>1, IInvAlways, PTL

\* The counter of the scope errs only on the safe side.
THEOREM CountSound == Spec => []ScopeCountSound
<1>1. IInv => ScopeCountSound
  BY DEF IInv
<1>. QED  BY <1>1, IInvAlways, PTL

\* No member is released while it is executed, on its way or referenced.
THEOREM Safety == Spec => []NoUseAfterFree
<1>1. ASSUME IInv, scope = "freed"
      PROVE  /\ stack = <<>> /\ flight = <<>>
             /\ \A m \in Member : env[m] = 0 /\ rc[m] = 0
  <2>1. stack = <<>> /\ flight = <<>> /\ \A m \in Member : rc[m] = 0
    BY <1>1 DEF IInv, OnlyWhenLive, Phases, TypeOK, Modes
  <2>2. \A m \in Member : Pins(m) \in Nat
    BY <1>1, PinsNat DEF IInv
  <2>. QED  BY <1>1, <2>1, <2>2 DEF IInv, TypeOK, RcExact
<1>2. IInv => NoUseAfterFree
  BY <1>1 DEF NoUseAfterFree
<1>. QED  BY <1>2, IInvAlways, PTL

\* A live scope that nobody executes has an owner: cycles do not leak.
THEOREM ScopesDoNotLeak == Spec => []NoLeak
<1>1. ASSUME IInv, scope = "live", stack = <<>>
      PROVE  \E m \in Member : env[m] > 0
  <2>1. \A m \in Member : rc[m] = env[m]
    BY <1>1, FramesEmpty DEF IInv, TypeOK, RcExact, Pins
  <2>. QED  BY <1>1, <2>1 DEF IInv, TypeOK, SomeoneCounts
<1>2. IInv => NoLeak
  BY <1>1 DEF NoLeak
<1>. QED  BY <1>2, IInvAlways, PTL

-----------------------------------------------------------------------------
(* The scope implements ScopeLifetime *)

Held == {m \in Member : env[m] + Pins(m) > 0}

\* The members that a counted reference designates are those with a count.
LEMMA CountedAreInUse ==
    ASSUME NEW r \in [Member -> Nat], NEW e, NEW s,
           \A m \in Member : r[m] = e[m] + Cardinality(Frames(s, m))
    PROVE  {m \in Member : e[m] + Cardinality(Frames(s, m)) > 0} = InUse(r)
BY DEF InUse

\* The same before and after a step.
LEMMA HeldInUse ==
    ASSUME IInv, IInv'
    PROVE  Held = InUse(rc) /\ Held' = InUse(rc')
<1>1. Held = InUse(rc)
  BY CountedAreInUse DEF IInv, TypeOK, RcExact, Held, Pins
<1>2. Held' = InUse(rc')
  <2>1. rc' \in [Member -> Nat] /\ \A m \in Member : rc'[m] = env'[m] + Cardinality(Frames(stack', m))
    BY DEF IInv, TypeOK, RcExact, Pins
  <2>2. {m \in Member : env'[m] + Cardinality(Frames(stack', m)) > 0} = InUse(rc')
    BY <2>1, CountedAreInUse
  <2>. QED  BY <2>2 DEF Held, Pins
<1>. QED  BY <1>1, <1>2

\* While nobody executes the scope, no step gives a count to a member that
\* has none: only a running body follows the uncounted pointers.
LEMMA NoResurrection ==
    ASSUME IInv, Next, scope = "live", ~Running
    PROVE  \A x \in Member : rc[x] = 0 => rc'[x] = 0
<1>1. stack = <<>> /\ mode = "run"
  BY CallMeansLive DEF Running
<1>2. \A x \in Member : rc[x] = env[x] /\ rc[x] \in Nat
  BY <1>1, FramesEmpty DEF IInv, TypeOK, RcExact, Pins
<1>3. ASSUME NEW m \in Member, Ref(m) \/ Unref(m)
      PROVE  \A x \in Member : rc[x] = 0 => rc'[x] = 0
  BY <1>2, <1>3 DEF Ref, Unref, Reachable, Running, IInv, TypeOK
<1>4. ASSUME NEW args \in Args, NEW killed \in SUBSET Member,
             NEW m \in Member, CallHeld(m, args, killed)
      PROVE  \A x \in Member : rc[x] = 0 => rc'[x] = 0
  BY <1>2, <1>4 DEF CallHeld, Pass
<1>. QED
  BY <1>1, <1>3, <1>4
  DEF Next, Build, MkScope, Call, CallSibling, TailCall, Arrival, EnterRef,
      EnterDrop, Return, ReturnOther, ReturnHeld, ReturnSibling, TakeResult,
      DropResult, LeaveSibling, KeepCallee, UnrefCallee, Running

\* A step before MKSCP, or MKSCP itself.
LEMMA BuildingStep ==
    ASSUME IInv, IInv', Next, scope = "building"
    PROVE  [Lifetime!Next]_(Lifetime!vars)
<1>. DEFINE busy == Running
<1>1. Held = InUse(rc) /\ Held' = InUse(rc')
  BY HeldInUse
<1>2. stack = <<>> /\ mode = "run"
  BY DEF IInv, OnlyWhenLive, Phases, TypeOK, Modes
<1>3. ASSUME NEW m \in Member, Build(m)
      PROVE  Lifetime!Build(m)
  <2>1. InUse(rc') = InUse(rc) \union {m}
    BY <1>3 DEF Build, InUse, IInv, TypeOK
  <2>. QED  BY <1>1, <1>3, <2>1 DEF Build, Lifetime!Build, Held, Running
<1>4. CASE MkScope
  <2>1. InUse(rc) = Member /\ rc' = rc
    BY <1>4 DEF MkScope, InUse, IInv, TypeOK
  <2>. QED  BY <1>1, <1>4, <2>1 DEF MkScope, Lifetime!Next, Lifetime!Open, Held, Running, InUse
<1>5. (\E m \in Member : Build(m)) \/ MkScope
  BY <1>2
  DEF Next, Ref, Unref, Call, CallHeld, CallSibling, TailCall, Arrival,
      EnterRef, EnterDrop, Return, ReturnOther, ReturnHeld, ReturnSibling,
      TakeResult, DropResult, LeaveSibling, KeepCallee, UnrefCallee
<1>. QED  BY <1>3, <1>4, <1>5 DEF Lifetime!Next

\* A step of a live scope.
LEMMA LiveStep ==
    ASSUME IInv, IInv', Next, scope = "live"
    PROVE  [Lifetime!Next]_(Lifetime!vars)
<1>1. Held = InUse(rc) /\ Held' = InUse(rc')
  BY HeldInUse
<1>2. scope' \in {"live", "freed"}
  BY DEF Next, Build, MkScope, Ref, Unref, Call, CallHeld, CallSibling, TailCall,
      Arrival, EnterRef, EnterDrop, Return, ReturnOther, ReturnHeld,
      ReturnSibling, TakeResult, DropResult, LeaveSibling, KeepCallee,
      UnrefCallee, DropAt, DropOut
<1>3. CASE scope' = "freed"
  <2>1. InUse(rc') = {} /\ stack' = <<>>
    BY <1>3 DEF IInv, OnlyWhenLive, InUse
  <2>. QED  BY <1>1, <1>3, <2>1 DEF Lifetime!Next, Lifetime!Close, Held, Running
<1>4. CASE scope' = "live"
  <2>1. InUse(rc') # {}
    BY <1>4 DEF IInv, SomeoneCounts, InUse
  <2>2. Running \/ InUse(rc') \subseteq InUse(rc)
    BY NoResurrection DEF InUse
  <2>3. InUse(rc') \in SUBSET Member /\ Running' \in BOOLEAN
    BY DEF InUse, Running
  <2>4. /\ Running \/ Held' \subseteq Held
        /\ Held' \in SUBSET Member
        /\ Running' \in BOOLEAN
        /\ Running' \/ Held' # {}
    BY <1>1, <2>1, <2>2, <2>3
  <2>5. Lifetime!Use
    BY <1>4, <2>4 DEF Lifetime!Use, Held
  <2>. QED  BY <2>5 DEF Lifetime!Next
<1>. QED  BY <1>2, <1>3, <1>4

\* For every number of members and every bound, the counting of src/scp.c and
\* the reference rules of the compiled code implement the abstract lifetime.
THEOREM ImplementsAbstractLifetime == Spec => ImplementsLifetime
<1>1. Init => Lifetime!Init
  <2>1. ASSUME Init
        PROVE  Held = {}
    BY <2>1, FramesEmpty DEF Init, Held, Pins
  <2>. QED  BY <2>1 DEF Init, Lifetime!Init, Held, Running
<1>2. IInv /\ IInv' /\ [Next]_vars => [Lifetime!Next]_(Lifetime!vars)
  <2>. SUFFICES ASSUME IInv, IInv', [Next]_vars
                PROVE  [Lifetime!Next]_(Lifetime!vars)
    OBVIOUS
  <2>1. CASE UNCHANGED vars
    BY <2>1 DEF vars, Lifetime!vars, Pins, Running
  <2>2. CASE Next /\ scope = "building"
    BY <2>2, BuildingStep
  <2>3. CASE Next /\ scope = "live"
    BY <2>3, LiveStep
  <2>4. CASE Next /\ scope = "freed"
    <3>1. stack = <<>> /\ mode = "run"
      BY <2>4 DEF IInv, OnlyWhenLive, Phases, TypeOK, Modes
    <3>. QED
      BY <2>4, <3>1 DEF Next, Build, MkScope, Ref, Unref, Call, CallHeld, CallSibling,
          TailCall, Arrival, EnterRef, EnterDrop, Return, ReturnOther, ReturnHeld,
          ReturnSibling, TakeResult, DropResult, LeaveSibling, KeepCallee, UnrefCallee
  <2>. QED  BY <2>1, <2>2, <2>3, <2>4 DEF IInv, TypeOK
<1>. QED  BY <1>1, <1>2, IInvAlways, PTL DEF Spec, ImplementsLifetime, Lifetime!Spec
=============================================================================
