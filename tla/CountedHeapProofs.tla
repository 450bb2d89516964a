-------------------------- MODULE CountedHeapProofs --------------------------
(* Facts about counted objects (CountedHeap), for every heap.                 *)
EXTENDS CountedHeap, FiniteSetTheorems, SequenceTheorems, WellFoundedInduction, TLAPS

-----------------------------------------------------------------------------
(* How often something is in a sequence *)

\* What is counted of a finite sequence is a number, 0 if there is nothing.
LEMMA OccursNat ==
    ASSUME NEW os, IsFiniteSet(DOMAIN os), NEW o
    PROVE  /\ Occurs(os, o) \in Nat
           /\ Occurs(os, o) = 0 <=> \A i \in DOMAIN os : os[i] # o
<1> DEFINE P == {i \in DOMAIN os : os[i] = o}
<1>1. IsFiniteSet(P)
  BY FS_Subset
<1>2. Cardinality(P) \in Nat /\ (Cardinality(P) = 0 <=> P = {})
  BY <1>1, FS_CardinalityType, FS_EmptySet
<1> QED
  BY <1>2 DEF Occurs

\* Two sequences with the same o at the same places
LEMMA OccursSame ==
    ASSUME NEW s, NEW t, NEW o,
           {i \in DOMAIN s : s[i] = o} = {i \in DOMAIN t : t[i] = o}
    PROVE  Occurs(s, o) = Occurs(t, o)
BY DEF Occurs

\* Nothing is in the empty sequence,
LEMMA OccursEmpty == \A o : Occurs(<<>>, o) = 0
BY FS_EmptySet DEF Occurs

\* and one object in a sequence of one.
LEMMA OccursSingle == \A v, o : Occurs(<<v>>, o) = IF v = o THEN 1 ELSE 0
<1> TAKE v, o
<1>1. CASE v = o
  <2> {i \in DOMAIN <<v>> : <<v>>[i] = o} = {1}
    BY <1>1
  <2> QED
    BY <1>1, FS_Singleton DEF Occurs
<1>2. CASE v # o
  <2> {i \in DOMAIN <<v>> : <<v>>[i] = o} = {}
    BY <1>2
  <2> QED
    BY <1>2, FS_EmptySet DEF Occurs
<1> QED
  BY <1>1, <1>2

\* A set of numbers and the same set shifted
LEMMA Shifted ==
    ASSUME NEW A \in SUBSET Nat, IsFiniteSet(A), NEW k \in Nat
    PROVE  /\ IsFiniteSet({i + k : i \in A})
           /\ Cardinality({i + k : i \in A}) = Cardinality(A)
<1> DEFINE B == {i + k : i \in A}
           f == [i \in A |-> i + k]
<1>1. f \in Bijection(A, B)
  BY DEF Bijection, Injection, Surjection, IsInjective
<1> QED
  BY <1>1, FS_Bijection DEF ExistsBijection

\* The places of a sequence.
LEMMA SeqDomains ==
    ASSUME NEW S, NEW s \in Seq(S)
    PROVE  IsFiniteSet(DOMAIN s) /\ DOMAIN s = 1 .. Len(s) /\ Len(s) \in Nat
BY FS_Interval

\* Sequences that are joined add up,
LEMMA OccursConcat ==
    ASSUME NEW S, NEW s \in Seq(S), NEW t \in Seq(S), NEW o
    PROVE  Occurs(s \o t, o) = Occurs(s, o) + Occurs(t, o)
<1> DEFINE A == {i \in DOMAIN s : s[i] = o}
           B == {i \in DOMAIN t : t[i] = o}
           C == {i + Len(s) : i \in B}
<1>1. A \in SUBSET Nat /\ B \in SUBSET Nat /\ Len(s) \in Nat
  BY SeqDomains
<1>2. IsFiniteSet(A) /\ IsFiniteSet(B)
  BY SeqDomains, FS_Subset
<1>3. IsFiniteSet(C) /\ Cardinality(C) = Cardinality(B)
  BY <1>1, <1>2, Shifted
<1>4. {i \in DOMAIN (s \o t) : (s \o t)[i] = o} = A \union C
  <2>1. ASSUME NEW i \in DOMAIN (s \o t), (s \o t)[i] = o, i > Len(s)
        PROVE  i \in C
    <3> i - Len(s) \in B /\ i = (i - Len(s)) + Len(s)
      BY <2>1, SeqDomains
    <3> QED
      OBVIOUS
  <2>2. ASSUME NEW i \in DOMAIN (s \o t), (s \o t)[i] = o, i <= Len(s)
        PROVE  i \in A
    BY <2>2, SeqDomains
  <2>3. ASSUME NEW i \in A \union C
        PROVE  i \in DOMAIN (s \o t) /\ (s \o t)[i] = o
    BY SeqDomains
  <2> QED
    BY <2>1, <2>2, <2>3, SeqDomains
<1>5. A \intersect C = {}
  BY SeqDomains
<1>6. Cardinality(A \union C) = Cardinality(A) + Cardinality(C)
  <2> Cardinality(A \intersect C) = 0
    BY <1>5, FS_EmptySet
  <2> Cardinality(A \union C) = Cardinality(A) + Cardinality(C) - Cardinality(A \intersect C)
    BY <1>2, <1>3, FS_Union
  <2> QED
    BY <1>2, <1>3, FS_CardinalityType
<1> QED
  BY <1>3, <1>4, <1>6 DEF Occurs

\* and so does what is appended.
LEMMA OccursAppend ==
    ASSUME NEW S, NEW s \in Seq(S), NEW v \in S, NEW o
    PROVE  Occurs(Append(s, v), o) = Occurs(s, o) + (IF v = o THEN 1 ELSE 0)
<1>1. Append(s, v) = s \o <<v>>
  BY AppendIsConcat
<1>2. Occurs(s \o <<v>>, o) = Occurs(s, o) + Occurs(<<v>>, o)
  <2> <<v>> \in Seq(S)
    OBVIOUS
  <2> QED
    BY OccursConcat
<1> QED
  BY <1>1, <1>2, OccursSingle

\* An element of a sequence replaced
LEMMA OccursEdit ==
    ASSUME NEW S, NEW s \in Seq(S), NEW k \in DOMAIN s, NEW v, NEW o
    PROVE  Occurs([s EXCEPT ![k] = v], o)
             = Occurs(s, o) - (IF s[k] = o THEN 1 ELSE 0) + (IF v = o THEN 1 ELSE 0)
<1> DEFINE A == {i \in DOMAIN s \ {k} : s[i] = o}
           t == [s EXCEPT ![k] = v]
<1>1. IsFiniteSet(A)
  BY SeqDomains, FS_Subset
<1>2. k \notin A /\ IsFiniteSet(A \union {k}) /\ Cardinality(A \union {k}) = Cardinality(A) + 1
  BY <1>1, FS_AddElement
<1>0. DOMAIN t = DOMAIN s /\ t[k] = v /\ \A i \in DOMAIN s \ {k} : t[i] = s[i]
  OBVIOUS
<1>3. {i \in DOMAIN s : s[i] = o} = IF s[k] = o THEN A \union {k} ELSE A
  OBVIOUS
<1> HIDE DEF t
<1>4. {i \in DOMAIN t : t[i] = o} = IF v = o THEN A \union {k} ELSE A
  BY <1>0
<1> HIDE DEF A
<1>5. Cardinality(A) \in Nat
  BY <1>1, FS_CardinalityType
<1>6. Occurs(s, o) = Cardinality(A) + (IF s[k] = o THEN 1 ELSE 0)
  <2>1. Occurs(s, o) = Cardinality(IF s[k] = o THEN A \union {k} ELSE A)
    BY <1>3 DEF Occurs
  <2> QED
    BY <1>2, <1>5, <2>1
<1>7. Occurs(t, o) = Cardinality(A) + (IF v = o THEN 1 ELSE 0)
  <2>1. Occurs(t, o) = Cardinality(IF v = o THEN A \union {k} ELSE A)
    BY <1>4 DEF Occurs
  <2> QED
    BY <1>2, <1>5, <2>1
<1> QED
  BY <1>5, <1>6, <1>7, SMT DEF t

-----------------------------------------------------------------------------
(* How often something is in a family of sequences *)

\* The places in a family where o is.
Places(family, o) ==
    UNION {{p} \X {i \in DOMAIN family[p] : family[p][i] = o} : p \in DOMAIN family}

\* A family that can be counted
FiniteFamily(family) ==
    /\ IsFiniteSet(DOMAIN family)
    /\ \A p \in DOMAIN family : IsFiniteSet(DOMAIN family[p])

\* t is s but for v at place i.
Put(s, t, i, v) ==
    i \in DOMAIN s /\ DOMAIN t = DOMAIN s /\ t[i] = v /\ \A j \in DOMAIN s \ {i} : t[j] = s[j]

\* A place that is written loses what it had and gains what it gets.
LEMMA OccursPut ==
    ASSUME NEW S, NEW s \in Seq(S), NEW t, NEW i, NEW v, Put(s, t, i, v), NEW o
    PROVE  Occurs(t, o) = Occurs(s, o) - (IF s[i] = o THEN 1 ELSE 0) + (IF v = o THEN 1 ELSE 0)
<1> USE DEF Put
<1> DEFINE e == [s EXCEPT ![i] = v]
<1>1. DOMAIN e = DOMAIN t /\ \A j \in DOMAIN s : e[j] = t[j]
  OBVIOUS
<1>2. Occurs(e, o) = Occurs(s, o) - (IF s[i] = o THEN 1 ELSE 0) + (IF v = o THEN 1 ELSE 0)
  BY OccursEdit
<1> HIDE DEF e
<1>3. {j \in DOMAIN e : e[j] = o} = {j \in DOMAIN t : t[j] = o}
  BY <1>1
<1>4. Occurs(e, o) = Occurs(t, o)
  BY <1>3, OccursSame
<1> QED
  BY <1>2, <1>4


\* A family has finitely many places with an object,
LEMMA PlacesFinite ==
    ASSUME NEW F, FiniteFamily(F), NEW o
    PROVE  IsFiniteSet(Places(F, o))
<1> DEFINE Row(p) == {p} \X {i \in DOMAIN F[p] : F[p][i] = o}
           Rows == {Row(p) : p \in DOMAIN F}
<1>1. \A p \in DOMAIN F : IsFiniteSet(Row(p))
  <2> TAKE p \in DOMAIN F
  <2>1. IsFiniteSet({i \in DOMAIN F[p] : F[p][i] = o})
    BY FS_Subset DEF FiniteFamily
  <2>2. IsFiniteSet({p})
    BY FS_Singleton
  <2> QED
    BY <2>1, <2>2, FS_Product
<1> HIDE DEF Row
<1>2. IsFiniteSet(Rows)
  <2> [p \in DOMAIN F |-> Row(p)] \in Surjection(DOMAIN F, Rows)
    BY DEF Surjection
  <2> QED
    BY FS_Surjection DEF FiniteFamily, ExistsSurjection
<1>3. IsFiniteSet(UNION Rows)
  BY <1>1, <1>2, FS_UNION
<1> QED
  BY <1>3 DEF Places, Row

\* so their number is a number.
LEMMA AmongNat ==
    ASSUME NEW F, FiniteFamily(F), NEW o
    PROVE  /\ Among(F, o) \in Nat
           /\ Among(F, o) = 0 <=> \A p \in DOMAIN F : \A i \in DOMAIN F[p] : F[p][i] # o
<1>1. IsFiniteSet(Places(F, o))
  BY PlacesFinite
<1>2. Among(F, o) = Cardinality(Places(F, o))
  BY DEF Among, Places
<1>3. Places(F, o) = {} <=> \A p \in DOMAIN F : \A i \in DOMAIN F[p] : F[p][i] # o
  <2>1. ASSUME NEW p \in DOMAIN F, NEW i \in DOMAIN F[p], F[p][i] = o
        PROVE  <<p, i>> \in Places(F, o)
    <3> <<p, i>> \in {p} \X {j \in DOMAIN F[p] : F[p][j] = o}
      BY <2>1
    <3> QED
      BY DEF Places
  <2>2. ASSUME NEW x \in Places(F, o)
        PROVE  \E p \in DOMAIN F : \E i \in DOMAIN F[p] : F[p][i] = o
    BY DEF Places
  <2> QED
    BY <2>1, <2>2
<1> QED
  BY <1>1, <1>2, <1>3, FS_CardinalityType, FS_EmptySet

\* The part of a family on D
Part(F, D) == [p \in D |-> F[p]]

\* A part of a family is one,
LEMMA PartFinite ==
    ASSUME NEW F, FiniteFamily(F), NEW D \in SUBSET DOMAIN F
    PROVE  FiniteFamily(Part(F, D))
BY FS_Subset DEF FiniteFamily, Part

\* and what is in a family is in one part or in the rest.
LEMMA AmongSplit ==
    ASSUME NEW F, FiniteFamily(F), NEW D \in SUBSET DOMAIN F, NEW o
    PROVE  Among(F, o) = Among(Part(F, D), o) + Among(Part(F, DOMAIN F \ D), o)
<1> DEFINE A == Places(Part(F, D), o)
           B == Places(Part(F, DOMAIN F \ D), o)
<1>1. IsFiniteSet(A) /\ IsFiniteSet(B)
  BY PartFinite, PlacesFinite
<1>2. Places(F, o) = A \union B
  <2>1. ASSUME NEW x \in Places(F, o)
        PROVE  x \in A \union B
    <3>1. PICK p \in DOMAIN F : x \in {p} \X {i \in DOMAIN F[p] : F[p][i] = o}
      BY DEF Places
    <3>2. CASE p \in D
      BY <3>1, <3>2 DEF Places, Part
    <3>3. CASE p \notin D
      BY <3>1, <3>3 DEF Places, Part
    <3> QED
      BY <3>2, <3>3
  <2>2. ASSUME NEW x \in A \union B
        PROVE  x \in Places(F, o)
    BY DEF Places, Part
  <2> QED
    BY <2>1, <2>2
<1>3. A \intersect B = {}
  BY DEF Places, Part
<1> HIDE DEF A, B
<1>4. Cardinality(A \union B) = Cardinality(A) + Cardinality(B)
  <2>1. Cardinality(A \intersect B) = 0
    BY <1>3, FS_EmptySet
  <2>2. Cardinality(A \union B) = Cardinality(A) + Cardinality(B) - Cardinality(A \intersect B)
    BY <1>1, FS_Union
  <2> QED
    BY <1>1, <2>1, <2>2, FS_CardinalityType
<1> QED
  BY <1>2, <1>4 DEF Among, Places, A, B

\* A part of one sequence.
LEMMA AmongSingle ==
    ASSUME NEW F, NEW p, IsFiniteSet(DOMAIN F[p]), NEW o
    PROVE  Among(Part(F, {p}), o) = Occurs(F[p], o)
<1> DEFINE A == {i \in DOMAIN F[p] : F[p][i] = o}
           B == {p} \X A
           f == [i \in A |-> <<p, i>>]
<1>1. Places(Part(F, {p}), o) = B
  BY DEF Places, Part
<1>2. IsFiniteSet(A)
  BY FS_Subset
<1>3. f \in Bijection(A, B)
  BY DEF Bijection, Injection, Surjection, IsInjective
<1>4. Cardinality(A) = Cardinality(B)
  BY <1>2, <1>3, FS_Bijection DEF ExistsBijection
<1> QED
  BY <1>1, <1>4 DEF Among, Places, Occurs

\* One member of a family replaced
LEMMA AmongEdit ==
    ASSUME NEW F, FiniteFamily(F), NEW G, FiniteFamily(G), NEW p \in DOMAIN F,
           DOMAIN G = DOMAIN F, \A q \in DOMAIN F \ {p} : G[q] = F[q], NEW o
    PROVE  Among(G, o) = Among(F, o) - Occurs(F[p], o) + Occurs(G[p], o)
<1>1. Part(F, DOMAIN F \ {p}) = Part(G, DOMAIN G \ {p})
  BY DEF Part
<1>2. Among(F, o) = Among(Part(F, {p}), o) + Among(Part(F, DOMAIN F \ {p}), o)
  BY AmongSplit
<1>3. Among(G, o) = Among(Part(G, {p}), o) + Among(Part(G, DOMAIN G \ {p}), o)
  BY AmongSplit
<1>4. Among(Part(F, {p}), o) = Occurs(F[p], o) /\ Among(Part(G, {p}), o) = Occurs(G[p], o)
  BY AmongSingle DEF FiniteFamily
<1>5. Occurs(F[p], o) \in Nat /\ Occurs(G[p], o) \in Nat
  BY OccursNat DEF FiniteFamily
<1>6. Among(Part(F, DOMAIN F \ {p}), o) \in Nat
  BY PartFinite, AmongNat
<1> QED
  BY <1>1, <1>2, <1>3, <1>4, <1>5, <1>6

\* One member more
LEMMA AmongMore ==
    ASSUME NEW F, FiniteFamily(F), NEW G, FiniteFamily(G), NEW p, p \notin DOMAIN F,
           DOMAIN G = DOMAIN F \union {p}, \A q \in DOMAIN F : G[q] = F[q], F = Part(F, DOMAIN F),
           NEW o
    PROVE  Among(G, o) = Among(F, o) + Occurs(G[p], o)
<1>1. Part(G, DOMAIN G \ {p}) = F
  <2> DOMAIN G \ {p} = DOMAIN F
    OBVIOUS
  <2> QED
    BY DEF Part
<1>2. Among(G, o) = Among(Part(G, {p}), o) + Among(Part(G, DOMAIN G \ {p}), o)
  BY AmongSplit
<1>3. Among(Part(G, {p}), o) = Occurs(G[p], o)
  BY AmongSingle DEF FiniteFamily
<1>4. Occurs(G[p], o) \in Nat /\ Among(F, o) \in Nat
  BY OccursNat, AmongNat DEF FiniteFamily
<1> QED
  BY <1>1, <1>2, <1>3, <1>4

\* A part has no more, and one that has all of o has all of it.
LEMMA AmongPart ==
    ASSUME NEW F, FiniteFamily(F), NEW D \in SUBSET DOMAIN F, NEW E \in SUBSET D, NEW o
    PROVE  /\ Among(Part(F, E), o) \in Nat
           /\ Among(Part(F, E), o) <= Among(Part(F, D), o)
           /\ Among(Part(F, D), o) <= Among(F, o)
<1>1. Part(Part(F, D), E) = Part(F, E)
  BY DEF Part
<1>2. DOMAIN Part(F, D) = D
  BY DEF Part
<1>3. FiniteFamily(Part(F, D)) /\ FiniteFamily(Part(Part(F, D), D \ E))
  BY <1>2, PartFinite
<1>4. Among(Part(F, D), o) = Among(Part(F, E), o) + Among(Part(Part(F, D), D \ E), o)
  BY <1>1, <1>2, <1>3, AmongSplit
<1>5. FiniteFamily(Part(F, E)) /\ FiniteFamily(Part(F, DOMAIN F \ D))
  BY PartFinite
<1>6. Among(F, o) = Among(Part(F, D), o) + Among(Part(F, DOMAIN F \ D), o)
  BY AmongSplit
<1> QED
  BY <1>3, <1>4, <1>5, <1>6, AmongNat

\* Two sequences one after the other, place by place
LEMMA Joined ==
    ASSUME NEW S, NEW a \in Seq(S), NEW b \in Seq(S)
    PROVE  /\ a \o b \in Seq(S)
           /\ Len(a \o b) = Len(a) + Len(b)
           /\ \A i \in 1 .. Len(a) : (a \o b)[i] = a[i]
           /\ \A i \in 1 .. Len(b) : (a \o b)[Len(a) + i] = b[i]
OBVIOUS

\* What stands before and behind place k, joined.
LEMMA JoinedAround ==
    ASSUME NEW S, NEW n \in Nat, NEW k \in 1 .. n, NEW a \in Seq(S), NEW b \in Seq(S), NEW c,
           Len(a) = k - 1, Len(b) = n - k,
           \A i \in 1 .. Len(a) : c[i] = a[i],
           \A i \in 1 .. Len(b) : c[Len(a) + i] = b[i]
    PROVE  \A i \in 1 .. n - 1 : c[i] = IF i < k THEN a[i] ELSE b[i + 1 - k]
<1> TAKE i \in 1 .. n - 1
<1>1. CASE i < k
  BY <1>1
<1>2. CASE ~(i < k)
  <2>1. i + 1 - k \in 1 .. Len(b) /\ Len(a) + (i + 1 - k) = i
    BY <1>2
  <2>2. c[Len(a) + (i + 1 - k)] = b[i + 1 - k]
    BY <2>1
  <2> QED
    BY <1>2, <2>1, <2>2
<1> QED
  BY <1>1, <1>2

\* An element of a sequence left out (RemoveAt), place by place
LEMMA Removed ==
    ASSUME NEW S, NEW s \in Seq(S), NEW k \in 1 .. Len(s)
    PROVE  LET t == SubSeq(s, 1, k - 1) \o SubSeq(s, k + 1, Len(s))
           IN /\ t \in Seq(S)
              /\ Len(t) = Len(s) - 1
              /\ \A i \in 1 .. Len(s) - 1 : t[i] = IF i < k THEN s[i] ELSE s[i + 1]
<1> DEFINE a == SubSeq(s, 1, k - 1)
           b == SubSeq(s, k + 1, Len(s))
           t == a \o b
<1>1. a \in Seq(S) /\ Len(a) = k - 1 /\ \A i \in 1 .. k - 1 : a[i] = s[i]
  OBVIOUS
<1>2. b \in Seq(S) /\ Len(b) = Len(s) - k /\ \A i \in 1 .. Len(s) - k : b[i] = s[k + i]
  OBVIOUS
<1> HIDE DEF a, b
<1>3. /\ t \in Seq(S) /\ Len(t) = Len(s) - 1
      /\ \A i \in 1 .. Len(s) - 1 : t[i] = IF i < k THEN a[i] ELSE b[i + 1 - k]
  <2>1. Len(s) \in Nat
    OBVIOUS
  <2>2. a \in Seq(S) /\ b \in Seq(S)
    BY <1>1, <1>2
  <2>3. /\ t \in Seq(S)
        /\ Len(t) = Len(a) + Len(b)
        /\ \A i \in 1 .. Len(a) : t[i] = a[i]
        /\ \A i \in 1 .. Len(b) : t[Len(a) + i] = b[i]
    BY <2>2, Joined
  <2> HIDE DEF t
  <2>4. \A i \in 1 .. Len(s) - 1 : t[i] = IF i < k THEN a[i] ELSE b[i + 1 - k]
    BY <1>1, <1>2, <2>1, <2>3, JoinedAround
  <2> QED
    BY <1>1, <1>2, <2>1, <2>3, <2>4
<1> HIDE DEF t
<1>4. \A i \in 1 .. Len(s) - 1 : t[i] = IF i < k THEN s[i] ELSE s[i + 1]
  <2> TAKE i \in 1 .. Len(s) - 1
  <2>1. CASE i < k
    BY <1>1, <1>3, <2>1
  <2>2. CASE ~(i < k)
    <3> i + 1 - k \in 1 .. Len(s) - k /\ k + (i + 1 - k) = i + 1
      BY <2>2
    <3> QED
      BY <1>2, <1>3, <2>2
  <2> QED
    BY <2>1, <2>2
<1> QED
  BY <1>3, <1>4 DEF t, a, b

\* t is s without its k-th element.
Lacks(s, k, t) ==
    /\ Len(t) = Len(s) - 1
    /\ \A i \in 1 .. Len(s) - 1 : t[i] = IF i < k THEN s[i] ELSE s[i + 1]

\* A place that is taken out.
LEMMA OccursRemoved ==
    ASSUME NEW S, NEW s \in Seq(S), NEW k \in 1 .. Len(s), NEW t \in Seq(S), Lacks(s, k, t), NEW o
    PROVE  Occurs(t, o) = Occurs(s, o) - (IF s[k] = o THEN 1 ELSE 0)
<1> DEFINE A == {i \in DOMAIN s \ {k} : s[i] = o}
           B == {i \in DOMAIN t : t[i] = o}
           f == [i \in B |-> IF i < k THEN i ELSE i + 1]
<1>1. Len(s) \in Nat /\ DOMAIN s = 1 .. Len(s) /\ DOMAIN t = 1 .. Len(s) - 1 /\ k \in Nat
      /\ \A i \in 1 .. Len(s) - 1 : t[i] = IF i < k THEN s[i] ELSE s[i + 1]
  BY SeqDomains DEF Lacks
<1>2. IsFiniteSet(A) /\ IsFiniteSet(B)
  BY SeqDomains, FS_Subset
<1>3. f \in Bijection(B, A)
  <2>1. \A i \in B : f[i] \in A
    BY <1>1
  <2>2. \A i, j \in B : f[i] = f[j] => i = j
    BY <1>1
  <2>3. \A j \in A : \E i \in B : f[i] = j
    <3> TAKE j \in A
    <3>1. CASE j < k
      <4> j \in B /\ f[j] = j
        BY <1>1, <3>1
      <4> QED
        OBVIOUS
    <3>2. CASE j > k
      <4> j - 1 \in B /\ f[j - 1] = j
        BY <1>1, <3>2
      <4> QED
        OBVIOUS
    <3> j < k \/ j > k
      BY <1>1
    <3> QED
      BY <3>1, <3>2
  <2> HIDE DEF A, B
  <2> QED
    BY <2>1, <2>2, <2>3 DEF Bijection, Injection, Surjection, IsInjective
<1>4. Cardinality(B) = Cardinality(A)
  BY <1>2, <1>3, FS_Bijection DEF ExistsBijection
<1>5. Cardinality(A \union {k}) = Cardinality(A) + 1 /\ Cardinality(A) \in Nat
  <2>1. k \notin A
    OBVIOUS
  <2> HIDE DEF A
  <2>2. IsFiniteSet(A)
    BY <1>2
  <2>3. Cardinality(A \union {k}) = IF k \in A THEN Cardinality(A) ELSE Cardinality(A) + 1
    BY <2>2, FS_AddElement
  <2> QED
    BY <2>1, <2>2, <2>3, FS_CardinalityType
<1>6. {i \in DOMAIN s : s[i] = o} = IF s[k] = o THEN A \union {k} ELSE A
  BY <1>1
<1>7. Occurs(s, o) = Cardinality(IF s[k] = o THEN A \union {k} ELSE A) /\ Occurs(t, o) = Cardinality(B)
  BY <1>6 DEF Occurs
<1> HIDE DEF A, B
<1>8. CASE s[k] = o
  <2> Occurs(s, o) = Occurs(t, o) + 1 /\ Occurs(t, o) \in Nat
    BY <1>4, <1>5, <1>7, <1>8, Zenon
  <2> QED
    BY <1>8
<1>9. CASE s[k] # o
  <2> Occurs(s, o) = Occurs(t, o) /\ Occurs(t, o) \in Nat
    BY <1>4, <1>5, <1>7, <1>9, Zenon
  <2> QED
    BY <1>9
<1> QED
  BY <1>8, <1>9

-----------------------------------------------------------------------------
(* What is deleted *)

\* A heap whose references can be counted
Countable(h) ==
    /\ IsFiniteSet(DOMAIN h)
    /\ Const \notin DOMAIN h
    /\ \A o \in DOMAIN h : {"rc", "kind", "refs"} \subseteq DOMAIN h[o] /\ h[o].rc \in Int
                           /\ IsFiniteSet(DOMAIN h[o].refs)

\* The references of a heap are a finite family.
LEMMA RefsFinite ==
    ASSUME NEW h, Countable(h)
    PROVE  FiniteFamily(Refs(h)) /\ DOMAIN Refs(h) = DOMAIN h
BY DEF Countable, FiniteFamily, Refs

\* More deletions give up more.
LEMMA GivenUpGrows ==
    ASSUME NEW h, Countable(h), NEW os, IsFiniteSet(DOMAIN os),
           NEW D \in SUBSET DOMAIN h, NEW E \in SUBSET D, NEW o
    PROVE  /\ GivenUp(h, os, E, o) \in Nat /\ GivenUp(h, os, D, o) \in Nat
           /\ GivenUp(h, os, E, o) <= GivenUp(h, os, D, o)
           /\ GivenUp(h, os, D, o) <= Occurs(os, o) + Among(Refs(h), o)
<1> DEFINE F == Refs(h)
<1>1. FiniteFamily(F) /\ DOMAIN F = DOMAIN h
  BY RefsFinite
<1>2. Part(F, D) = [p \in D |-> h[p].refs] /\ Part(F, E) = [p \in E |-> h[p].refs]
  BY DEF Part, Refs
<1> HIDE DEF F
<1>3. /\ Among(Part(F, E), o) \in Nat
      /\ Among(Part(F, E), o) <= Among(Part(F, D), o)
      /\ Among(Part(F, D), o) <= Among(F, o)
  BY <1>1, AmongPart
<1>4. Among(Part(F, D), o) \in Nat /\ Among(F, o) \in Nat
  BY <1>1, PartFinite, AmongNat
<1>5. Occurs(os, o) \in Nat
  BY OccursNat
<1> QED
  BY <1>2, <1>3, <1>4, <1>5 DEF GivenUp, F

\* The more is deleted, the more is given up, and the more is deleted.
LEMMA DyingGrows ==
    ASSUME NEW h, Countable(h), NEW os, IsFiniteSet(DOMAIN os),
           NEW D \in SUBSET DOMAIN h, NEW E \in SUBSET D
    PROVE  Dying(h, os, E) \subseteq Dying(h, os, D)
<1> SUFFICES ASSUME NEW o \in Dying(h, os, E)
             PROVE  o \in Dying(h, os, D)
  OBVIOUS
<1>1. /\ GivenUp(h, os, E, o) \in Nat /\ GivenUp(h, os, D, o) \in Nat
      /\ GivenUp(h, os, E, o) <= GivenUp(h, os, D, o)
  BY GivenUpGrows
<1> QED
  BY <1>1 DEF Dying, Countable

\* A set of deletions to which nothing is added
Closed(h, os, D) == D \in SUBSET DOMAIN h /\ Dying(h, os, D) \subseteq D

\* The objects that are deleted are the smallest such set.
THEOREM DeletedIsLeast ==
    ASSUME NEW h, Countable(h), NEW os, IsFiniteSet(DOMAIN os)
    PROVE  /\ Deleted(h, os) \in SUBSET DOMAIN h
           /\ Dying(h, os, Deleted(h, os)) = Deleted(h, os)
           /\ \A E : Closed(h, os, E) => Deleted(h, os) \subseteq E
<1> DEFINE S == SUBSET DOMAIN h
           Add(D) == D \union Dying(h, os, D)
           Least(D) == {o \in DOMAIN h : \A E : Closed(h, os, E) /\ D \subseteq E => o \in E}
           Solves(f) == f = [D \in S |-> IF Add(D) = D THEN D ELSE f[Add(D)]]
<1>1. \A D \in S : Add(D) \in S
  BY DEF Dying
<1>2. ASSUME NEW D \in S
      PROVE  Least(D) = IF Add(D) = D THEN D ELSE Least(Add(D))
  <2>1. CASE Add(D) = D
    <3> Closed(h, os, D)
      BY <2>1 DEF Closed
    <3> QED
      BY <2>1
  <2>2. ASSUME NEW E, Closed(h, os, E), D \subseteq E
        PROVE  Add(D) \subseteq E
    BY <2>2, DyingGrows DEF Closed
  <2>3. CASE Add(D) # D
    BY <2>2, <2>3
  <2> QED
    BY <2>1, <2>3
<1>3. \E f : Solves(f)
  <2> HIDE DEF Least, Add
  <2> DEFINE g == [D \in S |-> Least(D)]
  <2>1. ASSUME NEW D \in S
        PROVE  g[D] = IF Add(D) = D THEN D ELSE g[Add(D)]
    BY <1>1, <1>2
  <2>2. g = [D \in S |-> IF Add(D) = D THEN D ELSE g[Add(D)]]
    BY <2>1
  <2> QED
    BY <2>2
<1> DEFINE f == CHOOSE f : Solves(f)
<1>4. Solves(f)
  BY <1>3
<1>5. Deleted(h, os) = f[{}]
  BY DEF Deleted
<1> HIDE DEF f
<1>6. \A D \in S : f[D] = IF Add(D) = D THEN D ELSE f[Add(D)]
  <2> HIDE DEF Add
  <2> QED
    BY <1>4
<1>7. \A D \in S : f[D] = Least(D)
  <2> DEFINE Bad == {D \in S : f[D] # Least(D)}
             Rest == {DOMAIN h \ D : D \in Bad}
  <2> HIDE DEF Least, Add
  <2> SUFFICES ASSUME Bad # {}
               PROVE  FALSE
    OBVIOUS
  <2>1. Rest \subseteq FiniteSubsetsOf(DOMAIN h) /\ Rest # {}
    <3>1. Rest \subseteq SUBSET DOMAIN h
      OBVIOUS
    <3>2. FiniteSubsetsOf(DOMAIN h) = SUBSET DOMAIN h
      BY FS_FiniteSubsetsOfFinite DEF Countable
    <3>3. Rest # {}
      OBVIOUS
    <3> QED
      BY <3>1, <3>2, <3>3
  <2>2. \E x \in Rest : \A y \in Rest : ~(<<y, x>> \in StrictSubsetOrdering(DOMAIN h))
    <3> HIDE DEF Rest
    <3> QED
      BY <2>1, FS_StrictSubsetOrderingWellFounded, WFMin
  <2>3. PICK D \in Bad : \A E \in Bad :
            ~(<<DOMAIN h \ E, DOMAIN h \ D>> \in StrictSubsetOrdering(DOMAIN h))
    BY <2>2
  <2>4. CASE Add(D) = D
    BY <1>2, <1>6, <2>4
  <2>5. CASE Add(D) # D
    <3>1. Add(D) \in S /\ D \subseteq Add(D)
      BY <1>1 DEF Add
    <3>2. <<DOMAIN h \ Add(D), DOMAIN h \ D>> \in StrictSubsetOrdering(DOMAIN h)
      BY <2>5, <3>1 DEF StrictSubsetOrdering
    <3>3. f[Add(D)] = Least(Add(D))
      BY <2>3, <3>1, <3>2
    <3> QED
      BY <1>2, <1>6, <2>5, <3>3
  <2> QED
    BY <2>4, <2>5
<1> DEFINE L == Least({})
<1>8. Deleted(h, os) = L
  BY <1>5, <1>7
<1>9. L \in S /\ \A E : Closed(h, os, E) => L \subseteq E
  OBVIOUS
<1> HIDE DEF L
<1>10. Dying(h, os, L) \subseteq L
  <2> SUFFICES ASSUME NEW o \in Dying(h, os, L), NEW E, Closed(h, os, E)
               PROVE  o \in E
    BY DEF L, Dying
  <2> Dying(h, os, L) \subseteq Dying(h, os, E)
    BY <1>9, DyingGrows DEF Closed
  <2> QED
    BY DEF Closed
<1>11. L \subseteq Dying(h, os, L)
  <2> Dying(h, os, L) \in S
    BY DEF Dying
  <2> Closed(h, os, Dying(h, os, L))
    BY <1>9, <1>10, DyingGrows DEF Closed
  <2> QED
    BY <1>9
<1> QED
  BY <1>8, <1>9, <1>10, <1>11

-----------------------------------------------------------------------------
(* Counts that agree with the references there are                            *)

\* S is how many references each object has from elsewhere.
Counts(h, S) ==
    \A o \in DOMAIN h :
        IF Dead(h, o) THEN S[o] = 0 /\ Among(Refs(h), o) = 0
        ELSE h[o].rc = S[o] + Among(Refs(h), o)

\* References to the elements of os more
More(S, os) == [o \in DOMAIN S |-> S[o] + Occurs(os, o)]

\* The references to an object in a heap are a number.
LEMMA AmongRefsNat ==
    ASSUME NEW h, Countable(h), NEW o
    PROVE  /\ Among(Refs(h), o) \in Nat
           /\ Among(Refs(h), o) = 0 <=> \A p \in DOMAIN h : \A i \in DOMAIN h[p].refs : h[p].refs[i] # o
<1>1. FiniteFamily(Refs(h)) /\ DOMAIN Refs(h) = DOMAIN h
  BY RefsFinite
<1>2. \A p \in DOMAIN h : Refs(h)[p] = h[p].refs
  BY DEF Refs
<1> QED
  BY <1>1, <1>2, AmongNat

\* IncAll changes counts, and nothing else.
LEMMA IncAllFields ==
    ASSUME NEW h, Countable(h), NEW os, IsFiniteSet(DOMAIN os)
    PROVE  /\ DOMAIN IncAll(h, os) = DOMAIN h
           /\ \A o \in DOMAIN h : /\ IncAll(h, os)[o].rc = h[o].rc + Occurs(os, o)
                                  /\ IncAll(h, os)[o].kind = h[o].kind
                                  /\ IncAll(h, os)[o].refs = h[o].refs
           /\ Refs(IncAll(h, os)) = Refs(h)
           /\ Countable(IncAll(h, os))
<1>1. DOMAIN IncAll(h, os) = DOMAIN h
  BY DEF IncAll
<1>2. ASSUME NEW o \in DOMAIN h
      PROVE  /\ IncAll(h, os)[o] = [h[o] EXCEPT !.rc = h[o].rc + Occurs(os, o)]
             /\ IncAll(h, os)[o].rc = h[o].rc + Occurs(os, o)
             /\ IncAll(h, os)[o].kind = h[o].kind
             /\ IncAll(h, os)[o].refs = h[o].refs
             /\ DOMAIN IncAll(h, os)[o] = DOMAIN h[o]
  <2>1. IncAll(h, os)[o] = [h[o] EXCEPT !.rc = h[o].rc + Occurs(os, o)]
    BY DEF IncAll
  <2>2. {"rc", "kind", "refs"} \subseteq DOMAIN h[o]
    BY DEF Countable
  <2> QED
    BY <2>1, <2>2
<1>3. Refs(IncAll(h, os)) = Refs(h)
  BY <1>1, <1>2 DEF Refs
<1>4. \A o : Occurs(os, o) \in Int
  BY OccursNat
<1>5. Countable(IncAll(h, os))
  BY <1>1, <1>2, <1>4 DEF Countable
<1> QED
  BY <1>1, <1>2, <1>3, <1>5

\* eth_ref of everything in os: exact for whoever then holds os too.
LEMMA IncAllCounts ==
    ASSUME NEW h, Countable(h), NEW os, IsFiniteSet(DOMAIN os),
           NEW S \in [DOMAIN h -> Nat], Counts(h, S),
           \A o \in DOMAIN h : Dead(h, o) => Occurs(os, o) = 0
    PROVE  More(S, os) \in [DOMAIN h -> Nat] /\ Counts(IncAll(h, os), More(S, os))
<1>1. \A o : Occurs(os, o) \in Nat
  BY OccursNat
<1>2. \A o : Among(Refs(h), o) \in Nat
  BY AmongRefsNat
<1>3. \A o \in DOMAIN h : /\ More(S, os)[o] = S[o] + Occurs(os, o) /\ More(S, os)[o] \in Nat
                          /\ Dead(IncAll(h, os), o) = Dead(h, o)
  BY <1>1, IncAllFields DEF More, Dead
<1>4. ASSUME NEW o \in DOMAIN h
      PROVE  IF Dead(IncAll(h, os), o)
             THEN More(S, os)[o] = 0 /\ Among(Refs(IncAll(h, os)), o) = 0
             ELSE IncAll(h, os)[o].rc = More(S, os)[o] + Among(Refs(IncAll(h, os)), o)
  <2>1. IncAll(h, os)[o].rc = h[o].rc + Occurs(os, o) /\ Refs(IncAll(h, os)) = Refs(h)
    BY IncAllFields
  <2>2. IF Dead(h, o) THEN S[o] = 0 /\ Among(Refs(h), o) = 0 ELSE h[o].rc = S[o] + Among(Refs(h), o)
    BY DEF Counts
  <2>3. S[o] \in Nat /\ Occurs(os, o) \in Nat /\ Among(Refs(h), o) \in Nat
    BY <1>1, <1>2
  <2>4. CASE Dead(h, o)
    <3>1. Occurs(os, o) = 0
      BY <2>4
    <3> QED
      BY <1>3, <2>1, <2>2, <2>4, <3>1
  <2>5. CASE ~Dead(h, o)
    <3>1. /\ h[o].rc = S[o] + Among(Refs(h), o)
          /\ More(S, os)[o] = S[o] + Occurs(os, o)
          /\ ~Dead(IncAll(h, os), o)
      BY <1>3, <2>2, <2>5
    <3> QED
      BY <2>1, <2>3, <3>1
  <2> QED
    BY <2>4, <2>5
<1> QED
  BY <1>3, <1>4, IncAllFields DEF Counts, More

\* What an object refers to replaced
HeapEdited(h, g, p, S, T) ==
    /\ Countable(h) /\ Countable(g) /\ DOMAIN g = DOMAIN h /\ p \in DOMAIN h
    /\ \A o \in DOMAIN h : g[o].rc = h[o].rc /\ g[o].kind = h[o].kind
    /\ \A o \in DOMAIN h \ {p} : g[o].refs = h[o].refs
    /\ S \in [DOMAIN h -> Nat] /\ Counts(h, S) /\ T \in [DOMAIN h -> Nat]
    /\ \A o \in DOMAIN h : /\ T[o] + Occurs(g[p].refs, o) = S[o] + Occurs(h[p].refs, o)
                           /\ Dead(h, o) => Occurs(g[p].refs, o) = 0

\* An object that refers to something else, with the references moved to or
\* from outside.
LEMMA EditCounts ==
    ASSUME NEW h, NEW g, NEW p, NEW S, NEW T, HeapEdited(h, g, p, S, T)
    PROVE  Counts(g, T)
<1> USE DEF HeapEdited
<1> DEFINE F == Refs(h)
           G == Refs(g)
<1>1. /\ FiniteFamily(F) /\ FiniteFamily(G) /\ DOMAIN F = DOMAIN h /\ DOMAIN G = DOMAIN F
      /\ \A q \in DOMAIN F \ {p} : G[q] = F[q]
      /\ F[p] = h[p].refs /\ G[p] = g[p].refs
  BY RefsFinite DEF Refs
<1> HIDE DEF F, G
<1>2. ASSUME NEW o \in DOMAIN h
      PROVE  IF Dead(g, o) THEN T[o] = 0 /\ Among(G, o) = 0 ELSE g[o].rc = T[o] + Among(G, o)
  <2>1. Among(G, o) = Among(F, o) - Occurs(h[p].refs, o) + Occurs(g[p].refs, o)
    BY <1>1, AmongEdit
  <2>2. Among(F, o) \in Nat /\ Among(G, o) \in Nat
    BY <1>1, AmongNat
  <2>3. Occurs(h[p].refs, o) \in Nat /\ Occurs(g[p].refs, o) \in Nat
    BY OccursNat DEF Countable
  <2>4. IF Dead(h, o) THEN S[o] = 0 /\ Among(F, o) = 0 ELSE h[o].rc = S[o] + Among(F, o)
    BY DEF Counts, F
  <2>5. Dead(g, o) = Dead(h, o) /\ g[o].rc = h[o].rc
    BY DEF Dead
  <2>6. T[o] + Occurs(g[p].refs, o) = S[o] + Occurs(h[p].refs, o) /\ S[o] \in Nat /\ T[o] \in Nat
    OBVIOUS
  <2>7. CASE Dead(h, o)
    <3>1. Occurs(g[p].refs, o) = 0
      BY <2>7
    <3>2. Dead(g, o) /\ S[o] = 0 /\ Among(F, o) = 0
      BY <2>4, <2>5, <2>7
    <3>3. T[o] = 0 /\ Among(G, o) = 0
      BY <2>1, <2>2, <2>3, <2>6, <3>1, <3>2
    <3> QED
      BY <3>2, <3>3
  <2>8. CASE ~Dead(h, o)
    <3>1. ~Dead(g, o) /\ g[o].rc = S[o] + Among(F, o)
      BY <2>4, <2>5, <2>8
    <3>2. g[o].rc = T[o] + Among(G, o)
      BY <2>1, <2>2, <2>3, <2>6, <3>1
    <3> QED
      BY <3>1, <3>2
  <2> QED
    BY <2>7, <2>8
<1> QED
  BY <1>2 DEF Counts, G

\* A new object
HeapAppended(h, g, p, S, T) ==
    /\ Countable(h) /\ Countable(g) /\ p \notin DOMAIN h /\ p # Const
    /\ DOMAIN g = DOMAIN h \union {p} /\ \A o \in DOMAIN h : g[o] = h[o]
    /\ g[p].kind # "freed" /\ \A o \in DOMAIN g : Occurs(g[o].refs, p) = 0
    /\ S \in [DOMAIN h -> Nat] /\ Counts(h, S) /\ T \in [DOMAIN g -> Nat] /\ T[p] = g[p].rc
    /\ \A o \in DOMAIN h : /\ T[o] + Occurs(g[p].refs, o) = S[o]
                           /\ Dead(h, o) => Occurs(g[p].refs, o) = 0

\* A new object.
LEMMA AppendCounts ==
    ASSUME NEW h, NEW g, NEW p, NEW S, NEW T, HeapAppended(h, g, p, S, T)
    PROVE  Counts(g, T)
<1> USE DEF HeapAppended
<1> DEFINE F == Refs(h)
           G == Refs(g)
<1>1. /\ FiniteFamily(F) /\ FiniteFamily(G) /\ DOMAIN F = DOMAIN h /\ DOMAIN G = DOMAIN F \union {p}
      /\ \A q \in DOMAIN F : G[q] = F[q]
      /\ F = Part(F, DOMAIN F) /\ G[p] = g[p].refs /\ p \notin DOMAIN F
  <2>1. FiniteFamily(F) /\ FiniteFamily(G) /\ DOMAIN F = DOMAIN h /\ DOMAIN G = DOMAIN g
    BY RefsFinite
  <2>2. F = Part(F, DOMAIN F)
    BY DEF Part, Refs
  <2>3. \A q \in DOMAIN h : G[q] = F[q]
    BY DEF Refs
  <2>4. G[p] = g[p].refs
    BY DEF Refs
  <2> QED
    BY <2>1, <2>2, <2>3, <2>4
<1>2. \A o \in DOMAIN g : Occurs(g[o].refs, p) = 0
  OBVIOUS
<1>3. ASSUME NEW o \in DOMAIN h
      PROVE  IF Dead(g, o) THEN T[o] = 0 /\ Among(G, o) = 0 ELSE g[o].rc = T[o] + Among(G, o)
  <2>1. Among(G, o) = Among(F, o) + Occurs(g[p].refs, o)
    <3> HIDE DEF F, G
    <3>1. Among(G, o) = Among(F, o) + Occurs(G[p], o)
      BY <1>1, AmongMore
    <3> QED
      BY <1>1, <3>1
  <2>2. Among(F, o) \in Nat
    BY AmongRefsNat
  <2>3. Occurs(g[p].refs, o) \in Nat
    BY OccursNat DEF Countable
  <2>4. IF Dead(h, o) THEN S[o] = 0 /\ Among(F, o) = 0 ELSE h[o].rc = S[o] + Among(F, o)
    BY DEF Counts, F
  <2>5. Dead(g, o) = Dead(h, o) /\ g[o].rc = h[o].rc
    BY DEF Dead
  <2>6. T[o] + Occurs(g[p].refs, o) = S[o] /\ S[o] \in Nat /\ T[o] \in Nat
    OBVIOUS
  <2> HIDE DEF F, G
  <2>7. CASE Dead(h, o)
    <3>1. Occurs(g[p].refs, o) = 0
      BY <2>7
    <3> QED
      BY <2>1, <2>2, <2>4, <2>5, <2>6, <2>7, <3>1
  <2>8. CASE ~Dead(h, o)
    <3>1. ~Dead(g, o) /\ g[o].rc = S[o] + Among(F, o)
      BY <2>4, <2>5, <2>8
    <3>2. g[o].rc = T[o] + Among(G, o)
      BY <2>1, <2>2, <2>3, <2>6, <3>1
    <3> QED
      BY <3>1, <3>2
  <2> QED
    BY <2>7, <2>8
<1>4. ~Dead(g, p) /\ g[p].rc = T[p] + Among(G, p)
  <2>1. \A q \in DOMAIN g : \A i \in DOMAIN g[q].refs : g[q].refs[i] # p
    BY OccursNat DEF Countable
  <2>2. Among(G, p) = 0
    BY <2>1, AmongRefsNat
  <2>3. T[p] \in Nat
    OBVIOUS
  <2> QED
    BY <2>2, <2>3 DEF Dead
<1> QED
  BY <1>3, <1>4 DEF Counts

-----------------------------------------------------------------------------
(* What a release leaves *)

\* Release object by object.
LEMMA ReleaseFields ==
    ASSUME NEW h, Countable(h), NEW os, IsFiniteSet(DOMAIN os), NEW D, D = Deleted(h, os)
    PROVE  /\ DOMAIN Release(h, os) = DOMAIN h
           /\ \A o \in DOMAIN h : {"rc", "kind", "refs"} \subseteq DOMAIN Release(h, os)[o]
           /\ \A o \in D : /\ Release(h, os)[o].kind = "freed"
                           /\ Release(h, os)[o].refs = <<>> /\ Release(h, os)[o].rc = 0
           /\ \A o \in DOMAIN h \ D :
                /\ Release(h, os)[o].kind = h[o].kind
                /\ Release(h, os)[o].refs = h[o].refs
                /\ Release(h, os)[o].rc
                     = IF Dead(h, o) THEN h[o].rc ELSE h[o].rc - GivenUp(h, os, D, o)
           /\ Countable(Release(h, os))
<1>1. DOMAIN Release(h, os) = DOMAIN h
  BY DEF Release
<1>2. \A o \in DOMAIN h : {"rc", "kind", "refs"} \subseteq DOMAIN h[o] /\ h[o].rc \in Int
                          /\ IsFiniteSet(DOMAIN h[o].refs)
  BY DEF Countable
<1>3. \A o \in DOMAIN h : Release(h, os)[o] =
            IF o \in D THEN [h[o] EXCEPT !.rc = 0, !.kind = "freed", !.refs = <<>>]
            ELSE IF Dead(h, o) THEN h[o]
            ELSE [h[o] EXCEPT !.rc = @ - GivenUp(h, os, D, o)]
  BY DEF Release
<1>4. D \in SUBSET DOMAIN h
  BY DeletedIsLeast
<1>5. \A o \in D : /\ Release(h, os)[o].kind = "freed" /\ {"rc", "kind", "refs"} \subseteq DOMAIN Release(h, os)[o]
                   /\ Release(h, os)[o].refs = <<>> /\ Release(h, os)[o].rc = 0
  BY <1>2, <1>3, <1>4
<1>6. \A o \in DOMAIN h \ D :
                /\ {"rc", "kind", "refs"} \subseteq DOMAIN Release(h, os)[o]
                /\ Release(h, os)[o].kind = h[o].kind
                /\ Release(h, os)[o].refs = h[o].refs
                /\ Release(h, os)[o].rc
                     = IF Dead(h, o) THEN h[o].rc ELSE h[o].rc - GivenUp(h, os, D, o)
  BY <1>2, <1>3
<1>7. \A o \in DOMAIN h : GivenUp(h, os, D, o) \in Int
  BY <1>4, GivenUpGrows
<1>8. IsFiniteSet(DOMAIN <<>>)
  BY FS_EmptySet
<1>9. \A o \in DOMAIN h : {"rc", "kind", "refs"} \subseteq DOMAIN Release(h, os)[o]
                    /\ Release(h, os)[o].rc \in Int
                    /\ IsFiniteSet(DOMAIN Release(h, os)[o].refs)
  <2> TAKE o \in DOMAIN h
  <2>1. CASE o \in D
    BY <1>5, <1>8, <2>1
  <2>2. CASE o \notin D
    BY <1>2, <1>6, <1>7, <2>2
  <2> QED
    BY <2>1, <2>2
<1>10. Countable(Release(h, os))
  BY <1>1, <1>9 DEF Countable
<1> QED
  BY <1>1, <1>5, <1>6, <1>9, <1>10

\* What is deleted loses all its references, and what is not keeps one if it
\* had one.
THEOREM ReleaseCounts ==
    ASSUME NEW h, Countable(h), NEW os, IsFiniteSet(DOMAIN os),
           NEW S \in [DOMAIN h -> Nat], Counts(h, More(S, os))
    PROVE  /\ Counts(Release(h, os), S)
           /\ \A o \in DOMAIN h : Dead(h, o) => Dead(Release(h, os), o)
           /\ \A o \in DOMAIN h : ~Dead(Release(h, os), o) /\ h[o].rc > 0 => Release(h, os)[o].rc > 0
<1> DEFINE D == Deleted(h, os)
           g == Release(h, os)
           F == Refs(h)
           G == Refs(g)
           C == DOMAIN h \ D
<1>1. D \in SUBSET DOMAIN h /\ D = Dying(h, os, D)
  BY DeletedIsLeast
<1>2. FiniteFamily(F) /\ FiniteFamily(G) /\ DOMAIN F = DOMAIN h /\ DOMAIN G = DOMAIN h /\ Countable(g)
  BY RefsFinite, ReleaseFields
<1>3. Part(F, C) = Part(G, C)
  <2> \A o \in C : F[o] = G[o]
    BY ReleaseFields DEF Refs
  <2> QED
    BY DEF Part
<1>4. ASSUME NEW o \in DOMAIN h
      PROVE  Among(Part(G, D), o) = 0
  <2>1. FiniteFamily(Part(G, D)) /\ DOMAIN Part(G, D) = D
    BY <1>1, <1>2, PartFinite DEF Part
  <2>2. \A p \in D : Part(G, D)[p] = <<>>
    BY <1>1, ReleaseFields DEF Part, Refs
  <2> HIDE DEF D, G
  <2>3. \A p \in D : \A i \in DOMAIN Part(G, D)[p] : Part(G, D)[p][i] # o
    BY <2>2
  <2> QED
    BY <2>1, <2>3, AmongNat
<1>5. Part(F, D) = [p \in D |-> h[p].refs]
  BY <1>1 DEF Part, Refs
<1> HIDE DEF D, g, F, G
<1>6. ASSUME NEW o \in DOMAIN h
      PROVE  /\ Among(F, o) = Among(Part(F, D), o) + Among(Part(F, C), o)
             /\ Among(G, o) = Among(Part(F, C), o)
             /\ Among(Part(F, D), o) \in Nat /\ Among(Part(F, C), o) \in Nat
             /\ GivenUp(h, os, D, o) = Occurs(os, o) + Among(Part(F, D), o)
             /\ Occurs(os, o) \in Nat
  <2>1. Among(F, o) = Among(Part(F, D), o) + Among(Part(F, C), o)
    BY <1>1, <1>2, AmongSplit
  <2>2. Among(G, o) = Among(Part(G, D), o) + Among(Part(G, C), o)
    BY <1>1, <1>2, AmongSplit
  <2>3. Among(Part(F, D), o) \in Nat /\ Among(Part(F, C), o) \in Nat
    BY <1>1, <1>2, PartFinite, AmongNat
  <2>4. GivenUp(h, os, D, o) = Occurs(os, o) + Among(Part(F, D), o)
    BY <1>5 DEF GivenUp
  <2>5. Occurs(os, o) \in Nat
    BY OccursNat
  <2>6. Among(Part(G, C), o) = Among(Part(F, C), o) /\ Among(Part(G, D), o) = 0
    BY <1>3, <1>4
  <2> QED
    BY <2>1, <2>2, <2>3, <2>4, <2>5, <2>6
<1>7. ASSUME NEW o \in DOMAIN h
      PROVE  /\ IF Dead(g, o) THEN S[o] = 0 /\ Among(G, o) = 0 ELSE g[o].rc = S[o] + Among(G, o)
             /\ Dead(h, o) => Dead(g, o)
             /\ ~Dead(g, o) /\ h[o].rc > 0 => g[o].rc > 0
  <2>1. IF Dead(h, o) THEN S[o] + Occurs(os, o) = 0 /\ Among(F, o) = 0
        ELSE h[o].rc = (S[o] + Occurs(os, o)) + Among(F, o)
    BY DEF Counts, More, F
  <2>2. S[o] \in Nat /\ o # Const
    BY DEF Countable
  <2>3. CASE o \in D
    <3>1. Dead(g, o)
      BY <2>2, <2>3, ReleaseFields DEF Dead, D, g
    <3>2. ~Dead(h, o) /\ h[o].rc <= GivenUp(h, os, D, o)
      <4>1. o \in Dying(h, os, D)
        BY <1>1, <2>3, Zenon
      <4>2. GivenUp(h, os, D, o) \in Nat /\ h[o].rc \in Int
        BY <1>6 DEF Countable
      <4> QED
        BY <4>1, <4>2 DEF Dying
    <3>3. h[o].rc = (S[o] + Occurs(os, o)) + Among(F, o)
      BY <2>1, <3>2
    <3>4. S[o] = 0 /\ Among(G, o) = 0
      BY <1>6, <2>2, <3>2, <3>3
    <3> QED
      BY <3>1, <3>2, <3>4
  <2>4. CASE o \notin D /\ Dead(h, o)
    <3>1. Dead(g, o)
      BY <2>4, ReleaseFields DEF Dead, D, g
    <3> QED
      BY <1>6, <2>1, <2>2, <2>4, <3>1
  <2>5. CASE o \notin D /\ ~Dead(h, o)
    <3>1. ~Dead(g, o) /\ g[o].rc = h[o].rc - GivenUp(h, os, D, o)
      BY <2>5, ReleaseFields DEF Dead, D, g
    <3>2. h[o].rc = (S[o] + Occurs(os, o)) + Among(F, o)
      BY <2>1, <2>5
    <3>3. g[o].rc = S[o] + Among(G, o)
      BY <1>6, <2>2, <3>1, <3>2
    <3>4. h[o].rc \notin 1 .. GivenUp(h, os, D, o)
      BY <1>1, <2>5 DEF Dying
    <3>5. ASSUME h[o].rc > 0
          PROVE  g[o].rc > 0
      BY <1>6, <2>2, <3>1, <3>2, <3>4, <3>5
    <3> QED
      BY <2>5, <3>1, <3>3, <3>5
  <2> QED
    BY <2>3, <2>4, <2>5
<1>8. DOMAIN g = DOMAIN h
  BY <1>2, RefsFinite DEF G
<1> QED
  BY <1>7, <1>8 DEF Counts, g, G

\* What is not deleted: any set of objects each of which somebody holds who
\* gives nothing up, or one of the set holds, or nobody holds who gives up.
LEMMA Protected ==
    ASSUME NEW h, Countable(h), NEW os, IsFiniteSet(DOMAIN os),
           NEW S \in [DOMAIN h -> Nat], Counts(h, More(S, os)), NEW B \in SUBSET DOMAIN h,
           \A o \in B : \/ S[o] > 0
                        \/ \E p \in B : \E i \in DOMAIN h[p].refs : h[p].refs[i] = o
                        \/ /\ \A i \in DOMAIN os : os[i] # o
                           /\ \A p \in DOMAIN h \ B : \A i \in DOMAIN h[p].refs : h[p].refs[i] # o
    PROVE  \A o \in B : o \notin Deleted(h, os)
<1> DEFINE F == Refs(h)
           C == DOMAIN h \ B
<1>1. FiniteFamily(F) /\ DOMAIN F = DOMAIN h /\ \A p \in DOMAIN h : F[p] = h[p].refs
  BY RefsFinite DEF Refs
<1>2. Part(F, C) = [p \in C |-> h[p].refs] /\ DOMAIN Part(F, C) = C
  BY DEF Part, Refs
<1>3. C \in SUBSET DOMAIN h /\ DOMAIN F \ C = B /\ DOMAIN Part(F, B) = B
  BY <1>1 DEF Part
<1> HIDE DEF F
<1>4. ASSUME NEW o \in B
      PROVE  o \notin Dying(h, os, C)
  <2>1. /\ Among(F, o) = Among(Part(F, C), o) + Among(Part(F, B), o)
        /\ Among(Part(F, C), o) \in Nat /\ Among(Part(F, B), o) \in Nat
    BY <1>1, <1>3, AmongSplit, PartFinite, AmongNat
  <2>2. GivenUp(h, os, C, o) = Occurs(os, o) + Among(Part(F, C), o) /\ Occurs(os, o) \in Nat
    BY <1>2, OccursNat DEF GivenUp
  <2>3. S[o] \in Nat /\ (~Dead(h, o) => h[o].rc = (S[o] + Occurs(os, o)) + Among(F, o))
    BY DEF Counts, More, F
  <2>4. S[o] > 0 \/ Among(Part(F, B), o) # 0 =>
          (S[o] + Occurs(os, o)) + Among(F, o) \notin 1 .. GivenUp(h, os, C, o)
    <3>1. \A s, u, a, b \in Nat : s > 0 \/ b # 0 => (s + u) + (a + b) \notin 1 .. (u + a)
      OBVIOUS
    <3> QED
      BY <2>1, <2>2, <2>3, <3>1
  <2>5. S[o] > 0 \/ Among(Part(F, B), o) # 0 => o \notin Dying(h, os, C)
    BY <2>3, <2>4 DEF Dying
  <2>6. CASE S[o] > 0
    BY <2>6, <2>5
  <2>7. CASE \E p \in B : \E i \in DOMAIN h[p].refs : h[p].refs[i] = o
    <3>1. FiniteFamily(Part(F, B))
      BY <1>1, PartFinite
    <3>2. \E p \in DOMAIN Part(F, B) : \E i \in DOMAIN Part(F, B)[p] : Part(F, B)[p][i] = o
      BY <1>1, <1>3, <2>7 DEF Part
    <3>3. Among(Part(F, B), o) # 0
      BY <3>1, <3>2, AmongNat
    <3> QED
      BY <2>5, <3>3
  <2>8. CASE /\ \A i \in DOMAIN os : os[i] # o
             /\ \A p \in C : \A i \in DOMAIN h[p].refs : h[p].refs[i] # o
    <3>1. FiniteFamily(Part(F, C))
      BY <1>1, PartFinite
    <3>2. \A p \in DOMAIN Part(F, C) : \A i \in DOMAIN Part(F, C)[p] : Part(F, C)[p][i] # o
      BY <1>1, <1>2, <2>8 DEF Part
    <3>3. Among(Part(F, C), o) = 0
      BY <3>1, <3>2, AmongNat
    <3>4. Occurs(os, o) = 0
      BY <2>8, OccursNat
    <3>5. GivenUp(h, os, C, o) = 0
      BY <2>2, <3>3, <3>4
    <3> QED
      BY <3>5 DEF Dying
  <2> QED
    BY <2>6, <2>7, <2>8
<1>5. Closed(h, os, C)
  BY <1>4 DEF Closed, Dying
<1>6. Deleted(h, os) \subseteq C
  BY <1>5, DeletedIsLeast
<1> QED
  BY <1>6

\* An object that is not deleted may as well be written before the release as
\* behind it.
LEMMA WriteCommutes ==
    ASSUME NEW h, Countable(h), NEW g, Countable(g), DOMAIN g = DOMAIN h,
           NEW os, IsFiniteSet(DOMAIN os), NEW p, p \notin Deleted(g, os),
           \A o \in DOMAIN h : g[o].rc = h[o].rc /\ g[o].kind = h[o].kind,
           \A o \in DOMAIN h \ {p} : g[o].refs = h[o].refs
    PROVE  /\ Deleted(h, os) = Deleted(g, os)
           /\ \A o : GivenUp(h, os, Deleted(h, os), o) = GivenUp(g, os, Deleted(g, os), o)
<1> DEFINE A == Deleted(h, os)
           B == Deleted(g, os)
<1>1. /\ A \in SUBSET DOMAIN h /\ Dying(h, os, A) = A
      /\ \A E : Closed(h, os, E) => A \subseteq E
  BY DeletedIsLeast
<1>2. /\ B \in SUBSET DOMAIN h /\ Dying(g, os, B) = B
      /\ \A E : Closed(g, os, E) => B \subseteq E
  BY DeletedIsLeast
<1>3. p \notin B
  OBVIOUS
<1> HIDE DEF A, B
<1>4. ASSUME NEW E \in SUBSET DOMAIN h, p \notin E
      PROVE  /\ \A o : GivenUp(h, os, E, o) = GivenUp(g, os, E, o)
             /\ Dying(h, os, E) = Dying(g, os, E)
  <2>1. [q \in E |-> h[q].refs] = [q \in E |-> g[q].refs]
    BY <1>4
  <2>2. \A o : GivenUp(h, os, E, o) = GivenUp(g, os, E, o)
    BY <2>1 DEF GivenUp
  <2>3. \A o \in DOMAIN h : Dead(h, o) = Dead(g, o) /\ h[o].rc = g[o].rc
    BY DEF Dead
  <2>4. Dying(h, os, E) = Dying(g, os, E)
    BY <2>2, <2>3 DEF Dying
  <2> QED
    BY <2>2, <2>4
<1>5. A \subseteq B
  <2> Closed(h, os, B)
    BY <1>2, <1>3, <1>4 DEF Closed
  <2> QED
    BY <1>1
<1>6. B \subseteq A
  <2> Closed(g, os, A)
    BY <1>1, <1>3, <1>4, <1>5 DEF Closed
  <2> QED
    BY <1>2
<1>7. A = B
  BY <1>5, <1>6
<1> QED
  BY <1>2, <1>3, <1>4, <1>7 DEF A, B
=============================================================================
