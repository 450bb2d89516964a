----------------------------- MODULE CountedHeap -----------------------------
(* Counted objects (include/ether/ether.h 640-673, 3576-3585).  A heap h is a *)
(* sequence of objects, records with at least a count rc, a kind and the      *)
(* objects they refer to.  A deleted object keeps its place, so that every    *)
(* reference to it shows.                                                     *)
EXTENDS Integers, Sequences, FiniteSets

\* An object that is never deleted.
Const == 0

Dead(h, o) == o # Const /\ h[o].kind = "freed"

\* How often o is in the sequence os, and in all the sequences of a family.
Occurs(os, o) == Cardinality({i \in DOMAIN os : os[i] = o})
Among(family, o) ==
    Cardinality(UNION {{p} \X {i \in DOMAIN family[p] : family[p][i] = o} : p \in DOMAIN family})

Refs(h) == [p \in DOMAIN h |-> h[p].refs]

IncAll(h, os) == [o \in DOMAIN h |-> [h[o] EXCEPT !.rc = @ + Occurs(os, o)]]
Inc(h, o) == IncAll(h, <<o>>)
Decr(h, o) == IF o = Const THEN h ELSE [h EXCEPT ![o].rc = @ - 1]

\* What is given up of the references to o: those of os, and those of the
\* objects in D when they are deleted.
GivenUp(h, os, D, o) == Occurs(os, o) + Among([p \in D |-> h[p].refs], o)

\* The objects whose last reference is among them.
Dying(h, os, D) == {o \in DOMAIN h : ~Dead(h, o) /\ h[o].rc \in 1 .. GivenUp(h, os, D, o)}

\* eth_unref of everything in os, and deletion, which gives up what the deleted
\* object refers to: the objects that are deleted in the end.  In which order
\* the calls go makes no difference.
Deleted(h, os) ==
    LET from[D \in SUBSET DOMAIN h] ==
            LET E == D \union Dying(h, os, D) IN IF E = D THEN D ELSE from[E]
    IN  from[{}]

Release(h, os) ==
    LET D == Deleted(h, os)
    IN  [o \in DOMAIN h |->
            IF o \in D THEN [h[o] EXCEPT !.rc = 0, !.kind = "freed", !.refs = <<>>]
            ELSE IF Dead(h, o) THEN h[o]
            ELSE [h[o] EXCEPT !.rc = @ - GivenUp(h, os, D, o)]]

\* eth_drop
Dropped(h, o) ==
    IF o # Const /\ h[o].rc = 0 THEN Release(Inc(h, o), <<o>>) ELSE h

\* How a callee leaves (eth_return): its arguments, which it referenced, are
\* given back, but not what it returns.
GiveBack(h, os, ret) == Decr(Release(Inc(h, ret), os), ret)
=============================================================================
