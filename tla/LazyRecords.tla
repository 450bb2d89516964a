----------------------------- MODULE LazyRecords -----------------------------
(* Records, and lazy values in their fields: what src/vm.c does on LOAD,      *)
(* LOADRCRD, MKRCRD and UPDTRCRD, with eth_get_lazy_value (ether.h 1116-1155) *)
(* and the assignment of fields (src/builtins.c).                             *)
(*                                                                            *)
(* A load that meets a lazy value evaluates it in the middle of the           *)
(* instruction.  The evaluation runs any code: it makes, loads, updates and   *)
(* assigns records, of the same type and the same ones, and other lazy values *)
(* are evaluated inside.  So there is a stack of what is under way: code that *)
(* runs, and evaluations that wait for it.                                    *)
EXTENDS CountedHeap, SequencesExt

CONSTANTS Shapes,       \* record types: sets of the ids of symbols, which are integers
          Wanted,       \* what patterns and updates ask for: sequences of ids, in
                        \* increasing order
          Mutable,      \* fields that may be assigned
          Start,        \* what a program begins with: records of a heap, and of
                        \* what it owns there
          MaxObjects,   \* bound: objects in the heap
          MainSteps,    \* bound: steps of the program itself
          ThunkSteps    \* bound: steps of the body of one lazy value

VARIABLES heap,         \* objects: count, kind, what they refer to, and for a
                        \* record its type, for a lazy value if it is evaluated
          sentinel,     \* record type: what stands behind the ids of its fields
          stack         \* what is under way, innermost last; nothing when the
                        \* process has ended

vars == <<heap, sentinel, stack>>

NoField == 0

Increasing(ids) == \A i, j \in DOMAIN ids : i < j => ids[i] < ids[j]
\* A set of numbers in order
Ascending(A) == CHOOSE ids \in [1 .. Cardinality(A) -> A] : Increasing(ids)

ASSUME LazyRecordsAssumption ==
    /\ \A shape \in Shapes : shape \subseteq Int /\ IsFiniteSet(shape)
    /\ \A want \in Wanted : want \in Seq(Int) /\ want # <<>> /\ Increasing(want)
    /\ {MaxObjects, MainSteps, ThunkSteps} \subseteq Nat

-----------------------------------------------------------------------------
(* Objects *)

Object(kind, refs, shape) ==
    [rc |-> 0, kind |-> kind, refs |-> refs, ready |-> FALSE, shape |-> shape]
Kind(o) == IF o = Const THEN "atom" ELSE heap[o].kind

\* record_type: the fields in the order of their symbols' ids; one type for
\* one set of names.
FieldIds == [shape \in Shapes |-> Ascending(shape)]
PlaceOf(ids, f) == CHOOSE i \in DOMAIN ids : ids[i] = f
\* How a search sees them: the place behind the last one is written first.
Searched(shape) == Append(FieldIds[shape], sentinel[shape])

\* A record, that owns a reference to each of its fields
NewRecord(h, shape, data) ==
    Append(IncAll(h, data), [Object("rec", data, shape) EXCEPT !.rc = 1])

-----------------------------------------------------------------------------
(* What is under way: code, and evaluations of lazy values.  Code owns a       *)
(* reference to each object in own, and reads what its closure captured; load *)
(* is the instruction it is in, if any.  An evaluation owns what it came to.  *)

\* A load is in a field: src is the object, want what is asked for, k which of
\* it comes next, i where the search is, got what it has.
Load(at, src, want, i) ==
    [at |-> at, src |-> src, want |-> want, k |-> 1, i |-> i, got |-> <<>>]
Idle == Load("idle", Const, <<>>, 0)

Code(fun, steps) == [lazy |-> Const, fun |-> fun, own |-> <<>>, left |-> steps, load |-> Idle]
Evaluation(l) == [Code(Const, 0) EXCEPT !.lazy = l]
IsEvaluation(f) == f.lazy # Const
Evaluated == {stack[d].lazy : d \in {e \in DOMAIN stack : IsEvaluation(stack[e])}}

Top == Last(stack)
Frames(f) == [stack EXCEPT ![Len(stack)] = f]
Running == stack # <<>> /\ ~IsEvaluation(Top) /\ Top.load = Idle
Loading(at) == stack # <<>> /\ ~IsEvaluation(Top) /\ Top.load.at = at
Waiting == stack # <<>> /\ IsEvaluation(Top) /\ Top.own # <<>>

Captured(f) == IF f.fun = Const THEN {} ELSE Range(heap[f.fun].refs)
Visible == (Range(Top.own) \union Captured(Top)) \ {Const}
Usable == Visible \union {Const}

\* A step of code: it goes on with f for its frame.
Goes(f) == Top.left > 0 /\ stack' = Frames([f EXCEPT !.left = @ - 1])
Fits(n) == Len(heap) + n <= MaxObjects
Owning(o) == [Top EXCEPT !.own = Append(@, o)]

\* eth_get_lazy_value, where the value is not there yet: the thunk is called.
\* A lazy value whose evaluation needs itself is left out (README).
Evaluate(frames, l) ==
    /\ l \notin Evaluated
    /\ stack' = frames \o <<Evaluation(l), Code(heap[l].refs[1], ThunkSteps)>>
    /\ UNCHANGED <<heap, sentinel>>

-----------------------------------------------------------------------------
(* Steps of code *)

\* lazy e: a closure, and _make_lazy
MakeLazy(os) ==
    /\ Running /\ Fits(2)
    /\ LET f == Len(heap) + 1
           fun == [Object("fun", os, {}) EXCEPT !.rc = 1]
           lazy == [Object("lazy", <<f>>, {}) EXCEPT !.rc = 1]
       IN heap' = IncAll(heap, os) \o <<fun, lazy>>
    /\ Goes(Owning(Len(heap) + 2))
    /\ UNCHANGED sentinel

MakeRecord(shape, data) ==
    /\ Running /\ Fits(1)
    /\ heap' = NewRecord(heap, shape, data)
    /\ Goes(Owning(Len(heap) + 1))
    /\ UNCHANGED sentinel

\* _updtrcrd: the fields that are not replaced are copied as they are.
Update(src, ids, vals) ==
    /\ Running
    /\ IF Kind(src) # "rec" THEN Goes(Top) /\ UNCHANGED <<heap, sentinel>>
       ELSE LET shape == heap[src].shape
                fields == FieldIds[shape]
                found == {k \in DOMAIN ids : ids[k] \in shape}
                last == IF found = DOMAIN ids THEN Len(ids)
                        ELSE Min(DOMAIN ids \ found)
                data == [i \in DOMAIN fields |->
                           IF fields[i] \in Range(ids) THEN vals[PlaceOf(ids, fields[i])]
                           ELSE heap[src].refs[i]]
            IN /\ sentinel' = [sentinel EXCEPT ![shape] = ids[last]]
               /\ IF found = DOMAIN ids
                  THEN /\ Fits(1) /\ heap' = NewRecord(heap, shape, data)
                       /\ Goes(Owning(Len(heap) + 1))
                  ELSE Goes(Top) /\ UNCHANGED heap

\* What programs are held to: the body of a lazy value assigns a field only
\* where that takes nothing away that somebody else is using (README).
InLoad(src, i) == \E d \in DOMAIN stack : stack[d].load.src = src /\ i <= stack[d].load.i
MayAssign(src, i) ==
    Len(stack) = 1 \/ (heap[src].refs[i] = Const /\ ~InLoad(src, i))

\* Nor does a program tie a knot: cycles are out of reach of the counts.  o
\* does not reach p if there is a set with p, without o, that lacks nothing that
\* refers to it.
Upward(h, U) == \A q \in DOMAIN h \ U : \A i \in DOMAIN h[q].refs : h[q].refs[i] \notin U
Reaches(o, p) == ~\E U \in SUBSET (DOMAIN heap \ {o}) : p \in U /\ Upward(heap, U)

\* _assign_field
Assign(src, f, v) ==
    /\ Running /\ Kind(src) = "rec" /\ f \in heap[src].shape \intersect Mutable
    /\ LET i == PlaceOf(FieldIds[heap[src].shape], f)
           h == Inc(heap, v)
       IN /\ MayAssign(src, i) /\ ~Reaches(v, src)
          /\ heap' = Release([h EXCEPT ![src].refs[i] = v], <<heap[src].refs[i]>>)
    /\ Goes(Top)
    /\ UNCHANGED sentinel

\* A register is not used any more.
LetGo(k) ==
    /\ Running
    /\ heap' = Release(heap, <<Top.own[k]>>)
    /\ Goes([Top EXCEPT !.own = RemoveAt(@, k)])
    /\ UNCHANGED sentinel

-----------------------------------------------------------------------------
(* Loads *)

Enters(load) == Top.left > 0 /\ stack' = Frames([Top EXCEPT !.left = @ - 1, !.load = load])
Ends(f, at) == [f EXCEPT !.load.at = at]
\* What of os is counted.
Objects(os) ==
    LET places == Ascending({i \in DOMAIN os : os[i] # Const})
    IN  [j \in DOMAIN places |-> os[places[j]]]
Bound(f, got) ==
    [f EXCEPT !.own = @ \o Objects(got), !.load = Idle]

\* LOADRCRD: the test of the type, and the first id is put behind the last.
StartLoad(src, want) ==
    /\ Running
    /\ IF Kind(src) # "rec"
       THEN Enters(Load("failed", src, want, 0)) /\ UNCHANGED sentinel
       ELSE /\ Enters(Load("search", src, want, 1))
            /\ sentinel' = [sentinel EXCEPT ![heap[src].shape] = want[1]]
    /\ UNCHANGED heap

\* LOAD: the place of the field is known.
StartLoadAt(src, i) ==
    /\ Running /\ Kind(src) = "rec" /\ i \in DOMAIN heap[src].refs
    /\ Enters(Load("place", src, <<FieldIds[heap[src].shape][i]>>, i))
    /\ UNCHANGED <<heap, sentinel>>

\* __get_lazy, or a lazy value that is applied.  own is what the code owns
\* from here on: where this is the last use of the lazy value, it may be that
\* nobody does.
GetLazy(l, own) ==
    /\ Running /\ Kind(l) = "lazy" /\ Top.left > 0
    /\ heap' = IF own = Top.own THEN heap ELSE Decr(heap, l)
    /\ stack' = Frames([Top EXCEPT !.own = own, !.left = @ - 1,
                                   !.load = Load("lazy", l, <<NoField>>, 0)])
    /\ UNCHANGED sentinel

\* The field at place i has the value v: it is one of those that are wanted.
Took(f, i, v) ==
    LET load == [f.load EXCEPT !.got = Append(@, v), !.k = @ + 1, !.i = i + 1]
    IN [f EXCEPT !.load = IF load.k <= Len(load.want) THEN load ELSE [load EXCEPT !.at = "loaded"]]

\* The place behind the ids is written once, when the load starts.
NextIdNever(f) == sentinel

NextId(f) ==
    IF f.load.at # "search" THEN sentinel
    ELSE [sentinel EXCEPT ![heap[f.load.src].shape] = f.load.want[f.load.k]]

\* The value vv of a lazy value came.  In a field it replaces the lazy value.
\* __get_lazy references what it returns while it gives its argument up, and
\* the code references it when it has it.
Deliver(frames, h, vv) ==
    LET d == Len(frames)
        f == frames[d]
        load == f.load
        v == h[load.src].refs[load.i]
    IN IF load.at = "lazy"
       THEN /\ heap' = Dropped(Inc(h, vv), load.src)
            /\ stack' = [frames EXCEPT ![d] = Bound(f, <<vv>>)]
            /\ UNCHANGED sentinel
       ELSE LET g == Took(f, load.i, vv)
            IN /\ heap' = [Release(Inc(h, vv), <<v>>) EXCEPT ![load.src].refs[load.i] = vv]
               /\ stack' = [frames EXCEPT ![d] = g]
               /\ sentinel' = NextId(g)

\* A value that is there, or else its evaluation
GetValue(frames, l) ==
    IF heap[l].ready THEN Deliver(frames, heap, heap[l].refs[1]) ELSE Evaluate(frames, l)

\* The field at place i is read.
Read(i) ==
    LET v == heap[Top.load.src].refs[i]
        here == [Top EXCEPT !.load.i = i]
    IN IF Kind(v) = "lazy" THEN GetValue(Frames(here), v)
       ELSE LET g == Took(here, i, v)
            IN stack' = Frames(g) /\ sentinel' = NextId(g) /\ UNCHANGED heap

ReadPlace == Loading("place") /\ Read(Top.load.i)
ReadLazy == Loading("lazy") /\ GetValue(stack, Top.load.src)

\* The search goes on from place i, up to what is behind the ids.
Search ==
    /\ Loading("search")
    /\ LET load == Top.load
           ids == Searched(heap[load.src].shape)
           hits == {i \in load.i .. Len(ids) : ids[i] = load.want[load.k]}
       IN IF hits = {} \/ Min(hits) = Len(ids)
          THEN /\ stack' = Frames(Ends(Top, IF hits = {} THEN "overrun" ELSE "failed"))
               /\ UNCHANGED <<heap, sentinel>>
          ELSE Read(Min(hits))

\* Behind the load, its results are referenced.
Bind ==
    /\ stack # <<>> /\ ~IsEvaluation(Top) /\ Top.load.at \in {"loaded", "failed"}
    /\ LET got == IF Top.load.at = "loaded" THEN Top.load.got ELSE <<>>
       IN heap' = IncAll(heap, got) /\ stack' = Frames(Bound(Top, got))
    /\ UNCHANGED sentinel

-----------------------------------------------------------------------------
(* The end of an evaluation *)

\* The thunk is given up first.
ReturnGivenUp(v) ==
    /\ Running /\ Len(stack) > 1
    /\ LET d == Len(stack) - 1
           l == stack[d].lazy
           h == Release([GiveBack(heap, Top.own, v) EXCEPT ![l].refs = <<>>], heap[l].refs)
       IN /\ heap' = Inc(h, v)
          /\ stack' = [Front(stack) EXCEPT ![d].own = <<v>>]
    /\ UNCHANGED sentinel

\* The thunk returns v.  eth_get_lazy_value references it before it gives the
\* thunk up; the lazy value has neither a thunk nor a value for a while.
Return(v) ==
    /\ Running /\ Len(stack) > 1
    /\ LET d == Len(stack) - 1
           l == stack[d].lazy
           h == Inc(GiveBack(heap, Top.own, v), v)
       IN /\ heap' = Release([h EXCEPT ![l].refs = <<>>], heap[l].refs)
          /\ stack' = [Front(stack) EXCEPT ![d].own = <<v>>]
    /\ UNCHANGED sentinel

\* An inner evaluation came to vv: it takes the place of the lazy value that
\* the outer one had come to.
Through(frames, h, vv) ==
    LET d == Len(frames)
    IN /\ heap' = Release(Inc(h, vv), frames[d].own)
       /\ stack' = [frames EXCEPT ![d].own = <<vv>>]
       /\ UNCHANGED sentinel

FallThrough ==
    /\ Waiting /\ Kind(Top.own[1]) = "lazy"
    /\ LET l == Top.own[1]
       IN IF heap[l].ready THEN Through(stack, heap, heap[l].refs[1]) ELSE Evaluate(stack, l)

\* The value is kept, and goes to whoever asked for it.
Settle ==
    /\ Waiting /\ Kind(Top.own[1]) # "lazy"
    /\ LET h == [heap EXCEPT ![Top.lazy].refs = Top.own, ![Top.lazy].ready = TRUE]
           frames == Front(stack)
       IN IF IsEvaluation(Last(frames)) THEN Through(frames, h, Top.own[1])
          ELSE Deliver(frames, h, Top.own[1])

\* An exception in an evaluation ends the process.
Abort ==
    /\ Running /\ Len(stack) > 1
    /\ heap' = <<>> /\ stack' = <<>> /\ UNCHANGED sentinel

\* The program ends.
Exit ==
    /\ Running /\ Len(stack) = 1
    /\ heap' = Release(heap, Top.own) /\ stack' = <<>> /\ UNCHANGED sentinel

-----------------------------------------------------------------------------
ObjectType(n) ==
    [rc : Nat, kind : {"fun", "lazy", "rec", "freed"}, refs : Seq(0 .. n), ready : BOOLEAN,
     shape : SUBSET Int]

\* What a program may begin with: objects that are held, by each other or by
\* the program, and not in a circle.
Beginning(h, own) ==
    /\ h \in Seq(ObjectType(Len(h))) /\ own \in Seq(DOMAIN h)
    /\ \A o \in DOMAIN h :
         /\ h[o].kind # "freed"
         /\ h[o].rc > 0 /\ h[o].rc = Among(Refs(h), o) + Occurs(own, o)
         /\ \E U \in SUBSET DOMAIN h : o \in U /\ Upward(h, U) /\ Range(h[o].refs) \intersect U = {}
         /\ h[o].kind = "rec" => h[o].shape \in Shapes /\ Len(h[o].refs) = Cardinality(h[o].shape)
         /\ h[o].kind = "lazy" =>
              /\ Len(h[o].refs) = 1
              /\ LET v == h[o].refs[1]
                 IN IF h[o].ready THEN v = Const \/ h[v].kind # "lazy"
                    ELSE v # Const /\ h[v].kind = "fun"

ASSUME StartAssumption == \A s \in Start : Beginning(s.heap, s.own)

Init ==
    /\ \E s \in Start : /\ heap = s.heap
                       /\ stack = <<[Code(Const, MainSteps) EXCEPT !.own = s.own]>>
    /\ sentinel = [shape \in Shapes |-> NoField]

Step ==
    \/ \E os \in {<<>>} \union {<<o>> : o \in Visible} : MakeLazy(os)
    \/ \E shape \in Shapes : \E data \in [1 .. Cardinality(shape) -> Usable] :
         MakeRecord(shape, data)
    \/ \E src \in Visible, ids \in Wanted : \E vals \in [DOMAIN ids -> Usable] :
         Update(src, ids, vals)
    \/ \E src \in Visible, f \in Mutable, v \in Usable : Assign(src, f, v)
    \/ \E k \in DOMAIN Top.own : LetGo(k)
    \/ \E src \in Visible, want \in Wanted : StartLoad(src, want)
    \/ \E src \in Visible : \E i \in DOMAIN heap[src].refs : StartLoadAt(src, i)
    \/ \E l \in Visible : GetLazy(l, Top.own)
    \/ \E k \in DOMAIN Top.own : GetLazy(Top.own[k], RemoveAt(Top.own, k))
    \/ \E v \in Usable : Return(v)
    \/ Abort
    \/ Exit

Next ==
    \/ Running /\ Step
    \/ ReadPlace
    \/ ReadLazy
    \/ Search
    \/ Bind
    \/ FallThrough
    \/ Settle

Spec == Init /\ [][Next]_vars

-----------------------------------------------------------------------------
(* Properties *)

\* A load finds a field exactly if the record has it, and what it hands over
\* are the fields' values, evaluated, as the record holds them when the
\* instruction ends, whatever the evaluations in the middle of it did to the
\* ids of the type, to this record and to others.
LoadsAgree ==
    \A d \in DOMAIN stack :
        LET load == stack[d].load
            o == heap[load.src]
        IN /\ load.at # "overrun"
           /\ load.at \in {"loaded", "failed"} /\ Kind(load.src) = "rec" =>
                /\ (load.at = "loaded") <=> (Range(load.want) \subseteq o.shape)
                /\ load.at = "loaded" =>
                     \A k \in DOMAIN load.want :
                        /\ load.got[k] = o.refs[PlaceOf(FieldIds[o.shape], load.want[k])]
                        /\ Kind(load.got[k]) # "lazy"

\* Who refers to an object: other objects, code and evaluations under way.
Holders(o) == Among(Refs(heap), o) + Among([d \in DOMAIN stack |-> stack[d].own], o)
Borrowed ==
    UNION {{f.lazy, f.fun, f.load.src} \union Range(f.load.got) : f \in Range(stack)}
\* The one reference that an evaluation may miss is that to the lazy value
\* that __get_lazy was called with.
Floating ==
    {stack[d].load.src : d \in {e \in DOMAIN stack : stack[e].load.at = "lazy"}}

\* Each count is the number of references that there are, however evaluations
\* are nested and whichever records share a lazy value: nothing that is used
\* is deleted, also not what an unfinished load has in its registers without
\* owning it, and everything else is.
Accounted ==
    \A o \in DOMAIN heap :
         IF heap[o].kind = "freed" THEN Holders(o) = 0 /\ o \notin Borrowed
         ELSE heap[o].rc = Holders(o) /\ (heap[o].rc > 0 \/ o \in Floating)
=============================================================================
