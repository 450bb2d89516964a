----------------------------- MODULE Application -----------------------------
(* Function application (src/function.c, eth_apply in ether.h): arguments are *)
(* pushed on a stack, and a function may be applied to fewer of them than it  *)
(* has parameters, or to more.                                                *)
(*                                                                            *)
(* What runs below is C code: eth_apply, _eth_partial_apply, curried, and the *)
(* bodies of functions, which are bytecode (eth_vm takes the arguments off    *)
(* the stack first) or C (eth_return takes them off at the end).  A body      *)
(* applies what it has to what it has, any number of times.  An argument with *)
(* the count 0 belongs to who is called.                                      *)
EXTENDS CountedHeap, SequencesExt

CONSTANTS Fn,           \* functions of the program: never deleted, not counted
          Arity,        \* of each: the number of parameters
          Islam,        \* those of Fn whose body is bytecode
          NoFn,         \* eth_this of the program
          MaxObj,       \* bound: objects at a time
          MaxArgs,      \* bound: arguments of an application
          MaxHeld,      \* bound: values a body has at a time
          MaxDepth,     \* bound: bodies that run at a time
          MaxPushed     \* bound: arguments that bodies give, in all

ASSUME ApplicationAssumption ==
    /\ Arity \in [Fn -> Nat \ {0}]
    /\ Islam \subseteq Fn /\ NoFn \notin Fn
    /\ Fn \intersect Nat = {} /\ NoFn \notin Nat
    /\ {MaxObj, MaxArgs, MaxHeld, MaxDepth, MaxPushed} \subseteq Nat

VARIABLES heap,         \* objects: count, kind, and for a function made by partial
                        \* application the one behind it and its arguments, and
                        \* how many it waits for
          sp,           \* eth_sp: the first is the top of the stack
          frames,       \* C functions in progress, innermost last; the first is
                        \* the program
          ctl,          \* what the innermost one is about to do
          this,         \* eth_this
          pushed        \* arguments given so far

vars == <<heap, sp, frames, ctl, this, pushed>>

Address == 1 .. MaxObj
Value == Fn \union Address

\* A body has values; "over" waits for the result of a function that got more
\* than it takes, "again" for what that result makes of the others, "curried"
\* for the function behind a partial application.  n of its values are on the
\* stack; that is the eth_this to restore.  What a body began with (args) is only
\* for the properties.
Frames == {"body", "over", "again", "curried"}
Frame(fr, fn, args, held, n, that) ==
    [fr |-> fr, fn |-> fn, args |-> args, held |-> held, n |-> n, that |-> that]

Object == [rc : Nat, kind : {"freed", "atom", "exn", "curried"}, refs : Seq(Value), arity : Nat]
FrameType == [fr : Frames, fn : Value \union {NoFn}, args : Seq(Value), held : Seq(Value),
              n : Nat, that : Value \union {NoFn}]
Control == [op : {"body", "apply", "ret"}, val : Value \union {NoFn}, n : Nat]

TypeOK ==
    /\ heap \in [Address -> Object]
    /\ \A o \in Address : heap[o].kind = "curried" => heap[o].arity > 0 /\ heap[o].refs # <<>>
    /\ sp \in Seq(Value)
    /\ frames \in Seq(FrameType) /\ frames # <<>>
    /\ ctl \in Control
    /\ this \in Value \union {NoFn} /\ pushed \in Nat

-----------------------------------------------------------------------------
(* Objects.  h is a heap; the functions in Fn are not counted. *)

Counted(v) == v \notin Fn

DecAll(h, s) == [o \in DOMAIN h |-> [h[o] EXCEPT !.rc = @ - Occurs(s, o)]]

\* A place without an object
Nothing == [rc |-> 0, kind |-> "freed", refs |-> <<>>, arity |-> 0]

\* eth_unref of every value of s; destroy_curried.
UnrefAll(h, s) ==
    LET g == Release(h, s) IN [o \in DOMAIN h |-> IF Dead(g, o) THEN Nothing ELSE g[o]]

\* eth_drop
Drop(h, v) == IF Counted(v) /\ h[v].rc = 0 THEN UnrefAll(Inc(h, v), <<v>>) ELSE h

Free(h) == {a \in Address : h[a].kind = "freed"}
Fresh(h) == CHOOSE a \in Free(h) : \A b \in Free(h) : a <= b
With(h, object) == [h EXCEPT ![Fresh(h)] = object]
New(kind) == [Nothing EXCEPT !.kind = kind]

IsCurried(v) == Counted(v) /\ heap[v].kind = "curried"
IsFunction(v) == ~Counted(v) \/ IsCurried(v)
ArityOf(v) == IF Counted(v) THEN heap[v].arity ELSE Arity[v]
Behind(v) == Head(heap[v].refs)
Waited(v) == Tail(heap[v].refs)

-----------------------------------------------------------------------------
(* Control *)

Running == [op |-> "body", val |-> NoFn, n |-> 0]
Applying(f, n) == [op |-> "apply", val |-> f, n |-> n]
Returning(v) == [op |-> "ret", val |-> v, n |-> 0]

Top == Last(frames)
Popped == Front(frames)
Depth == Cardinality({i \in DOMAIN frames : frames[i].fr = "body"})
Pushed(n) == SubSeq(sp, 1, n)
Below(n) == SubSeq(sp, n + 1, Len(sp))

\* What a body can use: its arguments on the stack, and what it holds.
Usable == Pushed(Top.n) \o Top.held

\* What a body pushes: values it has and a new one (0).
Arguments(from) == [i \in DOMAIN from |-> IF from[i] = 0 THEN Fresh(heap) ELSE Usable[from[i]]]
WithNew(from) == IF 0 \in Range(from) THEN With(heap, New("atom")) ELSE heap

\* Those in given are its last uses: it gives up its reference, though not to
\* what it applies (at j) and not to what is still on the stack.
Affordable(from) == ctl = Running /\ pushed + Len(from) <= MaxPushed /\ Free(heap) # {}
MayGive(j, from, given) == given \subseteq Range(from) \ {0, j} /\ \A i \in given : i > Top.n
Given(h, given) == DecAll(h, [i \in given |-> Usable[i]])
Keep(given) ==
    LET left == SetToSeq({i \in DOMAIN Top.held : i + Top.n \notin given})
    IN  frames' = Append(Popped, [Top EXCEPT !.held = [i \in DOMAIN left |-> @[left[i]]]])

\* A body applies a function of the program, or the function it has at j.
Apply(f, j, from, given) ==
    /\ Affordable(from) /\ MayGive(j, from, given)
    /\ heap' = Given(WithNew(from), given) /\ Keep(given)
    /\ sp' = Arguments(from) \o sp
    /\ ctl' = Applying(f, Len(from))
    /\ pushed' = pushed + Len(from) /\ UNCHANGED this

\* What it has at j is not a function.
Refuse(j, from, given) ==
    LET args == Arguments(from)
        less == UnrefAll(IncAll(Given(WithNew(from), given), args), args)
    IN  /\ Affordable(from) /\ MayGive(j, from, given) /\ ~IsFunction(Usable[j])
        /\ Free(less) # {} /\ heap' = With(less, New("exn")) /\ Keep(given)
        /\ ctl' = Returning(Fresh(less))
        /\ pushed' = pushed + Len(from) /\ UNCHANGED <<sp, this>>

\* _eth_raw_apply of a function of the program.
Begin(f) ==
    /\ ctl.op = "apply" /\ ctl.val = f /\ ctl.n = Arity[f] /\ Depth < MaxDepth
    /\ heap' = IncAll(heap, Pushed(ctl.n))
    /\ sp' = IF f \in Islam THEN Below(ctl.n) ELSE sp
    /\ frames' = Append(frames, IF f \in Islam THEN Frame("body", f, Pushed(ctl.n), Pushed(ctl.n), 0, this)
                               ELSE Frame("body", f, Pushed(ctl.n), <<>>, ctl.n, this))
    /\ this' = f /\ ctl' = Running /\ UNCHANGED pushed

\* Mutant of Curried: the new arguments come before the ones that waited.
CurriedBehind ==
    LET f == ctl.val IN
    /\ ctl.op = "apply" /\ IsCurried(f) /\ ctl.n = ArityOf(f)
    /\ sp' = Pushed(ctl.n) \o Waited(f) \o Below(ctl.n)
    /\ ctl' = Applying(Behind(f), ArityOf(f) + Len(Waited(f)))
    /\ frames' = Append(frames, Frame("curried", f, <<>>, <<>>, 0, this))
    /\ this' = f /\ UNCHANGED <<heap, pushed>>

\* curried: the arguments that waited are pushed in front of the new ones.  When
\* nobody holds the function, they are given up.
Curried ==
    LET f == ctl.val
        p == Waited(f)
        moved == heap[f].rc = 0
    IN  /\ ctl.op = "apply" /\ IsCurried(f) /\ ctl.n = ArityOf(f)
        /\ heap' = IF moved THEN [DecAll(heap, p) EXCEPT ![f].refs = <<Behind(f)>>] ELSE heap
        /\ sp' = p \o sp
        /\ ctl' = Applying(Behind(f), ArityOf(f) + (IF moved THEN 0 ELSE Len(p)))
        /\ frames' = Append(frames, Frame("curried", f, <<>>, <<>>, 0, this))
        /\ this' = f /\ UNCHANGED pushed

Suspended(f, args) ==
    [New("curried") EXCEPT !.refs = <<f>> \o args, !.arity = ArityOf(f) - Len(args)]

\* Mutant of Partial: the function behind it is not referenced.
PartialUncounted ==
    /\ ctl.op = "apply" /\ ctl.n < ArityOf(ctl.val) /\ Free(heap) # {}
    /\ heap' = With(IncAll(heap, Pushed(ctl.n)),
                    Suspended(ctl.val, Pushed(ctl.n)))
    /\ sp' = Below(ctl.n)
    /\ ctl' = Returning(Fresh(heap)) /\ UNCHANGED <<frames, this, pushed>>

\* Mutant of Partial: the arguments stay on the stack.
PartialOnStack ==
    /\ ctl.op = "apply" /\ ctl.n < ArityOf(ctl.val) /\ Free(heap) # {}
    /\ heap' = With(IncAll(heap, <<ctl.val>> \o Pushed(ctl.n)),
                    Suspended(ctl.val, Pushed(ctl.n)))
    /\ ctl' = Returning(Fresh(heap)) /\ UNCHANGED <<sp, frames, this, pushed>>

\* Mutant of Partial: also with as many arguments as parameters.
PartialFull ==
    /\ ctl.op = "apply" /\ ctl.n <= ArityOf(ctl.val) /\ Free(heap) # {}
    /\ heap' = With(IncAll(heap, <<ctl.val>> \o Pushed(ctl.n)),
                    Suspended(ctl.val, Pushed(ctl.n)))
    /\ sp' = Below(ctl.n)
    /\ ctl' = Returning(Fresh(heap)) /\ UNCHANGED <<frames, this, pushed>>

\* _eth_partial_apply with fewer arguments than parameters.
Partial ==
    /\ ctl.op = "apply" /\ ctl.n < ArityOf(ctl.val) /\ Free(heap) # {}
    /\ heap' = With(IncAll(heap, <<ctl.val>> \o Pushed(ctl.n)),
                    Suspended(ctl.val, Pushed(ctl.n)))
    /\ sp' = Below(ctl.n)
    /\ ctl' = Returning(Fresh(heap)) /\ UNCHANGED <<frames, this, pushed>>

\* Mutant of Over: the arguments that wait are not kept.
OverUnkept ==
    LET arity == ArityOf(ctl.val) IN
    /\ ctl.op = "apply" /\ ctl.n > arity
    /\ frames' = Append(frames, Frame("over", ctl.val, <<>>, <<>>, ctl.n - arity, this))
    /\ ctl' = Applying(ctl.val, arity) /\ UNCHANGED <<heap, sp, this, pushed>>

\* _eth_partial_apply with more: what follows the last parameter waits on the
\* stack, with a reference, until the function returns.
Over ==
    LET arity == ArityOf(ctl.val) IN
    /\ ctl.op = "apply" /\ ctl.n > arity
    /\ heap' = IncAll(heap, SubSeq(sp, arity + 1, ctl.n))
    /\ frames' = Append(frames, Frame("over", ctl.val, <<>>, <<>>, ctl.n - arity, this))
    /\ ctl' = Applying(ctl.val, arity) /\ UNCHANGED <<sp, this, pushed>>

\* The result takes the arguments that wait,
OverFunction ==
    LET f == ctl.val IN
    /\ ctl.op = "ret" /\ Top.fr = "over" /\ IsFunction(f)
    /\ heap' = IncAll(DecAll(heap, Pushed(Top.n)), <<f>>)
    /\ frames' = Append(Popped, Frame("again", f, <<>>, <<f>>, 0, this))
    /\ ctl' = Applying(f, Top.n) /\ UNCHANGED <<sp, this, pushed>>

\* or it cannot: they are given back, and an exception stays what it is.
OverOther ==
    LET v == ctl.val
        less == UnrefAll(IncAll(heap, <<v>>), Pushed(Top.n))
        back == DecAll(less, <<v>>)
    IN  /\ ctl.op = "ret" /\ Top.fr = "over" /\ ~IsFunction(v)
        /\ IF back[v].kind = "exn" THEN heap' = back /\ ctl' = ctl
           ELSE /\ Free(Drop(back, v)) # {}
                /\ heap' = With(Drop(back, v), New("exn"))
                /\ ctl' = Returning(Fresh(Drop(back, v)))
        /\ sp' = Below(Top.n) /\ frames' = Popped /\ UNCHANGED <<this, pushed>>

\* The end of an application to more arguments.
Again ==
    /\ ctl.op = "ret" /\ Top.fr = "again"
    /\ heap' = DecAll(UnrefAll(IncAll(heap, <<ctl.val>>), Top.held), <<ctl.val>>)
    /\ frames' = Popped /\ UNCHANGED <<sp, ctl, this, pushed>>

\* Mutant of EndCurried: eth_this is not restored.
EndCurriedThis ==
    /\ ctl.op = "ret" /\ Top.fr = "curried"
    /\ frames' = Popped /\ UNCHANGED <<heap, sp, ctl, this, pushed>>

\* The end of _eth_raw_apply for curried.
EndCurried ==
    /\ ctl.op = "ret" /\ Top.fr = "curried"
    /\ frames' = Popped /\ this' = Top.that
    /\ UNCHANGED <<heap, sp, ctl, pushed>>

\* APPLYTC of a function whose body is bytecode: a body of bytecode lets go of
\* what it has and turns into the other one.
TailCall(f, from) ==
    LET args == Arguments(from)
    IN  /\ Affordable(from) /\ Top.fn \in Islam /\ f \in Islam /\ Len(from) = Arity[f]
        /\ heap' = UnrefAll(IncAll(WithNew(from), args), Top.held)
        /\ frames' = Append(Popped, Frame("body", f, args, args, 0, Top.that))
        /\ this' = f /\ pushed' = pushed + Len(from) /\ UNCHANGED <<sp, ctl>>

\* A body gets the result of an application, and has it or does not want it.
Take ==
    /\ ctl.op = "ret" /\ Top.fr = "body"
    /\ \/ /\ Top.n + Len(Top.held) < MaxHeld
          /\ heap' = IncAll(heap, <<ctl.val>>)
          /\ frames' = Append(Popped, [Top EXCEPT !.held = Append(@, ctl.val)])
       \/ heap' = Drop(heap, ctl.val) /\ UNCHANGED frames
    /\ ctl' = Running /\ UNCHANGED <<sp, this, pushed>>

\* A body returns v, in h (eth_return; RET).  Arguments that are still on the
\* stack are given back from there.
Leave(h, v) ==
    /\ heap' = DecAll(UnrefAll(Inc(h, v), Usable), <<v>>)
    /\ sp' = Below(Top.n) /\ this' = Top.that
    /\ frames' = Popped /\ ctl' = Returning(v) /\ UNCHANGED pushed

Return ==
    /\ ctl = Running /\ Len(frames) > 1
    /\ \/ \E v \in Fn \union Range(Usable) : Leave(heap, v)
       \/ \E kind \in {"atom", "exn"} :
              Free(heap) # {} /\ Leave(With(heap, New(kind)), Fresh(heap))

\* The program lets go of a value.
Forget(i) ==
    /\ ctl = Running /\ Len(frames) = 1
    /\ heap' = UnrefAll(heap, <<Top.held[i]>>)
    /\ frames' = << [Top EXCEPT !.held = RemoveAt(@, i)] >>
    /\ UNCHANGED <<sp, ctl, this, pushed>>

Init ==
    /\ heap = [a \in Address |-> Nothing] /\ sp = <<>> /\ pushed = 0 /\ this = NoFn
    /\ frames = << Frame("body", NoFn, <<>>, <<>>, 0, NoFn) >> /\ ctl = Running

\* What a body can apply: a function of the program, or one that it has.
Callees ==
    {<<f, 0>> : f \in Fn}
    \union {<<Usable[j], j>> : j \in {i \in DOMAIN Usable : IsFunction(Usable[i])}}

Next ==
    \/ /\ ctl = Running
       /\ \E n \in 1 .. MaxArgs : \E from \in [1 .. n -> 0 .. Len(Usable)] :
            \/ \E given \in SUBSET DOMAIN Usable :
                 \/ \E c \in Callees : Apply(c[1], c[2], from, given)
                 \/ \E j \in DOMAIN Usable : Refuse(j, from, given)
            \/ \E f \in Islam : TailCall(f, from)
    \/ \E f \in Fn : Begin(f)
    \/ ctl.op = "apply" /\ (Curried \/ Partial \/ Over)
    \/ ctl.op = "ret" /\ (OverFunction \/ OverOther \/ Again \/ EndCurried \/ Take)
    \/ Return
    \/ \E i \in DOMAIN Top.held : Forget(i)

Spec == Init /\ [][Next]_vars

-----------------------------------------------------------------------------
(* Properties *)

\* Every value that a body, a function or the stack has, or that is applied or
\* returned, still exists.
Present == Fn \union {o \in Address : ~Dead(heap, o)} \union {NoFn}
NothingDangles ==
    /\ Range(sp) \union {ctl.val, this} \subseteq Present
    /\ \A i \in DOMAIN frames : Range(frames[i].held) \union {frames[i].fn} \subseteq Present
    /\ \A o \in Address : Range(heap[o].refs) \subseteq Present

\* What the C functions in progress share out of the stack is all that is on it:
\* every application leaves the stack as it was before its arguments were pushed.
Applied == IF ctl.op = "apply" THEN ctl.n ELSE 0
Slots(fs, I) == Cardinality(UNION {{i} \X (1 .. fs[i].n) : i \in I})
StackExact == Len(sp) = Applied + Slots(frames, DOMAIN frames)

\* The stack share of the i-th frame.
Share(fs, s, i) ==
    LET end == Len(s) - Slots(fs, 1 .. i - 1) IN SubSeq(s, end - fs[i].n + 1, end)

\* The count of an object is the number of those who have it: bodies, functions
\* made by partial application, arguments that wait, functions that are kept
\* during a call.  An object that nobody has is an argument or a result on its way.
Held(fs, s) == [i \in DOMAIN fs |-> fs[i].held \o Share(fs, s, i)]
CountsExact ==
    \A o \in Address : ~Dead(heap, o) =>
       /\ heap[o].rc = Among(Refs(heap), o) + Among(Held(frames, sp), o)
       /\ heap[o].rc = 0 =>
             \/ ctl.op = "apply" /\ o \in Range(Pushed(ctl.n))
             \/ ctl.op = "ret" /\ o = ctl.val

\* A body runs with eth_this set to its own function: its captures are found there.
ThisIsRunning == ctl = Running => this = Top.fn

-----------------------------------------------------------------------------
(* Refinement *)

\* What the values in h wait to be: the call of a function of the program.
Den(h) ==
    LET den[v \in Value] ==
            IF v \in Fn THEN [fn |-> v, args |-> <<>>]
            ELSE IF h[v].kind # "curried" THEN [fn |-> NoFn, args |-> <<>>]
            ELSE LET behind == den[Head(h[v].refs)]
                 IN  [fn |-> behind.fn, args |-> behind.args \o Tail(h[v].refs)]
    IN  den

ObjectBar(h, o) ==
    IF h[o].kind = "curried" THEN [kind |-> "fn", fn |-> Den(h)[o].fn, args |-> Den(h)[o].args]
    ELSE [kind |-> h[o].kind]
ObjBar(h) == [o \in Address \ Free(h) |-> ObjectBar(h, o)]

\* The arguments that wait for the result of the i-th frame, or of what would be
\* one: behind the last body before it.
Overs(fs, i) ==
    {j \in 1 .. i - 1 : fs[j].fr = "over" /\ \A k \in j + 1 .. i - 1 : fs[k].fr # "body"}
Awaiting(fs, s, i) ==
    IF Overs(fs, i) = {} THEN <<>> ELSE Share(fs, s, CHOOSE j \in Overs(fs, i) : TRUE)

\* Bodies but that of the program; the k-th.
Bodies(fs) == {i \in DOMAIN fs : i > 1 /\ fs[i].fr = "body"}
Body(fs, k) == CHOOSE i \in Bodies(fs) : Cardinality({j \in Bodies(fs) : j <= i}) = k
BodyBar(fs, s, i) == [fn |-> fs[i].fn, args |-> fs[i].args, rest |-> Awaiting(fs, s, i)]
BodiesBar(fs, s) == [k \in 1 .. Cardinality(Bodies(fs)) |-> BodyBar(fs, s, Body(fs, k))]

CallBar(h, v, args) == [op |-> "call", fn |-> Den(h)[v].fn, args |-> Den(h)[v].args \o args]
ResultBar(h, v, rest) ==
    IF rest = <<>> \/ (Counted(v) /\ h[v].kind = "exn") THEN [op |-> "ret", val |-> v]
    ELSE IF v \in Fn \/ h[v].kind = "curried" THEN CallBar(h, v, rest)
    ELSE [op |-> "fail"]
NowBar(h, s, c, rest) ==
    IF c.op = "body" THEN [op |-> "body"]
    ELSE IF c.op = "apply" THEN CallBar(h, c.val, SubSeq(s, 1, c.n) \o rest)
    ELSE ResultBar(h, c.val, rest)

Uncurried == INSTANCE UncurriedCalls
    WITH obj <- ObjBar(heap), bodies <- BodiesBar(frames, sp),
         now <- NowBar(heap, sp, ctl, Awaiting(frames, sp, Len(frames) + 1))

\* However the arguments come together, a function gets them as if it had been
\* applied to all of them at once (UncurriedCalls).
ImplementsUncurried == Uncurried!AbsSpec

=============================================================================
