--------------------------- MODULE UncurriedCalls ---------------------------
(* What function application promises: however the arguments of a function   *)
(* come together, its body runs once with as many of them as it has          *)
(* parameters, in the order in which they were given; the others go to what  *)
(* it returns.  A function that still waits for arguments is a value.        *)
EXTENDS Naturals, Sequences, SequencesExt

CONSTANTS Fn, Arity

VARIABLES obj,          \* of each object: its kind, and of a function the call that
                        \* it waits to be (fn, args)
          bodies,       \* the bodies that run, each with its arguments and those
                        \* that wait for its result
          now           \* what goes on: a body runs, a call, a result, a failure

Running == [op |-> "body"]
Failing == [op |-> "fail"]
Returning(v) == [op |-> "ret", val |-> v]

Waiting(v) == IF v \in Fn THEN [fn |-> v, args |-> <<>>] ELSE obj[v]
IsFunction(v) == v \in Fn \/ (v \in DOMAIN obj /\ obj[v].kind = "fn")
CallOf(v, args) == [op |-> "call", fn |-> Waiting(v).fn, args |-> Waiting(v).args \o args]

\* What comes of v when the arguments in rest wait for it.
Given(v, rest) ==
    IF rest = <<>> THEN Returning(v)
    ELSE IF IsFunction(v) THEN CallOf(v, rest)
    ELSE IF obj[v].kind = "exn" THEN Returning(v)
    ELSE Failing

\* Objects come and go, but one that is there does not change.
ObjectsStay == \A o \in DOMAIN obj \intersect DOMAIN obj' : obj'[o] = obj[o]
NewObject(o) == \A q \in DOMAIN obj \intersect DOMAIN obj' : q = o \/ obj'[q] = obj[q]

AbsInit == obj = <<>> /\ bodies = <<>> /\ now = Running

\* A body applies a function.
Apply ==
    /\ now = Running /\ UNCHANGED bodies
    /\ \E v \in {w \in Fn \union DOMAIN obj : IsFunction(w)} :
           /\ now'.op = "call" /\ now'.fn = Waiting(v).fn
           /\ IsPrefix(Waiting(v).args, now'.args)

\* What it applies is not a function.
Refuse == now = Running /\ UNCHANGED bodies /\ now'.op = "ret"
          /\ now'.val \in DOMAIN obj' /\ obj'[now'.val].kind = "exn"

\* Enough arguments: the body begins.
Begin ==
    /\ now.op = "call" /\ Len(now.args) >= Arity[now.fn]
    /\ bodies' = Append(bodies,
           [fn |-> now.fn, args |-> SubSeq(now.args, 1, Arity[now.fn]),
            rest |-> SubSeq(now.args, Arity[now.fn] + 1, Len(now.args))])
    /\ now' = Running

\* Not enough: a value that waits for the others.
Suspend ==
    /\ now.op = "call" /\ Len(now.args) < Arity[now.fn]
    /\ UNCHANGED bodies
    /\ now'.op = "ret" /\ now'.val \in DOMAIN obj' \ DOMAIN obj
    /\ obj'[now'.val] = [kind |-> "fn", fn |-> now.fn, args |-> now.args]

\* A body ends with a value; new ones may have come.
Answer ==
    /\ now = Running /\ bodies # <<>> /\ bodies' = Front(bodies)
    /\ \/ \E v \in Fn \union DOMAIN obj : now' = Given(v, Last(bodies).rest)
       \/ \E v \in DOMAIN obj' \ DOMAIN obj :
              /\ obj'[v].kind \in {"atom", "exn"}
              /\ now' = IF Last(bodies).rest # <<>> /\ obj'[v].kind = "atom"
                        THEN Failing ELSE Returning(v)

\* A body ends in a call.
Become ==
    /\ now = Running /\ now' = Running /\ bodies # <<>>
    /\ Len(bodies') = Len(bodies) /\ Front(bodies') = Front(bodies)
    /\ Last(bodies').rest = Last(bodies).rest
    /\ Last(bodies').fn \in Fn /\ Len(Last(bodies').args) = Arity[Last(bodies').fn]

\* The failure is an exception of its own.
Fail ==
    /\ now = Failing /\ UNCHANGED bodies
    /\ now'.op = "ret" /\ now'.val \in DOMAIN obj' /\ obj'[now'.val].kind = "exn"

\* A body gets the result of its call, or objects come and go.
Take ==
    /\ now.op \in {"ret", "body"} /\ now' = Running /\ UNCHANGED bodies

\* Objects go.
Collect == DOMAIN obj' \subseteq DOMAIN obj /\ UNCHANGED <<bodies, now>>

AbsNext ==
    \/ ObjectsStay /\ (Apply \/ Begin \/ Suspend \/ Answer \/ Become \/ Take \/ Collect)
    \/ (Fail \/ Refuse) /\ NewObject(now'.val)

AbsSpec == AbsInit /\ [][AbsNext]_<<obj, bodies, now>>

=============================================================================
