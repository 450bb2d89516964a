--------------------------- MODULE PersistentSeq ----------------------------
(* What src/vector.c promises: every handle is a sequence of its own.  The   *)
(* persistent operations leave their argument as it was and give their       *)
(* result a new handle; the mutable ones change the handle they are given.   *)
(*                                                                           *)
(* Each step is one call, and its effect is that of this call with these     *)
(* arguments: a step that does something else, or nothing, is none of this   *)
(* specification.                                                            *)
EXTENDS Naturals, Sequences

CONSTANTS Handle, Value, Free

VARIABLES content,      \* of each handle: a sequence of values, or Free
          call          \* the last call: what was asked for (did), and turn,
                        \* which changes with every call

SeqInit ==
    /\ content = [h \in Handle |-> Free]
    /\ call = [turn |-> 0, did |-> [op |-> "none"]]

\* The calls w that take contents c to contents d.
Create(c, d, w) ==
    /\ w.op = "create" /\ c[w.to] = Free
    /\ d = [c EXCEPT ![w.to] = <<>>]

Forget(c, d, w) ==
    /\ w.op = "forget" /\ c[w.of] # Free
    /\ d = [c EXCEPT ![w.of] = Free]

\* The result goes to the handle of the argument or to a free one.
HasPlace(c, w) == c[w.of] # Free /\ (w.to = w.of \/ c[w.to] = Free)

Push(c, d, w) ==
    /\ w.op = "push" /\ HasPlace(c, w) /\ w.value \in Value
    /\ d = [c EXCEPT ![w.to] = Append(c[w.of], w.value)]

Insert(c, d, w) ==
    /\ w.op = "insert" /\ HasPlace(c, w) /\ w.value \in Value
    /\ w.at \in 0 .. Len(c[w.of]) - 1
    /\ d = [c EXCEPT ![w.to] = [c[w.of] EXCEPT ![w.at + 1] = w.value]]

\* A refinement computes its contents from a tree: each is bound once.
SeqNext ==
    /\ call'.turn = 1 - call.turn
    /\ \E c \in {content}, d \in {content'}, w \in {call'.did} :
           Create(c, d, w) \/ Forget(c, d, w) \/ Push(c, d, w) \/ Insert(c, d, w)

SeqSpec == SeqInit /\ [][SeqNext]_<<content, call>>

=============================================================================
