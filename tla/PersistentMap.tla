---------------------------- MODULE PersistentMap ----------------------------
(* What src/rbtree.c promises: every handle is a map of its own.  `set` never *)
(* touches its argument; its result takes a handle that is free, or the       *)
(* handle of the argument when the program forgets that one.                  *)
(*                                                                            *)
(* Each step is one call, and its effect is that of this call with these      *)
(* arguments: a step that does something else, or nothing, is none of this    *)
(* specification.                                                             *)
EXTENDS Naturals

CONSTANTS Handle, Key, Payload, Free

VARIABLES content,      \* of each handle: a function on some keys, or Free
          call          \* the last call: what was asked for and came of it
                        \* (did), and turn, which changes with every call

MapInit ==
    /\ content = [h \in Handle |-> Free]
    /\ call = [turn |-> 0, did |-> [op |-> "none"]]

NoEntries == [k \in {} |-> 0]

With(map, x) == [j \in DOMAIN map \union {x[1]} |-> IF j = x[1] THEN x[2] ELSE map[j]]

\* The calls w that take contents c to contents d.
Create(c, d, w) ==
    /\ w.op = "create" /\ c[w.to] = Free
    /\ d = [c EXCEPT ![w.to] = NoEntries]

Forget(c, d, w) ==
    /\ w.op = "forget" /\ c[w.of] # Free
    /\ d = [c EXCEPT ![w.of] = Free]

\* The keys of the argument that cannot be compared with.
Obstacles(c, w) == w.broken \intersect DOMAIN c[w.of]

Set(c, d, w) ==
    /\ w.op = "set" /\ ~w.threw
    /\ w.entry \in Key \X Payload /\ w.entry[1] \notin Obstacles(c, w)
    /\ c[w.of] # Free /\ (w.to = w.of \/ c[w.to] = Free)
    /\ d = [c EXCEPT ![w.to] = With(c[w.of], w.entry)]

\* It throws only where a comparison does, and changes nothing then.
SetThrows(c, d, w) ==
    /\ w.op = "set" /\ w.threw
    /\ c[w.of] # Free /\ Obstacles(c, w) # {}
    /\ d = c

\* A refinement computes its contents from a tree: each is bound once.
MapNext ==
    /\ call'.turn = 1 - call.turn
    /\ \E c \in {content}, d \in {content'}, w \in {call'.did} :
           Create(c, d, w) \/ Forget(c, d, w) \/ Set(c, d, w) \/ SetThrows(c, d, w)

MapSpec == MapInit /\ [][MapNext]_<<content, call>>

=============================================================================
