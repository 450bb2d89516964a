------------------------------- MODULE SsaTape -------------------------------
(* Instructions and tapes (src/insn.c, src/ssa-tape.c).  A tape is a tree of  *)
(* blocks: the body, and the branches that IF and TRY instructions own.       *)
(*                                                                            *)
(* An instruction is named by its place in t.ins, a block by its place in     *)
(* t.blk; t.blk[k] is the list of the instructions of block k.  SSA values    *)
(* are numbers from 1, and 0 stands for no value (-1 in the code).            *)
EXTENDS Naturals, Sequences, SequencesExt

\* out, outs: the values it defines; on: the function, or the value tested;
\* args: the other values it reads; then, els: the branches; try: which TRY;
\* pat: the pattern of a match; likely: 1 (-1) if the first (second) branch is.
Dummy == [pat |-> "DUMMY"]
Insn(tag, on, args) ==
    [tag |-> tag, test |-> "", out |-> 0, outs |-> <<>>, on |-> on, args |-> args,
     then |-> 0, els |-> 0, try |-> 0, pat |-> Dummy, likely |-> 0]

\* A NOP before which nothing may be inserted (ETH_IFLAG_NOBEFORE).
Ctor == Insn("CTOR", 0, <<>>)
Nop == Insn("NOP", 0, <<>>)

If(test, on, then, els) ==
    [Insn("IF", on, <<>>) EXCEPT !.test = test, !.then = then, !.els = els]

Tag(t, i) == t.ins[i].tag
Then(t, i) == t.blk[t.ins[i].then]
Else(t, i) == t.blk[t.ins[i].els]

NewBlock(t) == [t EXCEPT !.blk = Append(@, <<>>)]

\* eth_write_insn: at the end of a block.
Write(t, k, insn) ==
    [t EXCEPT !.ins = Append(@, insn), !.blk[k] = Append(@, Len(t.ins) + 1)]

BlockOf(t, i) == CHOOSE k \in DOMAIN t.blk : i \in Range(t.blk[k])
PlaceOf(t, i) == SelectInSeq(t.blk[BlockOf(t, i)], LAMBDA j : j = i)

\* The rest of its block from an instruction on, and after it (insn->next).
From(t, i) == SubSeq(t.blk[BlockOf(t, i)], PlaceOf(t, i), Len(t.blk[BlockOf(t, i)]))
Behind(t, i) == Tail(From(t, i))

InsertAtPlace(t, k, place, insn) ==
    [t EXCEPT !.ins = Append(@, insn), !.blk[k] = InsertAt(@, place, Len(t.ins) + 1)]

\* eth_insert_insn_after, eth_insert_insn_before
InsertAfter(t, i, insn) == InsertAtPlace(t, BlockOf(t, i), PlaceOf(t, i) + 1, insn)

InsertBefore(t, i, insn) ==
    IF Tag(t, i) = "CTOR" THEN InsertAfter(t, i, insn)
    ELSE InsertAtPlace(t, BlockOf(t, i), PlaceOf(t, i), insn)

\* is_using
Uses(t, i, v) ==
    LET insn == t.ins[i]
    IN  \/ v \in Range(insn.args)
        \/ v = insn.on /\ insn.tag \in {"APPLY", "APPLYTC", "IF"}
        \/ v = insn.out /\ insn.tag = "MOV"

\* is_killing: the reference goes to whom the value is handed.
Kills(t, i, v) ==
    Tag(t, i) \in {"APPLY", "APPLYTC", "LOOP", "RET"} /\ v \in Range(t.ins[i].args)

\* is_moving: the reference goes into the object, or value, that is made.
Moves(t, i, v) == Tag(t, i) \in {"MOV", "FN", "CATCH", "CONS"} /\ v \in Range(t.ins[i].args)

\* is_end
Ends(t, i) == Tag(t, i) \in {"RET", "CATCH", "LOOP"}

\* is_dead_end: control does not come out of a list of instructions.  The
\* first IF decides, together with what follows it.
RECURSIVE DeadEnd(_, _)
DeadEnd(t, ids) ==
    IF ids = <<>> THEN FALSE
    ELSE IF Tag(t, Head(ids)) = "IF"
    THEN \/ DeadEnd(t, Then(t, Head(ids))) /\ DeadEnd(t, Else(t, Head(ids)))
         \/ DeadEnd(t, Tail(ids))
    ELSE Ends(t, Head(ids)) \/ DeadEnd(t, Tail(ids))

=============================================================================
