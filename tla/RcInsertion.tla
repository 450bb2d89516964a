----------------------------- MODULE RcInsertion -----------------------------
(* Insertion of reference counting (insert_rc in src/ssa-builder.c): for each *)
(* value the last user on every path is found; there the reference is handed  *)
(* on (DEC), moved into what is made, or given back (UNREF).  A value without *)
(* a user is dropped where it is created.                                     *)
(*                                                                            *)
(* The state is that of the builder, with                                     *)
(*   killers   the pairs of a value and an instruction that ends its life     *)
(*   killed    whether the last search found an end.                          *)
EXTENDS SsaBuilder

Ref(v) == Insn("REF", 0, <<v>>)
Dec(v) == Insn("DEC", 0, <<v>>)
Unref(v) == Insn("UNREF", 0, <<v>>)
Drop(v) == Insn("DROP", 0, <<v>>)

Killed(r, v, i) == [r EXCEPT !.killers = @ \union {<<v, i>>}, !.killed = TRUE]
Found(r) == [r EXCEPT !.killed = TRUE]
NotFound(r) == [r EXCEPT !.killed = FALSE]

\* force_kill, at the head of a branch; UNREF after an instruction.
ForceKill(r, ids, v) == Killed(InsertBefore(r, Head(ids), Unref(v)), v, Len(r.ins) + 1)
UnrefAfter(r, i, v) == Killed(InsertAfter(r, i, Unref(v)), v, Len(r.ins) + 1)

\* The end of kill_value_T: the value ends at its last user u.
EndAt(r, u, v) ==
    IF Kills(r, u, v) THEN Killed(InsertBefore(r, u, Dec(v)), v, u)
    ELSE IF Moves(r, u, v) THEN Killed(r, v, u)
    ELSE IF Tag(r, u) = "IF"
    THEN ForceKill(ForceKill(r, Then(r, u), v), Else(r, u), v)
    ELSE UnrefAfter(r, u, v)

EndAtLast(r, users, v) == IF users = <<>> THEN NotFound(r) ELSE EndAt(r, Last(users), v)

RECURSIVE KillT(_, _, _), KillF(_, _, _)

\* A branch that leaves must end the value; in one that goes on, only the
\* branches inside it that leave must (the value is needed afterwards).
Force(r, ids, v) == IF r.killed THEN r ELSE ForceKill(r, ids, v)

\* Mutant of EndWhereLeaving: branches that leave are forgotten.
EndWhereLeavingNot(r, ids, v) == IF DeadEnd(r, ids) THEN KillT(r, ids, v) ELSE KillF(r, ids, v)

EndWhereLeaving(r, ids, v) ==
    IF DeadEnd(r, ids) THEN Force(KillT(r, ids, v), ids, v) ELSE KillF(r, ids, v)

\* kill_value_F
KillF(r, ids, v) ==
    IF ids = <<>> THEN r
    ELSE CASE Tag(r, Head(ids)) = "IF" ->
                KillF(EndWhereLeaving(EndWhereLeaving(r, Then(r, Head(ids)), v),
                                      Else(r, Head(ids)), v), Tail(ids), v)
           [] Tag(r, Head(ids)) = "TRY" ->
                KillF(EndWhereLeaving(r, Else(r, Head(ids)), v), Tail(ids), v)
           [] OTHER -> KillF(r, Tail(ids), v)

\* kill_value_T_if: after the IF if it is used there, or else in both branches.
EvenElse(r, i, v, inThen) ==
    IF inThen /\ ~r.killed THEN ForceKill(r, Else(r, i), v)
    ELSE IF ~inThen /\ r.killed THEN ForceKill(r, Then(r, i), v)
    ELSE r
EvenThen(r, i, v) == EvenElse(KillT(r, Else(r, i), v), i, v, r.killed)
KillInBoth(r, i, v) == EvenThen(KillT(r, Then(r, i), v), i, v)
KillAfterIf(r, i, v) ==
    IF r.killed
    THEN Found(EndWhereLeaving(EndWhereLeaving(r, Then(r, i), v), Else(r, i), v))
    ELSE KillInBoth(r, i, v)
KillIf(r, i, next, v) ==
    IF DeadEnd(r, Then(r, i)) /\ DeadEnd(r, Else(r, i)) THEN KillInBoth(r, i, v)
    ELSE KillAfterIf(KillT(r, next, v), i, v)

\* kill_value_T_try: after the TRY, or in the handler and then at the end of
\* the guarded block, or in the guarded block.
KillInTry(r, i, v) ==
    IF r.killed THEN UnrefAfter(r, Last(Then(r, i)), v) ELSE KillT(r, Then(r, i), v)

\* Mutant of KillAfterTry: the handler ends the value even if it goes on.
EndInHandler(r, i, v) ==
    IF r.killed THEN Found(Force(NotFound(r), Else(r, i), v))
    ELSE KillInTry(KillT(r, Else(r, i), v), i, v)

KillAfterTry(r, i, v) ==
    IF r.killed THEN Found(EndWhereLeaving(r, Else(r, i), v))
    ELSE KillInTry(KillT(r, Else(r, i), v), i, v)

\* kill_value_T: the search in a list of instructions stops at the first IF or
\* TRY, which looks at what follows itself, or at the end of control.
OrAt(r, users, v) == IF r.killed THEN r ELSE EndAtLast(r, users, v)
Stops(r, i) == Tag(r, i) \in {"IF", "TRY"} \/ Ends(r, i)
Reached(r, ids) ==
    IF \E j \in DOMAIN ids : Stops(r, ids[j])
    THEN SubSeq(ids, 1, SelectInSeq(ids, LAMBDA i : Stops(r, i))) ELSE ids
Search(r, seen, next, users, v) ==
    IF seen = <<>> THEN NotFound(r)
    ELSE CASE Tag(r, Last(seen)) = "IF" -> OrAt(KillIf(r, Last(seen), next, v), users, v)
           [] Tag(r, Last(seen)) = "TRY" ->
                OrAt(KillAfterTry(KillT(r, next, v), Last(seen), v), users, v)
           [] OTHER -> EndAtLast(r, users, v)
KillT(r, ids, v) ==
    Search(r, Reached(r, ids), SubSeq(ids, Len(Reached(r, ids)) + 1, Len(ids)),
           SelectSeq(Reached(r, ids), LAMBDA i : Uses(r, i, v)), v)

-----------------------------------------------------------------------------
\* insert_rc_default.  Values created by one instruction: the code of the later
\* one comes first.
RefOrDrop(r, i, v) == InsertAfter(r, i, IF r.killed THEN Ref(v) ELSE Drop(v))
RcDefault(r, v) == RefOrDrop(KillT(r, From(r, r.loc[v]), v), r.loc[v], v)

\* insert_rc_phi: a value nobody uses is given back in each branch, after the
\* MOV that makes it; there is none in the branches of an UPDATE.
MovIn(r, ids, v) == SelectSeq(ids, LAMBDA i : Tag(r, i) = "MOV" /\ r.ins[i].out = v)
UnrefUnlessKilled(r, i, v) == IF r.killed THEN r ELSE UnrefAfter(r, i, v)
RcBranch(r, movs, v) ==
    IF movs = <<>> THEN r
    ELSE UnrefUnlessKilled(KillT(r, Behind(r, Head(movs)), v), Head(movs), v)
RcBranches(r, i, v) ==
    IF r.killed THEN r
    ELSE LET first == RcBranch(r, MovIn(r, Then(r, i), v), v)
         IN  RcBranch(first, MovIn(first, Else(first, i), v), v)
RcPhi(r, v) == RcBranches(KillT(r, Behind(r, r.loc[v]), v), r.loc[v], v)

\* insert_rc_unref
RcUnref(r, v) == UnrefUnlessKilled(KillT(r, Behind(r, r.loc[v]), v), r.loc[v], v)

RECURSIVE RcValues(_, _)
RcValues(r, v) ==
    IF v > Len(r.rules) THEN r
    ELSE RcValues(CASE r.rules[v] = "DEFAULT" -> RcDefault(r, v)
                    [] r.rules[v] = "PHI" -> RcPhi(r, v)
                    [] r.rules[v] = "UNREF" -> RcUnref(r, v)
                    [] r.rules[v] = "DISABLE" -> r, v + 1)

\* handle_movs: what is made needs a reference of its own, except that the first
\* occurrence of a value whose life ends there gives its own.
NeedsRef(r, mov, n) ==
    LET vids == r.ins[mov].args
        v == vids[n]
    IN  \/ r.rules[v] = "DISABLE"
        \/ <<v, mov>> \notin r.killers
        \/ \E m \in 1 .. n - 1 : vids[m] = v

RECURSIVE HandleMov(_, _, _), HandleMovs(_, _)
HandleMov(r, mov, n) ==
    IF n > Len(r.ins[mov].args) THEN r
    ELSE IF NeedsRef(r, mov, n)
    THEN HandleMov(InsertBefore(r, mov, Ref(r.ins[mov].args[n])), mov, n + 1)
    ELSE HandleMov(r, mov, n + 1)
HandleMovs(r, movs) ==
    IF movs = <<>> THEN r ELSE HandleMovs(HandleMov(r, Head(movs), 1), Tail(movs))

InsertRc(b) ==
    HandleMovs(RcValues(b @@ [killers |-> {}, killed |-> FALSE], 1), b.movs)

\* The code of a function: what a call executes.  A self-call enters it again
\* behind the instructions that load arguments and captures.
Compile(body, args, caps, scps) ==
    LET r == InsertRc(BuildBody(body, args, caps, scps))
    IN  [ins |-> r.ins, blk |-> r.blk, nvals |-> Len(r.rules), ntries |-> r.ntries,
         entry |-> PlaceOf(r, r.last) + 1]

=============================================================================
