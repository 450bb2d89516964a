----------------------------- MODULE FunctionRun -----------------------------
(* One call of a compiled function (src/vm.c): the instructions that          *)
(* src/ssa-builder.c emits, run on counted objects.                           *)
(*                                                                            *)
(* Whoever calls hands over arguments.  One with the count 0 belongs to the   *)
(* callee, which gives it back, returns it or keeps it in what it returns;    *)
(* one with a higher count is borrowed.  The function that runs is held to    *)
(* this, and the functions that it calls are assumed to keep to it; they may  *)
(* also let go of references that somebody else holds (an assignment does).   *)
EXTENDS RcInsertion, CountedHeap

CONSTANTS Program,      \* bodies of functions with arguments a, b, captures f (a
                        \* function that is never deleted) and c, that call
                        \* themselves by the name self
          Entry,        \* how a function is called: records [heap, args, cap]
                        \* with objects for a and b, and for c
          MaxLoops      \* bound: how often a function calls itself last

VARIABLES code,         \* the compiled function
          heap,         \* object: its count, kind, fields, and how many of its
                        \* references are held by others
          reg,          \* the registers, one for each SSA value
          pos,          \* where control is: block and place, innermost last
          exn,          \* what SETEXN keeps
          argv,         \* the arguments on the stack
          cap,          \* what the closure that runs captured for c
          loops,        \* how often control went back to the entry
          result,       \* what the function returned
          ub            \* what went wrong

vars == <<code, heap, reg, pos, exn, argv, cap, loops, result, ub>>

\* No register has a value yet; nothing is returned yet.
NoObject == -1

\* A bound on the fields of an object.
MaxFields == 3

TypeOK ==
    /\ \A k \in DOMAIN code.blk : code.blk[k] \in Seq(DOMAIN code.ins)
    /\ heap \in Seq([rc : Nat, kind : {"atom", "pair", "fn", "exn", "freed"},
                     refs : Seq(0 .. Len(heap)), held : Nat])
    /\ reg \in [1 .. code.nvals -> NoObject .. Len(heap)]
    /\ \A d \in DOMAIN pos : pos[d][2] \in DOMAIN code.blk[pos[d][1]] \/ d < Len(pos)
    /\ result \in NoObject .. Len(heap) /\ exn \in 0 .. Len(heap)
    /\ ub \subseteq {"freed", "negative"}

-----------------------------------------------------------------------------
(* Objects.  h is a heap. *)

New(h, kind, refs) == Append(h, [rc |-> 0, kind |-> kind, refs |-> refs, held |-> 0])

-----------------------------------------------------------------------------
(* Control *)

Top == Last(pos)
Block(k) == code.blk[k]
Insn0 == code.ins[Block(Top[1])[Top[2]]]

\* Behind the current instruction; into a branch of it.
Onward(p) == [p EXCEPT ![Len(p)][2] = @ + 1]
Into(k) == Append(Onward(pos), <<k, 1>>)

\* Mutant of Left: there is no jump out of a branch.
LeftNever(p) == p

\* Ends of branches are left.
RECURSIVE Left(_)
Left(p) ==
    IF p = <<>> THEN p
    ELSE IF Last(p)[2] > Len(Block(Last(p)[1])) THEN Left(Front(p)) ELSE p
GoTo(p) == pos' = Left(p)

\* The TRY whose guarded block control is in, and its handler.
Owners(id) == {i \in DOMAIN code.ins : code.ins[i].tag = "TRY" /\ code.ins[i].try = id}
TryOf(id) == CHOOSE i \in Owners(id) : TRUE
Handler(id) ==
    LET guarded == code.ins[TryOf(id)].then
        depth == CHOOSE d \in DOMAIN pos : pos[d][1] = guarded
    IN  Append(SubSeq(pos, 1, depth - 1), <<code.ins[TryOf(id)].els, 1>>)

-----------------------------------------------------------------------------
(* Instructions *)

V(v) == reg[v]
Args(insn) == [i \in DOMAIN insn.args |-> V(insn.args[i])]
Set(v, o) == [reg EXCEPT ![v] = o]

\* Objects an instruction looks at must not have been freed.
Touch(os) == ub' = ub \union (IF \E o \in os : Dead(heap, o) THEN {"freed"} ELSE {})

Is(tag) == ub = {} /\ pos # <<>> /\ Insn0.tag = tag
Go == GoTo(Onward(pos))
Rest == UNCHANGED <<code, exn, argv, cap, loops, result>>

Pop ==
    /\ Is("POP") /\ Go /\ Rest
    /\ reg' = [v \in DOMAIN reg |-> IF v \in Range(Insn0.outs) THEN argv[v] ELSE reg[v]]
    /\ UNCHANGED <<heap, ub>>

Cap ==
    /\ Is("CAP") /\ Go /\ Rest
    /\ reg' = [reg EXCEPT ![Insn0.outs[1]] = Const, ![Insn0.outs[2]] = cap]
    /\ UNCHANGED <<heap, ub>>

Ldscp ==
    /\ Is("LDSCP") /\ Go /\ Rest
    /\ reg' = Set(Insn0.outs[1], Const)
    /\ UNCHANGED <<heap, ub>>

Cval ==
    /\ Is("CVAL") /\ Go /\ Rest
    /\ reg' = Set(Insn0.out, Const)
    /\ UNCHANGED <<heap, ub>>

NopStep ==
    /\ Is("NOP") \/ Is("CTOR")
    /\ Go /\ Rest /\ UNCHANGED <<heap, reg, ub>>

\* A function that keeps to the contract references its arguments (eth_arg).
\* While it runs, somebody else may let go of an object, but not the closure
\* that called it of what that captured.
Others(h, o) == h[o].held - (IF o = cap THEN 1 ELSE 0)
LetGo(h) ==
    {h} \union {Release([h EXCEPT ![o].held = @ - 1], <<o>>) :
                    o \in {x \in DOMAIN h : h[x].kind # "freed" /\ Others(h, x) > 0}}

\* It returns something new, an argument, an exception, or an object that holds
\* its arguments.
Outcomes(h, os) ==
    {[heap |-> GiveBack(New(h, kind, <<>>), os, Len(h) + 1), ret |-> Len(h) + 1] :
        kind \in {"atom", "exn"}}
    \union {[heap |-> GiveBack(h, os, o), ret |-> o] : o \in Range(os)}
    \union {[heap |-> GiveBack(IncAll(New(h, IF Len(os) = 2 THEN "pair" ELSE "fn", os), os),
                              os, Len(h) + 1), ret |-> Len(h) + 1]}
Calls(os) == UNION {Outcomes(h, os) : h \in LetGo(IncAll(heap, os))}

\* The tracer that write_throw calls: a shared exception is copied.
Trace(h, e) ==
    IF e # Const /\ h[e].rc = 0 THEN [heap |-> h, ret |-> e]
    ELSE LET refs == IF e = Const THEN <<>> ELSE h[e].refs
         IN  [heap |-> New(IncAll(h, refs), "exn", refs), ret |-> Len(h) + 1]

Callee(insn) == IF insn.on = 0 THEN Const ELSE V(insn.on)

ApplyStep ==
    /\ Is("APPLY") /\ Go /\ Rest
    /\ Touch(Range(Args(Insn0)) \union {Callee(Insn0)})
    /\ \E r \in IF Insn0.on = 0 THEN {Trace(heap, Args(Insn0)[1])}
                ELSE Calls(Args(Insn0)) :
           heap' = r.heap /\ reg' = Set(Insn0.out, r.ret)

\* The frame is reused if the callee fits in it: then its result is ours.
ApplyTc ==
    /\ Is("APPLYTC")
    /\ Touch(Range(Args(Insn0)) \union {Callee(Insn0)})
    /\ \E r \in Calls(Args(Insn0)) :
         /\ heap' = r.heap
         /\ \/ Go /\ Rest /\ reg' = Set(Insn0.out, r.ret)
            \/ pos' = <<>> /\ result' = r.ret /\ UNCHANGED <<code, exn, argv, cap, loops, reg>>

\* The registers of the arguments, which are the first, are set one by one.
LoopStep ==
    /\ Is("LOOP") /\ loops < MaxLoops
    /\ loops' = loops + 1
    /\ reg' = FoldLeft(LAMBDA r, i : [r EXCEPT ![i] = r[Insn0.args[i]]],
                       reg, [i \in DOMAIN Insn0.args |-> i])
    /\ pos' = << <<1, code.entry>> >>
    /\ UNCHANGED <<code, heap, exn, argv, cap, result, ub>>

Kind(o) == IF o = Const THEN "atom" ELSE heap[o].kind

\* The tests of a pattern: whether o matches, and the registers with the parts
\* loaded until then; nothing is counted yet.  Any object may be a constant.
RECURSIVE Tries(_, _, _), TriesAll(_, _, _, _)
TriesAll(p, o, i, r) ==
    IF i > Len(p.vids) THEN {[ok |-> TRUE, reg |-> r]}
    ELSE UNION {IF t.ok THEN TriesAll(p, o, i + 1, t.reg) ELSE {t} :
                    t \in Tries(p.subs[i], heap[o].refs[i],
                                [r EXCEPT ![p.vids[i]] = heap[o].refs[i]])}
Tries(p, o, r) ==
    CASE p.pat = "DUMMY" -> {[ok |-> TRUE, reg |-> r]}
      [] p.pat = "CONSTANT" -> {[ok |-> ok, reg |-> r] : ok \in BOOLEAN}
      [] p.pat = "UNPACK" ->
            IF Kind(o) = "pair" THEN TriesAll(p, o, 1, r) ELSE {[ok |-> FALSE, reg |-> r]}

Branch(k) == GoTo(Into(k)) /\ UNCHANGED <<heap, reg>>

IfStep ==
    /\ Is("IF") /\ Rest
    /\ Touch({V(Insn0.on)})
    /\ CASE Insn0.test = "NOTFALSE" -> Branch(Insn0.then) \/ Branch(Insn0.els)
         [] Insn0.test = "TYPE" ->
              Branch(IF Kind(V(Insn0.on)) = "exn" THEN Insn0.then ELSE Insn0.els)
         [] Insn0.test = "MATCH" ->
              \E t \in Tries(Insn0.pat, V(Insn0.on), reg) :
                 GoTo(Into(IF t.ok THEN Insn0.then ELSE Insn0.els)) /\ reg' = t.reg /\ UNCHANGED heap
         [] Insn0.test = "UPDATE" ->
              IF Kind(V(Insn0.on)) # "pair" THEN Branch(Insn0.els)
              ELSE \E refs \in {<<V(Insn0.args[1])>> \o Tail(heap[V(Insn0.on)].refs)} :
                     /\ heap' = Inc(New(IncAll(heap, refs), "pair", refs), Len(heap) + 1)
                     /\ reg' = Set(Insn0.out, Len(heap) + 1)
                     /\ GoTo(Into(Insn0.then))

TryStep ==
    /\ Is("TRY") /\ Rest /\ GoTo(Into(Insn0.then)) /\ UNCHANGED <<heap, reg, ub>>

CatchStep ==
    /\ Is("CATCH")
    /\ exn' = Args(Insn0)[1] /\ pos' = Handler(Insn0.try)
    /\ UNCHANGED <<code, heap, reg, argv, cap, loops, result, ub>>

GetExnStep ==
    /\ Is("GETEXN") /\ Go /\ Rest
    /\ reg' = Set(Insn0.out, exn) /\ UNCHANGED <<heap, ub>>

Mov ==
    /\ Is("MOV") /\ Go /\ Rest
    /\ reg' = Set(Insn0.out, Args(Insn0)[1]) /\ UNCHANGED <<heap, ub>>

Make ==
    /\ Is("CONS") \/ Is("FN")
    /\ Go /\ Rest
    /\ heap' = New(heap, IF Insn0.tag = "CONS" THEN "pair" ELSE "fn", Args(Insn0))
    /\ reg' = Set(Insn0.out, Len(heap) + 1)
    /\ UNCHANGED ub

\* REF, DEC, UNREF, DROP of an object that is gone, or a count below 0.
Count ==
    LET o == Args(Insn0)[1]
        wrong == IF Dead(heap, o) THEN {"freed"}
                 ELSE IF o # Const /\ Insn0.tag \in {"DEC", "UNREF"} /\ heap[o].rc = 0
                 THEN {"negative"} ELSE {}
    IN  /\ Is("REF") \/ Is("DEC") \/ Is("UNREF") \/ Is("DROP")
        /\ Go /\ Rest /\ UNCHANGED reg
        /\ ub' = ub \union wrong
        /\ heap' = IF wrong # {} THEN heap
                   ELSE CASE Insn0.tag = "REF" -> Inc(heap, o)
                          [] Insn0.tag = "DEC" -> Decr(heap, o)
                          [] Insn0.tag = "UNREF" -> Release(heap, <<o>>)
                          [] Insn0.tag = "DROP" -> Dropped(heap, o)

Ret ==
    /\ Is("RET")
    /\ IF Insn0.args = <<0>> THEN Go /\ UNCHANGED <<result, ub>>
       ELSE pos' = <<>> /\ result' = Args(Insn0)[1] /\ Touch({Args(Insn0)[1]})
    /\ UNCHANGED <<code, heap, reg, exn, argv, cap, loops>>

Init ==
    \E body \in Program : \E c \in {Compile(body, <<"a", "b">>, <<"f", "c">>, <<"self">>)} :
      \E e \in Entry :
        /\ code = c /\ heap = e.heap /\ argv = e.args /\ cap = e.cap
        /\ reg = [v \in 1 .. c.nvals |-> NoObject]
        /\ pos = << <<1, 1>> >> /\ exn = Const /\ loops = 0 /\ result = NoObject /\ ub = {}

Next ==
    \/ Pop \/ Cap \/ Ldscp \/ LoopStep \/ Cval \/ NopStep \/ ApplyStep \/ ApplyTc \/ IfStep \/ TryStep
    \/ CatchStep \/ GetExnStep \/ Mov \/ Make \/ Count \/ Ret

Spec == Init /\ [][Next]_vars

-----------------------------------------------------------------------------
(* Properties *)

\* No instruction touches an object after its last reference is gone, and no
\* count goes below 0.
NoUseAfterFree == ub \intersect {"freed", "negative"} = {}

References(o) ==
    heap[o].held + Cardinality({<<p, i>> \in (DOMAIN heap) \X (1 .. MaxFields) :
                                    i \in DOMAIN heap[p].refs /\ heap[p].refs[i] = o})

\* The contract: control leaves the code with a result, and then every count is
\* the number of references there are, and an object without any is the result.
Balanced ==
    pos = <<>> /\ ub = {} =>
        /\ result # NoObject
        /\ \A o \in DOMAIN heap : heap[o].kind # "freed" =>
             /\ heap[o].rc = References(o)
             /\ heap[o].rc = 0 => o = result

=============================================================================
