----------------------------- MODULE CompiledRun -----------------------------
(* The machine (src/vm.c) runs the bytecode of a function beside its tape.    *)
(* Values are numbered in the order in which they come up: what is compared   *)
(* is which values each instruction is given, not what it makes of them.      *)
(* Which branch a test takes is open.                                         *)
EXTENDS Bytecode, FiniteSets

CONSTANTS
    FnBodies,     \* bound: the bodies of the functions
    MaxLoops    \* bound: how often a function calls itself last

VARIABLES
    tape,       \* the tape of the function
    bc,         \* its bytecode
    at,         \* where control is on the tape: block and place, innermost last
    env,        \* the value of each SSA value, 0 if it has none
    exn,        \* what the last CATCH handed over
    did,        \* what the last step on the tape did: instructions with operands
    m,          \* the machine
    loops       \* how often control went back to the entry

vars == <<tape, bc, at, env, exn, did, m, loops>>

-----------------------------------------------------------------------------
(* The machine.  m has                                                        *)
(*   ip, reg, stack, test, exn    its registers; reg has the nreg of the frame *)
(*   next     the number of the next value                                    *)
(*   did      what it did since the last step of the tape                     *)
(*   oracle   how the coming tests end.                                       *)

NewValues(next, n) == [i \in 1..n |-> next + i - 1]

Effect(opc, vals) == <<opc, vals>>
Act(s, opc, vals) == [s EXCEPT !.did = Append(@, Effect(opc, vals)), !.ip = @ + 1]
Store(s, r) == [s EXCEPT !.reg[r] = s.next, !.next = @ + 1]
StoreAll(s, regs) == FoldLeft(Store, s, regs)

ValuesOf(s, insn) == [i \in DOMAIN insn.regs |-> s.reg[insn.regs[i]]]
DoTest(s) ==
    IF s.oracle = <<>> THEN s ELSE [s EXCEPT !.test = Head(s.oracle), !.oracle = Tail(@)]
JumpIf(s, p, insn) == [s EXCEPT !.ip = IF p THEN @ + insn.offs ELSE @ + 1]
SetArgs(s, insn) ==
    [s EXCEPT !.reg = FoldLeft(LAMBDA r, i : [r EXCEPT ![i] = r[insn.regs[i]]],
                               s.reg, [i \in DOMAIN insn.regs |-> i])]

\* Instructions by what they do to the machine; done is s after those that do
\* nothing else, vals the operands.
ExecCall(s, insn, vals) ==
    IF insn.opc = "PUSH" THEN [s EXCEPT !.stack = vals \o @, !.ip = @ + 1]
    ELSE [Store(Act(s, insn.opc, vals \o s.stack), insn.out) EXCEPT !.stack = <<>>]
ExecTest(done, insn) ==
    LET t == DoTest(done)
    IN  IF insn.opc = "UPDTRCRD" /\ t.test THEN Store(t, insn.out) ELSE t
ExecJump(s, insn) == JumpIf(s, insn.opc = "JMP" \/ s.test = (insn.opc = "JNZ"), insn)
ExecLoop(s, done, insn) == [SetArgs(done, insn) EXCEPT !.ip = s.ip + insn.offs]
ExecLoad(s, insn, vals) == Store(Act(s, "LOAD", Append(vals, insn.offs)), insn.out)
ExecExn(s, done, insn, vals) ==
    IF insn.opc = "SETEXN" THEN [done EXCEPT !.exn = vals[1]]
    ELSE [Act(s, "GETEXN", <<>>) EXCEPT !.reg[insn.out] = s.exn]

Exec(s, insn) ==
    LET vals == ValuesOf(s, insn)
        done == Act(s, insn.opc, vals)
    IN
    CASE insn.opc \in {"POP", "CAP", "LDSCP"} ->
            StoreAll(Act(s, insn.opc, <<Len(insn.regs)>>), insn.regs)
      [] insn.opc \in {"PUSH", "APPLY", "APPLYTC"} -> ExecCall(s, insn, vals)
      [] insn.opc \in {"CVAL", "CONS", "FN"} -> Store(done, insn.out)
      [] insn.opc = "LOAD" -> ExecLoad(s, insn, vals)
      [] insn.opc \in {"TEST", "TESTTY", "TESTEQUAL", "UPDTRCRD"} -> ExecTest(done, insn)
      [] insn.opc \in {"JZE", "JNZ", "JMP"} -> ExecJump(s, insn)
      [] insn.opc = "LOOP" -> ExecLoop(s, done, insn)
      [] insn.opc = "DUP" -> [done EXCEPT !.reg[insn.out] = vals[1]]
      [] insn.opc \in {"SETEXN", "GETEXN"} -> ExecExn(s, done, insn, vals)
      [] insn.opc \in {"REF", "DEC", "UNREF", "DROP", "RET"} -> done

Registers(insn) == ({insn.out} \cup Range(insn.regs)) \ {0}

\* The machine runs on until it has done n instructions that can be seen, or it
\* is lost: outside of the code, at a register that the frame does not have, or
\* in a circle of jumps (fuel).
RECURSIVE RunFor(_, _, _, _)
RunFor(code, s, n, fuel) ==
    IF n = 0 THEN s
    ELSE IF \/ fuel = 0
            \/ s.ip \notin DOMAIN code
            \/ ~(Registers(code[s.ip]) \subseteq DOMAIN s.reg)
         THEN Act(s, "LOST", <<>>)
    ELSE LET t == Exec(s, code[s.ip])
         IN  RunFor(code, t, n - (Len(t.did) - Len(s.did)), fuel - 1)

Follow(n, oracle) ==
    m' = RunFor(bc.code, [m EXCEPT !.did = <<>>, !.oracle = oracle], n, Len(bc.code))

-----------------------------------------------------------------------------
(* The tape.  did', env' and m' describe a step. *)

Insn0 == tape.ins[tape.blk[Last(at)[1]][Last(at)[2]]]
Is(tags) == at # <<>> /\ Insn0.tag \in tags
Vals(vs) == [i \in DOMAIN vs |-> env[vs[i]]]
Operands == Vals(IF Insn0.on = 0 THEN Insn0.args ELSE <<Insn0.on>> \o Insn0.args)

RECURSIVE Left(_)
Left(p) ==
    IF p = <<>> THEN p
    ELSE IF Last(p)[2] > Len(tape.blk[Last(p)[1]]) THEN Left(Front(p)) ELSE p
Onward == [at EXCEPT ![Len(at)][2] = @ + 1]
Go == at' = Left(Onward)
Into(k) == at' = Left(Append(Onward, <<k, 1>>))
Do(effects, oracle) == did' = effects /\ Follow(Len(effects), oracle)
Defined(vs) == env' = [v \in DOMAIN env |->
    IF v \in Range(vs) THEN m.next + SelectInSeq(vs, LAMBDA w : w = v) - 1 ELSE env[v]]
Rest == UNCHANGED <<tape, bc, exn, loops>>

LoadValues ==
    /\ Is({"POP", "CAP", "LDSCP"}) /\ Go /\ Rest
    /\ Do(<<Effect(Insn0.tag, <<Len(Insn0.outs)>>)>>, <<>>)
    /\ Defined(Insn0.outs)

Compute ==
    /\ Is({"CVAL", "CONS", "FN", "APPLY"}) /\ Go /\ Rest
    /\ Do(<<Effect(Insn0.tag, Operands)>>, <<>>)
    /\ Defined(<<Insn0.out>>)

\* The callee takes over the frame, or its result comes back.
TailCall ==
    /\ Is({"APPLYTC"}) /\ Rest
    /\ Do(<<Effect("APPLYTC", Operands)>>, <<>>)
    /\ Defined(<<Insn0.out>>)
    /\ Go \/ at' = <<>>

Count ==
    /\ Is({"REF", "DEC", "UNREF", "DROP"}) /\ Go /\ Rest
    /\ Do(<<Effect(Insn0.tag, Operands)>>, <<>>)
    /\ UNCHANGED env

Move ==
    /\ Is({"MOV"}) /\ Go /\ Rest
    /\ Do(<<Effect("DUP", Operands)>>, <<>>)
    /\ env' = [env EXCEPT ![Insn0.out] = Operands[1]]

Silent ==
    /\ Is({"NOP", "CTOR", "TRY"}) /\ Rest
    /\ IF Insn0.tag = "TRY" THEN Into(Insn0.then) ELSE Go
    /\ Do(<<>>, <<>>)
    /\ UNCHANGED env

\* All arguments change at once.
Loop ==
    /\ Is({"LOOP"}) /\ loops < MaxLoops /\ loops' = loops + 1
    /\ Do(<<Effect("LOOP", Operands)>>, <<>>)
    /\ env' = [v \in DOMAIN env |-> IF v \in DOMAIN Operands THEN Operands[v] ELSE env[v]]
    /\ at' = << <<1, tape.entry>> >>
    /\ UNCHANGED <<tape, bc, exn>>

\* The ways a pattern can go: the tests done, their ends, the fields loaded.
RECURSIVE Tries(_, _), TriesAll(_, _, _)
TestOf(w, opc, v) ==
    {[w EXCEPT !.effects = Append(@, Effect(opc, <<w.env[v]>>)), !.oracle = Append(@, ok)] :
        ok \in BOOLEAN}
LoadField(w, p, v, i) ==
    [w EXCEPT !.effects = Append(@, Effect("LOAD", <<w.env[v], i>>)),
              !.env[p.vids[i]] = w.next, !.next = @ + 1]
Passed(w) == \A i \in DOMAIN w.oracle : w.oracle[i]
TriesAll(p, v, ws) ==
    FoldLeft(LAMBDA acc, i :
                UNION {IF Passed(w) THEN Tries(p.subs[i], <<LoadField(w, p, v, i), p.vids[i]>>)
                       ELSE {w} : w \in acc},
             ws, [i \in DOMAIN p.vids |-> i])
Tries(p, on) ==
    CASE p.pat = "DUMMY" -> {on[1]}
      [] p.pat = "CONSTANT" -> TestOf(on[1], "TESTEQUAL", on[2])
      [] p.pat = "UNPACK" -> TriesAll(p, on[2], TestOf(on[1], "TESTTY", on[2]))

Untried == [effects |-> <<>>, oracle |-> <<>>, env |-> env, next |-> m.next]
Outcomes ==
    CASE Insn0.test = "MATCH" -> Tries(Insn0.pat, <<Untried, Insn0.on>>)
      [] Insn0.test = "NOTFALSE" -> TestOf(Untried, "TEST", Insn0.on)
      [] Insn0.test = "TYPE" -> TestOf(Untried, "TESTTY", Insn0.on)
      [] Insn0.test = "UPDATE" ->
            {[Untried EXCEPT !.effects = <<Effect("UPDTRCRD", Operands)>>, !.oracle = <<ok>>,
                             !.env[Insn0.out] = IF ok THEN m.next ELSE @] : ok \in BOOLEAN}

Branch ==
    /\ Is({"IF"}) /\ Rest
    /\ \E w \in Outcomes :
         /\ Do(w.effects, w.oracle)
         /\ env' = w.env
         /\ Into(IF Passed(w) THEN Insn0.then ELSE Insn0.els)

\* Control goes to the handler of the TRY around.
Catch ==
    /\ Is({"CATCH"})
    /\ Do(<<Effect("SETEXN", Operands)>>, <<>>)
    /\ exn' = Operands[1]
    /\ \E i \in DOMAIN tape.ins, d \in DOMAIN at :
         /\ tape.ins[i].tag = "TRY" /\ tape.ins[i].try = Insn0.try
         /\ at[d][1] = tape.ins[i].then
         /\ at' = Append(SubSeq(at, 1, d - 1), <<tape.ins[i].els, 1>>)
    /\ UNCHANGED <<tape, bc, env, loops>>

TakeExn ==
    /\ Is({"GETEXN"}) /\ Go /\ Rest
    /\ Do(<<Effect("GETEXN", <<>>)>>, <<>>)
    /\ env' = [env EXCEPT ![Insn0.out] = exn]

Leaving ==
    /\ Is({"RET"}) /\ Rest
    /\ IF Insn0.args = <<0>> THEN Go /\ Do(<<>>, <<>>)
       ELSE at' = <<>> /\ Do(<<Effect("RET", Operands)>>, <<>>)
    /\ UNCHANGED env

Start(t, b) ==
    /\ tape = t /\ bc = b
    /\ at = << <<1, 1>> >> /\ env = [v \in 1..t.nvals |-> 0] /\ exn = 0 /\ did = <<>> /\ loops = 0
    /\ m = [ip |-> 1, reg |-> [r \in 1..b.nreg |-> 0], stack |-> <<>>, test |-> FALSE, exn |-> 0,
            next |-> 1, did |-> <<>>, oracle |-> <<>>]
Init ==
    \E body \in FnBodies : \E t \in {Compile(body, <<"a", "b">>, <<"f", "c">>, <<"self">>)} :
        \E b \in {BuildBytecode(t)} : Start(t, b)

Next ==
    \/ LoadValues \/ Compute \/ TailCall \/ Count \/ Move \/ Silent \/ Loop \/ Branch \/ Catch
    \/ TakeExn \/ Leaving

Spec == Init /\ [][Next]_vars

-----------------------------------------------------------------------------
(* Properties *)

\* However the tests end, the machine does what the tape says, in that order
\* and with the same values: each jump goes where its branch is, also from and
\* to blocks that were moved behind the code, out of guarded blocks and back to
\* the entry, and each register is in the frame and still holds the value that is
\* read from it.
MachineFollowsTape == m.did = did
===============================================================================
