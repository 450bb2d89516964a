------------------------------- MODULE Bytecode -------------------------------
(* Translation of the tape of a function into bytecode (src/bytecode.c): SSA  *)
(* values get registers, branches become tests and jumps, and blocks that are *)
(* unlikely are put behind the rest of the code.                              *)
(*                                                                            *)
(* Positions and registers are numbered from 1.  An instruction that jumps    *)
(* has the distance (offs); all jumps of the machine are relative.  c is the  *)
(* state of the builder:                                                      *)
(*   arr      the code so far                                                 *)
(*   vmap     the register of each SSA value, 0 if it has none yet            *)
(*   regcnt   the number of registers                                         *)
(*   deff     blocks to be added, each with the jump to it (jmppos) and where *)
(*            to return (retpos)                                              *)
(*   cchjmps  the jumps to handlers, catches where these are                  *)
(*   entry    where a self-call enters, 0 if that is not known yet.           *)
EXTENDS RcInsertion, Integers

BcInsn(opc, out, regs) == [opc |-> opc, out |-> out, regs |-> regs, offs |-> 0]
AppendInsn(c, insn) == [c EXCEPT !.arr = Append(@, insn)]
Put(c, opc, out, regs) == AppendInsn(c, BcInsn(opc, out, regs))
Jump(c, opc) == Put(c, opc, 0, <<>>)
Here(c) == Len(c.arr)
SetOffs(c, pos, offs) == [c EXCEPT !.arr[pos].offs = offs]

NewReg(c, v) == [c EXCEPT !.vmap[v] = c.regcnt + 1, !.regcnt = @ + 1]
NewRegs(c, vs) == FoldLeft(NewReg, c, vs)
Reg(c, v) == c.vmap[v]
Regs(c, vs) == [i \in DOMAIN vs |-> Reg(c, vs[i])]

\* The register of the result comes before those of the operands are looked up.
PutNew(c, opc, v, operands) ==
    LET d == NewReg(c, v) IN Put(d, opc, Reg(d, v), Regs(d, operands))

\* The arguments of a call are pushed, the last one first.
Pushed(c, args) ==
    FoldRight(LAMBDA v, d : Put(d, "PUSH", 0, <<Reg(d, v)>>), args, c)

-----------------------------------------------------------------------------
(* Tests.  t.jmps are the jumps that are taken when a test fails. *)

Tested(c, jmps) == [c |-> c, jmps |-> jmps]
TestInsn(c, jmps, opc, reg) ==
    Tested(Jump(Put(c, opc, 0, <<reg>>), "JZE"), Append(jmps, Here(c) + 2))

RECURSIVE TestPattern(_, _, _, _), TestFields(_, _, _, _)
TestFields(t, p, reg, i) ==
    IF i > Len(p.vids) THEN t
    ELSE LET c == NewReg(t.c, p.vids[i])
             load == [BcInsn("LOAD", Reg(c, p.vids[i]), <<reg>>) EXCEPT !.offs = i]
         IN  TestFields(TestPattern(AppendInsn(c, load), t.jmps, p.subs[i], Reg(c, p.vids[i])),
                        p, reg, i + 1)
TestPattern(c, jmps, p, reg) ==
    CASE p.pat = "DUMMY" -> Tested(c, jmps)
      [] p.pat = "CONSTANT" -> TestInsn(c, jmps, "TESTEQUAL", reg)
      [] p.pat = "UNPACK" -> TestFields(TestInsn(c, jmps, "TESTTY", reg), p, reg, 1)

-----------------------------------------------------------------------------
(* Branches *)

Defer(c, jmp, block) ==
    [c EXCEPT !.deff = Append(@, [jmppos |-> jmp, retpos |-> Here(c), block |-> block])]

RECURSIVE Code(_, _, _), CodeInsn(_, _, _)

\* Both branches in line; the first one jumps over the second.
\* Mutant of InLine: failing tests jump to the jump.
InLineShort(t, c, jmps, insn) ==
    LET then == Code(t, c, insn.then)
        sep == Here(then) + 1
        els == Code(t, Jump(then, "JMP"), insn.els)
    IN  SetOffs(FoldLeft(LAMBDA d, j : SetOffs(d, j, sep - j), els, jmps),
                sep, Here(els) + 1 - sep)
InLine(t, c, jmps, insn) ==
    LET then == Code(t, c, insn.then)
        sep == Here(then) + 1
        els == Code(t, Jump(then, "JMP"), insn.els)
    IN  SetOffs(FoldLeft(LAMBDA d, j : SetOffs(d, j, sep - j + 1), els, jmps),
                sep, Here(els) + 1 - sep)

\* The other branch is added once for every test that may fail.
DeferElse(t, c, jmps, insn) ==
    FoldLeft(LAMBDA d, j : Defer(d, j, insn.els), Code(t, c, insn.then), jmps)

CodeMatch(t, c, jmps, insn) ==
    IF jmps = <<>> THEN Code(t, c, insn.then)
    ELSE IF insn.likely > 0 THEN DeferElse(t, c, jmps, insn)
    ELSE InLine(t, c, jmps, insn)

CodeTest(t, c, insn) ==
    LET jmp == Here(c) + 1
    IN  IF insn.likely < 0
        THEN Defer(Code(t, Jump(c, "JNZ"), insn.els), jmp, insn.then)
        ELSE IF insn.likely > 0 THEN DeferElse(t, Jump(c, "JZE"), <<jmp>>, insn)
        ELSE InLine(t, Jump(c, "JZE"), <<jmp>>, insn)

CodeIf(t, c, insn) ==
    CASE insn.test = "NOTFALSE" -> CodeTest(t, Put(c, "TEST", 0, <<Reg(c, insn.on)>>), insn)
      [] insn.test = "TYPE" -> CodeTest(t, Put(c, "TESTTY", 0, <<Reg(c, insn.on)>>), insn)
      [] insn.test = "UPDATE" ->
            CodeTest(t, Put(c, "UPDTRCRD", Reg(c, insn.out), Regs(c, <<insn.on>> \o insn.args)), insn)
      [] insn.test = "MATCH" ->
            LET p == TestPattern(c, <<>>, insn.pat, Reg(c, insn.on))
            IN  CodeMatch(t, p.c, p.jmps, insn)

\* The guarded block jumps over the handler.
CodeTry(t, c, insn) ==
    LET guarded == Code(t, c, insn.then)
        handler == Code(t, Jump(guarded, "JMP"), insn.els)
        jmp == Here(guarded) + 1
    IN  [SetOffs(handler, jmp, Here(handler) + 1 - jmp) EXCEPT !.catches[insn.try] = jmp + 1]
CodeCatch(c, insn) ==
    LET d == Jump(Put(c, "SETEXN", 0, Regs(c, insn.args)), "JMP")
    IN  [d EXCEPT !.cchjmps = Append(@, [pos |-> Here(d), try |-> insn.try])]

-----------------------------------------------------------------------------
(* build *)

\* A joined value gets its register before the branches are built.
WithPhi(c, insn) == IF insn.out = 0 THEN c ELSE NewReg(c, insn.out)

\* The place to start from when the function calls itself.
CodeLoop(c, insn) ==
    SetOffs(Put(c, "LOOP", 0, Regs(c, insn.args)), Here(c) + 1, c.entry - (Here(c) + 1))
CodeCall(c, insn) ==
    PutNew(Pushed(c, insn.args), insn.tag, insn.out, IF insn.on = 0 THEN <<>> ELSE <<insn.on>>)
CodeCount(c, insn) == Put(c, insn.tag, 0, Regs(c, insn.args))
CodeRet(c, insn) == IF insn.args = <<0>> THEN c ELSE Put(c, "RET", 0, Regs(c, insn.args))

LoadInto(c, opc, vs) == LET d == NewRegs(c, vs) IN Put(d, opc, 0, Regs(d, vs))

CodeInsn(t, c, insn) ==
    CASE insn.tag \in {"NOP", "CTOR"} -> c
      [] insn.tag \in {"CVAL", "GETEXN", "CONS", "FN"} -> PutNew(c, insn.tag, insn.out, insn.args)
      [] insn.tag \in {"APPLY", "APPLYTC"} -> CodeCall(c, insn)
      [] insn.tag = "LOOP" -> CodeLoop(c, insn)
      [] insn.tag = "IF" -> CodeIf(t, WithPhi(c, insn), insn)
      [] insn.tag = "MOV" -> Put(c, "DUP", Reg(c, insn.out), Regs(c, insn.args))
      [] insn.tag \in {"REF", "DEC", "UNREF", "DROP"} -> CodeCount(c, insn)
      [] insn.tag = "RET" -> CodeRet(c, insn)
      [] insn.tag \in {"POP", "CAP", "LDSCP"} -> LoadInto(c, insn.tag, insn.outs)
      [] insn.tag = "TRY" -> CodeTry(t, WithPhi(c, insn), insn)
      [] insn.tag = "CATCH" -> CodeCatch(c, insn)

\* A self-call enters at the instruction in the place t.entry of the body.
Code(t, c, k) ==
    LET Step(d, i) ==
            CodeInsn(t, IF k = 1 /\ i = t.entry THEN [d EXCEPT !.entry = Here(d) + 1] ELSE d,
                     t.ins[t.blk[k][i]])
    IN  FoldLeft(Step, c, [i \in DOMAIN t.blk[k] |-> i])

\* Blocks that were put off, which may put off others, then the jumps to the
\* handlers.  The jump back is given a position where a distance is expected;
\* that is read after the block is built, and when the table of what was put off
\* has grown meanwhile the entry may be gone: then the jump leads out of the code,
\* which is the worst that can come of it.
ReturnJump(d, block, n) ==
    LET e == Jump(block, "JMP")
    IN  SetOffs(e, Here(e), IF Len(block.deff) = n THEN d.retpos ELSE -Here(e))
RECURSIVE Finalize(_, _, _)
Finalize(t, c, n) ==
    IF n > Len(c.deff) THEN c
    ELSE LET d == c.deff[n]
             block == Code(t, SetOffs(c, d.jmppos, Here(c) + 1 - d.jmppos), d.block)
         IN  Finalize(t, ReturnJump(d, block, Len(c.deff)), n + 1)
CatchJumps(c) ==
    FoldLeft(LAMBDA d, j : SetOffs(d, j.pos, d.catches[j.try] - j.pos), c, c.cchjmps)

NewBcBuilder(t) ==
    [arr |-> <<>>, vmap |-> [v \in 1..t.nvals |-> 0], regcnt |-> 0, deff |-> <<>>,
     cchjmps |-> <<>>, catches |-> [try \in 1..t.ntries |-> 0], entry |-> 0]

\* eth_build_bytecode: the frame has a register for each SSA value.
BuildBytecode(t) ==
    LET c == CatchJumps(Finalize(t, Code(t, NewBcBuilder(t), 1), 1))
    IN  [code |-> c.arr, nreg |-> t.nvals]
===============================================================================
