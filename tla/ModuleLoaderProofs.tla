------------------------- MODULE ModuleLoaderProofs -------------------------
(* Proofs about ModuleLoader, for every file system, every program and every *)
(* nesting of imports.  The argument: the loads in progress and the entries  *)
(* of the memo that are not ready are the same thing; an entry leads to the  *)
(* instance its load made, and no other instance of that file can be ready.  *)
(*                                                                           *)
(* The second part proves that the loader implements LoadRegistry: each      *)
(* action of ModuleLoader is one action of LoadRegistry, or leaves the       *)
(* status of files, the nesting of loads and the directories alone.  The     *)
(* three mapped expressions are sequences and functions over the stack; the  *)
(* lemmas say what a step does to the stack, element by element, and then    *)
(* what that makes of the expressions.                                       *)
EXTENDS ModuleLoader, SequenceTheorems, TLAPS

-----------------------------------------------------------------------------
(* The inductive invariant *)

\* A load in progress is known under its file and not ready; what it does next
\* depends on whether it is a library or a script.
LoadFrames ==
    \A i \in 2 .. Len(stack) :
        /\ stack[i].file \in File \ ready
        /\ stack[i].mod # 0
        /\ memo[stack[i].file] = stack[i].mod
        /\ stack[i].file \in Elf <=> stack[i].step \in {"init", "aux", "done"}

\* The main program is not memorised.
BottomFrame ==
    stack # <<>> =>
        /\ stack[1].file = Nothing
        /\ stack[1].step \in {"build", "eval"}
        /\ stack[1].mod \in DOMAIN inst
        /\ inst[stack[1].mod].file = Nothing

\* An initialiser waits for the load of its script, or the script is there.
AuxWaits ==
    \A i \in 2 .. Len(stack) :
        stack[i].step = "aux" /\ ~stack[i].err =>
            /\ Aux[stack[i].file] \in File
            /\ IF i = Len(stack) THEN Aux[stack[i].file] \in ready
               ELSE stack[i + 1].file = Aux[stack[i].file]

\* A flag belongs to an entry.
ReadyKnown == \A f \in ready : memo[f] # 0

\* A module that is ready is the one its file is known as.
ReadyMemorised ==
    \A m \in DOMAIN inst : inst[m].state = "ready" =>
        inst[m].file \in File /\ memo[inst[m].file] = m

\* The inductive invariant. TypeOK to OneInstance alone are not inductive: that no
\* ready instance is made twice needs to know that a load in progress is memorised.
IInv ==
    /\ TypeOK
    /\ CyclesAreCut
    /\ EntriesAreLive
    /\ ImportsAreComplete
    /\ LoadFrames
    /\ BottomFrame
    /\ AuxWaits
    /\ ReadyKnown
    /\ ReadyMemorised

-----------------------------------------------------------------------------
(* Sequences *)

\* A sequence with another last element.
LEMMA Replaced ==
    ASSUME NEW S, NEW s \in Seq(S), s # <<>>, NEW x \in S,
           NEW t, t = [s EXCEPT ![Len(s)] = x]
    PROVE  /\ Len(s) \in Nat \ {0}
           /\ t \in Seq(S)
           /\ Len(t) = Len(s)
           /\ t[Len(s)] = x
           /\ \A i \in 1 .. Len(s) : i # Len(s) => t[i] = s[i]
  OBVIOUS

\* A longer sequence.
LEMMA Appended ==
    ASSUME NEW S, NEW s \in Seq(S), NEW x \in S, NEW t, t = Append(s, x)
    PROVE  /\ Len(s) \in Nat
           /\ t \in Seq(S)
           /\ Len(t) = Len(s) + 1
           /\ t[Len(s) + 1] = x
           /\ \A i \in 1 .. Len(s) : t[i] = s[i]
  OBVIOUS

\* The first elements of a sequence.
LEMMA Prefix ==
    ASSUME NEW S, NEW s \in Seq(S), NEW n \in 0 .. Len(s)
    PROVE  /\ SubSeq(s, 1, n) \in Seq(S)
           /\ Len(SubSeq(s, 1, n)) = n
           /\ \A i \in 1 .. n : SubSeq(s, 1, n)[i] = s[i]
<1>. DEFINE t == SubSeq(s, 1, n)
<1>1. \A i \in 1 .. n : s[i] \in S
  BY ElementOfSeq, LenProperties
<1>2. /\ SubSeq(s, 1, n) \in Seq(S)
      /\ Len(SubSeq(s, 1, n)) = IF 1 <= n THEN n - 1 + 1 ELSE 0
      /\ \A i \in 1 .. n - 1 + 1 : SubSeq(s, 1, n)[i] = s[1 + i - 1]
  <2>1. 1 \in Int /\ n \in Int
    BY LenProperties
  <2>. QED  BY <1>1, <2>1, SubSeqProperties
<1>3. n \in Nat
  BY LenProperties
<1>4. Len(t) = n
  BY <1>2, <1>3
<1>5. ASSUME NEW i \in 1 .. n PROVE t[i] = s[i]
  <2>1. i \in 1 .. n - 1 + 1 /\ 1 + i - 1 = i
    BY <1>3
  <2>. QED  BY <2>1, <1>2, Zenon
<1>. QED  BY <1>2, <1>4, <1>5, Zenon

-----------------------------------------------------------------------------
(* Asking for a module *)

\* The frame that asks: the innermost one, with its request used up.
Asking(fr, f) ==
    /\ stack # <<>>
    /\ fr \in Frame
    /\ fr.mod = Top.mod
    /\ fr.file = Top.file
    /\ fr.back = Top.back
    /\ \/ fr.step = Top.step /\ Top.step \in {"build", "eval"}
       \/ fr.step = "aux" /\ Top.step = "init" /\ f = Aux[fr.file]

\* What the invariant says of the innermost frame.
LEMMA TopFacts ==
    ASSUME IInv, stack # <<>>
    PROVE  /\ Len(stack) \in Nat \ {0}
           /\ Top \in Frame
           /\ Top.mod \in DOMAIN inst
           /\ Len(stack) = 1 \/ Len(stack) \in 2 .. Len(stack)
           /\ Len(stack) = 1 => Top.step \in {"build", "eval"} /\ Top.file = Nothing
           /\ Top.step \notin {"build", "eval"} => Len(stack) \in 2 .. Len(stack) /\ Top.file \in Elf
<1>1. Len(stack) \in Nat \ {0} /\ Top \in Frame
  BY DEF IInv, TypeOK, Top
<1>2. CASE Len(stack) = 1
  BY <1>1, <1>2 DEF IInv, BottomFrame, Top
<1>3. CASE Len(stack) # 1
  <2>1. Len(stack) \in 2 .. Len(stack)
    <3>1. \A n \in Nat \ {0} : n # 1 => n \in 2 .. n
      OBVIOUS
    <3>. QED  BY <3>1, <1>1, <1>3, Zenon
  <2>2. /\ Top.file \in File
        /\ Top.mod # 0
        /\ memo[Top.file] = Top.mod
        /\ Top.file \in Elf <=> Top.step \in {"init", "aux", "done"}
    BY <2>1 DEF IInv, LoadFrames, Top
  <2>3. Top.mod \in DOMAIN inst
    BY <2>2 DEF IInv, EntriesAreLive
  <2>4. Top.step \in Steps
    BY <1>1 DEF Frame
  <2>. QED  BY <1>1, <1>3, <2>1, <2>2, <2>3, <2>4 DEF Steps
<1>. QED  BY <1>2, <1>3

\* The innermost frame changes, the others stay.
LEMMA NewTop ==
    ASSUME TypeOK, stack # <<>>, NEW x \in Frame, stack' = WithTop(x)
    PROVE  /\ stack' \in Seq(Frame)
           /\ Len(stack') = Len(stack)
           /\ Top' = x
           /\ stack'[Len(stack)] = x
           /\ \A i \in 1 .. Len(stack) : i # Len(stack) => stack'[i] = stack[i]
<1>1. stack \in Seq(Frame)
  BY DEF TypeOK
<1>. QED  BY <1>1, Replaced DEF WithTop, Top

\* The innermost frame becomes x; the loads in progress are the same.
KeepsLoads(x) ==
    /\ stack' \in Seq(Frame)
    /\ Len(stack') = Len(stack)
    /\ stack'[Len(stack)] = x
    /\ \A i \in 1 .. Len(stack) :
         /\ i # Len(stack) => stack'[i] = stack[i]
         /\ stack'[i].mod = stack[i].mod
         /\ stack'[i].file = stack[i].file
         /\ stack'[i].step \in {"init", "aux", "done"} <=> stack[i].step \in {"init", "aux", "done"}
         /\ stack'[i].step \in {"build", "eval"} <=> stack[i].step \in {"build", "eval"}

\* What a frame is asked to do changes; the loads in progress do not.
LEMMA SameLoads ==
    ASSUME IInv, stack # <<>>, NEW x \in Frame, stack' = WithTop(x),
           x.mod = Top.mod, x.file = Top.file,
           \/ x.step = Top.step /\ x.step # "aux"
           \/ x.step = "aux" /\ Top.step = "init"
           \/ x.step = "done" /\ Top.step \in {"init", "aux"}
           \/ x.step = "eval" /\ Top.step = "build"
    PROVE  KeepsLoads(x)
<1>1. /\ stack' \in Seq(Frame)
      /\ Len(stack') = Len(stack)
      /\ stack'[Len(stack)] = x
      /\ \A i \in 1 .. Len(stack) : i # Len(stack) => stack'[i] = stack[i]
  BY NewTop DEF IInv
<1>. QED  BY <1>1, TopFacts DEF Top, KeepsLoads

\* While the memo stays and the loads stay, so does what ties them together.
LEMMA SameMemo ==
    ASSUME IInv, stack # <<>>, NEW x, KeepsLoads(x), memo' = memo, ready' = ready, DOMAIN inst' = DOMAIN inst,
           \A m \in DOMAIN inst : inst'[m].file = inst[m].file
    PROVE  LoadFrames' /\ BottomFrame' /\ CyclesAreCut' /\ ReadyKnown'
<1>1. Len(stack) \in Nat \ {0} /\ \A i \in 2 .. Len(stack) : i \in 1 .. Len(stack)
  BY TopFacts
<1>2. LoadFrames'
  BY <1>1 DEF IInv, LoadFrames, KeepsLoads
<1>3. BottomFrame'
  BY <1>1 DEF IInv, BottomFrame, KeepsLoads
<1>4. CyclesAreCut'
  <2>1. {stack'[i].file : i \in 2 .. Len(stack)} = {stack[i].file : i \in 2 .. Len(stack)}
    BY <1>1 DEF KeepsLoads
  <2>. QED  BY <1>1, <2>1 DEF IInv, CyclesAreCut, KeepsLoads
<1>5. ReadyKnown'
  BY DEF IInv, ReadyKnown
<1>. QED  BY <1>2, <1>3, <1>4, <1>5

\* The innermost frame decides whether AuxWaits still holds.
LEMMA SameWaits ==
    ASSUME IInv, stack # <<>>, NEW x, KeepsLoads(x), ready' = ready,
           x.step = "aux" /\ ~x.err => Aux[x.file] \in ready
    PROVE  AuxWaits'
<1>1. Len(stack) \in Nat \ {0} /\ \A i \in 2 .. Len(stack) : i \in 1 .. Len(stack)
  BY TopFacts
<1>2. ready \subseteq File
  BY DEF IInv, TypeOK
<1>. SUFFICES ASSUME NEW i \in 2 .. Len(stack),
                     stack'[i].step = "aux", ~stack'[i].err
              PROVE  /\ Aux[stack'[i].file] \in File
                     /\ IF i = Len(stack) THEN Aux[stack'[i].file] \in ready
                        ELSE stack'[i + 1].file = Aux[stack'[i].file]
  BY DEF AuxWaits, KeepsLoads
<1>3. CASE i = Len(stack)
  BY <1>2, <1>3 DEF KeepsLoads
<1>4. CASE i # Len(stack)
  <2>1. i + 1 \in 1 .. Len(stack)
    BY <1>1, <1>4
  <2>. QED  BY <1>1, <1>4, <2>1 DEF IInv, AuxWaits, KeepsLoads
<1>. QED  BY <1>3, <1>4

\* A request that fails changes the innermost frame only, and an initialiser
\* whose script failed does not wait.
LEMMA RefuseStep ==
    ASSUME IInv, NEW fr, NEW f, Asking(fr, f), Refuse(fr), calls' \in Nat
    PROVE  IInv'
<1>. DEFINE x == Refused(fr)
<1>1. /\ x \in Frame
      /\ x.mod = Top.mod /\ x.file = Top.file
      /\ x.step = fr.step /\ (x.step = "aux" => x.err)
  BY DEF Asking, Refused, Frame
<1>2. /\ stack # <<>> /\ stack' = WithTop(x)
      /\ \/ x.step = Top.step /\ x.step # "aux"
         \/ x.step = "aux" /\ Top.step = "init"
      /\ UNCHANGED <<inst, memo, ready, cwd>>
  BY <1>1 DEF Refuse, Asking
<1>. HIDE DEF x
<1>3. KeepsLoads(x)
  BY <1>1, <1>2, SameLoads
<1>4. LoadFrames' /\ BottomFrame' /\ CyclesAreCut' /\ ReadyKnown'
  BY <1>2, <1>3, SameMemo
<1>5. AuxWaits'
  BY <1>1, <1>2, <1>3, SameWaits
<1>6. TypeOK'
  BY <1>2, <1>3 DEF IInv, TypeOK, KeepsLoads
<1>7. EntriesAreLive' /\ ImportsAreComplete' /\ ReadyMemorised'
  BY <1>2 DEF IInv, EntriesAreLive, ImportsAreComplete, ReadyMemorised
<1>. QED  BY <1>4, <1>5, <1>6, <1>7 DEF IInv

\* t are the same modules, but some of them use m, too.
AddsUse(t, modules, m) ==
    /\ t \in Seq(Module)
    /\ DOMAIN t = DOMAIN modules
    /\ \A k \in DOMAIN modules :
         /\ t[k].file = modules[k].file
         /\ t[k].state = modules[k].state
         /\ t[k].uses \subseteq modules[k].uses \union {m}

\* Importing changes nothing but what the importer uses.
LEMMA ImportingUses ==
    ASSUME NEW modules \in Seq(Module), NEW fr, fr.mod \in DOMAIN modules, NEW m \in Nat
    PROVE  AddsUse(Importing(modules, fr, m), modules, m)
<1>. DEFINE t == Importing(modules, fr, m)
<1>1. CASE fr.step = "aux"
  BY <1>1 DEF Importing, AddsUse
<1>2. CASE fr.step # "aux"
  <2>. DEFINE k == fr.mod
              e == [modules[k] EXCEPT !.uses = @ \union {m}]
  <2>1. modules[k] \in Module
    OBVIOUS
  <2>2. /\ e \in Module
        /\ e.file = modules[k].file /\ e.state = modules[k].state
        /\ e.uses = modules[k].uses \union {m}
    BY <2>1 DEF Module
  <2>3. t = [modules EXCEPT ![k] = e]
    BY <1>2 DEF Importing
  <2>. HIDE DEF e
  <2>4. t \in Seq(Module) /\ DOMAIN t = DOMAIN modules
    BY <2>2, <2>3
  <2>. QED  BY <2>2, <2>3, <2>4 DEF AddsUse
<1>. QED  BY <1>1, <1>2

\* A module that is ready has an instance, which is initialised.
LEMMA ReadyFacts ==
    ASSUME IInv, NEW f \in ready
    PROVE  /\ f \in File /\ memo[f] # 0 /\ memo[f] \in Nat
           /\ memo[f] \in DOMAIN inst
           /\ inst[memo[f]].state = "ready"
           /\ inst[memo[f]].file = f
<1>1. f \in File /\ memo[f] # 0 /\ memo[f] \in Nat
  BY DEF IInv, TypeOK, ReadyKnown
<1>. QED  BY <1>1 DEF IInv, EntriesAreLive

\* An answer from memory adds an import of a module that is ready.
LEMMA ReuseStep ==
    ASSUME IInv, NEW fr, NEW f \in ready, Asking(fr, f), Reuse(fr, f), calls' \in Nat
    PROVE  IInv'
<1>1. /\ stack # <<>> /\ fr \in Frame /\ stack' = WithTop(fr)
      /\ fr.mod = Top.mod /\ fr.file = Top.file
      /\ \/ fr.step = Top.step /\ fr.step # "aux"
         \/ fr.step = "aux" /\ Top.step = "init"
      /\ UNCHANGED <<memo, ready, cwd>>
      /\ inst' = Importing(inst, fr, memo[f])
      /\ fr.step = "aux" => f = Aux[fr.file]
  BY DEF Reuse, Asking
<1>2. KeepsLoads(fr)
  BY <1>1, SameLoads
<1>3. inst \in Seq(Module) /\ fr.mod \in DOMAIN inst /\ memo[f] \in Nat
  BY <1>1, TopFacts, ReadyFacts DEF IInv, TypeOK
<1>4. AddsUse(inst', inst, memo[f])
  BY <1>1, <1>3, ImportingUses, Zenon
<1>5. LoadFrames' /\ BottomFrame' /\ CyclesAreCut' /\ ReadyKnown'
  BY <1>1, <1>2, <1>4, SameMemo DEF AddsUse
<1>6. AuxWaits'
  BY <1>1, <1>2, SameWaits
<1>7. TypeOK'
  BY <1>1, <1>2, <1>4 DEF IInv, TypeOK, KeepsLoads, AddsUse
<1>8. EntriesAreLive' /\ ReadyMemorised'
  BY <1>1, <1>4 DEF IInv, EntriesAreLive, ReadyMemorised, AddsUse
<1>9. ImportsAreComplete'
  BY <1>4, ReadyFacts DEF IInv, ImportsAreComplete, AddsUse
<1>. QED  BY <1>5, <1>6, <1>7, <1>8, <1>9 DEF IInv

\* A new load: its file was not in the memo, so it is none of those in progress.
LEMMA EnterStep ==
    ASSUME IInv, NEW fr, NEW f \in File, memo[f] = 0, Asking(fr, f), Enter(fr, f), calls' \in Nat
    PROVE  IInv'
<1>. DEFINE n == Len(stack)
            m == Len(inst) + 1
            new == [mod |-> m, file |-> f, err |-> FALSE, back |-> cwd,
                    todo |-> IF f \in Elf THEN <<>> ELSE Imports[f],
                    step |-> IF f \in Elf THEN "init" ELSE "build"]
            born == [file |-> f, state |-> "loading", uses |-> {}]
<1>1. /\ stack # <<>> /\ fr \in Frame /\ fr.file = Top.file /\ fr.mod = Top.mod
      /\ \/ fr.step = Top.step /\ fr.step # "aux"
         \/ fr.step = "aux" /\ Top.step = "init"
      /\ fr.step = "aux" => f = Aux[fr.file]
  BY DEF Asking
<1>2. /\ inst' = Append(inst, born)
      /\ memo' = [memo EXCEPT ![f] = m]
      /\ cwd' = Home[f]
      /\ stack' = Append(WithTop(fr), new)
      /\ ready' = ready
  BY DEF Enter
<1>3. new \in Frame /\ new.mod = m /\ new.file = f /\ ~new.err
        /\ new.step = IF f \in Elf THEN "init" ELSE "build"
  <2>1. m \in Nat /\ cwd \in Dir
    BY DEF IInv, TypeOK
  <2>2. (IF f \in Elf THEN <<>> ELSE Imports[f]) \in Seq(Request)
    BY LoaderAssumption
  <2>3. (IF f \in Elf THEN "init" ELSE "build") \in Steps
    BY DEF Steps
  <2>. QED  BY <2>1, <2>2, <2>3 DEF Frame
<1>4. born \in Module /\ born.file = f /\ born.state = "loading" /\ born.uses = {}
  BY DEF Module, States
<1>. HIDE DEF new, born
<1>5. /\ inst \in Seq(Module) /\ memo \in [File -> Nat] /\ ready \subseteq File
      /\ stack \in Seq(Frame)
      /\ n \in Nat \ {0}
  BY <1>1, TopFacts DEF IInv, TypeOK
<1>6. /\ WithTop(fr) \in Seq(Frame)
      /\ Len(WithTop(fr)) = n
      /\ WithTop(fr)[n] = fr
      /\ \A i \in 1 .. n : i # n => WithTop(fr)[i] = stack[i]
  BY <1>1, <1>5, Replaced DEF WithTop
<1>7. /\ stack' \in Seq(Frame)
      /\ Len(stack') = n + 1
      /\ stack'[n + 1] = new
      /\ stack'[n] = fr
      /\ \A i \in 1 .. n : i # n => stack'[i] = stack[i]
  BY <1>2, <1>3, <1>5, <1>6, Appended
<1>8. /\ inst' \in Seq(Module)
      /\ m \in Nat \ {0} /\ m \notin DOMAIN inst
      /\ DOMAIN inst' = DOMAIN inst \union {m}
      /\ inst'[m] = born
      /\ \A k \in DOMAIN inst : inst'[k] = inst[k]
  BY <1>2, <1>4, <1>5
<1>. HIDE DEF m
<1>9. f \notin ready
  BY DEF IInv, ReadyKnown
<1>10. \A i \in 2 .. n : stack[i].file # f
  BY DEF IInv, LoadFrames
<1>11. TypeOK'
  BY <1>2, <1>5, <1>7, <1>8, LoaderAssumption DEF IInv, TypeOK
<1>12. \A i \in 1 .. n :
         /\ stack'[i].file = stack[i].file
         /\ stack'[i].mod = stack[i].mod
         /\ stack'[i].step \in {"init", "aux", "done"} <=> stack[i].step \in {"init", "aux", "done"}
         /\ stack'[i].step \in {"build", "eval"} <=> stack[i].step \in {"build", "eval"}
  BY <1>1, <1>5, <1>7, TopFacts DEF Top
<1>13. CyclesAreCut'
  <2>1. {stack'[i].file : i \in 2 .. n + 1} = {stack[i].file : i \in 2 .. n} \union {f}
    <3>1. /\ 2 .. n + 1 = (2 .. n) \union {n + 1}
          /\ \A i \in 2 .. n : i \in 1 .. n
      BY <1>5
    <3>2. \A i \in 2 .. n : stack'[i].file = stack[i].file
      BY <3>1, <1>12
    <3>3. stack'[n + 1].file = f
      BY <1>3, <1>7
    <3>4. \A x : x \in {stack'[i].file : i \in 2 .. n + 1} <=> x \in {stack[i].file : i \in 2 .. n} \union {f}
      BY <3>1, <3>2, <3>3
    <3>. QED  BY <3>4, Zenon
  <2>2. {g \in File \ ready : memo'[g] # 0} = {g \in File \ ready : memo[g] # 0} \union {f}
    BY <1>2, <1>5, <1>8, <1>9
  <2>3. ASSUME NEW i \in 2 .. n + 1, NEW j \in 2 .. n + 1, stack'[i].file = stack'[j].file
        PROVE  i = j
    <3>1. CASE i = n + 1 \/ j = n + 1
      BY <3>1, <2>3, <1>3, <1>5, <1>7, <1>10, <1>12
    <3>2. CASE i # n + 1 /\ j # n + 1
      <4>1. i \in 2 .. n /\ j \in 2 .. n /\ i \in 1 .. n /\ j \in 1 .. n
        BY <3>2, <1>5
      <4>2. stack[i].file = stack[j].file
        BY <4>1, <2>3, <1>12
      <4>. QED  BY <4>1, <4>2 DEF IInv, CyclesAreCut
    <3>. QED  BY <3>1, <3>2
  <2>4. {stack[i].file : i \in 2 .. n} = {g \in File \ ready : memo[g] # 0}
    BY DEF IInv, CyclesAreCut
  <2>5. {stack'[i].file : i \in 2 .. Len(stack')} = {g \in File \ ready' : memo'[g] # 0}
    BY <2>1, <2>2, <2>4, <1>2, <1>7
  <2>6. \A i, j \in 2 .. Len(stack') : stack'[i].file = stack'[j].file => i = j
    BY <2>3, <1>7
  <2>. QED  BY <2>5, <2>6 DEF CyclesAreCut
<1>14. LoadFrames'
  BY <1>2, <1>3, <1>5, <1>7, <1>8, <1>9, <1>10, <1>12 DEF IInv, LoadFrames
<1>15. BottomFrame'
  <2>1. stack'[1].file = stack[1].file /\ stack'[1].mod = stack[1].mod
          /\ (stack'[1].step \in {"build", "eval"} <=> stack[1].step \in {"build", "eval"})
    BY <1>5, <1>12
  <2>. QED  BY <2>1, <1>1, <1>8 DEF IInv, BottomFrame
<1>16. AuxWaits'
  <2>. SUFFICES ASSUME NEW i \in 2 .. n + 1, stack'[i].step = "aux", ~stack'[i].err
                PROVE  /\ i # n + 1
                       /\ Aux[stack'[i].file] \in File
                       /\ stack'[i + 1].file = Aux[stack'[i].file]
    BY <1>7 DEF AuxWaits
  <2>1. i # n + 1
    BY <1>3, <1>7
  <2>2. CASE i = n
    BY <2>2, <1>1, <1>3, <1>5, <1>7
  <2>3. CASE i # n
    <3>1. i \in 2 .. n /\ i \in 1 .. n /\ i + 1 \in 1 .. n
      BY <2>1, <2>3, <1>5
    <3>. QED  BY <3>1, <2>1, <2>3, <1>5, <1>7, <1>12 DEF IInv, AuxWaits
  <2>. QED  BY <2>1, <2>2, <2>3
<1>17. EntriesAreLive'
  BY <1>2, <1>4, <1>5, <1>8, <1>9 DEF IInv, EntriesAreLive
<1>18. ReadyKnown' /\ ReadyMemorised'
  BY <1>2, <1>4, <1>5, <1>8 DEF IInv, ReadyKnown, ReadyMemorised
<1>19. ImportsAreComplete'
  BY <1>4, <1>8 DEF IInv, ImportsAreComplete
<1>. QED
  BY <1>11, <1>13, <1>14, <1>15, <1>16, <1>17, <1>18, <1>19 DEF IInv

-----------------------------------------------------------------------------
(* The actions *)

\* However a request is answered.
LEMMA LoadStep ==
    ASSUME IInv, NEW fr, NEW f, Asking(fr, f), Load(fr, f), calls' \in Nat
    PROVE  IInv'
<1>1. CASE f \in ready /\ Reuse(fr, f)
  BY <1>1, ReuseStep
<1>2. CASE Refuse(fr)
  BY <1>2, RefuseStep
<1>3. CASE f \in File /\ memo[f] = 0 /\ Enter(fr, f)
  BY <1>3, EnterStep
<1>. QED  BY <1>1, <1>2, <1>3 DEF Load

\* A request by its path, by a frame that runs code or is being built.
LEMMA AskStep ==
    ASSUME IInv, stack # <<>>, Top.step \in {"build", "eval"}, NEW fr \in Frame, NEW r,
           fr.mod = Top.mod, fr.file = Top.file, fr.back = Top.back, fr.step = Top.step,
           Ask(fr, r), calls' \in Nat
    PROVE  IInv'
<1>1. \A f : Asking(fr, f)
  BY DEF Asking
<1>2. CASE Refuse(fr)
  BY <1>1, <1>2, RefuseStep
<1>3. CASE \E f : Load(fr, f)
  BY <1>1, <1>3, LoadStep
<1>. QED  BY <1>2, <1>3 DEF Ask

\* An import expression is a request by the frame that is built.
LEMMA ImportStep == IInv /\ Import => IInv'
<1>. SUFFICES ASSUME IInv, Import PROVE IInv'
  OBVIOUS
<1>. DEFINE fr == [Top EXCEPT !.todo = Tail(@)]
<1>1. /\ stack # <<>> /\ Top.step = "build" /\ Top.todo # <<>>
      /\ Ask(fr, Head(Top.todo)) /\ calls' = calls
  BY DEF Import
<1>2. Top \in Frame
  BY <1>1, TopFacts
<1>3. Tail(Top.todo) \in Seq(Request)
  <2>1. Top.todo \in Seq(Request)
    BY <1>2 DEF Frame
  <2>. QED  BY <1>1, <2>1
<1>4. /\ fr \in Frame
      /\ fr.mod = Top.mod /\ fr.file = Top.file /\ fr.back = Top.back /\ fr.step = Top.step
  BY <1>2, <1>3 DEF Frame
<1>5. calls' \in Nat
  BY <1>1 DEF IInv, TypeOK
<1>. HIDE DEF fr
<1>. QED  BY <1>1, <1>4, <1>5, AskStep

\* A call of __require is a request by the frame that runs.
LEMMA RequireStep ==
    ASSUME IInv, NEW r, Require(r)
    PROVE  IInv'
<1>1. /\ stack # <<>> /\ Top.step = "eval" /\ Ask(Top, r)
      /\ calls' = calls + 1
  BY DEF Require
<1>2. Top \in Frame /\ calls' \in Nat
  BY <1>1, TopFacts DEF IInv, TypeOK
<1>. QED  BY <1>1, <1>2, AskStep

\* An initialiser's script is named, not resolved.
LEMMA LoadAuxStep == IInv /\ LoadAux => IInv'
<1>. SUFFICES ASSUME IInv, LoadAux PROVE IInv'
  OBVIOUS
<1>. DEFINE fr == [Top EXCEPT !.step = "aux"]
            f == Aux[Top.file]
<1>1. /\ stack # <<>> /\ Top.step = "init" /\ f # Nothing
      /\ Load(fr, f) /\ calls' = calls
  BY DEF LoadAux
<1>2. Top \in Frame /\ Len(stack) \in 2 .. Len(stack)
  BY <1>1, TopFacts
<1>3. Asking(fr, f) /\ calls' \in Nat
  BY <1>1, <1>2 DEF Asking, Frame, Steps, IInv, TypeOK
<1>. HIDE DEF fr, f
<1>. QED  BY <1>1, <1>3, LoadStep

\* A change of directory concerns no load.
LEMMA ChdirStep ==
    ASSUME IInv, NEW d \in Dir, Chdir(d)
    PROVE  IInv'
<1>1. /\ UNCHANGED <<inst, memo, ready, stack>> /\ cwd' = d /\ calls' = calls + 1
  BY DEF Chdir
<1>2. TypeOK'
  BY <1>1 DEF IInv, TypeOK
<1>3. CyclesAreCut' /\ EntriesAreLive' /\ ImportsAreComplete'
  BY <1>1 DEF IInv, CyclesAreCut, EntriesAreLive, ImportsAreComplete
<1>4. LoadFrames' /\ BottomFrame' /\ AuxWaits' /\ ReadyKnown' /\ ReadyMemorised'
  BY <1>1 DEF IInv, LoadFrames, BottomFrame, AuxWaits, ReadyKnown, ReadyMemorised
<1>. QED  BY <1>2, <1>3, <1>4 DEF IInv

\* The innermost frame goes to another step, and nothing else changes.
LEMMA StepOn ==
    ASSUME IInv, stack # <<>>, NEW s \in {"eval", "done"},
           \/ s = "eval" /\ Top.step = "build"
           \/ s = "done" /\ Top.step \in {"init", "aux"},
           stack' = WithTop([Top EXCEPT !.step = s])
    PROVE  /\ KeepsLoads([Top EXCEPT !.step = s])
           /\ [Top EXCEPT !.step = s].step = s
<1>. DEFINE x == [Top EXCEPT !.step = s]
<1>1. Top \in Frame
  BY TopFacts
<1>2. /\ x \in Frame /\ x.mod = Top.mod /\ x.file = Top.file /\ x.step = s
  BY <1>1 DEF Frame, Steps
<1>. HIDE DEF x
<1>3. KeepsLoads(x)
  <2>1. \/ x.step = "done" /\ Top.step \in {"init", "aux"}
        \/ x.step = "eval" /\ Top.step = "build"
    BY <1>2
  <2>2. stack' = WithTop(x)
    BY DEF x
  <2>. QED  BY <1>2, <2>1, <2>2, SameLoads
<1>. QED  BY <1>2, <1>3 DEF x

\* A module that is built goes on to run.
LEMMA BuiltStep == IInv /\ Built => IInv'
<1>. SUFFICES ASSUME IInv, Built PROVE IInv'
  OBVIOUS
<1>. DEFINE x == [Top EXCEPT !.step = "eval"]
<1>1. /\ stack # <<>> /\ Top.step = "build" /\ stack' = WithTop(x)
      /\ UNCHANGED <<inst, memo, ready, cwd, calls>>
  BY DEF Built
<1>2. KeepsLoads(x) /\ x.step = "eval"
  BY <1>1, StepOn
<1>. HIDE DEF x
<1>3. LoadFrames' /\ BottomFrame' /\ CyclesAreCut' /\ ReadyKnown'
  BY <1>1, <1>2, SameMemo
<1>4. AuxWaits'
  BY <1>1, <1>2, SameWaits
<1>5. TypeOK'
  BY <1>1, <1>2 DEF IInv, TypeOK, KeepsLoads
<1>6. EntriesAreLive' /\ ImportsAreComplete' /\ ReadyMemorised'
  BY <1>1 DEF IInv, EntriesAreLive, ImportsAreComplete, ReadyMemorised
<1>. QED  BY <1>3, <1>4, <1>5, <1>6 DEF IInv

\* An initialiser without a script is done.
LEMMA InitAloneStep == IInv /\ InitAlone => IInv'
<1>. SUFFICES ASSUME IInv, InitAlone PROVE IInv'
  OBVIOUS
<1>. DEFINE x == [Top EXCEPT !.step = "done"]
<1>1. /\ stack # <<>> /\ Top.step = "init" /\ stack' = WithTop(x)
      /\ UNCHANGED <<inst, memo, ready, cwd, calls>>
  BY DEF InitAlone
<1>2. KeepsLoads(x) /\ x.step = "done"
  BY <1>1, StepOn
<1>. HIDE DEF x
<1>3. LoadFrames' /\ BottomFrame' /\ CyclesAreCut' /\ ReadyKnown'
  BY <1>1, <1>2, SameMemo
<1>4. AuxWaits'
  BY <1>1, <1>2, SameWaits
<1>5. TypeOK'
  BY <1>1, <1>2 DEF IInv, TypeOK, KeepsLoads
<1>6. EntriesAreLive' /\ ImportsAreComplete' /\ ReadyMemorised'
  BY <1>1 DEF IInv, EntriesAreLive, ImportsAreComplete, ReadyMemorised
<1>. QED  BY <1>3, <1>4, <1>5, <1>6 DEF IInv

-----------------------------------------------------------------------------
(* The state of one module changes *)

\* t are the same modules, but m is in state s.
SetsState(t, modules, m, s) ==
    /\ t \in Seq(Module)
    /\ DOMAIN t = DOMAIN modules
    /\ \A k \in DOMAIN modules :
         /\ t[k].file = modules[k].file
         /\ t[k].uses = modules[k].uses
         /\ t[k].state = IF k = m THEN s ELSE modules[k].state

\* Setting the state of a module sets nothing else.
LEMMA StateSet ==
    ASSUME NEW modules \in Seq(Module), NEW m \in DOMAIN modules, NEW s \in States
    PROVE  SetsState([modules EXCEPT ![m].state = s], modules, m, s)
<1>. DEFINE e == [modules[m] EXCEPT !.state = s]
            t == [modules EXCEPT ![m].state = s]
<1>1. modules[m] \in Module
  OBVIOUS
<1>2. /\ e \in Module
      /\ e.file = modules[m].file /\ e.uses = modules[m].uses /\ e.state = s
  BY <1>1 DEF Module
<1>3. t = [modules EXCEPT ![m] = e]
  OBVIOUS
<1>. HIDE DEF e, t
<1>4. t \in Seq(Module) /\ DOMAIN t = DOMAIN modules
  BY <1>2, <1>3
<1>5. SetsState(t, modules, m, s)
  BY <1>2, <1>3, <1>4 DEF SetsState
<1>. QED  BY <1>5 DEF t

\* So does destroying one.
LEMMA DestroyedSets ==
    ASSUME NEW modules \in Seq(Module), NEW m \in DOMAIN modules
    PROVE  SetsState(Destroyed(modules, m), modules, m, "destroyed")
  BY StateSet DEF Destroyed, States

-----------------------------------------------------------------------------
(* A load ends *)

\* Positions in a stack with a load.
LEMMA Positions ==
    ASSUME NEW n \in Nat, n > 1
    PROVE  /\ n \in Nat \ {0, 1} /\ n \in 2 .. n /\ n \in 1 .. n
           /\ n - 1 \in 1 .. n
           /\ n - 1 # 1 => n - 1 \in 2 .. n
           /\ \A i \in 2 .. n - 1 : i \in 2 .. n /\ i # n
  OBVIOUS

\* What the invariant says of a load and the frame below it.
LEMMA NestedFacts ==
    ASSUME IInv, Nested
    PROVE  /\ stack # <<>>
           /\ Len(stack) \in Nat \ {0, 1}
           /\ Len(stack) \in 2 .. Len(stack)
           /\ Len(stack) - 1 \in 1 .. Len(stack)
           /\ Top \in Frame /\ Below \in Frame
           /\ Top.file \in File \ ready
           /\ memo[Top.file] = Top.mod
           /\ Top.mod \in DOMAIN inst
           /\ inst[Top.mod].file = Top.file
           /\ inst[Top.mod].state = "loading"
           /\ Below.mod \in DOMAIN inst
           /\ \A i \in 2 .. Len(stack) - 1 : stack[i].file # Top.file
<1>0. stack \in Seq(Frame) /\ Len(stack) \in Nat /\ Len(stack) > 1
  <2>1. stack \in Seq(Frame)
    BY DEF IInv, TypeOK
  <2>2. Len(stack) \in Nat
    BY <2>1
  <2>. QED  BY <2>1, <2>2 DEF Nested
<1>1. stack # <<>> /\ stack \in Seq(Frame) /\ Len(stack) \in Nat \ {0, 1}
  <2>1. Len(stack) \in Nat \ {0, 1}
    BY <1>0, Positions, Zenon
  <2>. QED  BY <1>0, <2>1
<1>2. /\ Len(stack) \in 2 .. Len(stack)
      /\ Len(stack) - 1 \in 1 .. Len(stack)
      /\ Len(stack) \in 1 .. Len(stack)
      /\ Len(stack) - 1 # 1 => Len(stack) - 1 \in 2 .. Len(stack)
      /\ \A i \in 2 .. Len(stack) - 1 : i \in 2 .. Len(stack) /\ i # Len(stack)
  BY <1>0, Positions, Zenon
<1>3. Top \in Frame /\ Below \in Frame
  BY <1>1, <1>2 DEF Top, Below
<1>4. /\ Top.file \in File \ ready /\ Top.mod # 0
      /\ memo[Top.file] = Top.mod
  BY <1>2 DEF IInv, LoadFrames, Top
<1>5. /\ Top.mod \in DOMAIN inst
      /\ inst[Top.mod].file = Top.file
      /\ inst[Top.mod].state = "loading"
  BY <1>4 DEF IInv, EntriesAreLive
<1>6. Below.mod \in DOMAIN inst
  <2>1. CASE Len(stack) - 1 = 1
    BY <2>1, <1>1 DEF IInv, BottomFrame, Below
  <2>2. CASE Len(stack) - 1 # 1
    <3>1. Len(stack) - 1 \in 2 .. Len(stack)
      BY <2>2, <1>2
    <3>2. /\ Below.file \in File /\ Below.mod # 0
          /\ memo[Below.file] = Below.mod
      BY <3>1 DEF IInv, LoadFrames, Below
    <3>. QED  BY <3>2 DEF IInv, EntriesAreLive
  <2>. QED  BY <2>1, <2>2
<1>7. ASSUME NEW i \in 2 .. Len(stack) - 1 PROVE stack[i].file # Top.file
  BY <1>2 DEF IInv, CyclesAreCut, Top
<1>. QED  BY <1>1, <1>2, <1>3, <1>4, <1>5, <1>6, <1>7

\* The innermost load is gone, and the frame below it became x.
EndsLoad(x) ==
    /\ stack' \in Seq(Frame)
    /\ Len(stack') = Len(stack) - 1
    /\ stack'[Len(stack) - 1] = x
    /\ \A i \in 1 .. Len(stack) - 1 :
         /\ i # Len(stack) - 1 => stack'[i] = stack[i]
         /\ stack'[i].mod = stack[i].mod
         /\ stack'[i].file = stack[i].file
         /\ stack'[i].step = stack[i].step
         /\ stack'[i].back = stack[i].back

\* A load ends well: the frame below is as it was.
LEMMA FinishEnds ==
    ASSUME IInv, Finish
    PROVE  EndsLoad(Below)
<1>. DEFINE n == Len(stack)
<1>1. stack' = SubSeq(stack, 1, n - 1)
  BY DEF Finish
<1>2. n \in Nat \ {0, 1} /\ stack \in Seq(Frame)
  BY NestedFacts DEF Finish, IInv, TypeOK
<1>3. n - 1 \in 0 .. n
  BY <1>2
<1>4. /\ SubSeq(stack, 1, n - 1) \in Seq(Frame)
      /\ Len(SubSeq(stack, 1, n - 1)) = n - 1
      /\ \A i \in 1 .. n - 1 : SubSeq(stack, 1, n - 1)[i] = stack[i]
  BY <1>2, <1>3, Prefix, Zenon
<1>5. n - 1 \in 1 .. n - 1
  BY <1>2
<1>. QED  BY <1>1, <1>4, <1>5 DEF EndsLoad, Below

\* A load fails: the frame below learns of it.
LEMMA FailEnds ==
    ASSUME IInv, Fail
    PROVE  EndsLoad(Refused(Below))
<1>. DEFINE n == Len(stack)
            x == Refused(Below)
            t == SubSeq(stack, 1, n - 2)
<1>1. stack' = Append(t, x)
  BY DEF Fail
<1>2. n \in Nat \ {0, 1} /\ stack \in Seq(Frame) /\ Below \in Frame
  BY NestedFacts DEF Fail, IInv, TypeOK
<1>3. /\ x \in Frame
      /\ x.mod = Below.mod /\ x.file = Below.file
      /\ x.step = Below.step /\ x.back = Below.back
  BY <1>2 DEF Refused, Frame
<1>. HIDE DEF x
<1>4. n - 2 \in 0 .. n
  <2>1. \A k \in Nat \ {0, 1} : k - 2 \in 0 .. k
    OBVIOUS
  <2>. QED  BY <2>1, <1>2, Zenon
<1>5. /\ t \in Seq(Frame)
      /\ Len(t) = n - 2
      /\ \A i \in 1 .. n - 2 : t[i] = stack[i]
  BY <1>2, <1>4, Prefix, Zenon
<1>. HIDE DEF t
<1>6. /\ stack' \in Seq(Frame) /\ Len(stack') = n - 2 + 1
      /\ stack'[n - 2 + 1] = x
      /\ \A i \in 1 .. n - 2 : stack'[i] = t[i]
  BY <1>1, <1>3, <1>5, Appended
<1>7. n - 2 + 1 = n - 1 /\ \A i \in 1 .. n - 1 : i # n - 1 => i \in 1 .. n - 2
  BY <1>2
<1>8. /\ Len(stack') = n - 1 /\ stack'[n - 1] = x
      /\ \A i \in 1 .. n - 1 : i # n - 1 => stack'[i] = stack[i]
  BY <1>5, <1>6, <1>7
<1>. HIDE DEF n
<1>9. stack[n - 1] = Below
  BY DEF Below, n
<1>10. EndsLoad(x)
  BY <1>3, <1>6, <1>8, <1>9 DEF EndsLoad, n
<1>. QED  BY <1>10 DEF x

\* The file of the load that ended is ready or unknown, the others are what
\* they were.
LEMMA EndKeeps ==
    ASSUME IInv, Nested, NEW x, EndsLoad(x),
           \A g \in File \ {Top.file} : memo'[g] = memo[g] /\ (g \in ready' <=> g \in ready),
           Top.file \in ready' \/ memo'[Top.file] = 0,
           DOMAIN inst' = DOMAIN inst,
           \A m \in DOMAIN inst : inst'[m].file = inst[m].file
    PROVE  LoadFrames' /\ BottomFrame' /\ CyclesAreCut'
<1>. DEFINE n == Len(stack)
<1>1. /\ n \in Nat \ {0, 1} /\ Len(stack') = n - 1
      /\ \A i \in 2 .. n - 1 : i \in 2 .. n /\ i \in 1 .. n - 1
      /\ stack # <<>>
  BY NestedFacts DEF EndsLoad
<1>2. /\ \A i \in 1 .. n - 1 :
           /\ stack'[i].mod = stack[i].mod
           /\ stack'[i].file = stack[i].file
           /\ stack'[i].step = stack[i].step
      /\ stack' \in Seq(Frame)
  BY DEF EndsLoad
<1>3. \A i \in 2 .. n - 1 : stack[i].file # Top.file
  BY NestedFacts
<1>4. LoadFrames'
  <2>. SUFFICES ASSUME NEW i \in 2 .. n - 1
                PROVE  /\ stack'[i].file \in File \ ready'
                       /\ stack'[i].mod # 0
                       /\ memo'[stack'[i].file] = stack'[i].mod
                       /\ stack'[i].file \in Elf <=> stack'[i].step \in {"init", "aux", "done"}
    BY <1>1 DEF LoadFrames
  <2>1. /\ stack[i].file \in File \ ready
        /\ stack[i].mod # 0
        /\ memo[stack[i].file] = stack[i].mod
        /\ stack[i].file \in Elf <=> stack[i].step \in {"init", "aux", "done"}
    BY <1>1 DEF IInv, LoadFrames
  <2>2. stack[i].file \in File \ {Top.file}
    BY <2>1, <1>3
  <2>. QED  BY <2>1, <2>2, <1>1, <1>2
<1>5. BottomFrame'
  <2>1. 1 \in 1 .. n - 1
    BY <1>1
  <2>. QED  BY <2>1, <1>1, <1>2 DEF IInv, BottomFrame
<1>6. CyclesAreCut'
  <2>1. {stack[i].file : i \in 2 .. n} = {g \in File \ ready : memo[g] # 0}
    BY DEF IInv, CyclesAreCut
  <2>2. {stack'[i].file : i \in 2 .. n - 1} = {stack[i].file : i \in 2 .. n - 1}
    BY <1>1, <1>2
  <2>3. {stack[i].file : i \in 2 .. n - 1} = {stack[i].file : i \in 2 .. n} \ {Top.file}
    BY <1>1, <1>3 DEF Top
  <2>4. {g \in File \ ready' : memo'[g] # 0} = {g \in File \ ready : memo[g] # 0} \ {Top.file}
    OBVIOUS
  <2>5. {stack'[i].file : i \in 2 .. Len(stack')} = {g \in File \ ready' : memo'[g] # 0}
    BY <2>1, <2>2, <2>3, <2>4, <1>1
  <2>6. ASSUME NEW i \in 2 .. Len(stack'), NEW j \in 2 .. Len(stack'),
               stack'[i].file = stack'[j].file
        PROVE  i = j
    BY <2>6, <1>1, <1>2 DEF IInv, CyclesAreCut
  <2>. QED  BY <2>5, <2>6 DEF CyclesAreCut
<1>. QED  BY <1>4, <1>5, <1>6

\* The module is ready, and the frame that waited for it has it.
LEMMA FinishStep == IInv /\ Finish => IInv'
<1>. SUFFICES ASSUME IInv, Finish PROVE IInv'
  OBVIOUS
<1>. DEFINE n == Len(stack)
            m == Top.mod
            loaded == [inst EXCEPT ![m].state = "ready"]
<1>1. /\ Nested
      /\ ready' = ready \union {Top.file}
      /\ inst' = Importing(loaded, Below, m)
      /\ stack' = SubSeq(stack, 1, n - 1)
      /\ cwd' = Top.back
      /\ memo' = memo /\ calls' = calls
  BY DEF Finish
<1>2. /\ stack # <<>> /\ n \in Nat \ {0, 1} /\ n \in 2 .. n /\ n - 1 \in 1 .. n
      /\ Top \in Frame /\ Below \in Frame
      /\ Top.file \in File \ ready
      /\ memo[Top.file] = m
      /\ m \in DOMAIN inst
      /\ inst[m].file = Top.file
      /\ inst[m].state = "loading"
      /\ Below.mod \in DOMAIN inst
  BY <1>1, NestedFacts
<1>3. /\ inst \in Seq(Module) /\ memo \in [File -> Nat] /\ ready \subseteq File
      /\ stack \in Seq(Frame) /\ calls \in Nat /\ m \in Nat /\ Top.back \in Dir
  BY <1>2 DEF IInv, TypeOK, Frame
<1>4. SetsState(loaded, inst, m, "ready")
  <2>1. "ready" \in States
    BY DEF States
  <2>. QED  BY <2>1, <1>2, <1>3, StateSet
<1>. HIDE DEF loaded
<1>5. AddsUse(inst', loaded, m)
  <2>1. loaded \in Seq(Module) /\ Below.mod \in DOMAIN loaded
    BY <1>2, <1>4 DEF SetsState
  <2>. QED  BY <2>1, <1>1, <1>3, ImportingUses, Zenon
<1>6. /\ inst' \in Seq(Module)
      /\ DOMAIN inst' = DOMAIN inst
      /\ \A k \in DOMAIN inst :
           /\ inst'[k].file = inst[k].file
           /\ inst'[k].uses \subseteq inst[k].uses \union {m}
           /\ inst'[k].state = IF k = m THEN "ready" ELSE inst[k].state
  BY <1>4, <1>5 DEF AddsUse, SetsState
<1>7. EndsLoad(Below)
  BY FinishEnds
<1>. HIDE DEF n, m
<1>8. LoadFrames' /\ BottomFrame' /\ CyclesAreCut'
  BY <1>1, <1>6, <1>7, EndKeeps
<1>9. TypeOK'
  BY <1>1, <1>2, <1>3, <1>6, <1>7 DEF TypeOK, EndsLoad
<1>10. ReadyKnown'
  <2>1. m # 0
    BY <1>2, <1>3
  <2>. QED  BY <2>1, <1>1, <1>2 DEF IInv, ReadyKnown
<1>11. EntriesAreLive'
  <2>. SUFFICES ASSUME NEW g \in File, memo[g] # 0
                PROVE  /\ memo[g] \in DOMAIN inst
                       /\ inst'[memo[g]].file = g
                       /\ inst'[memo[g]].state = IF g \in ready' THEN "ready" ELSE "loading"
    BY <1>1, <1>6 DEF EntriesAreLive
  <2>1. /\ memo[g] \in DOMAIN inst
        /\ inst[memo[g]].file = g
        /\ inst[memo[g]].state = IF g \in ready THEN "ready" ELSE "loading"
    BY DEF IInv, EntriesAreLive
  <2>2. inst'[memo[g]].file = g
    BY <2>1, <1>6
  <2>3. CASE g = Top.file
    BY <2>1, <2>2, <2>3, <1>1, <1>2, <1>6
  <2>4. CASE g # Top.file
    <3>1. memo[g] # m /\ (g \in ready' <=> g \in ready)
      BY <2>1, <2>4, <1>1, <1>2
    <3>. QED  BY <3>1, <2>1, <2>2, <1>6
  <2>. QED  BY <2>3, <2>4
<1>12. ReadyMemorised'
  BY <1>1, <1>2, <1>6 DEF IInv, ReadyMemorised
<1>13. ImportsAreComplete'
  BY <1>2, <1>6 DEF IInv, ImportsAreComplete
<1>14. AuxWaits'
  <2>. SUFFICES ASSUME NEW i \in 2 .. n - 1, stack'[i].step = "aux", ~stack'[i].err
                PROVE  /\ Aux[stack'[i].file] \in File
                       /\ IF i = n - 1 THEN Aux[stack'[i].file] \in ready'
                          ELSE stack'[i + 1].file = Aux[stack'[i].file]
    BY <1>7 DEF AuxWaits, EndsLoad, n
  <2>1. i \in 1 .. n - 1 /\ i \in 2 .. n /\ i # n
    BY <1>2
  <2>2. stack'[i] = stack[i]
    BY <2>1, <1>7 DEF EndsLoad, Below, n
  <2>3. Aux[stack[i].file] \in File /\ stack[i + 1].file = Aux[stack[i].file]
    BY <2>1, <2>2 DEF IInv, AuxWaits, n
  <2>4. CASE i = n - 1
    <3>1. stack[i + 1] = Top
      BY <2>4, <1>2 DEF Top, n
    <3>. QED  BY <3>1, <2>2, <2>3, <2>4, <1>1
  <2>5. CASE i # n - 1
    <3>1. i + 1 \in 1 .. n - 1
      BY <2>1, <2>5, <1>2
    <3>2. stack'[i + 1].file = stack[i + 1].file
      BY <3>1, <1>7 DEF EndsLoad, n
    <3>. QED  BY <3>2, <2>2, <2>3, <2>5
  <2>. QED  BY <2>4, <2>5
<1>. QED  BY <1>8, <1>9, <1>10, <1>11, <1>12, <1>13, <1>14 DEF IInv

\* The module is forgotten; the frame that waited for it fails or goes on
\* without it, and no initialiser takes the missing script for a loaded one.
LEMMA FailStep == IInv /\ Fail => IInv'
<1>. SUFFICES ASSUME IInv, Fail PROVE IInv'
  OBVIOUS
<1>. DEFINE n == Len(stack)
            m == Top.mod
            x == Refused(Below)
            t == SubSeq(stack, 1, n - 2)
<1>1. /\ Nested
      /\ memo' = [memo EXCEPT ![Top.file] = 0]
      /\ inst' = [inst EXCEPT ![m].state = "failed"]
      /\ stack' = Append(t, x)
      /\ cwd' = Top.back
      /\ ready' = ready /\ calls' = calls
  BY DEF Fail
<1>2. /\ stack # <<>> /\ n \in Nat \ {0, 1} /\ n \in 2 .. n /\ n - 1 \in 1 .. n
      /\ Top \in Frame /\ Below \in Frame
      /\ Top.file \in File \ ready
      /\ memo[Top.file] = m
      /\ m \in DOMAIN inst
      /\ inst[m].file = Top.file
      /\ inst[m].state = "loading"
  BY <1>1, NestedFacts
<1>3. /\ inst \in Seq(Module) /\ memo \in [File -> Nat] /\ ready \subseteq File
      /\ stack \in Seq(Frame) /\ calls \in Nat /\ Top.back \in Dir
  BY <1>2 DEF IInv, TypeOK, Frame
<1>4. SetsState(inst', inst, m, "failed")
  <2>1. "failed" \in States
    BY DEF States
  <2>. QED  BY <2>1, <1>1, <1>2, <1>3, StateSet
<1>5. /\ x \in Frame
      /\ x.mod = Below.mod /\ x.file = Below.file /\ x.step = Below.step
      /\ x.step = "aux" => x.err
  BY <1>2 DEF Refused, Frame
<1>. HIDE DEF x
<1>6. EndsLoad(x)
  BY FailEnds DEF x
<1>. HIDE DEF n, m
<1>7. \A k \in DOMAIN inst : inst'[k].file = inst[k].file
  BY <1>4 DEF SetsState
<1>8. LoadFrames' /\ BottomFrame' /\ CyclesAreCut'
  <2>1. /\ \A g \in File \ {Top.file} : memo'[g] = memo[g] /\ (g \in ready' <=> g \in ready)
        /\ memo'[Top.file] = 0
        /\ DOMAIN inst' = DOMAIN inst
    BY <1>1, <1>2, <1>3, <1>4 DEF SetsState
  <2>. QED  BY <2>1, <1>1, <1>6, <1>7, EndKeeps
<1>9. TypeOK'
  BY <1>1, <1>3, <1>4, <1>6 DEF TypeOK, EndsLoad, SetsState
<1>10. ReadyKnown'
  BY <1>1, <1>2, <1>3 DEF IInv, ReadyKnown
<1>11. EntriesAreLive'
  BY <1>1, <1>2, <1>3, <1>4 DEF IInv, EntriesAreLive, SetsState
<1>12. ReadyMemorised'
  BY <1>1, <1>2, <1>3, <1>4 DEF IInv, ReadyMemorised, SetsState
<1>13. ImportsAreComplete'
  BY <1>2, <1>4 DEF IInv, ImportsAreComplete, SetsState
<1>14. AuxWaits'
  <2>. SUFFICES ASSUME NEW i \in 2 .. n - 1, stack'[i].step = "aux", ~stack'[i].err
                PROVE  /\ Aux[stack'[i].file] \in File
                       /\ i # n - 1
                       /\ stack'[i + 1].file = Aux[stack'[i].file]
    BY <1>6 DEF AuxWaits, EndsLoad, n
  <2>1. i # n - 1
    BY <1>5, <1>6 DEF EndsLoad, n
  <2>2. /\ i \in 1 .. n - 1 /\ i \in 2 .. n /\ i # n /\ i + 1 \in 1 .. n - 1
    BY <2>1, <1>2
  <2>3. stack'[i] = stack[i] /\ stack'[i + 1].file = stack[i + 1].file
    BY <2>1, <2>2, <1>6 DEF EndsLoad, n
  <2>. QED  BY <2>1, <2>2, <2>3 DEF IInv, AuxWaits, n
<1>. QED  BY <1>8, <1>9, <1>10, <1>11, <1>12, <1>13, <1>14 DEF IInv

-----------------------------------------------------------------------------
(* Modules are destroyed *)

\* The script an initialiser loaded is there, under its name, when it is taken.
LEMMA TakeAuxStep == IInv /\ TakeAux => IInv'
<1>. SUFFICES ASSUME IInv, TakeAux PROVE IInv'
  OBVIOUS
<1>. DEFINE f == Aux[Top.file]
            m == memo[f]
            e == [inst[Top.mod] EXCEPT !.uses = @ \union inst[m].uses]
            copied == [inst EXCEPT ![Top.mod].uses = @ \union inst[m].uses]
            x == [Top EXCEPT !.step = "done"]
<1>1. /\ stack # <<>> /\ Top.step = "aux" /\ ~Top.err
      /\ inst' = Destroyed(copied, m)
      /\ memo' = [memo EXCEPT ![f] = 0]
      /\ ready' = ready \ {f}
      /\ stack' = WithTop(x)
      /\ cwd' = cwd /\ calls' = calls
  BY DEF TakeAux
<1>2. /\ Len(stack) \in 2 .. Len(stack) /\ Len(stack) \in Nat \ {0}
      /\ Top \in Frame /\ Top.mod \in DOMAIN inst
  BY <1>1, TopFacts
<1>3. f \in ready
  BY <1>1, <1>2 DEF IInv, AuxWaits, Top
<1>4. /\ f \in File /\ m # 0 /\ m \in Nat
      /\ m \in DOMAIN inst
      /\ inst[m].state = "ready"
      /\ inst[m].file = f
  BY <1>3, ReadyFacts
<1>5. /\ inst \in Seq(Module) /\ memo \in [File -> Nat] /\ ready \subseteq File
      /\ calls \in Nat /\ cwd \in Dir
  BY DEF IInv, TypeOK
<1>6. /\ copied \in Seq(Module)
      /\ DOMAIN copied = DOMAIN inst
      /\ \A k \in DOMAIN inst :
           /\ copied[k].file = inst[k].file
           /\ copied[k].state = inst[k].state
           /\ copied[k].uses \subseteq inst[k].uses \union inst[m].uses
  <2>1. inst[Top.mod] \in Module /\ inst[m] \in Module
    BY <1>2, <1>4, <1>5
  <2>2. /\ e \in Module
        /\ e.file = inst[Top.mod].file /\ e.state = inst[Top.mod].state
        /\ e.uses = inst[Top.mod].uses \union inst[m].uses
    BY <2>1 DEF Module
  <2>3. copied = [inst EXCEPT ![Top.mod] = e]
    OBVIOUS
  <2>. HIDE DEF e, copied, m, f
  <2>4. copied \in Seq(Module) /\ DOMAIN copied = DOMAIN inst
    BY <2>2, <2>3, <1>2, <1>5
  <2>. QED  BY <2>2, <2>3, <2>4, <1>2
<1>. HIDE DEF e, copied, m
<1>7. SetsState(inst', copied, m, "destroyed")
  <2>1. m \in DOMAIN copied
    BY <1>4, <1>6
  <2>. QED  BY <2>1, <1>1, <1>6, DestroyedSets, Zenon
<1>8. /\ inst' \in Seq(Module)
      /\ DOMAIN inst' = DOMAIN inst
      /\ \A k \in DOMAIN inst :
           /\ inst'[k].file = inst[k].file
           /\ inst'[k].state = IF k = m THEN "destroyed" ELSE inst[k].state
           /\ inst'[k].uses \subseteq inst[k].uses \union inst[m].uses
  BY <1>6, <1>7 DEF SetsState
<1>9. KeepsLoads(x) /\ x.step = "done"
  BY <1>1, StepOn
<1>. HIDE DEF x
<1>10. \A g \in File : memo'[g] = IF g = f THEN 0 ELSE memo[g]
  BY <1>1, <1>4, <1>5
<1>11. \A i \in 2 .. Len(stack) : stack[i].file # f /\ i \in 1 .. Len(stack)
  BY <1>2, <1>3 DEF IInv, LoadFrames
<1>. HIDE DEF f
<1>12. LoadFrames'
  BY <1>1, <1>9, <1>10, <1>11 DEF IInv, LoadFrames, KeepsLoads
<1>13. BottomFrame'
  <2>1. 1 \in 1 .. Len(stack)
    BY <1>2
  <2>. QED  BY <2>1, <1>1, <1>8, <1>9 DEF IInv, BottomFrame, KeepsLoads
<1>14. CyclesAreCut'
  <2>1. {stack'[i].file : i \in 2 .. Len(stack)} = {stack[i].file : i \in 2 .. Len(stack)}
    BY <1>9, <1>11 DEF KeepsLoads
  <2>2. {g \in File \ ready' : memo'[g] # 0} = {g \in File \ ready : memo[g] # 0}
    BY <1>1, <1>3, <1>10
  <2>3. Len(stack') = Len(stack)
    BY <1>9 DEF KeepsLoads
  <2>4. ASSUME NEW i \in 2 .. Len(stack), NEW j \in 2 .. Len(stack),
               stack'[i].file = stack'[j].file
        PROVE  i = j
    BY <2>4, <1>9, <1>11 DEF IInv, CyclesAreCut, KeepsLoads
  <2>. QED  BY <2>1, <2>2, <2>3, <2>4 DEF IInv, CyclesAreCut
<1>15. TypeOK'
  BY <1>1, <1>4, <1>5, <1>8, <1>9 DEF TypeOK, KeepsLoads
<1>16. EntriesAreLive'
  BY <1>1, <1>4, <1>8, <1>10 DEF IInv, EntriesAreLive
<1>17. ReadyKnown' /\ ReadyMemorised'
  BY <1>1, <1>4, <1>5, <1>8, <1>10 DEF IInv, ReadyKnown, ReadyMemorised
<1>18. ImportsAreComplete'
  BY <1>4, <1>8 DEF IInv, ImportsAreComplete
<1>19. AuxWaits'
  <2>. SUFFICES ASSUME NEW i \in 2 .. Len(stack), stack'[i].step = "aux", ~stack'[i].err
                PROVE  /\ Aux[stack'[i].file] \in File
                       /\ i # Len(stack)
                       /\ stack'[i + 1].file = Aux[stack'[i].file]
    BY <1>9 DEF AuxWaits, KeepsLoads
  <2>1. i # Len(stack)
    BY <1>9 DEF KeepsLoads
  <2>2. i + 1 \in 1 .. Len(stack)
    BY <2>1, <1>2
  <2>. QED  BY <2>1, <2>2, <1>9, <1>11 DEF IInv, AuxWaits, KeepsLoads
<1>. QED
  BY <1>12, <1>13, <1>14, <1>15, <1>16, <1>17, <1>18, <1>19 DEF IInv

\* The main program has no entry that could outlive it.
LEMMA ExitStep == IInv /\ Exit => IInv'
<1>. SUFFICES ASSUME IInv, Exit PROVE IInv'
  OBVIOUS
<1>. DEFINE m == Top.mod
<1>1. /\ Len(stack) = 1
      /\ inst' = Destroyed(inst, m)
      /\ stack' = <<>>
      /\ memo' = memo /\ ready' = ready /\ cwd' = cwd /\ calls' = calls
  BY DEF Exit
<1>2. stack # <<>>
  BY <1>1
<1>3. m \in DOMAIN inst /\ inst[m].file = Nothing /\ Nothing \notin File
  BY <1>1, <1>2, PathAssumption DEF IInv, BottomFrame, Top
<1>4. inst \in Seq(Module)
  BY DEF IInv, TypeOK
<1>5. SetsState(inst', inst, m, "destroyed")
  BY <1>1, <1>3, <1>4, DestroyedSets, Zenon
<1>. HIDE DEF m
<1>6. TypeOK'
  <2>1. <<>> \in Seq(Frame)
    OBVIOUS
  <2>. QED  BY <2>1, <1>1, <1>5 DEF IInv, TypeOK, SetsState
<1>7. Len(stack') = 0 /\ 2 .. 0 = {}
  BY <1>1
<1>8. LoadFrames' /\ BottomFrame' /\ AuxWaits'
  BY <1>1, <1>7 DEF LoadFrames, BottomFrame, AuxWaits
<1>9. CyclesAreCut'
  <2>1. 2 .. Len(stack) = {} /\ 2 .. Len(stack') = {}
    BY <1>1
  <2>. QED  BY <2>1, <1>1 DEF IInv, CyclesAreCut
<1>10. EntriesAreLive'
  BY <1>1, <1>3, <1>5 DEF IInv, EntriesAreLive, SetsState
<1>11. ReadyKnown' /\ ReadyMemorised'
  BY <1>1, <1>5 DEF IInv, ReadyKnown, ReadyMemorised, SetsState
<1>12. ImportsAreComplete'
  BY <1>5 DEF IInv, ImportsAreComplete, SetsState
<1>. QED
  BY <1>6, <1>8, <1>9, <1>10, <1>11, <1>12 DEF IInv

\* An entry goes with the instance it leads to, and no other leads there.
LEMMA TeardownStep ==
    ASSUME IInv, NEW f \in File, Teardown(f)
    PROVE  IInv'
<1>. DEFINE m == memo[f]
<1>1. /\ stack = <<>> /\ m # 0
      /\ inst' = Destroyed(inst, m)
      /\ memo' = [memo EXCEPT ![f] = 0]
      /\ ready' = ready \ {f}
      /\ cwd' = cwd /\ stack' = stack /\ calls' = calls
  BY DEF Teardown
<1>2. inst \in Seq(Module) /\ memo \in [File -> Nat]
  BY DEF IInv, TypeOK
<1>3. m \in DOMAIN inst /\ inst[m].file = f
  BY <1>1 DEF IInv, EntriesAreLive
<1>. HIDE DEF m
<1>4. SetsState(inst', inst, m, "destroyed")
  BY <1>1, <1>2, <1>3, DestroyedSets, Zenon
<1>5. \A g \in File : memo'[g] = IF g = f THEN 0 ELSE memo[g]
  BY <1>1, <1>2
<1>6. TypeOK'
  BY <1>1, <1>2, <1>4 DEF IInv, TypeOK, SetsState
<1>7. Len(stack) = 0 /\ 2 .. 0 = {}
  BY <1>1
<1>8. LoadFrames' /\ BottomFrame' /\ AuxWaits'
  BY <1>1, <1>7 DEF LoadFrames, BottomFrame, AuxWaits
<1>9. CyclesAreCut'
  <2>1. 2 .. Len(stack) = {} /\ 2 .. Len(stack') = {}
    BY <1>1, <1>7
  <2>2. {g \in File \ ready : memo[g] # 0} = {}
    BY <2>1 DEF IInv, CyclesAreCut
  <2>. QED  BY <2>1, <2>2, <1>1, <1>5 DEF CyclesAreCut
<1>10. EntriesAreLive'
  BY <1>1, <1>3, <1>4, <1>5 DEF IInv, EntriesAreLive, SetsState
<1>11. ReadyKnown' /\ ReadyMemorised'
  BY <1>1, <1>2, <1>3, <1>4, <1>5 DEF IInv, TypeOK, ReadyKnown, ReadyMemorised, SetsState, m
<1>12. ImportsAreComplete'
  BY <1>4 DEF IInv, ImportsAreComplete, SetsState
<1>. QED
  BY <1>6, <1>8, <1>9, <1>10, <1>11, <1>12 DEF IInv

-----------------------------------------------------------------------------
(* The invariant holds *)

\* The program starts alone, with an empty memo.
LEMMA InitIInv == Init => IInv
<1>. SUFFICES ASSUME Init PROVE IInv
  OBVIOUS
<1>. DEFINE program == [file |-> Nothing, state |-> "loading", uses |-> {}]
            bottom == [mod |-> 1, file |-> Nothing, todo |-> Program,
                       step |-> "build", err |-> FALSE, back |-> Start]
<1>1. /\ inst = <<program>> /\ memo = [f \in File |-> 0] /\ ready = {}
      /\ cwd = Start /\ stack = <<bottom>> /\ calls = 0
  BY DEF Init
<1>2. /\ program \in Module /\ program.file = Nothing
      /\ program.state = "loading" /\ program.uses = {}
  BY DEF Module, States
<1>3. /\ bottom \in Frame /\ bottom.mod = 1 /\ bottom.file = Nothing /\ bottom.step = "build"
  BY LoaderAssumption DEF Frame, Steps
<1>. HIDE DEF program, bottom
<1>4. TypeOK
  BY <1>1, <1>2, <1>3, LoaderAssumption DEF TypeOK
<1>5. Len(stack) = 1 /\ stack[1] = bottom /\ 2 .. 1 = {}
  BY <1>1
<1>6. LoadFrames /\ AuxWaits
  BY <1>5 DEF LoadFrames, AuxWaits
<1>7. DOMAIN inst = {1} /\ inst[1] = program
  BY <1>1
<1>8. BottomFrame
  BY <1>2, <1>3, <1>5, <1>7 DEF BottomFrame
<1>9. CyclesAreCut
  BY <1>1, <1>5 DEF CyclesAreCut
<1>10. EntriesAreLive /\ ReadyKnown
  BY <1>1 DEF EntriesAreLive, ReadyKnown
<1>11. ReadyMemorised /\ ImportsAreComplete
  BY <1>2, <1>7 DEF ReadyMemorised, ImportsAreComplete
<1>. QED
  BY <1>4, <1>6, <1>8, <1>9, <1>10, <1>11 DEF IInv

\* Every step keeps the invariant.
LEMMA NextIInv == IInv /\ [Next]_vars => IInv'
<1>. SUFFICES ASSUME IInv, [Next]_vars PROVE IInv'
  OBVIOUS
<1>1. CASE Import
  BY <1>1, ImportStep
<1>2. ASSUME NEW r \in Request, Require(r) PROVE IInv'
  BY <1>2, RequireStep
<1>3. ASSUME NEW d \in Dir, Chdir(d) PROVE IInv'
  BY <1>3, ChdirStep
<1>4. CASE Built
  BY <1>4, BuiltStep
<1>5. CASE LoadAux
  BY <1>5, LoadAuxStep
<1>6. CASE InitAlone
  BY <1>6, InitAloneStep
<1>7. CASE TakeAux
  BY <1>7, TakeAuxStep
<1>8. CASE Finish
  BY <1>8, FinishStep
<1>9. CASE Fail
  BY <1>9, FailStep
<1>10. CASE Exit
  BY <1>10, ExitStep
<1>11. ASSUME NEW f \in File, Teardown(f) PROVE IInv'
  BY <1>11, TeardownStep
<1>12. CASE UNCHANGED vars
  <2>1. UNCHANGED <<inst, memo, ready, cwd, stack, calls>>
    BY <1>12 DEF vars
  <2>2. TypeOK' /\ CyclesAreCut' /\ EntriesAreLive' /\ ImportsAreComplete'
    BY <2>1 DEF IInv, TypeOK, CyclesAreCut, EntriesAreLive, ImportsAreComplete
  <2>3. LoadFrames' /\ BottomFrame' /\ AuxWaits' /\ ReadyKnown' /\ ReadyMemorised'
    BY <2>1 DEF IInv, LoadFrames, BottomFrame, AuxWaits, ReadyKnown, ReadyMemorised
  <2>. QED  BY <2>2, <2>3 DEF IInv
<1>. QED
  BY <1>1, <1>2, <1>3, <1>4, <1>5, <1>6, <1>7, <1>8, <1>9, <1>10, <1>11, <1>12 DEF Next

\* So it always holds.
LEMMA IInvAlways == Spec => []IInv
  BY InitIInv, NextIInv, PTL DEF Spec

\* The types, for every file system and every program: what the loader keeps
\* in src/root.c and src/module.c is what its functions expect of it.
THEOREM LoaderTypes == Spec => []TypeOK
<1>1. IInv => TypeOK
  BY DEF IInv
<1>. QED  BY <1>1, IInvAlways, PTL

\* check_memorized (src/environment.c) takes an entry that is not ready for a
\* cyclic dependence.  It is right: such entries are the loads in progress,
\* however deep they nest and whatever failed before.
THEOREM CyclesAreFound == Spec => []CyclesAreCut
<1>1. IInv => CyclesAreCut
  BY DEF IInv
<1>. QED  BY <1>1, IInvAlways, PTL

\* eth_get_memorized_module never answers with a module that failed or that
\* was destroyed, although three functions fail, forget and destroy modules.
THEOREM MemoIsLive == Spec => []EntriesAreLive
<1>1. IInv => EntriesAreLive
  BY DEF IInv
<1>. QED  BY <1>1, IInvAlways, PTL

\* A file is initialised once: two imports of it share their globals, also
\* when one of them is met while a library's initialiser runs.
THEOREM InstancesAreUnique == Spec => []OneInstance
<1>1. IInv => OneInstance
  BY DEF IInv, ReadyMemorised, OneInstance
<1>. QED  BY <1>1, IInvAlways, PTL

\* A module gets definitions only of modules that were loaded to the end,
\* never of one that is being loaded, or failed.
THEOREM ImportsAreWhole == Spec => []ImportsAreComplete
<1>1. IInv => ImportsAreComplete
  BY DEF IInv
<1>. QED  BY <1>1, IInvAlways, PTL

-----------------------------------------------------------------------------
(* Equal sequences *)

\* Sequences with the same elements are the same.
LEMMA EqualSeqs ==
    ASSUME NEW S, NEW s \in Seq(S), NEW t \in Seq(S), Len(s) = Len(t),
           \A i \in 1 .. Len(s) : s[i] = t[i]
    PROVE  s = t
  OBVIOUS

\* A sequence with one more element.
LEMMA IsAppend ==
    ASSUME NEW S, NEW s \in Seq(S), NEW t \in Seq(S), NEW x \in S,
           Len(t) = Len(s) + 1, t[Len(s) + 1] = x,
           \A i \in 1 .. Len(s) : t[i] = s[i]
    PROVE  t = Append(s, x)
<1>. DEFINE u == Append(s, x)
<1>1. /\ u \in Seq(S) /\ Len(u) = Len(s) + 1 /\ u[Len(s) + 1] = x
      /\ \A i \in 1 .. Len(s) : u[i] = s[i]
  BY Appended
<1>2. \A n \in Nat : \A i \in 1 .. n + 1 : i \in 1 .. n \/ i = n + 1
  OBVIOUS
<1>3. \A i \in 1 .. Len(t) : t[i] = u[i]
  BY <1>1, <1>2, LenProperties
<1>. HIDE DEF u
<1>4. t = u
  BY <1>1, <1>3, EqualSeqs
<1>. QED  BY <1>4 DEF u

\* A sequence with one element less.
LEMMA IsFront ==
    ASSUME NEW S, NEW s \in Seq(S), NEW t \in Seq(S),
           Len(s) # 0, Len(t) = Len(s) - 1,
           \A i \in 1 .. Len(t) : t[i] = s[i]
    PROVE  t = SubSeq(s, 1, Len(s) - 1)
<1>. DEFINE n == Len(s) - 1
            u == SubSeq(s, 1, n)
<1>1. n \in 0 .. Len(s)
  BY LenProperties
<1>2. u \in Seq(S) /\ Len(u) = n /\ \A i \in 1 .. n : u[i] = s[i]
  BY <1>1, Prefix, Zenon
<1>. HIDE DEF u
<1>3. t = u
  BY <1>2, EqualSeqs
<1>. QED  BY <1>3 DEF u

\* A sequence with another last element.
LEMMA IsReplaced ==
    ASSUME NEW S, NEW s \in Seq(S), NEW t \in Seq(S), NEW x \in S,
           Len(s) # 0, Len(t) = Len(s), t[Len(s)] = x,
           \A i \in 1 .. Len(s) : i # Len(s) => t[i] = s[i]
    PROVE  t = [s EXCEPT ![Len(s)] = x]
<1>. DEFINE u == [s EXCEPT ![Len(s)] = x]
<1>1. s # <<>>
  OBVIOUS
<1>2. /\ u \in Seq(S) /\ Len(u) = Len(s) /\ u[Len(s)] = x
      /\ \A i \in 1 .. Len(s) : i # Len(s) => u[i] = s[i]
  BY <1>1, Replaced
<1>. HIDE DEF u
<1>3. \A i \in 1 .. Len(t) : t[i] = u[i]
  BY <1>2
<1>4. t = u
  BY <1>2, <1>3, EqualSeqs
<1>. QED  BY <1>4 DEF u

-----------------------------------------------------------------------------
(* The mapped expressions *)

\* The files and the directories of a stack.
FilesOf(s) == [i \in 1 .. (IF s = <<>> THEN 0 ELSE Len(s) - 1) |-> s[i + 1].file]
DirsOf(s, d) == [i \in 1 .. Len(s) |-> IF i = Len(s) THEN d ELSE s[i + 1].back]

\* The files of a stack whose loads have one.
LEMMA FilesOfStack ==
    ASSUME NEW s \in Seq(Frame), \A i \in 2 .. Len(s) : s[i].file \in File
    PROVE  /\ FilesOf(s) \in Seq(File)
           /\ s = <<>> => Len(FilesOf(s)) = 0
           /\ s # <<>> => Len(FilesOf(s)) = Len(s) - 1 /\ Len(s) \in Nat \ {0}
           /\ \A i \in 1 .. Len(FilesOf(s)) : FilesOf(s)[i] = s[i + 1].file
<1>. DEFINE n == IF s = <<>> THEN 0 ELSE Len(s) - 1
<1>1. n \in Nat /\ (s # <<>> => Len(s) \in Nat \ {0} /\ n = Len(s) - 1)
  BY EmptySeq, LenProperties
<1>2. \A i \in 1 .. n : i + 1 \in 2 .. Len(s)
  BY <1>1
<1>. HIDE DEF n
<1>3. FilesOf(s) = [i \in 1 .. n |-> s[i + 1].file]
  BY DEF FilesOf, n
<1>4. FilesOf(s) \in Seq(File) /\ Len(FilesOf(s)) = n
  BY <1>1, <1>2, <1>3
<1>5. s = <<>> => n = 0
  BY DEF n
<1>. QED  BY <1>1, <1>3, <1>4, <1>5

\* t holds the directories of the stack s, whose innermost frame is in d.
DirsAre(t, s, d) ==
    /\ t \in Seq(Dir)
    /\ Len(t) = Len(s)
    /\ s # <<>> => t[Len(s)] = d
    /\ \A i \in 1 .. Len(s) : i # Len(s) => t[i] = s[i + 1].back

\* The directories of a stack.
LEMMA DirsOfStack ==
    ASSUME NEW s \in Seq(Frame), NEW d \in Dir
    PROVE  DirsAre(DirsOf(s, d), s, d)
<1>1. Len(s) \in Nat
  BY LenProperties
<1>2. \A i \in 1 .. Len(s) : i # Len(s) => i + 1 \in 1 .. Len(s)
  BY <1>1
<1>3. \A i \in 1 .. Len(s) : s[i] \in Frame /\ s[i].back \in Dir
  <2>1. \A i \in 1 .. Len(s) : s[i] \in Frame
    BY ElementOfSeq
  <2>. QED  BY <2>1 DEF Frame
<1>4. \A i \in 1 .. Len(s) : (IF i = Len(s) THEN d ELSE s[i + 1].back) \in Dir
  BY <1>2, <1>3
<1>5. DirsOf(s, d) \in Seq(Dir) /\ Len(DirsOf(s, d)) = Len(s)
  BY <1>1, <1>4 DEF DirsOf
<1>6. s # <<>> => Len(s) \in 1 .. Len(s)
  BY <1>1, EmptySeq
<1>. QED  BY <1>1, <1>5, <1>6 DEF DirsOf, DirsAre

\* In every state the invariant describes, the expressions are well formed.
LEMMA Mapped ==
    ASSUME IInv
    PROVE  /\ stack \in Seq(Frame) /\ cwd \in Dir
           /\ \A i \in 2 .. Len(stack) : stack[i].file \in File
  BY DEF IInv, TypeOK, LoadFrames

\* ... and so they are after a step that keeps it.
LEMMA MappedNext ==
    ASSUME IInv'
    PROVE  /\ stack' \in Seq(Frame) /\ cwd' \in Dir
           /\ \A i \in 2 .. Len(stack') : stack'[i].file \in File
  BY DEF IInv, TypeOK, LoadFrames

\* One file gets another status.
LEMMA OneStatus ==
    ASSUME NEW f \in File,
           \A g \in File \ {f} : memo'[g] = memo[g] /\ (g \in ready' <=> g \in ready)
    PROVE  Status' = [Status EXCEPT ![f] = IF memo'[f] = 0 THEN "absent"
                                           ELSE IF f \in ready' THEN "ready" ELSE "loading"]
  BY DEF Status

-----------------------------------------------------------------------------
(* What a step of the loader is to the registry *)

\* The registry does not move.
Same == Status' = Status /\ Loads' = Loads /\ Dirs' = Dirs

\* It moves as it may, or does not move.
Step == Registry!RegistryNext \/ Same

\* The expressions, written over the stack.
LEMMA Written ==
    /\ Loads = FilesOf(stack) /\ Loads' = FilesOf(stack')
    /\ Dirs = DirsOf(stack, cwd) /\ Dirs' = DirsOf(stack', cwd')
  BY DEF Loads, Dirs, FilesOf, DirsOf

\* The innermost frame goes on, and the others wait: the same loads.
LEMMA SameLoadsMapped ==
    ASSUME IInv, IInv', stack # <<>>, NEW x, KeepsLoads(x)
    PROVE  Loads' = Loads
<1>. DEFINE n == Len(stack)
            t == FilesOf(stack)
            u == FilesOf(stack')
<1>1. /\ n \in Nat \ {0} /\ stack' # <<>> /\ Len(stack') = n
      /\ \A i \in 1 .. n : stack'[i].file = stack[i].file
  BY TopFacts, MappedNext, EmptySeq DEF KeepsLoads
<1>2. /\ t \in Seq(File) /\ Len(t) = n - 1
      /\ \A i \in 1 .. n - 1 : t[i] = stack[i + 1].file
  BY Mapped, FilesOfStack
<1>3. /\ u \in Seq(File) /\ Len(u) = n - 1
      /\ \A i \in 1 .. n - 1 : u[i] = stack'[i + 1].file
  BY <1>1, MappedNext, FilesOfStack
<1>4. \A i \in 1 .. n - 1 : i + 1 \in 1 .. n
  BY <1>1
<1>. HIDE DEF t, u
<1>5. \A i \in 1 .. Len(t) : t[i] = u[i]
  BY <1>1, <1>2, <1>3, <1>4
<1>6. t = u
  BY <1>2, <1>3, <1>5, EqualSeqs
<1>. QED  BY <1>6, Written DEF t, u

\* ... and, unless it changes its own, the same directories.
LEMMA SameDirsMapped ==
    ASSUME IInv, IInv', stack # <<>>, NEW x, KeepsLoads(x), x.back = Top.back, cwd' = cwd
    PROVE  Dirs' = Dirs
<1>. DEFINE n == Len(stack)
            t == DirsOf(stack, cwd)
            u == DirsOf(stack', cwd)
<1>1. /\ n \in Nat \ {0} /\ stack' # <<>> /\ Len(stack') = n
      /\ \A i \in 1 .. n : stack'[i].back = stack[i].back
  BY TopFacts, MappedNext, EmptySeq DEF KeepsLoads, Top
<1>2. /\ t \in Seq(Dir) /\ Len(t) = n /\ t[n] = cwd
      /\ \A i \in 1 .. n : i # n => t[i] = stack[i + 1].back
  <2>1. DirsAre(t, stack, cwd)
    BY Mapped, DirsOfStack, Zenon
  <2>. QED  BY <2>1 DEF DirsAre
<1>3. /\ u \in Seq(Dir) /\ Len(u) = n /\ u[n] = cwd
      /\ \A i \in 1 .. n : i # n => u[i] = stack'[i + 1].back
  <2>1. DirsAre(u, stack', cwd)
    BY Mapped, MappedNext, DirsOfStack, Zenon
  <2>. HIDE DEF u
  <2>. QED  BY <1>1, <2>1 DEF DirsAre
<1>4. \A i \in 1 .. n : i # n => i + 1 \in 1 .. n
  BY <1>1
<1>. HIDE DEF t, u
<1>5. \A i \in 1 .. Len(t) : t[i] = u[i]
  BY <1>1, <1>2, <1>3, <1>4
<1>6. t = u
  BY <1>2, <1>3, <1>5, EqualSeqs
<1>. QED  BY <1>6, Written DEF t, u

\* ... and the same status of every file: the registry does not move.
LEMMA SameMapped ==
    ASSUME IInv, IInv', stack # <<>>, NEW x, KeepsLoads(x), x.back = Top.back,
           UNCHANGED <<memo, ready, cwd>>
    PROVE  Same
<1>1. Status' = Status
  BY DEF Status
<1>. QED  BY <1>1, SameLoadsMapped, SameDirsMapped DEF Same

-----------------------------------------------------------------------------
(* A load begins *)

\* A new entry, a new frame on the stack, and the directory of the new file.
LEMMA BeginStep ==
    ASSUME IInv, IInv', NEW fr, NEW f \in File, memo[f] = 0, Asking(fr, f), Enter(fr, f)
    PROVE  Registry!Begin(f)
<1>. DEFINE n == Len(stack)
            m == Len(inst) + 1
            new == [mod |-> m, file |-> f, err |-> FALSE, back |-> cwd,
                    todo |-> IF f \in Elf THEN <<>> ELSE Imports[f],
                    step |-> IF f \in Elf THEN "init" ELSE "build"]
<1>1. /\ stack # <<>> /\ fr \in Frame /\ fr.file = Top.file /\ fr.back = Top.back
      /\ memo' = [memo EXCEPT ![f] = m]
      /\ cwd' = Home[f] /\ Home[f] \in Dir
      /\ stack' = Append(WithTop(fr), new)
      /\ ready' = ready
  BY LoaderAssumption DEF Enter, Asking
<1>2. new.file = f /\ new.back = cwd
  OBVIOUS
<1>3. /\ stack \in Seq(Frame) /\ memo \in [File -> Nat]
      /\ n \in Nat \ {0} /\ m \in Nat \ {0} /\ f \notin ready
  BY <1>1, TopFacts DEF IInv, TypeOK, ReadyKnown
<1>4. new \in Frame
  <2>1. cwd \in Dir
    BY DEF IInv, TypeOK
  <2>2. (IF f \in Elf THEN <<>> ELSE Imports[f]) \in Seq(Request)
    BY LoaderAssumption
  <2>3. (IF f \in Elf THEN "init" ELSE "build") \in Steps
    BY DEF Steps
  <2>. QED  BY <2>1, <2>2, <2>3, <1>3 DEF Frame
<1>. HIDE DEF new, m
<1>5. /\ WithTop(fr) \in Seq(Frame)
      /\ Len(WithTop(fr)) = n
      /\ WithTop(fr)[n] = fr
      /\ \A i \in 1 .. n : i # n => WithTop(fr)[i] = stack[i]
  BY <1>1, <1>3, Replaced DEF WithTop
<1>6. /\ stack' \in Seq(Frame)
      /\ Len(stack') = n + 1 /\ stack' # <<>>
      /\ stack'[n + 1] = new
      /\ \A i \in 1 .. n : stack'[i].file = stack[i].file /\ stack'[i].back = stack[i].back
  <2>1. /\ stack' \in Seq(Frame)
        /\ Len(stack') = n + 1
        /\ stack'[n + 1] = new
        /\ \A i \in 1 .. n : stack'[i] = WithTop(fr)[i]
    BY <1>1, <1>4, <1>5, Appended
  <2>2. stack' # <<>>
    BY <2>1, <1>3, EmptySeq
  <2>. QED  BY <2>1, <2>2, <1>1, <1>3, <1>5 DEF Top
<1>7. Status[f] = "absent" /\ Status' = [Status EXCEPT ![f] = "loading"]
  <2>1. memo'[f] # 0 /\ f \notin ready'
    BY <1>1, <1>3
  <2>2. \A g \in File \ {f} : memo'[g] = memo[g] /\ (g \in ready' <=> g \in ready)
    BY <1>1, <1>3
  <2>3. Status' = [Status EXCEPT ![f] = "loading"]
    BY <2>1, <2>2, OneStatus
  <2>. QED  BY <2>3 DEF Status
<1>8. Loads' = Append(Loads, f)
  <2>. DEFINE t == FilesOf(stack)
              u == FilesOf(stack')
  <2>1. /\ t \in Seq(File) /\ Len(t) = n - 1
        /\ \A i \in 1 .. n - 1 : t[i] = stack[i + 1].file
    BY <1>1, Mapped, FilesOfStack
  <2>2. /\ u \in Seq(File) /\ Len(u) = n
        /\ \A i \in 1 .. n : u[i] = stack'[i + 1].file
    BY <1>3, <1>6, MappedNext, FilesOfStack
  <2>3. n - 1 + 1 = n /\ n \in 1 .. n /\ \A i \in 1 .. n - 1 : i \in 1 .. n /\ i + 1 \in 1 .. n
    BY <1>3
  <2>. HIDE DEF t, u
  <2>4. u[n] = f /\ \A i \in 1 .. n - 1 : u[i] = t[i]
    BY <2>1, <2>2, <2>3, <1>2, <1>6
  <2>5. u = Append(t, f)
    BY <2>1, <2>2, <2>3, <2>4, IsAppend
  <2>. QED  BY <2>5, Written DEF t, u
<1>9. Dirs' = Append(Dirs, Home[f])
  <2>. DEFINE t == DirsOf(stack, cwd)
              u == DirsOf(stack', cwd')
  <2>1. /\ t \in Seq(Dir) /\ Len(t) = n /\ t[n] = cwd
        /\ \A i \in 1 .. n : i # n => t[i] = stack[i + 1].back
    <3>1. DirsAre(t, stack, cwd)
      BY Mapped, DirsOfStack, Zenon
    <3>. QED  BY <1>1, <3>1 DEF DirsAre
  <2>2. /\ u \in Seq(Dir) /\ Len(u) = n + 1 /\ u[n + 1] = Home[f]
        /\ \A i \in 1 .. n + 1 : i # n + 1 => u[i] = stack'[i + 1].back
    <3>1. DirsAre(u, stack', cwd')
      BY MappedNext, DirsOfStack, Zenon
    <3>. HIDE DEF u
    <3>. QED  BY <1>1, <1>6, <3>1 DEF DirsAre
  <2>3. \A i \in 1 .. n : i \in 1 .. n + 1 /\ i # n + 1 /\ (i # n => i + 1 \in 1 .. n)
    BY <1>3
  <2>. HIDE DEF t, u
  <2>4. \A i \in 1 .. n : u[i] = t[i]
    BY <2>1, <2>2, <2>3, <1>2, <1>6
  <2>5. u = Append(t, Home[f])
    BY <2>1, <2>2, <2>4, <1>1, IsAppend
  <2>. QED  BY <2>5, Written DEF t, u
<1>. QED  BY <1>7, <1>8, <1>9 DEF Registry!Begin

-----------------------------------------------------------------------------
(* A load ends *)

\* The innermost frame is gone, and its file is ready or forgotten.
LEMMA EndStep ==
    ASSUME IInv, IInv', Nested, NEW x, EndsLoad(x), x.back = Below.back, cwd' = Top.back,
           \A g \in File \ {Top.file} : memo'[g] = memo[g] /\ (g \in ready' <=> g \in ready),
           Top.file \in ready' \/ memo'[Top.file] = 0
    PROVE  Registry!End
<1>. DEFINE n == Len(stack)
            f == Top.file
<1>1. /\ n \in Nat \ {0, 1} /\ stack # <<>> /\ f \in File /\ Top.back \in Dir
      /\ Len(stack') = n - 1 /\ stack' # <<>>
      /\ \A i \in 1 .. n - 1 : stack'[i].file = stack[i].file /\ stack'[i].back = stack[i].back
  <2>1. /\ n \in Nat \ {0, 1} /\ stack # <<>> /\ f \in File /\ Top \in Frame
    BY NestedFacts
  <2>2. stack' \in Seq(Frame) /\ Len(stack') = n - 1
        /\ \A i \in 1 .. n - 1 : stack'[i].file = stack[i].file /\ stack'[i].back = stack[i].back
    BY DEF EndsLoad
  <2>3. stack' # <<>>
    BY <2>1, <2>2, EmptySeq
  <2>. QED  BY <2>1, <2>2, <2>3 DEF Frame
<1>2. \E s \in {"ready", "absent"} : Status' = [Status EXCEPT ![f] = s]
  <2>1. Status' = [Status EXCEPT ![f] = IF memo'[f] = 0 THEN "absent"
                                        ELSE IF f \in ready' THEN "ready" ELSE "loading"]
    BY <1>1, OneStatus
  <2>. QED  BY <2>1
<1>3. /\ Loads # <<>> /\ Loads[Len(Loads)] = f
      /\ Loads' = SubSeq(Loads, 1, Len(Loads) - 1)
  <2>. DEFINE t == FilesOf(stack)
              u == FilesOf(stack')
  <2>1. /\ t \in Seq(File) /\ Len(t) = n - 1
        /\ \A i \in 1 .. n - 1 : t[i] = stack[i + 1].file
    BY <1>1, Mapped, FilesOfStack
  <2>2. /\ u \in Seq(File) /\ Len(u) = n - 2
        /\ \A i \in 1 .. n - 2 : u[i] = stack'[i + 1].file
    <3>1. n - 1 - 1 = n - 2
      BY <1>1
    <3>. QED  BY <1>1, <3>1, MappedNext, FilesOfStack
  <2>3. /\ n - 1 \in 1 .. n - 1 /\ n - 1 + 1 = n /\ n - 1 # 0 /\ n - 1 - 1 = n - 2
        /\ \A i \in 1 .. n - 2 : i \in 1 .. n - 1 /\ i + 1 \in 1 .. n - 1
    BY <1>1
  <2>. HIDE DEF t, u
  <2>4. t[n - 1] = f /\ t # <<>>
    BY <2>1, <2>3, EmptySeq DEF Top
  <2>5. \A i \in 1 .. n - 2 : u[i] = t[i]
    BY <2>1, <2>2, <2>3, <1>1
  <2>6. u = SubSeq(t, 1, Len(t) - 1)
    BY <2>1, <2>2, <2>3, <2>5, IsFront
  <2>. QED  BY <2>1, <2>4, <2>6, Written DEF t, u
<1>4. Dirs' = SubSeq(Dirs, 1, Len(Dirs) - 1)
  <2>. DEFINE t == DirsOf(stack, cwd)
              u == DirsOf(stack', cwd')
  <2>1. /\ t \in Seq(Dir) /\ Len(t) = n
        /\ \A i \in 1 .. n : i # n => t[i] = stack[i + 1].back
    <3>1. DirsAre(t, stack, cwd)
      BY Mapped, DirsOfStack, Zenon
    <3>. QED  BY <1>1, <3>1 DEF DirsAre
  <2>2. /\ u \in Seq(Dir) /\ Len(u) = n - 1 /\ u[n - 1] = Top.back
        /\ \A i \in 1 .. n - 1 : i # n - 1 => u[i] = stack'[i + 1].back
    <3>1. DirsAre(u, stack', cwd')
      BY MappedNext, DirsOfStack, Zenon
    <3>. HIDE DEF u
    <3>. QED  BY <1>1, <3>1 DEF DirsAre
  <2>3. /\ n - 1 \in 1 .. n /\ n - 1 # n /\ n - 1 + 1 = n /\ n # 0
        /\ \A i \in 1 .. n - 1 : i \in 1 .. n /\ i # n /\ (i # n - 1 => i + 1 \in 1 .. n - 1)
    BY <1>1
  <2>. HIDE DEF t, u
  <2>4. t[n - 1] = Top.back
    BY <2>1, <2>3 DEF Top
  <2>5. \A i \in 1 .. n - 1 : u[i] = t[i]
    BY <2>1, <2>2, <2>3, <2>4, <1>1
  <2>6. u = SubSeq(t, 1, Len(t) - 1)
    BY <2>1, <2>2, <2>3, <2>5, IsFront
  <2>. QED  BY <2>6, Written DEF t, u
<1>. QED  BY <1>2, <1>3, <1>4 DEF Registry!End, Registry!Last, Registry!Front

-----------------------------------------------------------------------------
(* The other actions *)

\* An entry that was ready is deleted, and no load is concerned.
LEMMA Discarded ==
    ASSUME IInv, NEW f \in ready, memo' = [memo EXCEPT ![f] = 0], ready' = ready \ {f},
           Loads' = Loads, Dirs' = Dirs
    PROVE  Registry!Discard(f)
<1>1. f \in File /\ memo[f] # 0 /\ memo \in [File -> Nat]
  BY ReadyFacts DEF IInv, TypeOK
<1>2. Status[f] = "ready"
  BY <1>1 DEF Status
<1>3. Status' = [Status EXCEPT ![f] = "absent"]
  <2>1. /\ \A g \in File \ {f} : memo'[g] = memo[g] /\ (g \in ready' <=> g \in ready)
        /\ memo'[f] = 0
    BY <1>1
  <2>. QED  BY <2>1, <1>1, OneStatus
<1>. QED  BY <1>2, <1>3 DEF Registry!Discard

\* A request that fails does nothing to the registry.
LEMMA RefuseMaps ==
    ASSUME IInv, IInv', NEW fr \in Frame, Refuse(fr), stack # <<>>,
           fr.mod = Top.mod, fr.file = Top.file, fr.back = Top.back,
           \/ fr.step = Top.step /\ fr.step # "aux"
           \/ fr.step = "aux" /\ Top.step = "init"
    PROVE  Step
<1>. DEFINE x == Refused(fr)
<1>1. /\ x \in Frame
      /\ x.mod = fr.mod /\ x.file = fr.file /\ x.back = fr.back /\ x.step = fr.step
  BY DEF Refused, Frame
<1>2. stack' = WithTop(x) /\ UNCHANGED <<memo, ready, cwd>>
  BY DEF Refuse
<1>. HIDE DEF x
<1>3. KeepsLoads(x)
  BY <1>1, <1>2, SameLoads
<1>. QED  BY <1>1, <1>2, <1>3, SameMapped DEF Step

\* However a request is answered.
LEMMA LoadMaps ==
    ASSUME IInv, IInv', NEW fr, NEW f, Asking(fr, f), Load(fr, f)
    PROVE  Step
<1>1. /\ stack # <<>> /\ fr \in Frame
      /\ fr.mod = Top.mod /\ fr.file = Top.file /\ fr.back = Top.back
      /\ \/ fr.step = Top.step /\ fr.step # "aux"
         \/ fr.step = "aux" /\ Top.step = "init"
  BY DEF Asking
<1>2. CASE Reuse(fr, f)
  <2>1. stack' = WithTop(fr) /\ UNCHANGED <<memo, ready, cwd>>
    BY <1>2 DEF Reuse
  <2>2. KeepsLoads(fr)
    BY <1>1, <2>1, SameLoads
  <2>. QED  BY <1>1, <2>1, <2>2, SameMapped DEF Step
<1>3. CASE Refuse(fr)
  BY <1>1, <1>3, RefuseMaps
<1>4. CASE f \in File /\ memo[f] = 0 /\ Enter(fr, f)
  BY <1>4, BeginStep DEF Step, Registry!RegistryNext
<1>. QED  BY <1>2, <1>3, <1>4 DEF Load

\* A request by its path.
LEMMA AskMaps ==
    ASSUME IInv, IInv', stack # <<>>, Top.step \in {"build", "eval"}, NEW fr \in Frame, NEW r,
           fr.mod = Top.mod, fr.file = Top.file, fr.back = Top.back, fr.step = Top.step,
           Ask(fr, r)
    PROVE  Step
<1>1. \A f : Asking(fr, f)
  BY DEF Asking
<1>2. CASE Refuse(fr)
  BY <1>2, RefuseMaps
<1>3. CASE \E f : Load(fr, f)
  BY <1>1, <1>3, LoadMaps
<1>. QED  BY <1>2, <1>3 DEF Ask

\* An import expression is a request by the frame that is built.
LEMMA ImportMaps == IInv /\ IInv' /\ Import => Step
<1>. SUFFICES ASSUME IInv, IInv', Import PROVE Step
  OBVIOUS
<1>. DEFINE fr == [Top EXCEPT !.todo = Tail(@)]
<1>1. /\ stack # <<>> /\ Top.step = "build" /\ Top.todo # <<>>
      /\ Ask(fr, Head(Top.todo))
  BY DEF Import
<1>2. Top \in Frame
  BY <1>1, TopFacts
<1>3. Tail(Top.todo) \in Seq(Request)
  <2>1. Top.todo \in Seq(Request)
    BY <1>2 DEF Frame
  <2>. QED  BY <1>1, <2>1
<1>4. /\ fr \in Frame
      /\ fr.mod = Top.mod /\ fr.file = Top.file /\ fr.back = Top.back /\ fr.step = Top.step
  BY <1>2, <1>3 DEF Frame
<1>. HIDE DEF fr
<1>. QED  BY <1>1, <1>4, AskMaps

\* An initialiser's script is named, not resolved.
LEMMA LoadAuxMaps == IInv /\ IInv' /\ LoadAux => Step
<1>. SUFFICES ASSUME IInv, IInv', LoadAux PROVE Step
  OBVIOUS
<1>. DEFINE fr == [Top EXCEPT !.step = "aux"]
            f == Aux[Top.file]
<1>1. /\ stack # <<>> /\ Top.step = "init" /\ Load(fr, f)
  BY DEF LoadAux
<1>2. Top \in Frame
  BY <1>1, TopFacts
<1>3. Asking(fr, f)
  BY <1>1, <1>2 DEF Asking, Frame, Steps
<1>. HIDE DEF fr, f
<1>. QED  BY <1>1, <1>3, LoadMaps

\* The build is over, or the initialiser has no script.
LEMMA StepOnMaps == IInv /\ IInv' /\ (Built \/ InitAlone) => Step
<1>. SUFFICES ASSUME IInv, IInv', Built \/ InitAlone PROVE Step
  OBVIOUS
<1>1. /\ stack # <<>> /\ UNCHANGED <<memo, ready, cwd>>
      /\ \E s \in {"eval", "done"} :
           /\ \/ s = "eval" /\ Top.step = "build"
              \/ s = "done" /\ Top.step \in {"init", "aux"}
           /\ stack' = WithTop([Top EXCEPT !.step = s])
  BY DEF Built, InitAlone
<1>2. PICK s \in {"eval", "done"} :
        /\ \/ s = "eval" /\ Top.step = "build"
           \/ s = "done" /\ Top.step \in {"init", "aux"}
        /\ stack' = WithTop([Top EXCEPT !.step = s])
  BY <1>1
<1>. DEFINE x == [Top EXCEPT !.step = s]
<1>3. Top \in Frame
  BY <1>1, TopFacts
<1>4. x.back = Top.back
  BY <1>3 DEF Frame
<1>5. KeepsLoads(x)
  BY <1>1, <1>2, StepOn
<1>. HIDE DEF x
<1>. QED  BY <1>1, <1>4, <1>5, SameMapped DEF Step

\* An initialiser's script is discarded.
LEMMA TakeAuxMaps == IInv /\ IInv' /\ TakeAux => Step
<1>. SUFFICES ASSUME IInv, IInv', TakeAux PROVE Step
  OBVIOUS
<1>. DEFINE f == Aux[Top.file]
            x == [Top EXCEPT !.step = "done"]
<1>1. /\ stack # <<>> /\ Top.step = "aux" /\ ~Top.err
      /\ memo' = [memo EXCEPT ![f] = 0]
      /\ ready' = ready \ {f}
      /\ stack' = WithTop(x)
      /\ cwd' = cwd
  BY DEF TakeAux
<1>2. Len(stack) \in 2 .. Len(stack) /\ Top \in Frame
  BY <1>1, TopFacts
<1>3. f \in ready
  BY <1>1, <1>2 DEF IInv, AuxWaits, Top
<1>4. f \in File /\ memo[f] # 0 /\ memo \in [File -> Nat]
  BY <1>3, ReadyFacts DEF IInv, TypeOK
<1>5. x.back = Top.back
  BY <1>2 DEF Frame
<1>6. KeepsLoads(x)
  BY <1>1, StepOn
<1>. HIDE DEF x, f
<1>7. Loads' = Loads /\ Dirs' = Dirs
  BY <1>1, <1>5, <1>6, SameLoadsMapped, SameDirsMapped
<1>8. Registry!Discard(f)
  BY <1>1, <1>3, <1>4, <1>7, Discarded
<1>. QED  BY <1>4, <1>8 DEF Step, Registry!RegistryNext

\* A module is loaded or its load fails: the load ends.
LEMMA FinishMaps == IInv /\ IInv' /\ Finish => Registry!End
<1>. SUFFICES ASSUME IInv, IInv', Finish PROVE Registry!End
  OBVIOUS
<1>1. /\ Nested /\ cwd' = Top.back
      /\ ready' = ready \union {Top.file} /\ memo' = memo
  BY DEF Finish
<1>2. EndsLoad(Below)
  BY FinishEnds
<1>. QED  BY <1>1, <1>2, EndStep

\* ... also when the frame below learns that it failed.
LEMMA FailMaps == IInv /\ IInv' /\ Fail => Registry!End
<1>. SUFFICES ASSUME IInv, IInv', Fail PROVE Registry!End
  OBVIOUS
<1>1. /\ Nested /\ cwd' = Top.back
      /\ memo' = [memo EXCEPT ![Top.file] = 0] /\ ready' = ready
  BY DEF Fail
<1>2. EndsLoad(Refused(Below))
  BY FailEnds
<1>3. Refused(Below).back = Below.back
  <2>1. Below \in Frame
    BY <1>1, NestedFacts
  <2>. QED  BY <2>1 DEF Refused, Frame
<1>4. /\ \A g \in File \ {Top.file} : memo'[g] = memo[g] /\ (g \in ready' <=> g \in ready)
      /\ memo'[Top.file] = 0
  <2>1. memo \in [File -> Nat] /\ Top.file \in File
    BY <1>1, NestedFacts DEF IInv, TypeOK
  <2>. QED  BY <2>1, <1>1
<1>. QED  BY <1>1, <1>2, <1>3, <1>4, EndStep

\* Only the innermost frame is in the working directory of the process.
LEMMA ChdirMaps ==
    ASSUME IInv, IInv', NEW d \in Dir, Chdir(d)
    PROVE  Registry!ChangeDir
<1>. DEFINE n == Len(stack)
            t == DirsOf(stack, cwd)
            u == DirsOf(stack, d)
<1>1. /\ stack # <<>> /\ cwd' = d /\ UNCHANGED <<memo, ready, stack>>
  BY DEF Chdir
<1>2. n \in Nat \ {0}
  BY <1>1, TopFacts
<1>3. DirsAre(t, stack, cwd) /\ DirsAre(u, stack, d)
  BY Mapped, DirsOfStack, Zenon
<1>4. Dirs = t /\ Dirs' = u
  BY <1>1, Written
<1>. HIDE DEF t, u
<1>5. u = [t EXCEPT ![Len(t)] = d] /\ t # <<>>
  <2>1. /\ t \in Seq(Dir) /\ u \in Seq(Dir)
        /\ Len(t) = n /\ Len(u) = n /\ u[n] = d
        /\ \A i \in 1 .. n : i # n => u[i] = t[i]
    BY <1>1, <1>3 DEF DirsAre
  <2>2. u = [t EXCEPT ![Len(t)] = d]
    BY <2>1, <1>2, IsReplaced
  <2>3. t # <<>>
    BY <2>1, <1>2, EmptySeq
  <2>. QED  BY <2>2, <2>3
<1>6. Status' = Status /\ Loads' = Loads
  BY <1>1 DEF Status, Loads
<1>. QED  BY <1>4, <1>5, <1>6 DEF Registry!ChangeDir

\* The main program is the last to leave.
LEMMA ExitMaps == IInv /\ Exit => Registry!Exit
<1>. SUFFICES ASSUME IInv, Exit PROVE Registry!Exit
  OBVIOUS
<1>1. /\ Len(stack) = 1 /\ stack' = <<>> /\ UNCHANGED <<memo, ready>>
  BY DEF Exit
<1>2. Status' = Status
  BY <1>1 DEF Status
<1>3. Loads = <<>> /\ Loads' = <<>>
  <2>1. stack # <<>> /\ Len(stack) - 1 = 0 /\ 1 .. 0 = {}
    BY <1>1
  <2>. QED  BY <2>1, <1>1 DEF Loads
<1>4. Dirs' = <<>>
  <2>1. Len(stack') = 0 /\ 1 .. 0 = {}
    BY <1>1
  <2>. QED  BY <2>1 DEF Dirs
<1>. QED  BY <1>2, <1>3, <1>4 DEF Registry!Exit

\* No load is in progress, so the entries that are left are ready.
LEMMA TeardownMaps ==
    ASSUME IInv, NEW f \in File, Teardown(f)
    PROVE  Registry!Discard(f)
<1>1. /\ stack = <<>> /\ memo[f] # 0
      /\ memo' = [memo EXCEPT ![f] = 0] /\ ready' = ready \ {f}
      /\ cwd' = cwd /\ stack' = stack
  BY DEF Teardown
<1>2. f \in ready
  <2>1. Len(stack) = 0 /\ 2 .. 0 = {}
    BY <1>1
  <2>2. {g \in File \ ready : memo[g] # 0} = {}
    BY <2>1 DEF IInv, CyclesAreCut
  <2>. QED  BY <2>2, <1>1
<1>3. Loads' = Loads /\ Dirs' = Dirs
  BY <1>1 DEF Loads, Dirs
<1>. QED  BY <1>1, <1>2, <1>3, Discarded

-----------------------------------------------------------------------------
(* The refinement *)

\* The loader starts where the registry does.
LEMMA InitMaps == Init => Registry!RegistryInit
<1>. SUFFICES ASSUME Init PROVE Registry!RegistryInit
  OBVIOUS
<1>. DEFINE bottom == [mod |-> 1, file |-> Nothing, todo |-> Program,
                       step |-> "build", err |-> FALSE, back |-> Start]
<1>1. memo = [f \in File |-> 0] /\ ready = {} /\ cwd = Start /\ stack = <<bottom>>
  BY DEF Init
<1>. HIDE DEF bottom
<1>2. stack # <<>> /\ Len(stack) = 1
  BY <1>1
<1>3. Status = [f \in File |-> "absent"]
  BY <1>1 DEF Status
<1>4. Loads = <<>>
  <2>1. Len(stack) - 1 = 0 /\ 1 .. 0 = {}
    BY <1>2
  <2>. QED  BY <2>1, <1>2 DEF Loads
<1>5. Dirs = <<Start>>
  <2>1. Dirs = [i \in 1 .. 1 |-> Start]
    BY <1>1, <1>2 DEF Dirs
  <2>. QED  BY <2>1
<1>. QED  BY <1>3, <1>4, <1>5 DEF Registry!RegistryInit

\* Every step of the loader is one of the registry, or none.
LEMMA NextMaps == IInv /\ IInv' /\ [Next]_vars => [Registry!RegistryNext]_(Registry!rvars)
<1>. SUFFICES ASSUME IInv, IInv', [Next]_vars PROVE Step
  BY DEF Step, Same, Registry!rvars
<1>1. CASE Import
  BY <1>1, ImportMaps
<1>2. ASSUME NEW r \in Request, Require(r) PROVE Step
  <2>1. stack # <<>> /\ Top.step = "eval" /\ Ask(Top, r)
    BY <1>2 DEF Require
  <2>. QED  BY <2>1, TopFacts, AskMaps
<1>3. ASSUME NEW d \in Dir, Chdir(d) PROVE Step
  BY <1>3, ChdirMaps DEF Step, Registry!RegistryNext
<1>4. CASE Built \/ InitAlone
  BY <1>4, StepOnMaps
<1>5. CASE LoadAux
  BY <1>5, LoadAuxMaps
<1>6. CASE TakeAux
  BY <1>6, TakeAuxMaps
<1>7. CASE Finish \/ Fail
  BY <1>7, FinishMaps, FailMaps DEF Step, Registry!RegistryNext
<1>8. CASE Exit
  BY <1>8, ExitMaps DEF Step, Registry!RegistryNext
<1>9. ASSUME NEW f \in File, Teardown(f) PROVE Step
  BY <1>9, TeardownMaps DEF Step, Registry!RegistryNext
<1>10. CASE UNCHANGED vars
  BY <1>10 DEF vars, Step, Same, Status, Loads, Dirs
<1>. QED  BY <1>1, <1>2, <1>3, <1>4, <1>5, <1>6, <1>7, <1>8, <1>9, <1>10 DEF Next

\* Whatever the files import, however loads nest and fail and wherever running
\* code goes with chdir, src/environment.c and src/root.c keep the promise of
\* LoadRegistry: a file is loaded at most once at a time, the innermost load
\* ends first, and who asked for it finds the working directory it had.
THEOREM ImplementsLoadRegistry == Spec => ImplementsRegistry
  BY InitMaps, NextMaps, IInvAlways, PTL DEF Spec, ImplementsRegistry, Registry!RegistrySpec
=============================================================================
