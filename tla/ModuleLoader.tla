---------------------------- MODULE ModuleLoader ----------------------------
(* Loading, memorising, forgetting and destroying modules:                   *)
(* src/environment.c, src/root.c and src/module.c, with the "import"         *)
(* expressions that reach them through __require at compile time, the        *)
(* __require builtin at run time, and the shared libraries that load a       *)
(* script of their own from their initialiser and destroy it again.          *)
(*                                                                           *)
(* Loads nest: a module is compiled and evaluated while the program or the   *)
(* module that asked for it waits.  A frame is one such activity.  Code run  *)
(* by the load builtins and by macros has no entry in the memo and no        *)
(* directory of its own; its requests are those of the frame it runs in.     *)
EXTENDS ModulePath, FiniteSets

CONSTANTS Elf,          \* the files that start with the ELF magic
          Home,         \* dirname of each file
          Start,        \* working directory in which the interpreter starts
          Program,      \* import expressions of the main program
          Imports,      \* import expressions of each script
          Aux,          \* the script an initialiser loads, or Nothing
          MaxCalls      \* bound on run-time __require and __chdir calls

ASSUME LoaderAssumption ==
    /\ Elf \subseteq File
    /\ Home \in [File -> Dir]
    /\ Start \in Dir
    /\ Program \in Seq(Request)
    /\ Imports \in [File \ Elf -> Seq(Request)]
    /\ Aux \in [Elf -> (File \ Elf) \union {Nothing}]
    /\ MaxCalls \in Nat

VARIABLES inst,         \* every eth_module created so far; the first is <main>
          memo,         \* root->pathmap: the instance known under a path, or 0
          ready,        \* the entries flagged ETH_MFLAG_READY
          cwd,          \* working directory of the process
          stack,        \* the main program and the loads in progress
          calls         \* run-time calls so far

vars == <<inst, memo, ready, cwd, stack, calls>>

\* build: imports are being met; eval: bytecode runs; init: dlopen and the
\* initialiser; aux: the initialiser waits for its script; done: it returned 0.
Steps == {"build", "eval", "init", "aux", "done"}

States == {"loading", "ready", "failed", "destroyed"}

Module == [file : File \union {Nothing}, state : States, uses : SUBSET Nat]

Frame == [mod : Nat, file : File \union {Nothing}, todo : Seq(Request),
          step : Steps, err : BOOLEAN, back : Dir]

TypeOK ==
    /\ inst \in Seq(Module)
    /\ memo \in [File -> Nat]
    /\ ready \subseteq File
    /\ cwd \in Dir
    /\ stack \in Seq(Frame)
    /\ calls \in Nat

-----------------------------------------------------------------------------
Top == stack[Len(stack)]
Below == stack[Len(stack) - 1]
WithTop(fr) == [stack EXCEPT ![Len(stack)] = fr]
Nested == Len(stack) > 1

\* A request that fails: an import leaves an error for the end of the build
\* (the other imports are still met), an initialiser fails, and at run time an
\* exception is raised, which the program may catch or not.
Refused(fr) == [fr EXCEPT !.err = @ \/ fr.step # "eval"]

\* Importing gives the module the definitions of the one it imports; an
\* initialiser copies them later.
Importing(modules, fr, m) ==
    IF fr.step = "aux" THEN modules
    ELSE [modules EXCEPT ![fr.mod].uses = @ \union {m}]

Refuse(fr) ==
    /\ stack' = WithTop(Refused(fr))
    /\ UNCHANGED <<inst, memo, ready, cwd>>

\* The answer comes from memory.
Reuse(fr, f) ==
    /\ inst' = Importing(inst, fr, memo[f])
    /\ stack' = WithTop(fr)
    /\ UNCHANGED <<memo, ready, cwd>>

\* A new module: enter its directory, create and memorise it, start to load it.
Enter(fr, f) ==
    LET m == Len(inst) + 1
    IN  /\ inst' = Append(inst, [file |-> f, state |-> "loading", uses |-> {}])
        /\ memo' = [memo EXCEPT ![f] = m]
        /\ cwd' = Home[f]
        /\ stack' = Append(WithTop(fr),
                [mod |-> m, file |-> f, err |-> FALSE, back |-> cwd,
                 todo |-> IF f \in Elf THEN <<>> ELSE Imports[f],
                 step |-> IF f \in Elf THEN "init" ELSE "build"])
        /\ UNCHANGED ready

\* Mutant of Load: a module that is still being loaded is not recognised.
LoadAgain(fr, f) ==
    \/ f \in ready /\ Reuse(fr, f)
    \/ f \in File \ ready /\ Len(stack) < 4 /\ Enter(fr, f)

\* Mutant of Load: the flag is not looked at, an unfinished module is handed out.
LoadUnflagged(fr, f) ==
    \/ f \in File /\ memo[f] # 0 /\ Reuse(fr, f)
    \/ f \in File /\ memo[f] = 0 /\ Enter(fr, f)

\* Mutant of Load: a memorised module that is ready is loaded once more.
LoadTwice(fr, f) ==
    \/ f \in File /\ memo[f] # 0 /\ f \notin ready /\ Refuse(fr)
    \/ f \in File /\ memo[f] = 0 /\ Enter(fr, f)
    \/ f \in ready /\ Len(inst) < 6 /\ Enter(fr, f)

\* eth_load_module_from_script2 and eth_load_module_from_elf, up to the point
\* where the new module runs.  fr is the asking frame with its request used up.
Load(fr, f) ==
    \/ f \in ready /\ Reuse(fr, f)
    \/ f \in File /\ memo[f] # 0 /\ f \notin ready /\ Refuse(fr)
    \/ f \in File \ Elf /\ memo[f] = 0 /\ Refuse(fr)
    \/ f \in File /\ memo[f] = 0 /\ Enter(fr, f)

\* eth_require_module: the request is resolved in the directory of the moment.
Ask(fr, r) ==
    \E f \in {ResolveModpath(cwd, r)} :
        \/ f = Nothing /\ Refuse(fr)
        \/ f # Nothing /\ Load(fr, f)

-----------------------------------------------------------------------------
Init ==
    /\ inst = << [file |-> Nothing, state |-> "loading", uses |-> {}] >>
    /\ memo = [f \in File |-> 0]
    /\ ready = {}
    /\ cwd = Start
    /\ stack = << [mod |-> 1, file |-> Nothing, todo |-> Program,
                   step |-> "build", err |-> FALSE, back |-> Start] >>
    /\ calls = 0

\* The IR builder meets an import expression and evaluates it on the spot.
Import ==
    /\ stack # <<>> /\ Top.step = "build" /\ Top.todo # <<>>
    /\ Ask([Top EXCEPT !.todo = Tail(@)], Head(Top.todo))
    /\ UNCHANGED calls

\* __require called by running code.
Require(r) ==
    /\ stack # <<>> /\ Top.step = "eval" /\ calls < MaxCalls
    /\ calls' = calls + 1
    /\ Ask(Top, r)

\* os.chdir called by running code, a macro included.
Chdir(d) ==
    /\ stack # <<>> /\ Top.step \in {"build", "eval"} /\ calls < MaxCalls
    /\ calls' = calls + 1
    /\ cwd' = d
    /\ UNCHANGED <<inst, memo, ready, stack>>

\* IR, SSA and bytecode are built: the code is evaluated.
Built ==
    /\ stack # <<>> /\ Top.step = "build" /\ Top.todo = <<>> /\ ~Top.err
    /\ stack' = WithTop([Top EXCEPT !.step = "eval"])
    /\ UNCHANGED <<inst, memo, ready, cwd, calls>>

\* The initialiser of a shared library loads the script beside it.
LoadAux ==
    /\ stack # <<>> /\ Top.step = "init" /\ Aux[Top.file] # Nothing
    /\ Load([Top EXCEPT !.step = "aux"], Aux[Top.file])
    /\ UNCHANGED calls

\* It has none, and succeeds.
InitAlone ==
    /\ stack # <<>> /\ Top.step = "init" /\ Aux[Top.file] = Nothing
    /\ stack' = WithTop([Top EXCEPT !.step = "done"])
    /\ UNCHANGED <<inst, memo, ready, cwd, calls>>

\* eth_destroy_module for a memorised module: the entry under its path goes,
\* and with it the instance.
Destroyed(modules, m) == [modules EXCEPT ![m].state = "destroyed"]

\* Mutant of TakeAux: the script is destroyed and stays memorised.
TakeAuxKept ==
    LET f == Aux[Top.file]
    IN  /\ stack # <<>> /\ Top.step = "aux" /\ ~Top.err
        /\ inst' = Destroyed(inst, memo[f])
        /\ stack' = WithTop([Top EXCEPT !.step = "done"])
        /\ UNCHANGED <<memo, ready, cwd, calls>>

\* The script is loaded: its definitions are copied and it is destroyed.
TakeAux ==
    LET f == Aux[Top.file]
        copied == [inst EXCEPT ![Top.mod].uses = @ \union inst[memo[f]].uses]
    IN  /\ stack # <<>> /\ Top.step = "aux" /\ ~Top.err
        /\ inst' = Destroyed(copied, memo[f])
        /\ memo' = [memo EXCEPT ![f] = 0]
        /\ ready' = ready \ {f}
        /\ stack' = WithTop([Top EXCEPT !.step = "done"])
        /\ UNCHANGED <<cwd, calls>>

\* Mutant of Finish: the working directory is not restored.
FinishAway ==
    /\ Nested /\ Top.step \in {"eval", "done"}
    /\ ready' = ready \union {Top.file}
    /\ inst' = Importing([inst EXCEPT ![Top.mod].state = "ready"], Below, Top.mod)
    /\ stack' = SubSeq(stack, 1, Len(stack) - 1)
    /\ UNCHANGED <<cwd, memo, calls>>

\* The module is loaded: back to the directory of the one that asked for it,
\* which gets its definitions.
Finish ==
    /\ Nested /\ Top.step \in {"eval", "done"}
    /\ ready' = ready \union {Top.file}
    /\ inst' = Importing([inst EXCEPT ![Top.mod].state = "ready"], Below, Top.mod)
    /\ stack' = SubSeq(stack, 1, Len(stack) - 1)
    /\ cwd' = Top.back
    /\ UNCHANGED <<memo, calls>>

\* Compilation, evaluation or initialisation fails.  The module is forgotten
\* and nobody destroys it.
Fail ==
    /\ Nested
    /\ \/ Top.step = "build" /\ Top.todo = <<>>
       \/ Top.step \in {"eval", "init"}
       \/ Top.step = "aux" /\ Top.err
    /\ memo' = [memo EXCEPT ![Top.file] = 0]
    /\ inst' = [inst EXCEPT ![Top.mod].state = "failed"]
    /\ stack' = Append(SubSeq(stack, 1, Len(stack) - 2), Refused(Below))
    /\ cwd' = Top.back
    /\ UNCHANGED <<ready, calls>>

\* Mutant of Exit: the main program is flagged like a module.
ExitFlagged ==
    /\ Len(stack) = 1
    /\ Top.step = "eval" \/ Top.todo = <<>>
    /\ inst' = Destroyed(inst, Top.mod)
    /\ ready' = ready \union {Top.file}
    /\ stack' = <<>>
    /\ UNCHANGED <<memo, cwd, calls>>

\* The main program ends, with a value, an exception or a failed compilation,
\* and drops what it holds; eth_destroy_root follows.
Exit ==
    /\ Len(stack) = 1
    /\ Top.step = "eval" \/ Top.todo = <<>>
    /\ inst' = Destroyed(inst, Top.mod)
    /\ stack' = <<>>
    /\ UNCHANGED <<memo, ready, cwd, calls>>

\* eth_destroy_root deletes the entries in the order of the hash table.
Teardown(f) ==
    /\ stack = <<>> /\ memo[f] # 0
    /\ inst' = Destroyed(inst, memo[f])
    /\ memo' = [memo EXCEPT ![f] = 0]
    /\ ready' = ready \ {f}
    /\ UNCHANGED <<cwd, stack, calls>>

Next ==
    \/ Import
    \/ \E r \in Request : Require(r)
    \/ \E d \in Dir : Chdir(d)
    \/ Built
    \/ LoadAux
    \/ InitAlone
    \/ TakeAux
    \/ Finish
    \/ Fail
    \/ Exit
    \/ \E f \in File : Teardown(f)

Spec == Init /\ [][Next]_vars

\* One thread: the interpreter takes its next step, and code that is evaluated
\* ends (the bound on calls stands for that).
FairSpec == Spec /\ WF_vars(Next)

-----------------------------------------------------------------------------
(* Properties *)

Live(m) == inst[m].state \in {"loading", "ready"}

\* The entries that are not ready are exactly the loads in progress, and no
\* file is loaded inside its own load: what check_memorized takes for a cyclic
\* dependence is one, and every one is found.
CyclesAreCut ==
    /\ \A i, j \in 2 .. Len(stack) : stack[i].file = stack[j].file => i = j
    /\ {stack[i].file : i \in 2 .. Len(stack)} = {f \in File \ ready : memo[f] # 0}

\* An entry leads to a module of that file, in the state its flag tells: never
\* to one that failed or was destroyed (forgetting, failing and destroying are
\* done in different functions).
EntriesAreLive ==
    \A f \in File : memo[f] # 0 =>
        /\ memo[f] \in DOMAIN inst
        /\ inst[memo[f]].file = f
        /\ inst[memo[f]].state = IF f \in ready THEN "ready" ELSE "loading"

\* However requests, failures, cycles and initialisers interleave, a file has
\* at most one initialised module at a time: its globals exist once.
OneInstance ==
    \A m, n \in DOMAIN inst :
        inst[m].state = "ready" /\ inst[n].state = "ready" /\ inst[m].file = inst[n].file
            => m = n

\* A module only ever gets definitions of modules whose own load succeeded.
ImportsAreComplete ==
    \A m \in DOMAIN inst : \A d \in inst[m].uses :
        d \in DOMAIN inst /\ inst[d].state \in {"ready", "destroyed"}

\* The program ends and everything that was loaded is destroyed; only modules
\* whose load failed are left behind.
EverythingEnds ==
    <>(stack = <<>> /\ \A m \in DOMAIN inst : inst[m].state \in {"destroyed", "failed"})

\* What src/module.c:55-67 asks for: a module that another one imports is kept
\* alive until the importer is destroyed.
DependenciesKeptAlive ==
    \A m \in DOMAIN inst : Live(m) => \A d \in inst[m].uses : Live(d)

-----------------------------------------------------------------------------
(* Refinement *)

Status == [f \in File |-> IF memo[f] = 0 THEN "absent"
                          ELSE IF f \in ready THEN "ready" ELSE "loading"]

Loads == [i \in 1 .. (IF stack = <<>> THEN 0 ELSE Len(stack) - 1) |-> stack[i + 1].file]

\* The directory a waiting frame goes back to is kept by the load it waits for.
Dirs == [i \in 1 .. Len(stack) |-> IF i = Len(stack) THEN cwd ELSE stack[i + 1].back]

Registry == INSTANCE LoadRegistry WITH status <- Status, loads <- Loads, dirs <- Dirs

\* The memo, the nesting of loads and the working directories follow
\* LoadRegistry: in particular a load leaves its asker's directory alone,
\* whatever the loaded code did to the working directory.
ImplementsRegistry == Registry!RegistrySpec

=============================================================================
