# Verification of ether

ether is a functional language: a compiler from source text to bytecode, a
virtual machine, and a run-time library in C.  The interpreter is one thread;
what makes it hard is not concurrency but memory that is counted by hand
through the whole pipeline (the compiler decides where references are taken and
given back, the run time relies on it), data structures that are shared and yet
changed in place when nobody else looks, and code that runs while other code is
half done: a module is compiled and executed in the middle of compiling
another one, a function body runs while its caller holds registers, a
destructor runs in the middle of an operation.

This directory holds TLA+ models of the parts where that goes wrong in ways
tests hardly reach, the configurations that check them with TLC, and proofs
checked by TLAPS.  All file names below are relative to the repository.

## 1. Inventory

### The pipeline

| component | where | state it keeps | operations | what makes it correct |
|---|---|---|---|---|
| scanner, parser | `src/syntax/`, `src/scanner.c`, `src/ast*.c` | the token stream, the AST | one pass per file; the scanner feeds layout back to itself | the AST is the program's; `import` becomes a macro that calls `__require` |
| IR builder | `src/ir-builder.c`, `src/ir*.c` | scopes and variables of the module being built, an error flag | translates the AST; evaluates macros and imports on the spot; collects captures of closures | every name is bound to the innermost definition; an error anywhere fails the build |
| SSA builder | `src/ssa-builder.c`, `src/ssa-tape.c`, `src/insn.c` | a tape of instructions, the rule for the count of each value, the innermost TRY | builds instructions, then `insert_rc` finds the last use of each value on every path and puts REF, DEC, UNREF and DROP there | a value is given back exactly once, after its last use, on every path |
| bytecode builder | `src/bytecode.c` | instruction array, jump targets | linearises the tape | jumps reach the instruction they were made for |
| VM | `src/vm.c` | registers of the running function, `eth_sp`, `eth_this` | apply, tail apply, loops, exceptions, closures, recursive scopes | a call finds its arguments, pops them and leaves one result |

### The run time

| component | where | state it keeps | operations | what makes it correct |
|---|---|---|---|---|
| objects and counts | `include/ether/ether.h`, `src/type.c`, `src/alloc.c` | `rc` of every object | `eth_ref`, `eth_dec`, `eth_unref`, `eth_drop` | an object is deleted when its last reference goes, and not before |
| functions | `src/function.c` | code, captures, arity | apply, partial and curried application, destruction | arguments are consumed once |
| recursive scopes | `src/scp.c` | the members of a group of mutually recursive closures and a count | creation, drop-out, release | the group lives exactly as long as one member is in use |
| modules | `src/environment.c`, `src/root.c`, `src/module.c` | memo of loaded modules, module path, working directory | require, load, memorise, forget, destroy | each file is loaded once, cycles are cut, everything is destroyed |
| persistent vectors | `src/vector.c`, `libs/vector/` | counted tree nodes and tails, shared by vectors | push, insert, get, iterate, in place or as a copy | each vector is a sequence of its own |
| red-black trees | `src/rbtree.c` | counted nodes, shared by trees | insert, find, iterate | each tree is a map of its own, balanced |
| methods, types | `src/methods.c`, `src/type.c` | method tables | add, find | a method that was added is found |
| records, tuples, variants, symbols | `src/records.c`, `src/symbol.c` | interned types and symbols | create, look up, update | equal names give one type |
| lazy values | `src/lazy.c`, `ether.h` | the thunk or its value | force | evaluated once |
| coroutine states | `src/state.c` | a stack and a register file per state | switch | each state finds its own stack |
| exceptions | `src/exception.c`, `src/vm.c` | the value, a trace | throw, try | reaches the innermost handler |
| lists, strings, numbers, regexps, files, ranges, references | `src/pair.c`, `src/string.c`, `src/regexp.c`, `src/file.c`, `src/range.c`, `src/ref.c` | their value | one-step operations | |
| libraries | `libs/*` | none of their own, but for what the module loader keeps | wrappers of C functions | counts of their arguments |
| REPL and command line | `main.c`, `src/repl.c` | variables of the session | evaluate, exit | |
| C++ bindings | `src/c++/` | references held by C++ objects | | |
| eco, codeine, dope | `eco/`, `codeine/`, `dope.eth` | external submodules (empty here) and a package manager | | |

### How the parts meet

- The compiler and the run time share one contract: who holds a reference when.
  `insert_rc` emits the REF and UNREF instructions that make `eth_apply`,
  closures and recursive scopes sound; `RecScope` models both sides at once.
- The module loader is re-entered by the compiler (`import` is evaluated while
  the IR of the importer is built), by running code (`__require`), and by the
  initialisers of shared libraries. All of them share the memo and the
  working directory of the process.
- A load of a record evaluates lazy values in the middle of the instruction, and that
  code may load, update and assign the same record and the same type.
- Vectors and trees decide between writing in place and copying by looking at
  counts the compiler's instructions maintain.

The behaviours that are hard to test are listed in `PROJECT.json` under
`hazards`, each at the line where it bites and with the properties that would
catch it.

## 2. Order of the work

Ordered by how much depends on the component and by how little a test says about it.
All of these are done.

1. **Recursive scopes** (`RecScope`, abstract `ScopeLifetime`): the contract
   between the compiler's counting and the run time, with nested calls. Proved
   as well as checked.
2. **Module loader** (`ModulePath`, `ModuleLoader`, abstract `LoadRegistry`):
   nested loads, cycles, failures, the working directory. Proved as well as checked,
   the refinement included.
3. **Persistent vectors** (`PersistentVector`, abstract `PersistentSeq`).
4. **Dictionaries** (`RBTree`, abstract `PersistentMap`).
5. **The compiler's counting** (`SsaTape`, `SsaBuilder`, `RcInsertion`) composed
   with the machine that runs the result (`FunctionRun`): every emitted function
   keeps the contract that `RecScope` and the C code assume.
6. **Function application** (`Application`, abstract `UncurriedCalls`): partial and
   curried application, more arguments than parameters, exceptions on the way, the
   argument stack and `eth_this`. Proved as well as checked.
7. **From the tree to the IR** (`Ast`, `IrNode`, `IrBuilder`, with two meanings,
   `AstMeaning` and `IrMeaning`, that `ModuleBuild` compares): scoping, captures,
   folding, patterns, macros.
8. **From the tape to the bytecode** (`Bytecode`), composed with the machine that runs
   it beside its tape (`CompiledRun`).
9. **Lazy values in records** (`CountedHeap`, `LazyRecords`): evaluation in the middle of
   an instruction, and the search for fields that writes into the type. Proved as well
   as checked.

The compiler is covered in three links that share their data: `IrBuilder` ends in the
trees `SsaBuilder` starts from, `RcInsertion` in the tapes `Bytecode` starts from. Each
link is compared with what it must keep (meaning, counts, order of effects), on programs
of its own.

What would come next: method tables under programs that add methods at run time, the
explicit iterator of trees once something calls it, the states of the scanner.

## 3. Modules

| module | models | abstracts | extended or used by |
|---|---|---|---|
| `ScopeLifetime` | what a recursive scope promises | | `RecScope` (refinement) |
| `RecScope` | `src/scp.c`, the FN, MKSCP, LDSCP, APPLY and APPLYTC instructions on members, `eth_arg`/`eth_return` | registers to a number of references | `MCRecScope`, `RecScopeProofs` |
| `RecScopeProofs` | proofs about `RecScope` | | |
| `ModulePath` | `src/environment.c`: resolution of names | file system to a function | `ModuleLoader` |
| `LoadRegistry` | what the loader promises | | `ModuleLoader` (refinement) |
| `ModuleLoader` | `src/environment.c`, `src/root.c`, `src/module.c`, initialisers of libraries | the code of a module to its requests | `MCModuleLoader` |
| `ModuleLoaderProofs` | proofs about `ModuleLoader` | | |
| `PersistentSeq` | what a vector promises | | `PersistentVector` (refinement) |
| `PersistentVector` | `src/vector.c` | elements | `MCPersistentVector` |
| `PersistentMap` | what a dictionary promises | | `RBTree` (refinement) |
| `RBTree` | `src/rbtree.c` | the comparison to one of numbers that may throw | `MCRBTree` |
| `Values` | what the compiler sees of values: types, fields, symbols, equality | numbers and strings to a few | `Ast`, `IrNode`, `Outcome` |
| `Ast` | the constructors of `src/ast.c` | counts, places in the source, help texts | `IrBuilder`, `AstMeaning` |
| `IrNode` | the constructors of `src/ir-node.c` | the same | `IrBuilder`, `IrMeaning` |
| `Outcome` | what an evaluation comes to, and its effects | | `IrMeaning`, `AstMeaning` |
| `IrMeaning` | what a tree of the IR computes: the order of `build` and `build_pattern` in `src/ssa-builder.c` | instructions to the values they make | `IrBuilder` (macros, constants) |
| `IrBuilder` | `src/ir-builder.c` | match tables, spec variables | `ModuleBuild` |
| `AstMeaning` | what a program means | | `ModuleBuild` (reference) |
| `ModuleBuild` | a program is built and run | | `MCModuleBuild` |
| `SsaTape` | `src/ssa-tape.c`, `src/insn.c`, the predicates on instructions of `src/ssa-builder.c` | | `SsaBuilder` |
| `SsaBuilder` | `build` and `build_pattern` in `src/ssa-builder.c` | types, constants known at compile time, arithmetic | `RcInsertion` |
| `RcInsertion` | `insert_rc` and what it calls | | `FunctionRun`, `Bytecode` |
| `FunctionRun` | `src/vm.c` on one function | callees to the contract of `eth_arg` and `eth_return` | `MCFunctionRun` |
| `Bytecode` | `src/bytecode.c` | arithmetic and record instructions | `CompiledRun` |
| `CompiledRun` | `src/vm.c` on registers, jumps and handlers | values to numbers | `MCCompiledRun` |
| `UncurriedCalls` | what function application promises | | `Application` (refinement) |
| `Application` | `src/function.c`, `eth_apply`, APPLY, APPLYTC, POP and RET in `src/vm.c`, `eth_arg`, `eth_return` | bodies to what they do with values | `MCApplication`, `ApplicationProofs` |
| `ApplicationProofs` | proofs about `Application`: the invariant | | `ApplicationRefinement` |
| `ApplicationRefinement` | proof that `Application` implements `UncurriedCalls` | | |
| `CountedHeap` | `eth_ref`, `eth_unref`, `eth_drop`, `eth_dec` | the order of deletions | `FunctionRun`, `LazyRecords`, `Application` |
| `CountedHeapProofs` | proofs about `CountedHeap` | | `LazyRecordsProofs`, `ApplicationProofs` |
| `LazyRecords` | `src/lazy.c`, `eth_get_lazy_value`, LOAD, LOADRCRD, MKRCRD, UPDTRCRD, `_assign_field`, record types | programs to the records they handle | `MCLazyRecords`, `LazyRecordsProofs` |
| `LazyRecordsProofs`, `LazyRecordsSteps`, `LazyRecordsTheorems` | proofs about `LazyRecords`: the invariant and what each change does to it; the changes inside an evaluation; the steps and the theorems | | |

`MCBodies` holds the small functions that `MCFunctionRun` and `MCCompiledRun` share.
Operators named as mutants (`\* Mutant of ...`) are wrong versions of the definition that
follows them; no run uses them, they show that a property notices the mistake.

### Recursive scopes

`rc` is `header.rc` of each closure, `scpRc` is `eth_scp.rc`. `env` counts the
references that registers and objects own; the calls in progress are `stack`,
each with the reference the caller keeps on the callee (or `NoPin` for a call
through a scope variable, which the compiler does not count). `flight` are the
values on their way between two functions. An action is one instruction or one
half of a call: `Build` and `MkScope` are FN and MKSCP, `Call*` the three ways a
member is applied, `EnterRef`/`EnterDrop` what the callee does with its arguments,
`Return*`, `TakeResult`, `DropResult` and `*Callee` the way back. `DropAt` is
`function_destroy`, `DropOut` is `eth_drop_out` with the recount.

### Module loader

A frame of `stack` is one activity that waits for the next: the program, a module
being compiled (`build`), evaluated (`eval`), a library in its initialiser (`init`,
`aux`, `done`). `Ask` is `eth_require_module`, `Load` the two `eth_load_module_*`
functions up to the point where the new module runs, `Finish` and `Fail` the rest of
them. `memo` and `ready` are `root->pathmap` and the ready flag of its entries.

### Persistent vectors and dictionaries

Both keep `mem.node`, the nodes with their counts, and `mem.val`, the references to
each value. An action is one call of the library on one handle and contains the
whole recursion on the tree; the program holds up to two handles, which is what
sharing takes. Node addresses are renamed after each step (`Settle`) so that states
that differ in addresses only are one.

The variable `call` is auxiliary: it records what the last call was asked to do, with its
arguments and, for a dictionary, whether it threw. No action reads it, so TLC tells states
apart without it (`View`), but it sees it in every step. The abstract specifications
`PersistentSeq` and `PersistentMap` have one effect per call and require that of the call
that was made: `push` of this element appends it to this vector, `insert` puts it at this
index, `set` binds this key to this value or, where a comparison throws, changes nothing.
So a write that is lost or goes to another place violates the refinement in that step, and
a call without any effect is not a stutter, as `call` changes with each (`turn`).

Two calls of a vector go wrong in the code, and the model makes them only where they are
asked for (`Admitted`, empty in `vector`, the first of them in `vector_lost_write`):
`WriteIsLost` describes the inserts that meet the first shared node between the root and the
leaf, `PushRunsOn` the pushes of a leaf into a lowest branch that is there and has to be
copied, or below a shared branch. Each is stated about the nodes on the way to the index
(`Way`). Everything else is made, in shared trees of every depth within the bounds: inserts
where the root or the leaf is shared, pushes into a shared tree that lacks the lowest branch
or gets a new level.

### From the tree to the IR

`BuildModuleIr` is `eth_build_module_ir`; one operator translates each kind of node
(`Build...`), and what the C code keeps in the `ir_builder` of each function (the names in
scope with the captured ones at the end, the number of variables, the public names) is a
stack of records that is passed on. A variable is a number; a name that belongs to a
function further out is captured, level by level. Constants are computed while the tree
is translated, macros are translated and run on the spot (`MacroValue`), which is why the
builder needs `IrMeaning`. `AstMeaning` is not from the builder: it says what a program
means by names alone, as the language is described by the constructors, and never
mentions variables, captures or folding. `ModuleBuild` has two actions, the build and the
run of its result; effects are what is printed, the cells of mutable variables, what is
thrown and what is made public, in order.

### The compiler's counting

`SsaBuilder!Build` has one case per IR node and adds to a tape of instructions;
`RcInsertion!InsertRc` is the second pass; `Compile` both. Here the state of the C
code (the tape, the rules, the list of moves, the killers) is a record that is passed
on. `FunctionRun` takes a compiled function and a way to call it and runs the
instructions on a heap of counted objects: one action per instruction. The state
says for every object how many of its references are held by others (`held`); a
function that is called may return anything that the contract allows and may make
others let go of what they hold. A run quantifies over all bodies of a set and all
ways to call them.

### From the tape to the bytecode

`BuildBytecode` is `eth_build_bytecode`: registers are given to SSA values in the order
they come up, a test becomes a test and a jump, a block that is unlikely is put behind the
code with a jump back, a guarded block has the jump to its handler filled in when the
handler's place is known. The jump back from a block that was put off is written with
what `retpos` of its entry says after the block was built (`ReturnJump`); if the block put
off others, the table may have moved, and the model then lets the jump lead out of the
code, the worst that can be read there. `CompiledRun` runs both: an action of the machine is one bytecode
instruction, an action of the tape one of the tape's, and what each has done is kept as the
sequence of instructions with the identities of the values they were given. The machine
has the registers of its frame (`nreg`) and no others; when an instruction names another
one, or a jump leads out of the code, it is `LOST` and cannot follow the tape.

### Function application

`frames` are the C functions in progress: bodies, and the three places where
`src/function.c` waits for a result. `sp` is the stack of arguments, `ctl` what the
innermost function is about to do (run, apply a function to the `n` values on top of the
stack, return), `this` is `eth_this`; an address without an object is `Nothing`. `Begin` is `_eth_raw_apply` of a function of the
program with the POP of bytecode or the `eth_arg` of C code, `Curried` is `curried`,
`Partial` and `Over` with its ends are the branches of `_eth_partial_apply`. Bodies are
free: they apply anything they have to anything they have, and return anything. They
follow the compiler's rules of counting, with a reference to what they apply.

### Lazy values in records

A load is not one step: when a field holds a lazy value, its thunk runs in the middle of
the instruction, and that code may load, update and assign the same record. `stack` is
what is under way: code (with what it owns, what its closure captured and the instruction
it is in) and evaluations that wait for it. `sentinel` is the place behind the field
numbers of a type, which a search writes so that it ends (`Search`, `Update`).
`StartLoad`, `ReadPlace`, `Search` and `Bind` are LOADRCRD and LOAD, taken apart at the
evaluations; `Return`, `FallThrough` and `Settle` are `eth_get_lazy_value`. A deleted
object keeps its address, so that a use of it shows.

## 4. Runs

| run | question | bounds |
|---|---|---|
| `rec_scope` | is a scope released in time, not too early, with right counts; does it implement `ScopeLifetime` | 3 members, 2 references each, 3 nested calls, 2 arguments |
| `module_loader` | memo, flags, directories and imports in every order of requests and failures; does everything end | two scripts in a cycle, a library with an auxiliary script that is also imported directly, another library; 2 run-time calls |
| `module_loader_deps` | do modules outlive their importers: **violated** | the same |
| `module_build` | does what the builder makes of a program do what the program means; is every variable set where it is read | every operation in every context that binds, hides, captures, folds or leaves; two names, constant or not; about 39 000 states |
| `access_clobbers` | the same for field access at the top level: **violated** | two programs |
| `vector` | does each call do what it is asked to, to its vector only; are counts exact; does every way of reading agree | nodes of 2 slots; one vector alone up to length 15 (four levels), two with lengths up to 10 and from 13 to 15 |
| `vector_lost_write` | does an insert below a shared branch arrive: **violated** | length up to 7 |
| `tree` | does each call do what it is asked to, or throw and change nothing, to its tree only; are counts exact, black heights equal | two trees with 3 keys and 2 payloads, one alone with 7 keys |
| `function_run` | exact counting on every path | all sequences of two steps, one branch in another, one handler, patterns in patterns, 2 rounds of a self-call, all ways to call |
| `compiled_run` | does the bytecode do what the tape says, with the same values, in the registers of the frame | the bodies of `function_run`, patterns of two tests, and guarded blocks, branches, updates and self-calls nested three deep; 2 rounds; every outcome of every test |
| `application` | does every function get its arguments as if at once; are counts, the stack and `eth_this` right in every step and after it | a function with 1 parameter (bytecode), one with 3 (C); 4 arguments given in all, at most 3 at a time; the program and two bodies, 6 objects |
| `lazy_records` | do loads give the fields that were asked for, are counts exact, while evaluations run in the middle | one type with two fields, searches for one, two and a missing one; 6 objects; 3 steps of the program, 2 of each thunk; about 315 000 states |

Why the bounds are enough. Scopes: a recount needs a member that dropped out and one
that did not, and another that comes back, so three; references above 2 behave like 2.
Loader: a cycle of length two through a library covers the cases of `check_memorized`;
a third request at run time meets no new state of the memo. Programs: the builder treats
a name by how it is bound, hidden and captured, and an operation by whether its parts are
constant; the contexts have every way to bind a name and two levels of functions, and
every operation is put into each of them with parts that are constant, variable and
effectful. Vectors: with two slots per node (the code has 32) a tree of three levels needs
7 elements and one of four 11, and every function meets full and not full nodes on each
level; two handles are needed for sharing, and a third adds counts but no new test in the
code, which only compares with 1. Shared trees get their second and third level at the
lengths 5 and 7; from 14 to 15 a push finds a shared tree of four levels without the lowest
branch. Two vectors skip the lengths 11 and 12 to keep the states few: there a shared tree
would get its fourth level the way it got the third. Elements are never looked at, so it is enough to
mark one: if a write goes astray in some history, it does so in the one in which that
element, and no other, is marked. Hence two values, of which one is in at most one slot
(`MaxRare`). Trees: every case of `balance` occurs with 4 keys, and 7 keys are enough
for rotations that follow one another. Functions: the insertion of counting looks at one
value at a time, so what matters is the position of its uses: before, in and after a
branch, in either side, at the head, in a call, in an object, twice; the sets of bodies
enumerate these. Bytecode: a jump is from or to a block that was moved or not, inside a
guarded block or not, before or after the entry, and three levels of nesting have every
pair. Application: a function of one parameter that gets three arguments returns twice
into `_eth_partial_apply`, one of three parameters waits twice, and the fourth argument is
too many for it; more of either repeats the same step on the same fields. The ways to call
a function are: arguments given up or held by others, distinct or the same object, equal
to a captured one, a pair or not. Lazy values: a search is disturbed by one other search
on the same type, an evaluation by one inside it and one it falls through to.

The passing runs exclude what the violated runs, and the list in section 6, show to go
wrong, each by one named condition: members applied to themselves as a last use (`RecScope`
has calls of a member that somebody holds and through the scope), relative module paths,
functions with named and unused arguments, tail position for TRY, swapped arguments and
unused results of updates (the sets of bodies in `MCBodies`), application of a function
that nobody holds, field access at the top level and constants that do not match inside a
function (the contexts of `MCModuleBuild`), a lazy value that needs itself (`Evaluate`),
and assignments from inside an evaluation that take away what somebody else is using
(`MayAssign`), inserts into a vector that meet the first shared node below the root
(`WriteIsLost`), pushes that copy a lowest branch with room (`PushRunsOn`), and
returns from guarded blocks (`MCBodies`). `ReadsAgree` starts an iteration at the
first element of a leaf, `EqualBlackHeights` is the half of the red-black property that
`balance` keeps. The programs of `compiled_run` put the other branch of a match off twice only
in functions that leave registers over (`TwoTests`); the deferred blocks of all of them end
by throwing or returning, as every block does that the builder puts off, so the jump back
behind them never runs.

Fairness is assumed in one place, `ModuleLoader!FairSpec`: weak fairness of the
next-state relation. The interpreter is one thread that takes its next step whenever
there is one, and the bound on run-time calls stands for the assumption that loaded
code terminates. The other properties are safety properties and need none. Deadlock is
not checked: the programs end (a scope is released, the interpreter exits, a function
returns) and the bounds stop them.

## 5. Proofs

### Recursive scopes

`RecScopeProofs` proves for every set of members and every bound:

| theorem | statement |
|---|---|
| `TypeCorrect` | `Spec => []TypeOK` |
| `CountsExact` | `Spec => []RcExact` |
| `CountSound` | `Spec => []ScopeCountSound` |
| `Safety` | `Spec => []NoUseAfterFree` |
| `ScopesDoNotLeak` | `Spec => []NoLeak` |
| `ImplementsAbstractLifetime` | `Spec => ImplementsLifetime` |

They assume `ScopeAssumption` only: the set of members is finite and not empty, the
marker `NoPin` is not one of them. The argument is one inductive invariant, `IInv`:
`TypeOK`, `RcExact` and `ScopeCountSound` are not inductive alone, and the safety property
does not follow from them, because `eth_drop_out` looks at `scpRc`, which is not updated
when a member that dropped out is reached again. What saves the code is the recount
before a release, and the invariant says why that is enough: only a live scope has
calls or values in flight (`OnlyWhenLive`), each mode has the frame and the values it
belongs to (`Phases`), the outermost call pins a member by a counted reference
(`BasePinned`), and so a live scope always has a member with references
(`SomeoneCounts`). Each action has a lemma
`...Step` that it preserves `IInv`; the lemmas on frames (`FramesPush`, `FramesPop`) are
about counting pins, `DropAtSound` is the recount.

### The module loader

`ModuleLoaderProofs` proves for every file system, every
module path, every program and every way modules import each other:

| theorem | statement |
|---|---|
| `LoaderTypes` | `Spec => []TypeOK` |
| `CyclesAreFound` | `Spec => []CyclesAreCut` |
| `MemoIsLive` | `Spec => []EntriesAreLive` |
| `InstancesAreUnique` | `Spec => []OneInstance` |
| `ImportsAreWhole` | `Spec => []ImportsAreComplete` |
| `ImplementsLoadRegistry` | `Spec => ImplementsRegistry` |

They assume `PathAssumption` and `LoaderAssumption`: files, directories and names are
different things, and the constants have their types. `Spec` has no fairness; `MaxCalls`
is any number, so the proofs also cover the code without the bound.

The inductive invariant `IInv` adds to the five properties what ties the three places
together in which the code keeps a load: the C stack, the memo and the module.
`LoadFrames` says that each load in progress is known under its own file, as its own
instance, and is not flagged ready; `BottomFrame` that the main program is not in the memo
at all (otherwise `Exit` would leave an entry to a destroyed module); `AuxWaits` that an
initialiser that goes on without an error has its script ready, or is waiting for exactly
that script (so that `TakeAux` destroys a module that exists, and no other entry);
`ReadyMemorised` that a module that is ready is the one its file is known as. The last is
why `OneInstance` holds and why it is not inductive by itself: `Finish` makes an instance
ready, and only `LoadFrames` knows that no other instance of that file was. There is one
lemma per action (`...Step`); the actions that ask for a module share `RefuseStep`,
`ReuseStep` and `EnterStep`, the two that end a load share `EndKeeps`.

The refinement maps the memo and the flag to the status of each file, the stack to the
nesting of loads, and the saved working directories to those of the waiting frames.
`Enter` is `Begin`, `Finish` and `Fail` are `End`, `TakeAux` and `Teardown` are `Discard`,
`Chdir` is `ChangeDir`; a request that is refused or answered from memory, and a frame
that goes on to its next step, are stutters. `IInv` is needed for `Discard`, which the
registry allows only for a file that is ready.

### Counted objects

`CountedHeapProofs` is about `CountedHeap` alone, for any heap. `Counts(h, S)` says that
in heap `h` each count is the number of references from other objects and of those that
`S` says are held elsewhere, and that nothing deleted is referred to. `IncAllCounts`,
`EditCounts` and `AppendCounts` say how references that are taken, a field that is written
and a new object move between the two. Two results carry the rest:

| theorem | statement |
|---|---|
| `DeletedIsLeast` | what a release deletes is the least set that is closed under deletion |
| `ReleaseCounts` | a release keeps all counts exact and deletes only what nobody holds |

`Deleted` is a recursive function on sets of objects. That it computes a least fixed point
needs induction over these sets, which goes by the well-founded order on the subsets of a
finite set (`FS_StrictSubsetOrderingWellFounded`, `WFMin`): take a smallest set of objects
still to be deleted for which the claim fails. From leastness follows `Protected`: a set of
objects is not deleted if each of them is held by somebody who gives nothing up, or by
another of the set; and `WriteCommutes`: an object that is not deleted may be written
before or behind the release.

### Records and lazy values

`LazyRecordsTheorems` proves for all record types, all programs within any bounds, any
beginning, and any depth of evaluations inside evaluations:

| theorem | statement |
|---|---|
| `Invariance` | `Spec => []Inv` |
| `CountsExact` | `Spec => []Accounted` |
| `LoadsExact` | `Spec => []LoadsAgree` |

They assume `LazyRecordsAssumption` (the ids of fields are integers, a record type has
finitely many, what is asked for is in increasing order, as `study` and the IR builder
sort it) and `StartAssumption`: a program begins with a heap of live objects with exact
counts and no cycles. `LazyRecords` restricts programs in three ways, as section 4 says:
`Evaluate` leaves out lazy values that need themselves, `MayAssign` and `~Reaches(v, src)` in
`Assign` leave out assignments that take away what a load is using or that tie a knot. The
theorems are about programs that keep to these, and section 6 says what the others meet.

Neither property is inductive. In the middle of a step counts are not exact: references
are taken before they are put anywhere, and released after. So the invariant `Good(h, st,
hand)` is about any heap, any stack and the references *in hand*; `Inv` is `Good(heap,
stack, <<>>)` and what a search finds behind the ids (`EndInSight`). There is one lemma for
each small change (a reference is taken or released, a field written, a frame entered,
moved or left), one for each step of the model, built from these (`...Keeps`), and
`WrittenLate` for the one place where the code writes a field after the release, which is
the same as before it because the record is protected. The parts of `Good` beyond the
types:

- `ObjectOK`: an object has the parts of its kind; a lazy value has neither thunk nor
  value only while it is evaluated.
- `FrameOK`: a load has read exactly the fields up to where it is, and they are what the
  record holds now (`SearchOK`); what waits for an evaluation waits for this lazy value
  (`Expects`), and the evaluation runs the thunk that the lazy value still refers to.
- `Distinct` and `Apart`: no lazy value is evaluated twice at a time, and what runs above
  an evaluation cannot get at its lazy value: some set of objects with it, closed under
  "refers to one of them", has nothing in it that is seen there. Without this a
  register given up inside the evaluation might be the last reference to the lazy value
  that `eth_get_lazy_value` is about to write, which owns none.
- `Acyclic`, stated with such sets as well: a record that is written cannot be under the
  lazy value whose value it gets, so the release of the old one cannot reach it.
- `Counts` and `Alive`: exact counts, with the references in hand, and nothing that is used,
  owned or not, is deleted. The only object without a count is the argument of
  `__get_lazy` while it waits.

`Ascending`, the order of a record's fields, is shown to exist and to be unique enough
(`AscendingExists`, `AscendingFacts`) by the same induction over finite sets.

### Function application

`ApplicationProofs` and `ApplicationRefinement` prove, for any set of functions, any arities, any choice of those that
are bytecode, and any bounds on objects, arguments and depth (`ApplicationAssumption`: every
function has a parameter, and functions and addresses are different things):

| theorem | statement |
|---|---|
| `AlwaysInv` | `Spec => []Inv` |
| `TypesKept` | `Spec => []TypeOK` |
| `NothingDeletedInUse` | `Spec => []NothingDangles` |
| `StackBalanced` | `Spec => []StackExact` |
| `CountsKept` | `Spec => []CountsExact` |
| `ThisRestored` | `Spec => []ThisIsRunning` |
| `ShapeAlways` | `Spec => []ShapeInv` |
| `ImplementsUncurriedCalls` | `Spec => ImplementsUncurried` |

`CountsExact` does not prove itself. `Curried` reads the function behind a partial
application and the arguments that wait in it, and nothing in the counts says that this
object outlives the call: the frame "curried" does not reference it, and neither does
"over" reference what it calls. That they can do without is the caller's doing, and the
invariant says so: `Calls` traces what a frame has called to a reference that the frame
itself has, to the object whose call it is, or, for "over", to the frame before. So the
function of every frame is held from below for as long as the frame is there
(`CalledHeld`, through any number of "over" and "curried" on top of one another), and no
release in between can delete it. The other parts of `Good(h, s, fs, hand)`:

- `ObjectOK`: a partial application refers to something that can be called, first.
- `FrameOK`: which frames have values or a share of the stack; "over" never calls for
  another "over", as it applies a function to exactly what it takes.
- `Fits` and, in `ControlOK`, the length of the stack: the frames' shares and the arguments
  of the application that is about to be made are the whole stack.
- `Counts(h, Owned(fs, s, hand))`: counts are exact with the references in hand, that is in
  the middle of a step. An object without a count may exist only if it is an argument or a
  result on its way (`CountedBut`, `OnTheWay`).
- `ThisOK`: `eth_this` and the saved values are those of a chain of calls, so what a frame
  restores is what the one below it ran with.

The lemmas go from the small to the large: what `IncAll`, `DecAll`, `Release`, `Drop` and a
new object do to `Good` when the references come out of the hand or go into it; what a
frame that is pushed, popped or changed (`Push`, `Pop`) and a stack that grows or shrinks
below or above the shares do; then one lemma per action (`...Keeps`), each a chain of the
former in the order in which the C function does it.

The last two theorems are in `ApplicationRefinement`. The mapping of `Application` to
`UncurriedCalls` reads three things out of a state, and the proof has a layer of lemmas for
each:

- What a value waits to be (`Den`): the function of the program at the end of a chain of
  partial applications, and the arguments collected along it. `Den` is a recursive function
  on a heap whose references are not bounded, so first of all it has to be shown to be one.
  `Grounded` is that no set of partial applications is made only of one another;
  it is kept because a new one is made of what is already there. From it follow that `Den`
  satisfies its own equation (`DenSettles`) and is unique (`SettledOnce`): the set of
  partial applications for which either fails would have an element whose function behind
  is not in the set. `DenSame` says that objects which stay as they are keep their meaning
  when others come and go, which is what the heap lemmas (`...Thins`, `OfferMoves`,
  `LastMoves`) say of each change to a heap; `ArityKept` and `DenTypes` that what a
  function has and what it waits for are together what its `Den` takes, which `Suspend` and
  `Begin` of `UncurriedCalls` ask about.
- What waits for a result (`Awaiting`): the stack share of the one "over" behind the last
  body, if there is one. That there is at most one, and nothing behind "again" and "body",
  is `Stacked`; `Exactly` says that what is applied inside "over" and "curried" gets
  exactly what it takes. Without it `Partial` might suspend a function while other
  arguments wait, and they would then be given to the function again.
- The bodies (`BodiesBar`), numbered from the outside. `PushView`, `PopView`, `SwapView` and
  `StillView` say what a frame that begins, ends, is replaced or stays makes of these and of
  what waits; `Common` carries the shares of the frames below over to the new stack.

Then one lemma per action (`...Refines`). `Begin`, `Partial`, `Return`, `TailCall`, `Take`,
`Forget`, `Apply` and `Refuse` are the actions of `UncurriedCalls`; `OverOther` is `Fail`, or
for an exception a collection; `Curried`, `Over`, `OverFunction` and `EndCurried` are
stutters, which is where the order of arguments is decided: the call that is mapped from
the stack before is, argument by argument, the one mapped from the stack after. `Again`
only lets objects go. `ShapeInv` is the conjunction of `Grounded`, `ArityKept`, `Stacked`
and `Exactly`; it is preserved together with the refinement step (`Refined`), on top of `Inv`.

### Only checked by TLC

`EverythingEnds` is liveness under fairness. Vectors, trees, the builder and the compiler
are defined by recursive operators on trees and programs of any depth, and modules with
such operators are out of the prover's reach; `FunctionRun` and `CompiledRun` run what the
compiler made, so they are as well. The condition that programs keep in `LazyRecords` is
assumed, not derived from a type discipline: the language has none.

## 6. Findings

Disagreements between the code and what it says of itself, each with a run that shows
it; the lines are quoted in `PROJECT.json`.

- `module_loader_deps`: modules are destroyed in hash order, not after their importers
  (`src/root.c:62`).
- `vector_lost_write`: copy on write stops at the first shared node
  (`src/vector.c:221`).
- `access_clobbers`: at the top level, access to a field of a value that is not constant
  puts the record into variable 0 (`src/ir-builder.c:1103`).

Met while modelling, and kept out of the runs by the conditions above:

Functions and scopes

- `f f`, as the last use of a member of a recursive scope, gives the callee no reference
  while it runs (`src/ssa-builder.c:1466`).
- A function made by partial application that nobody holds while it is applied (`g g` at
  the last use of `g`) sets the number of its arguments to 0 before it counts them for the
  application behind it (`src/function.c:218`); `Curried` has the branch, but bodies hold
  what they apply.
- `eth_type_error` pops the arguments that were not looked at without giving them back
  (`include/ether/ether.h:3533`).

The compiler

- `fn a -> let y :: 1 = 5 :: 2 in a`: a constant that does not match leaves `build_let` with
  names still in scope, and `build_fn` fails its assertion (`src/ir-builder.c:473`, `712`).
- An argument that has the name of a member of an enclosing `let rec` is hidden by it in the
  body (`src/ir-builder.c:681`).
- An object passed twice, where the second argument is not used, is dropped before it is
  referenced (`src/ssa-builder.c:1847`).
- The result of a record update that nobody uses is never given back
  (`src/ssa-builder.c:1883`).
- The UNREF for the path without an exception is put behind the last instruction of the
  guarded block, which in tail position is its RET, so that it never runs
  (`src/ssa-builder.c:1760`).
- `fn a b -> let (x :: y) :: z = a in x :: b`: the block for a failed match is laid out once for
  each test of the pattern, with new registers each time, but a frame has one register for
  each SSA value (`src/bytecode.c:745`, `995`): the second copy writes behind it.
- `let z = (try return b with _ -> 0) in z :: a`: a value that is used only in the handler or
  behind the guarded block is not given back when the block returns, because only the
  end of the block is looked at (`src/ssa-builder.c:1746`).
- A self-call with swapped arguments (`self b a`) copies one register after the other
  (`src/vm.c:443`).
- `destroy_match_table` frees rows by the number of columns (`src/ast.c:699`,
  `src/ir-node.c:502`).

Lazy values, records and methods

- A lazy value that is forced inside its own evaluation is evaluated again, and both
  evaluations give up its thunk, and in a load the field's reference
  (`include/ether/ether.h:1143`).
- Code that runs in the middle of a load may assign the field: the lazy value that is being
  evaluated, or a value that the load has read and does not own yet, loses its last
  reference (`src/builtins.c:1060`, `src/vm.c:630`). The same happens to a lazy value whose
  only owner is a record that it is assigned into.
- `_make_struct` destroys a type that stays in the table of types when a method does not
  fit (`src/builtins.c:1315`, `src/records.c:228`).
- The symbols of fields are ordered by the difference of their 64-bit numbers, cut to an
  `int` (`src/records.c:146`, `src/ir-builder.c:1210`): wrong for numbers that are more than
  2^31 apart.
- A table of methods whose array is full is turned into a hash table by every further
  addition, which reads the table's pointer as an entry of the array and loses the methods
  (`src/methods.c:96`).

Containers and modules

- A push into a shared tree whose lowest branch has room for the leaf, or below a shared
  branch, recurses below the leaves (`src/vector.c:264`, `287`): `RecursionEnds` fails with
  `"push"` in `Admitted` after a dozen calls.
- Iteration of a vector from the middle of a leaf or of the tail reads past the end or
  fails an assertion (`src/vector.c:593`).
- `balance` does not look at the right side when the left child is red, so red nodes
  can follow each other on the right (`src/rbtree.c:69`).
- A relative directory given with `-L` is looked up in the directory of the module
  that is being loaded (`src/environment.c:76`).

## 7. Not modelled

Listed in `PROJECT.json` under `components` with the reasons. In short:

- The scanner and parser are generated automata; what the scanner keeps (indentation and
  brackets) decides only where it inserts tokens, and the constructors it leads to are
  modelled in `Ast`.
- Match tables (MULTIMATCH) in the tree, the builder and the bytecode: nothing in the
  repository builds one.
- Strings, numbers, files, regular expressions, ranges and most builtins and libraries are
  operations of one step on one value, or pure input and output; their counting is the
  contract that `FunctionRun` gives to callees.
- Method tables change only while types are set up; what goes wrong when one grows is in
  section 6.
- Coroutine states: the switch itself is in `eco`, a submodule that is not in the
  repository; `src/state.c` around it saves and loads five registers of the machine.
- The package manager runs shell commands, the REPL and the C++ bindings wrap operations
  of the other components, and `codeine` is an external submodule.
