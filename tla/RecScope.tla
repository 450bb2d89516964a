------------------------------ MODULE RecScope ------------------------------
(* Recursive scopes: the closures created by one "let rec f = .. and g = ..".*)
(*                                                                           *)
(* The members of a scope reach one another through eth_scp.fns, pointers    *)
(* that nobody counts (LDSCP copies them into the registers of a running     *)
(* member, with RC_RULES_DISABLE), so the usual reference count would free a *)
(* member its siblings still need.  src/scp.c therefore frees the members    *)
(* together: eth_scp.rc counts the members in use, a member whose own count  *)
(* falls to zero drops out of the scope instead of being freed, and when     *)
(* eth_scp.rc falls to zero it is recomputed before anything is released.    *)
(*                                                                           *)
(* The model has one scope, the registers and objects that hold counted      *)
(* references to its members (env), and the chain of calls that execute its  *)
(* members (stack).  A value on its way between two functions - an argument  *)
(* that was DECed before APPLY and not yet REFed by the callee, a result     *)
(* returned and not yet REFed by the caller - is held by nobody: flight.     *)
EXTENDS Naturals, Sequences, FiniteSets

CONSTANTS Member,       \* the functions of the scope
          NoPin,        \* a call through an uncounted pointer (a scope variable)
          MaxRef,       \* bound on the counted references to one member
          MaxDepth,     \* bound on the nesting of calls into the scope
          MaxArgs       \* bound on the members passed in one call

ASSUME ScopeAssumption ==
    /\ IsFiniteSet(Member)
    /\ Member # {}
    /\ NoPin \notin Member
    /\ MaxRef \in Nat /\ MaxDepth \in Nat /\ MaxArgs \in Nat

VARIABLES scope,        \* "building" before MKSCP, then "live", then "freed"
          rc,           \* header.rc of each member
          scpRc,        \* eth_scp.rc
          env,          \* the references registers, captures and objects own
          stack,        \* per running call: the reference its caller keeps on
                        \* the callee until the call is over, or NoPin
          mode,         \* "run", "enter" (arguments arriving), "leave" (result
                        \* arriving), "release" (the caller lets the callee go)
          flight        \* the members passed or returned and held by nobody

vars == <<scope, rc, scpRc, env, stack, mode, flight>>

Modes == {"run", "enter", "leave", "release"}

TypeOK ==
    /\ scope \in {"building", "live", "freed"}
    /\ rc \in [Member -> Nat]
    /\ scpRc \in Nat
    /\ env \in [Member -> Nat]
    /\ stack \in Seq(Member \union {NoPin})
    /\ mode \in Modes
    /\ flight \in Seq(Member)

-----------------------------------------------------------------------------
(* Helpers *)

\* The calls whose caller keeps a reference to m until they are over.
Frames(s, m) == {i \in 1 .. Len(s) : s[i] = m}
Pins(m) == Cardinality(Frames(stack, m))

InFlight == {flight[i] : i \in 1 .. Len(flight)}

InUse(count) == {m \in Member : count[m] # 0}

\* A body that is being executed has all members in its registers (LDSCP);
\* anyone else needs a counted reference.
Running == stack # <<>>
Reachable(m) == Running \/ env[m] > 0

\* Mutant of DropOut: the counter is trusted at zero, too.
DropOutNoRecount(count) ==
    /\ scpRc' = scpRc - 1
    /\ scope' = IF scpRc - 1 = 0 THEN "freed" ELSE scope

\* Mutant of DropOut: the recounted value is tested but not stored.
DropOutNotStored(count) ==
    /\ scpRc' = scpRc - 1
    /\ scope' = IF scpRc - 1 = 0 /\ InUse(count) = {} THEN "freed" ELSE scope

\* Mutant of DropOut: the recount compares the counts with 1.
DropOutAboveOne(count) ==
    LET shared == {m \in Member : count[m] > 1} IN
    \/ /\ scpRc - 1 # 0
       /\ scpRc' = scpRc - 1
       /\ UNCHANGED scope
    \/ /\ scpRc - 1 = 0
       /\ scpRc' = Cardinality(shared)
       /\ scope' = IF shared = {} THEN "freed" ELSE scope

\* eth_drop_out, called by function_destroy when a member's count is zero;
\* count is header.rc of the members at that moment.  The counter is trusted
\* only while it is positive; at zero it is recomputed, and the scope goes,
\* closures and all, when no member has references.
DropOut(count) ==
    \/ /\ scpRc - 1 # 0
       /\ scpRc' = scpRc - 1
       /\ UNCHANGED scope
    \/ /\ scpRc - 1 = 0
       /\ scpRc' = Cardinality(InUse(count))
       /\ scope' = IF InUse(count) = {} THEN "freed" ELSE scope

\* eth_drop of a member whose count is count[m]: destroy it when that is zero.
DropAt(count, m) ==
    IF count[m] = 0 THEN DropOut(count) ELSE UNCHANGED <<scpRc, scope>>

-----------------------------------------------------------------------------
(* Creating the scope *)

Init ==
    /\ scope = "building"
    /\ rc = [m \in Member |-> 0]
    /\ scpRc = 0
    /\ env = [m \in Member |-> 0]
    /\ stack = <<>>
    /\ mode = "run"
    /\ flight = <<>>

\* FN creates a closure with rc 0; the REF after it is the register's.
Build(m) ==
    /\ scope = "building" /\ rc[m] = 0
    /\ rc' = [rc EXCEPT ![m] = 1]
    /\ env' = [env EXCEPT ![m] = 1]
    /\ UNCHANGED <<scope, scpRc, stack, mode, flight>>

\* MKSCP: eth_create_scp on all the closures of the letrec.
MkScope ==
    /\ scope = "building" /\ \A m \in Member : rc[m] > 0
    /\ scope' = "live"
    /\ scpRc' = Cardinality(Member)
    /\ UNCHANGED <<rc, env, stack, mode, flight>>

-----------------------------------------------------------------------------
(* References taken and released, between calls or by a running body *)

\* eth_ref: a register is copied, captured by FN or stored in an object.
Ref(m) ==
    /\ scope = "live" /\ mode = "run"
    /\ Reachable(m) /\ env[m] < MaxRef
    /\ rc' = [rc EXCEPT ![m] = @ + 1]
    /\ env' = [env EXCEPT ![m] = @ + 1]
    /\ UNCHANGED <<scope, scpRc, stack, mode, flight>>

\* eth_unref: the last use of a register, or an object that held m dies.
Unref(m) ==
    /\ scope = "live" /\ mode = "run" /\ env[m] > 0
    /\ rc' = [rc EXCEPT ![m] = @ - 1]
    /\ env' = [env EXCEPT ![m] = @ - 1]
    /\ DropAt(rc', m)
    /\ UNCHANGED <<stack, mode, flight>>

-----------------------------------------------------------------------------
(* Calls *)

\* Mutant of Pass: a register passed twice is DECed twice.
PassPerOccurrence(args, killed) ==
    /\ killed \subseteq {args[i] : i \in 1 .. Len(args)}
    /\ \A a \in killed : env[a] > 0
    /\ rc' = [m \in Member |-> IF m \in killed THEN rc[m] - Cardinality(Frames(args, m)) ELSE rc[m]]
    /\ flight' = args
    /\ mode' = IF args = <<>> THEN "run" ELSE "enter"

\* DEC before APPLY, for every argument register whose last use is the call.
Pass(args, killed) ==
    /\ killed \subseteq {args[i] : i \in 1 .. Len(args)}
    /\ \A a \in killed : env[a] > 0
    /\ rc' = [m \in Member |-> IF m \in killed THEN rc[m] - 1 ELSE rc[m]]
    /\ flight' = args
    /\ mode' = IF args = <<>> THEN "run" ELSE "enter"

WithoutKilled(killed) == [m \in Member |-> IF m \in killed THEN env[m] - 1 ELSE env[m]]

\* APPLY of a register that owns a reference to m: the reference stays until
\* the call is over (fn is UNREFed after APPLY), so the call pins m.
CallHeld(m, args, killed) ==
    /\ scope = "live" /\ mode = "run" /\ Len(stack) < MaxDepth
    /\ \A i \in 1 .. Len(args) : Reachable(args[i])
    /\ env[m] > IF m \in killed THEN 1 ELSE 0
    /\ Pass(args, killed)
    /\ env' = [WithoutKilled(killed) EXCEPT ![m] = @ - 1]
    /\ stack' = Append(stack, m)
    /\ UNCHANGED <<scope, scpRc>>

\* APPLY of a scope variable: no reference is taken.
CallSibling(args, killed) ==
    /\ scope = "live" /\ mode = "run" /\ Running /\ Len(stack) < MaxDepth
    /\ Pass(args, killed)
    /\ env' = WithoutKilled(killed)
    /\ stack' = Append(stack, NoPin)
    /\ UNCHANGED <<scope, scpRc>>

\* APPLYTC and LOOP: the sibling (or the same member) takes over the frame.
TailCall(args, killed) ==
    /\ scope = "live" /\ mode = "run" /\ Running
    /\ Pass(args, killed)
    /\ env' = WithoutKilled(killed)
    /\ UNCHANGED <<scope, scpRc, stack>>

\* The callee POPs its arguments; the RC insertions for them follow, the last
\* argument first: REF if the body uses it, DROP if it does not.
Arrive(count) ==
    /\ flight' = SubSeq(flight, 1, Len(flight) - 1)
    /\ mode' = IF Len(flight) = 1 THEN "run" ELSE "enter"
    /\ rc' = count

EnterRef ==
    /\ mode = "enter"
    /\ LET m == flight[Len(flight)] IN
          /\ env[m] < MaxRef
          /\ Arrive([rc EXCEPT ![m] = @ + 1])
          /\ env' = [env EXCEPT ![m] = @ + 1]
    /\ UNCHANGED <<scope, scpRc, stack>>

EnterDrop ==
    /\ mode = "enter"
    /\ Arrive(rc)
    /\ DropAt(rc, flight[Len(flight)])
    /\ UNCHANGED <<env, stack>>

-----------------------------------------------------------------------------
(* Returning *)

\* RET of something that is not a member.
ReturnOther ==
    /\ scope = "live" /\ mode = "run" /\ Running
    /\ mode' = "release"
    /\ UNCHANGED <<scope, rc, scpRc, env, stack, flight>>

\* RET of a register that owns its reference: DEC first, so m floats.
ReturnHeld(m) ==
    /\ scope = "live" /\ mode = "run" /\ Running /\ env[m] > 0
    /\ rc' = [rc EXCEPT ![m] = @ - 1]
    /\ env' = [env EXCEPT ![m] = @ - 1]
    /\ mode' = "leave" /\ flight' = <<m>>
    /\ UNCHANGED <<scope, scpRc, stack>>

\* Mutant of ReturnSibling: DEC although the frame owns no reference.
ReturnSiblingDec(m) ==
    /\ scope = "live" /\ mode = "run" /\ Running
    /\ rc' = [rc EXCEPT ![m] = @ - 1]
    /\ mode' = "leave" /\ flight' = <<m>>
    /\ UNCHANGED <<scope, scpRc, env, stack>>

\* RET of a scope variable: its count is not touched, and may be zero.
ReturnSibling(m) ==
    /\ scope = "live" /\ mode = "run" /\ Running
    /\ mode' = "leave" /\ flight' = <<m>>
    /\ UNCHANGED <<scope, rc, scpRc, env, stack>>

\* The RC insertion for the result of APPLY stands right after APPLY, before
\* the UNREF of the callee: REF when the result is used ...
TakeResult ==
    /\ mode = "leave"
    /\ LET m == flight[1] IN
          /\ env[m] < MaxRef
          /\ rc' = [rc EXCEPT ![m] = @ + 1]
          /\ env' = [env EXCEPT ![m] = @ + 1]
    /\ mode' = "release" /\ flight' = <<>>
    /\ UNCHANGED <<scope, scpRc, stack>>

\* ... and DROP when it is not.
DropResult ==
    /\ mode = "leave"
    /\ DropAt(rc, flight[1])
    /\ mode' = "release" /\ flight' = <<>>
    /\ UNCHANGED <<rc, env, stack>>

PopFrame ==
    /\ mode' = "run"
    /\ stack' = SubSeq(stack, 1, Len(stack) - 1)
    /\ UNCHANGED flight

Callee == stack[Len(stack)]

\* A call through a scope variable leaves nothing to release.
LeaveSibling ==
    /\ mode = "release" /\ Callee = NoPin
    /\ PopFrame
    /\ UNCHANGED <<scope, rc, scpRc, env>>

\* The register of the callee is used again later ...
KeepCallee ==
    /\ mode = "release" /\ Callee \in Member
    /\ PopFrame
    /\ env' = [env EXCEPT ![Callee] = @ + 1]
    /\ UNCHANGED <<scope, rc, scpRc>>

\* Mutant of UnrefCallee: DEC in place of UNREF.
UnrefCalleeDec ==
    /\ mode = "release" /\ Callee \in Member
    /\ PopFrame
    /\ rc' = [rc EXCEPT ![Callee] = @ - 1]
    /\ UNCHANGED <<env, scope, scpRc>>

\* ... or the call was its last use: UNREF.
UnrefCallee ==
    /\ mode = "release" /\ Callee \in Member
    /\ PopFrame
    /\ rc' = [rc EXCEPT ![Callee] = @ - 1]
    /\ DropAt(rc', Callee)
    /\ UNCHANGED env

-----------------------------------------------------------------------------

Args == UNION {[1 .. n -> Member] : n \in 0 .. MaxArgs}

Call ==
    \E args \in Args, killed \in SUBSET Member :
        \/ \E m \in Member : CallHeld(m, args, killed)
        \/ CallSibling(args, killed)
        \/ TailCall(args, killed)

Arrival == EnterRef \/ EnterDrop

Return ==
    \/ ReturnOther
    \/ \E m \in Member : ReturnHeld(m) \/ ReturnSibling(m)
    \/ TakeResult \/ DropResult
    \/ LeaveSibling \/ KeepCallee \/ UnrefCallee

Next ==
    \/ \E m \in Member : Build(m) \/ Ref(m) \/ Unref(m)
    \/ MkScope \/ Call \/ Arrival \/ Return

Spec == Init /\ [][Next]_vars

-----------------------------------------------------------------------------
(* Properties *)

\* What the counts are for: while a body runs, a member is on its way, or a
\* reference is owned by somebody, no member has been released.
NoUseAfterFree ==
    scope = "freed" =>
        /\ stack = <<>> /\ flight = <<>>
        /\ \A m \in Member : env[m] = 0 /\ rc[m] = 0

\* The other half: a live scope that nobody executes is owned by somebody
\* (the mutual references of the members do not keep it alive), although
\* members may have dropped out, come back and dropped out again.
NoLeak ==
    scope = "live" /\ stack = <<>> => \E m \in Member : env[m] > 0

\* eth_scp.rc may be wrong, but only on the safe side of the test in
\* eth_drop_out: it never wraps below zero, and it never exceeds the number of
\* members in use or on their way, so the last one to drop out brings it to 0.
ScopeCountSound ==
    scope = "live" =>
        /\ scpRc >= 1
        /\ scpRc <= Cardinality(InUse(rc) \union InFlight)

\* header.rc is the number of references owned by registers and objects,
\* those kept for the duration of a call included.
RcExact ==
    \A m \in Member : rc[m] = env[m] + Pins(m)

Lifetime == INSTANCE ScopeLifetime WITH
    status <- scope,
    held <- {m \in Member : env[m] + Pins(m) > 0},
    busy <- Running

\* The scope implements the abstract lifetime: one object, released in the
\* step that takes away its last user.
ImplementsLifetime == Lifetime!Spec
=============================================================================
