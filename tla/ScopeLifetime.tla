--------------------------- MODULE ScopeLifetime ---------------------------
(* What a recursive scope promises to the rest of the runtime, whatever     *)
(* way it counts: a group of mutually recursive functions lives and dies as *)
(* one object.  It is released in the very step that takes away its last    *)
(* user, and never before.                                                   *)

CONSTANT Member                 \* the functions of one "let rec ... and ..."

VARIABLES status,               \* "building", "live" or "freed"
          held,                 \* the members some counted reference designates
          busy                  \* some member's body is being executed

vars == <<status, held, busy>>

Init ==
    /\ status = "building"
    /\ held = {}
    /\ busy = FALSE

\* The closures are created one after the other, each held by its register ...
Build(m) ==
    /\ status = "building"
    /\ held' = held \union {m}
    /\ UNCHANGED <<status, busy>>

\* ... and become a scope when all of them exist.
Open ==
    /\ status = "building"
    /\ held = Member
    /\ status' = "live"
    /\ UNCHANGED <<held, busy>>

\* A live scope with a user stays live.  A member nobody holds can be reached
\* again only from the body of another member.
Use ==
    /\ status = "live"
    /\ busy \/ held' \subseteq held
    /\ held' \in SUBSET Member
    /\ busy' \in BOOLEAN
    /\ busy' \/ held' # {}
    /\ UNCHANGED status

\* The last user goes, and the scope with it.
Close ==
    /\ status = "live"
    /\ status' = "freed"
    /\ held' = {}
    /\ busy' = FALSE

Next == (\E m \in Member : Build(m)) \/ Open \/ Use \/ Close

Spec == Init /\ [][Next]_vars
=============================================================================
