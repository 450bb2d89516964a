---------------------------- MODULE LoadRegistry ----------------------------
(* What the module loader promises, without paths, instances or imports:     *)
(* every file is absent, being loaded or ready; loads nest; the innermost    *)
(* one ends first and takes its working directory with it, so a program      *)
(* finds its own directory unchanged by whatever it loads.                   *)
EXTENDS Naturals, Sequences

CONSTANTS File, Dir, Home, Start

VARIABLES status,       \* "absent", "loading" or "ready", for each file
          loads,        \* the files being loaded, innermost last
          dirs          \* working directory of the program and of each load

rvars == <<status, loads, dirs>>

RegistryInit ==
    /\ status = [f \in File |-> "absent"]
    /\ loads = <<>>
    /\ dirs = <<Start>>

Last(s) == s[Len(s)]
Front(s) == SubSeq(s, 1, Len(s) - 1)

Begin(f) ==
    /\ status[f] = "absent"
    /\ status' = [status EXCEPT ![f] = "loading"]
    /\ loads' = Append(loads, f)
    /\ dirs' = Append(dirs, Home[f])

End ==
    /\ loads # <<>>
    /\ \E s \in {"ready", "absent"} : status' = [status EXCEPT ![Last(loads)] = s]
    /\ loads' = Front(loads)
    /\ dirs' = Front(dirs)

Discard(f) ==
    /\ status[f] = "ready"
    /\ status' = [status EXCEPT ![f] = "absent"]
    /\ UNCHANGED <<loads, dirs>>

ChangeDir ==
    /\ dirs # <<>>
    /\ \E d \in Dir : dirs' = [dirs EXCEPT ![Len(dirs)] = d]
    /\ UNCHANGED <<status, loads>>

Exit ==
    /\ loads = <<>>
    /\ dirs' = <<>>
    /\ UNCHANGED <<status, loads>>

RegistryNext ==
    \/ \E f \in File : Begin(f) \/ Discard(f)
    \/ End
    \/ ChangeDir
    \/ Exit

RegistrySpec == RegistryInit /\ [][RegistryNext]_rvars

=============================================================================
