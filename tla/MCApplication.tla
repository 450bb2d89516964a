---------------------------- MODULE MCApplication ----------------------------
(* Instances of Application for TLC: a function of one parameter whose body is *)
(* bytecode, and a C function of three.                                        *)
EXTENDS Application

CONSTANTS f1, p3

Arities == f1 :> 1 @@ p3 :> 3
=============================================================================
