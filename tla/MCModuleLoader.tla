--------------------------- MODULE MCModuleLoader ---------------------------
(* Two scripts that import each other and a library in a directory of its    *)
(* own, whose initialiser loads the script beside it; another script imports *)
(* that one directly, too.                                                   *)
EXTENDS ModuleLoader

CONSTANTS home, lib, vdir,      \* directories
          A, B, V, L, M,        \* a.eth, b.eth, v/__main__.so, v/lib.eth, m.so
          na, nb, nv, nl, nm    \* names

MCDisk == [e \in Dir \X Name \X Ext |->
    CASE e = <<home, na, ".eth">> -> A
      [] e = <<home, nb, ".eth">> -> B
      [] e = <<lib, nv, "">> -> vdir
      [] e = <<vdir, Main, ".so">> -> V
      [] e = <<vdir, nl, ".eth">> -> L
      [] e = <<lib, nm, ".so">> -> M
      [] OTHER -> Nothing]

Here(n) == [local |-> TRUE, name |-> n]
OnPath(n) == [local |-> FALSE, name |-> n]

MCModPath == <<lib, vdir>>
MCHome == [f \in File |-> IF f \in {A, B} THEN home ELSE IF f = M THEN lib ELSE vdir]
MCProgram == << Here(na), OnPath(nv) >>
MCImports == [f \in File \ Elf |->
    CASE f = A -> << OnPath(nv), Here(nb) >>
      [] f = B -> << OnPath(nl), Here(na) >>
      [] f = L -> << OnPath(nm) >>]
MCAux == [f \in Elf |-> IF f = V THEN L ELSE Nothing]
=============================================================================
