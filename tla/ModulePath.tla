----------------------------- MODULE ModulePath -----------------------------
(* How a module path is turned into a file: eth_resolve_path and             *)
(* eth_resolve_modpath of src/environment.c.  The file system is a constant  *)
(* function; names are model values, so "x", "x.eth" and "x.so" differ only  *)
(* in the extension that the code pastes to the name.                        *)
EXTENDS Naturals, Sequences

CONSTANTS Dir,          \* real directories
          File,         \* real files (full paths, as realpath returns them)
          Name,         \* names a program or the command line mentions
          Main,         \* the name "__main__"
          Nothing,      \* realpath fails
          Disk,         \* what stands in a directory under a name and extension
          ModPath       \* module path of the root environment: a directory is
                        \* an absolute entry, a name is one relative to the
                        \* working directory (-L is stored as it was given)

Ext == {"", ".eth", ".so"}

ASSUME PathAssumption ==
    /\ Dir \intersect (File \union Name) = {}
    /\ Nothing \notin Dir \union File \union Name
    /\ Main \in Name
    /\ Disk \in [Dir \X Name \X Ext -> Dir \union File \union {Nothing}]
    /\ ModPath \in Seq(Dir \union Name)

\* "./name" asks the working directory, "name" asks the module path.
Request == [local : BOOLEAN, name : Name]

At(d, n, x) == IF d \in Dir THEN Disk[d, n, x] ELSE Nothing

RealDir(cwd, entry) == IF entry \in Dir THEN entry ELSE Disk[cwd, entry, ""]

\* The first place in which the name, with this extension, exists.
ResolvePath(cwd, r, x) ==
    LET places == IF r.local THEN <<cwd>> ELSE ModPath
        found(i) == At(RealDir(cwd, places[i]), r.name, x)
        hits == {i \in DOMAIN places : found(i) # Nothing}
    IN  IF hits = {} THEN Nothing
        ELSE found(CHOOSE i \in hits : \A j \in hits : i <= j)

\* Mutant of InDirectory: a directory without a module is taken for one.
InDirectoryAny(d, n) ==
    IF Disk[d, Main, ".eth"] # Nothing THEN Disk[d, Main, ".eth"] ELSE d

\* What a directory offers as the module it is named for.
InDirectory(d, n) ==
    LET tries == << Disk[d, Main, ".eth"], Disk[d, Main, ".so"],
                    Disk[d, n, ".eth"], Disk[d, n, ".so"] >>
        hits == {i \in DOMAIN tries : tries[i] # Nothing}
    IN  IF hits = {} THEN Nothing
        ELSE tries[CHOOSE i \in hits : \A j \in hits : i <= j]

ResolveModpath(cwd, r) ==
    LET bare == ResolvePath(cwd, r, "")
        inside == IF bare \in Dir THEN InDirectory(bare, r.name) ELSE bare
        script == ResolvePath(cwd, r, ".eth")
    IN  IF inside # Nothing THEN inside
        ELSE IF script # Nothing THEN script
        ELSE ResolvePath(cwd, r, ".so")

=============================================================================
