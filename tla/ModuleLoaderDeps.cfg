SPECIFICATION Spec
CONSTANTS
  home = home
  lib = lib
  vdir = vdir
  A = A
  B = B
  V = V
  L = L
  M = M
  na = na
  nb = nb
  nv = nv
  nl = nl
  nm = nm
  Main = Main
  Nothing = Nothing
  Dir = {home, lib, vdir}
  File = {A, B, V, L, M}
  Name = {na, nb, nv, nl, nm, Main}
  Elf = {V, M}
  Start = home
  MaxCalls = 2
  Disk <- MCDisk
  ModPath <- MCModPath
  Home <- MCHome
  Program <- MCProgram
  Imports <- MCImports
  Aux <- MCAux
INVARIANTS
  DependenciesKeptAlive
CHECK_DEADLOCK FALSE
