SPECIFICATION ProgramSpec
CONSTANTS
  a = a
  b = b
  c = c
  lib = lib
  Unresolved = Unresolved
  Files = {a, b, c, lib}
  Unreadable = {}
  Libraries = {lib}
  Arguments <- NoArguments
  CommandLines <- Lines
  Texts <- Graphs
  MaxRuns = 1
  Broken = {c}
  Dynamic = TRUE
  MaxDepth = 3
  MaxRequires = 3
CHECK_DEADLOCK FALSE
INVARIANTS
  LoadTypeOK
  LiteralsAreFound
  OnlyNamedScriptsRun
  SuccessMeansAllRan
