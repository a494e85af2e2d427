SPECIFICATION FairSpec
CONSTANTS
  a = a
  b = b
  c = c
  lib = lib
  Unresolved = Unresolved
  Files = {a, b, c, lib}
  Unreadable = {}
  Libraries = {lib}
  Arguments <- OneOrTwoScripts
  Texts <- Graphs
  MaxRuns = 2
CHECK_DEADLOCK FALSE
INVARIANTS
  TypeOK
  ModulesAreTheReachable
  LibrariesAreLoaded
PROPERTIES
  PreparationEnds
