CONSTANTS
  Names <- MCNames
  Trees <- MCTrees
  Given <- MCGiven
  Links <- MCLinks
  MaxDepth = 2
  MaxHops = 3
  MaxObjects = 2
  MaxCalls = 4
SPECIFICATION Spec
CHECK_DEADLOCK FALSE
INVARIANTS
  ObjectsLeadHome
  IterationsAreComplete
  OnlyStaleDirectoriesBreak
