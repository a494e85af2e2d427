SPECIFICATION TextSpec
CONSTANTS
  Worlds <- WorldsOfTexts
  Bases <- TwoBases
  Names <- ScriptNames
  FileExts <- Extensions
  Texts <- SomeTexts
  ScriptDir <- PQ
  Searched <- Search
  SearchDepth = 1
  MaxCalls = 3
CHECK_DEADLOCK FALSE
INVARIANTS
  NameofIsTheName
