SPECIFICATION FairSpec
CONSTANTS
  MaxThread = 3
  MainScripts = {2}
  CTasks = {}
  Ops <- CarefulRun
  Durations = {1, 2}
  MaxArgs = 0
  MaxCalls = 4
  MaxClock = 2
  Embedded = FALSE
INVARIANTS
  NothingBreaks
  NoLostWaitFor
PROPERTIES
  ImplementsScheduler
  WaitReturns
  WaitForReturns
  
  RunEnds
