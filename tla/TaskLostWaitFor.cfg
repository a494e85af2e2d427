SPECIFICATION Spec
CONSTANTS
  MaxThread = 3
  MainScripts = {2}
  CTasks = {}
  Ops <- AwaitsWhenResumed
  Durations = {1}
  MaxArgs = 0
  MaxCalls = 4
  MaxClock = 1
  Embedded = FALSE
INVARIANTS
  NoLostWaitFor
