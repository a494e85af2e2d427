SPECIFICATION Spec
CONSTANTS
  MaxThread = 3
  MainScripts = {2}
  CTasks = {c1}
  Ops <- Everything
  Durations = {1}
  MaxArgs = 1
  MaxCalls = 3
  MaxClock = 1
  Embedded = TRUE
INVARIANTS
  TypeOK
  QueuedThreadsArePinned
