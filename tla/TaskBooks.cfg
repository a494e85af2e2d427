SPECIFICATION Spec
CONSTANTS
  MaxThread = 3
  MainScripts = {2}
  CTasks = {c1}
  Ops <- BookKeeping
  Durations = {1}
  MaxArgs = 1
  MaxCalls = 5
  MaxClock = 2
  Embedded = FALSE
INVARIANTS
  RefsBalanced
  ArgumentsAreThere
  CTasksMatch
  QueuedThreadsArePinned
