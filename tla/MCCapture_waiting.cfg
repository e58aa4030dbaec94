\* Waiting for events: is the call in the trace?
SPECIFICATION Spec
CONSTANTS
  t1 = t1
  t2 = t2
  d1 = d1
  h1 = h1
  h2 = h2
  h3 = h3
  h4 = h4
  NULL = NULL
  Table <- EventTable
  Threads = {t1}
  Handles = {d1, h1, h2, h3, h4}
  Resident <- OneDevice
  CallbackCommands <- NoCommands
  MaxCalls = 7
  MaxDepth = 1
  MaxList = 1
  MaxInstances <- Upto1
CONSTRAINT QueueIsCreated
SYMMETRY Symmetry
INVARIANT
  EveryReturnedCallIsRecorded
CHECK_DEADLOCK FALSE
