\* One thread: program callbacks that call the library again, kernel arguments with
\* buffers and queues at the same address, or commands made blocking.
SPECIFICATION Spec
CONSTANTS
  t1 = t1
  t2 = t2
  d1 = d1
  h1 = h1
  h2 = h2
  h3 = h3
  h4 = h4
  NULL = NULL
  Table <- CommandTable
  Threads = {t1}
  Handles = {d1, h1, h2, h3, h4}
  Resident <- OneDevice
  CallbackCommands <- LinkCallback
  MaxCalls = 8
  MaxDepth = 2
  MaxList = 1
  MaxInstances <- Upto3
CONSTRAINT OneFamily
SYMMETRY Symmetry
INVARIANTS
  CalmUsesResolve
  KnownUsesAreTracked
  CalmUsesAreExact
  KernelArgsGoByAddress
  ForcedCallsAreFlagged
PROPERTY
  ImplementsRecorder
CHECK_DEADLOCK FALSE
