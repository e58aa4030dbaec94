\* Two threads, devices and contexts whose addresses are used again.
SPECIFICATION Spec
CONSTANTS
  t1 = t1
  t2 = t2
  d1 = d1
  h1 = h1
  h2 = h2
  h3 = h3
  h4 = h4
  NULL = NULL
  Table <- ThreadTable
  Threads = {t1, t2}
  Handles = {d1, h1}
  Resident <- OneDevice
  CallbackCommands <- NoCommands
  MaxCalls = 4
  MaxDepth = 1
  MaxList = 1
  MaxInstances <- Upto3
SYMMETRY ThreadSymmetry
INVARIANTS
  TypeOK
  NoIdIsLostOrShared
  CalmUsesAreExact
PROPERTY
  ImplementsRecorder
CHECK_DEADLOCK FALSE
