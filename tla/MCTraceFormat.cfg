SPECIFICATION Spec
CONSTANTS
  Garbage = Garbage
  MaxGarbage = 1
  Traces <- MCTraces
INVARIANTS
  FormatTypeOK
  IntactTracesLoad
  TruncatedTracesKeepTheirStart
CHECK_DEADLOCK FALSE
