SPECIFICATION Spec
CONSTANTS
  Traces <- ListTraces
INVARIANTS
  ListsHoldTheirObjects
CHECK_DEADLOCK FALSE
