\* Two threads map and unmap two pointers.
SPECIFICATION Spec
CONSTANTS
  t1 = t1
  t2 = t2
  p1 = p1
  p2 = p2
  NULL = NULL
  Threads = {t1, t2}
  Pointers = {p1, p2}
  MaxCalls = 6
SYMMETRY Symmetry
INVARIANTS
  MapTypeOK
  UnmapsMatchMaps
  TrackerFollowsDriver
  AbortsAreExplained
CHECK_DEADLOCK FALSE
