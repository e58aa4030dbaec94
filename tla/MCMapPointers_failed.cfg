\* One thread, two mappings that fail.
SPECIFICATION Spec
CONSTANTS
  t1 = t1
  t2 = t2
  p1 = p1
  p2 = p2
  NULL = NULL
  Threads = {t1}
  Pointers = {p1, p2}
  MaxCalls = 2
SYMMETRY Symmetry
INVARIANTS
  AbortedMapsAreMultiple
CHECK_DEADLOCK FALSE
