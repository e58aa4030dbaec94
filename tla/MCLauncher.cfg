\* The tool, three process ids, two calls and two forks of the application.
SPECIFICATION Spec
CONSTANTS
  Pids = {p1, p2, p3}
  NULL = NULL
  Tracefile = named
  Inherited = inherited
  MaxCalls = 2
  MaxForks = 2
INVARIANTS
  LauncherTypeOK
  TracesShareOnlyAPrefix
PROPERTIES
  CaptureEnds
  SuccessMeansSaved
CHECK_DEADLOCK FALSE
