\* Traces of every entry point, of up to four calls of threads that overlapped, and
\* damaged ones.
SPECIFICATION Spec
CONSTANTS
  Traces <- VisitedTraces
INVARIANTS
  UsesNameTheirCreation
  StopsAreExplained
  PlainProgramsCompile
CHECK_DEADLOCK FALSE
