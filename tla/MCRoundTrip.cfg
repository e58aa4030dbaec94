\* Programs of three calls, programs that enqueue two commands after seven calls, and
\* traces that are given.
SPECIFICATION ToolSpec
CONSTANTS
  Traces <- MCGiven
  Scripts <- MCScripts
  Resident <- MCResident
  MaxList = 1
  Bytes <- MCBytes
INVARIANTS
  RoundTripTypeOK
  CapturesAreGenerated
  PlainProgramsCompile
  ProgramsAreNeverRejected
  SourcesMatch
  OnlyOutputsAreAdded
CHECK_DEADLOCK FALSE
