------------------------------ MODULE MCSourceGen ------------------------------
EXTENDS SourceGen, Sketches

\* Two devices, queried in one call or in two, are passed to clCreateContext.
ListTraces ==
  {CallsOf(Prelude(d) \o <<Sketch("clCreateContext", 2, "NONE", 0)>>) : d \in {1, 2}}

\* All that may be visited: what was captured, by one thread or by several, or damaged.
VisitedTraces == CapturedTraces \union OverlappedTraces \union Damaged

================================================================================
