\* Traces of at most four calls on machines with up to two platforms.
SPECIFICATION Spec
CONSTANTS
  Traces <- MCTraces
  MaxPlatforms = 2
INVARIANTS
  OutputsHaveTheirPlaces
  PlatformsComeFromTheirCreation
  ReplayStopsAreExplained
CHECK_DEADLOCK FALSE
