\* Regions of up to three elements, rows and slices, with a size_t of seven bits.
SPECIFICATION Spec
CONSTANTS
  Modulus = 128
  Formats <- MCFormats
  Extents = {0, 1, 2, 3}
  Pitches = {0, 1, 2, 4, 5, 8, 12, 100}
INVARIANTS
  RecordedSizeIsExact
  WrongSizesAreExplained
CHECK_DEADLOCK FALSE
