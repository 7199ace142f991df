\* The cache holds two of three mapping pages; clocks differ by up to 5 units.
SPECIFICATION Spec
CONSTANTS
  NrLuns = 2
  MapPages = {1, 2, 4}
  SplitUnits = 1
  SplitRatio = 2
  CacheSize = 2
  ReadLat = 1
  WriteLat = 2
  EraseLat = 3
  StartTimes = {3, 5, 8}
  Forever = 60
  MaxSteps = 4
INVARIANTS OneAtATime EarliestFit ChangesKept MappingFirst
CHECK_DEADLOCK FALSE
