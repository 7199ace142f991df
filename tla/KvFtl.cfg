\* Three keys, two of them alike, that may collide in any way in a table of
\* three slots.
SPECIFICATION KvSpec
CONSTANTS
  Bytes = {0, 1, 2, 255}
  ZeroByte = 0
  OnesByte = 255
  KeyBytes = 2
  Keys <- TwoAlike
  Vals = {u, v}
  NoVal = NoVal
  NrSlots = 3
  NrAreas = 4
  NrBits = 2
  NrIters = 1
  KeysPerRead = 1
  Filters <- OnlyOnes
INVARIANTS SearchesEnd AreasDistinct IterationComplete
PROPERTIES ImplementsLossyMap
SYMMETRY Perms
CHECK_DEADLOCK FALSE
VIEW View
