SPECIFICATION Spec
CONSTANTS
  Depths = {2, 3}
  Bases = {A, B}
  Cids = {x, y}
  IoCids = {i}
  MaxStarts = 2
  MaxQueues = 2
INVARIANTS AdminInStep NoStaleFetch
SYMMETRY Perms
VIEW View
CHECK_DEADLOCK FALSE
