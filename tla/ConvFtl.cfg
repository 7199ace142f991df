\* Five lines of two LUNs: two open, two that collection keeps, and blocks
\* whose pages are programmed two at a time and read one at a time.
SPECIFICATION Spec
CONSTANTS
  NrLines = 5
  NrLuns = 2
  PgsPerBlk = 2
  OneShotPgs = 2
  FlashPgs = 1
  Lpns = {a, b, c, d}
  Thres = 2
INVARIANTS TablesAgree LinesSound HeapSound CollectionKeepsUp
SYMMETRY Perms
VIEW View
