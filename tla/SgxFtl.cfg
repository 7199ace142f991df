\* Four lines of two LUNs; one line is spare when collection is forced.
SPECIFICATION FairSpec
CONSTANTS
  NrLines = 4
  NrLuns = 2
  PgsPerBlk = 2
  NrLpns = 4
  NrWarm = 3
  Thres = 1
  ThresHigh = 1
  MinShare = 2
  MaxPages = 2
INVARIANTS TablesAgree LinesPartitioned WritesToErased NeverOutOfLines
PROPERTIES OnlyMoved WritesEnd
VIEW View
