\* More commands outstanding than in_que has slots.
SPECIFICATION Spec
CONSTANTS
  NrQueues = 1
  NrDispatcher = 1
  NrFTL = 1
  QSize = 3
  InSize = 1
  OutSize = 1
  Units = 1
  Ratio = 1
  MaxCmds = 2
  MaxTime = 0
  HackNum = 0
  Requests <- SmallRequests
  Lats <- NoLats
INVARIANTS NoOverrun
