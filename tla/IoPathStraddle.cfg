\* A command across a segment boundary.
SPECIFICATION Spec
CONSTANTS
  NrQueues = 1
  NrDispatcher = 1
  NrFTL = 2
  QSize = 2
  InSize = 2
  OutSize = 2
  Units = 2
  Ratio = 1
  MaxCmds = 1
  MaxTime = 0
  HackNum = 0
  Requests <- StraddlingRequests
  Lats <- NoLats
INVARIANTS RoutedToOwner
