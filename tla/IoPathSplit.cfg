\* Commands of several pieces, two FTL threads, every request and tag reused.
SPECIFICATION Spec
CONSTANTS
  NrQueues = 1
  NrDispatcher = 1
  NrFTL = 2
  QSize = 3
  InSize = 4
  OutSize = 1
  Units = 1
  Ratio = 2
  MaxCmds = 3
  MaxTime = 1
  HackNum = 0
  Requests <- SplitRequests
  Lats <- ShortLats
INVARIANTS PiecesAccounted RoutedToOwner FlightPoolSuffices RequestsPartitioned
PROPERTIES ServedBeforePosted NoCqeLost ImplementsService
