\* Two queue pairs of two entries, each with a dispatcher of its own, and one FTL
\* thread, which answers the two pieces of a command over an out_que of one slot
\* and has to wait for it: indices and phases wrap; the threads are fair and
\* every command completes.
SPECIFICATION FairSpec
CONSTANTS
  NrQueues = 2
  NrDispatcher = 2
  NrFTL = 1
  QSize = 2
  InSize = 2
  OutSize = 1
  Units = 1
  Ratio = 1
  MaxCmds = 3
  MaxTime = 0
  HackNum = 1
  Requests <- PairRequests
  Lats <- NoLats
INVARIANTS InFlightSound
PROPERTIES ImplementsService EveryCommandCompletes
