\* Two zones of three pages of two blocks, of which two are programmed at
\* once, so that the last page of a zone is odd; writes of parts of a page,
\* of a page and of more; a random write area of a page, flushed by pages.
SPECIFICATION Spec
CONSTANTS
  NrZones = 2
  Cap = 6
  SecsPerPg = 2
  OneShot = 2
  WriteUnit = 1
  WbSize = 6
  SharedWb = TRUE
  Zrwa = 2
  Zrwafg = 2
  ZrwaBuf = 4
  MaxWrite = 3
  MaxPending = 1
  MaxSpace = 6
INVARIANTS ResourcesExact ZonesConsistent BufferNeverOverdrawn
CHECK_DEADLOCK FALSE
