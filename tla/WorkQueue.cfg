\* Four entries, of which three can be in use.
SPECIFICATION FairSpec
CONSTANTS
  NrEntries = 4
  MaxTime = 1
INVARIANTS ListsSound OnceEach
PROPERTIES EveryOperationPerformed
VIEW View
