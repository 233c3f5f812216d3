SPECIFICATION FairSpec
CONSTANTS
  Sources <- AllSources
  History = 1
  Window = 2
  MaxCells = 3
  MaxGenerations = 2
  MaxFailures = 1
CHECK_DEADLOCK FALSE
INVARIANT TypeOK
INVARIANT OnceInOrder
INVARIANT NothingElseIsSkipped
INVARIANT OneFilePerEvent
INVARIANT UnendedLineWaits
PROPERTY EventuallyCaughtUp
