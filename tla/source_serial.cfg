SPECIFICATION Spec
CONSTANTS
  s1 = s1
  h1 = h1
  h2 = h2
  local = local
  remote = remote
  NoSource = NoSource
  Sources <- OneSource
  RemoteDefinitions <- RemoteKinds
  Handlers <- OneHandler
  Definitions <- BothKinds
  Offsets <- TwoShifts
  Histories <- TwoLimits
  MaxReaders = 3
  MaxRequests = 2
  MaxLines = 3
  MaxDeaths = 0
  MaxFailures = 1
CHECK_DEADLOCK FALSE
INVARIANT TypeOK
INVARIANT AtMostOneReader
INVARIANT ReaderFollowsConfig
INVARIANT EnabledSourceHasReader
INVARIANT BufferFollowsConfig
INVARIANT OnlyTheOpeningSkips
INVARIANT NoReaderAfterClose
PROPERTY ImplementsLifecycle
