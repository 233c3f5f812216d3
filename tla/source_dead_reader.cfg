SPECIFICATION Spec
CONSTANTS
  s1 = s1
  h1 = h1
  h2 = h2
  local = local
  remote = remote
  NoSource = NoSource
  Sources <- OneSource
  RemoteDefinitions <- RemoteKinds
  Handlers <- OneHandler
  Definitions <- BothKinds
  Offsets <- OneShift
  Histories <- OneLimit
  MaxReaders = 3
  MaxRequests = 2
  MaxLines = 1
  MaxDeaths = 1
  MaxFailures = 0
CHECK_DEADLOCK FALSE
INVARIANT DeadReaderIsReported
