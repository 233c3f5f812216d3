SPECIFICATION Spec
CONSTANTS
  s1 = s1
  s2 = s2
  main = main
  other = other
  Source <- TwoSources
  Workspace <- TwoWorkspaces
  Default = main
  Missing = Missing
  Broken = Broken
  Files <- SomeFiles
  MaxFailures = 2
  MaxRequests = 4
CHECK_DEADLOCK FALSE
INVARIANT TypeOK
INVARIANT AnsweredSurvives
INVARIANT ActiveIsAWorkspace
INVARIANT EditsReachTheServer
INVARIANT DeadSourcesHaveACause
