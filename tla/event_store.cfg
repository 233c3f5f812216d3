SPECIFICATION Spec
CONSTANTS
  s1 = s1
  s2 = s2
  Sources <- TwoSources
  Contents <- UtcContents
  Shifts <- TwoShifts
  Befores <- AllBefores
  CaseFold <- Fold
  ToLowerCase <- Lower
  Filters <- ManyFilters
  MaxDepth = 1
  Asked <- FewFilters
  BrowserZones <- TwoZones
  Limits <- TwoLimits
  ByteLimits <- TwoByteLimits
  PruneBatch = 1
  PageSize = 1
  MaxEvents = 3
CHECK_DEADLOCK FALSE
INVARIANT TypeOK
INVARIANT LogicalBytesAreExact
INVARIANT DisplayFollowsShift
INVARIANT QueryReturnsNewest
INVARIANT FiltersAgree
PROPERTY ImplementsBuffers
