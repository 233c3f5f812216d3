SPECIFICATION Spec
CONSTANTS
  s1 = s1
  s2 = s2
  Sources <- TwoSources
  Contents <- ZonedContents
  Shifts <- NoShift
  Befores <- NoBefore
  CaseFold <- Fold
  ToLowerCase <- Lower
  Filters <- NoFilter
  MaxDepth = 1
  Asked <- NoFilter
  BrowserZones <- TwoZones
  Limits <- TwoLimits
  ByteLimits <- TwoByteLimits
  PruneBatch = 1
  PageSize = 1
  MaxEvents = 3
CHECK_DEADLOCK FALSE
INVARIANT QueryReturnsNewest
