SPECIFICATION Spec
CONSTANTS
  s1 = s1
  s2 = s2
  a = a
  b = b
  Sources <- OneSource
  Texts <- TwoTexts
  Errors <- JustA
  Keyed <- JustB
  Releases <- OneRelease
  Normal <- Forms
  Score <- Scores
  Window = 1
  Retentions <- OneRetention
  Shifts <- NoShift
  Earliest = 1
  History = 2
  MaxNow = 3
  MaxLines = 3
  MaxStarts = 2
CHECK_DEADLOCK FALSE
INVARIANT TailIsCountedOnce
