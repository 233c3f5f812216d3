SPECIFICATION Spec
CONSTANTS
  s1 = s1
  s2 = s2
  a = a
  b = b
  Sources <- OneSource
  Texts <- TwoTexts
  Errors <- JustA
  Keyed <- JustB
  Releases <- TwoReleases
  Normal <- Forms
  Score <- Scores
  Window = 1
  Retentions <- TwoRetentions
  Shifts <- TwoShifts
  Earliest = 1
  History = 2
  MaxNow = 3
  MaxLines = 2
  MaxStarts = 2
CHECK_DEADLOCK FALSE
INVARIANT TypeOK
INVARIANT CountsAreOccurrences
INVARIANT OneGroupPerMessage
INVARIANT SpanIsExact
INVARIANT SimilarIsClose
INVARIANT WholeFileIsCountedOnce
