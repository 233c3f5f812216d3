--------------------------- MODULE MCIncidentStore ---------------------------
(* Small instances of IncidentStore for TLC: an error, and a message with  *)
(* a keyword that is similar to it and that release 2 normalises alike.    *)
EXTENDS IncidentStore
CONSTANTS s1, s2, a, b
OneSource == {s1}
TwoSources == {s1, s2}
TwoTexts == {a, b}
OneText == {a}
JustA == {a}
JustB == {b}
TwoReleases == {1, 2}
OneRelease == {1}
Forms == <<[x \in Texts |-> x], [x \in Texts |-> a]>>
Scores == [x \in Texts |-> [y \in Texts |-> IF x = y THEN 100 ELSE 80]]
TwoRetentions == {1, 2}
OneRetention == {2}
TwoShifts == {-1, 0}
NoShift == {0}
=============================================================================
