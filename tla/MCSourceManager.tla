--------------------------- MODULE MCSourceManager ---------------------------
(* Small instances of SourceManager for TLC: one source with a local and a *)
(* remote definition, two time shifts or two history limits.               *)
EXTENDS SourceManager
CONSTANTS s1, h1, h2, local, remote
OneSource == {s1}
OneHandler == {h1}
TwoHandlers == {h1, h2}
BothKinds == {local, remote}
LocalOnly == {local}
RemoteKinds == {remote}
None == {}
OneShift == {0}
TwoShifts == {0, 1}
OneLimit == {2}
TwoLimits == {1, 2}
=============================================================================
