---------------------------- MODULE MCWorkspaces ----------------------------
(* A small instance of Workspaces for TLC.                                 *)
EXTENDS Workspaces
CONSTANTS s1, s2, main, other
TwoSources == {s1, s2}
TwoWorkspaces == {main, other}
Showing(w) == [sources |-> {s1}, workspaces |-> {w}, active |-> w,
               panels |-> [v \in {main, other} |-> IF v = w THEN {s1} ELSE {}]]
\* The second is written by hand: the default workspace is not there.
SomeFiles == {Broken, Showing(other)}
=============================================================================
