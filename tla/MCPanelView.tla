----------------------------- MODULE MCPanelView -----------------------------
(* A small instance of PanelView for TLC.                                  *)
EXTENDS PanelView
TwoSlots == {1, 2}
BothDelays == {0, 2}
\* The third event carries the earliest timestamp.
LateEvent == <<2, 3, 1>>
=============================================================================
