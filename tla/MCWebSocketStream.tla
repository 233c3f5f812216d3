------------------------- MODULE MCWebSocketStream -------------------------
(* Small instances of WebSocketStream for TLC.                             *)
EXTENDS WebSocketStream
TwoSlots == {1, 2}
\* The third event carries the earliest timestamp.
LateEvent == <<2, 3, 1>>
OneDelay == {2}
=============================================================================
