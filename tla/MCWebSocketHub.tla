--------------------------- MODULE MCWebSocketHub ---------------------------
(* Instances of WebSocketHub for TLC.                                      *)
EXTENDS WebSocketHub, TLC

\* All displays compete for one session.
OneSession == [d \in Displays |-> CHOOSE s \in Sessions : TRUE]

=============================================================================
