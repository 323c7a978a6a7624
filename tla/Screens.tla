------------------------------- MODULE Screens -------------------------------
(***************************************************************************)
(* The two screens side by side.  They meet only in the sessions of the    *)
(* server, which each has whole: a behaviour is of the participant's page  *)
(* or of the console, and the other stays unopened.                        *)
(***************************************************************************)
EXTENDS DisplayScreen, OperatorConsole

VARIABLE scene

vars == <<displayVars, consoleVars, scene>>

TypeOK == ServiceTypeOK /\ DisplayTypeOK /\ ConsoleTypeOK /\ scene \in {"display", "console"}

consoleOnly == <<console, request, events, troubles, work, pressed>>

Init ==
  \/ /\ scene = "display"
     /\ DisplayInit
     /\ ConsoleUnopened
  \/ /\ scene = "console"
     /\ DisplayUnopened
     /\ ConsoleInit

Next ==
  /\ scene' = scene
  /\ \/ scene = "display" /\ DisplayNext /\ UNCHANGED consoleOnly
     \/ scene = "console" /\ ConsoleNext /\ UNCHANGED <<screenVars, linkVars>>

Spec == Init /\ [][Next]_vars /\ DisplayFairness
================================================================================
