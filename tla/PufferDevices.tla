--------------------------- MODULE PufferDevices ---------------------------
(***************************************************************************)
(* The three devices behind one interface; config.device.mode chooses      *)
(* which of them a server has (createDevice in src/server/index.ts). *)
(***************************************************************************)
EXTENDS SerialPuffer, ScreenPuffer, MockPuffer

CONSTANT Modes

ASSUME ModeAssumption == Modes \subseteq {"serial", "screen", "mock"}

VARIABLE mode

vars == <<mode, deviceVars, serialVars, screenVars, mockVars>>

TypeOK ==
  /\ mode \in {"serial", "screen", "mock"}
  /\ DeviceTypeOK /\ SerialTypeOK /\ ScreenTypeOK /\ MockTypeOK

\* The variables of the other devices keep their initial values.
Init ==
  /\ mode \in Modes
  /\ DeviceInit /\ SerialInit /\ ScreenInit /\ MockInit
  /\ mode # "screen" => timing = "real-time"
  /\ mode # "mock" => ~fast

Serial(A) == mode = "serial" /\ A /\ UNCHANGED <<mode, screenVars, mockVars>>
Screen(A) == mode = "screen" /\ A /\ UNCHANGED <<mode, serialVars, mockVars>>
Mock(A) == mode = "mock" /\ A /\ UNCHANGED <<mode, serialVars, screenVars>>

Next == Serial(SerialNext) \/ Screen(ScreenNext) \/ Mock(MockNext)

Spec == Init /\ [][Next]_vars

\* Promises continue, and timers and the port call back even if other callers
\* come between again and again.  The puffer at the other end owes nothing.
FairSpec ==
  /\ Spec
  /\ WF_vars(Serial(SerialReturn(Queue) \/ SerialReturn(Direct) \/ DisconnectContinues))
  /\ SF_vars(Serial(SerialOpens \/ DisconnectGivesUp \/ DisconnectEnds(TRUE)))
  /\ \A c \in Callers : SF_vars(Serial(SerialTimeout(c)))
  /\ WF_vars(Screen(ScreenDisconnectEnds))
  /\ \A c \in Callers : WF_vars(Mock(MockContinues(c)))

-----------------------------------------------------------------------------
(* Correctness.                                                            *)

\* The puffer itself: what it does, whatever the device shows.
Moving ==
  CASE mode = "serial" -> puffer.state \in {"inflating", "deflating"}
    [] mode = "screen" -> motion # None
    [] OTHER -> timer # "none"

Raised ==
  CASE mode = "serial" -> puffer.level # 0
    [] mode = "screen" -> level # 0 \/ (motion # None /\ motion.target # 0)
    [] OTHER -> level # 0 \/ timer = "holding"

\* Once STOP is acknowledged the puffer does not move, and is not shown moving or
\* held, until somebody commands a move again.
StopHolds ==
  "stopped" \in promise => ~Moving /\ state \notin {"inflating", "holding", "deflating"}

\* A status that confirms the deflation, and a disconnection without errors, are
\* true: the puffer is flat until somebody inflates it again.
ConfirmedIsFlat == "flat" \in promise => ~Raised

\* The answers of an orderly puffer are never taken for invalid ones: those to
\* requests that STOP overtook, that timed out or were rejected are recognised
\* when they come.
NoFalseAlarm == fault = "invalid" => garbled

\* Whenever the driver sees a fault on an open line, whatever move it has lost
\* sight of is going to be stopped.
Halting ==
  \A i \in DOMAIN wire : wire[i].cmd \in Moves =>
    \E j \in i + 1 .. Len(wire) : wire[j].cmd = "stop"
FaultIsStopped ==
  mode = "serial" /\ state = "fault" /\ port = "open" /\ fault # "unstopped" /\ ~overruled =>
    /\ Halting
    /\ Moving => \E i \in DOMAIN wire : wire[i].cmd = "stop"

\* Every call returns, whatever the puffer does or fails to do: no settled,
\* overtaken or abandoned request is forgotten.
CallsReturn == \A c \in Callers : []<>(call[c] = "none")

=============================================================================
