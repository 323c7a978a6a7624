----------------------------- MODULE MockPuffer -----------------------------
(***************************************************************************)
(* The puffer of tests and rehearsals                                      *)
(* (src/server/devices/mock-puffer-device.ts): commands that may be        *)
(* injected a delay, a timeout, a disconnection or a fault, and a motion   *)
(* that jumps to its end when its time is over.  A rehearsal runs in real  *)
(* time and injects nothing; the tests run in the fast mode.               *)
(***************************************************************************)
EXTENDS PufferDevice

CONSTANT Injections   \* the kinds that tests inject

VARIABLES
  fast,       \* timingMode = "fast"
  delayed,    \* pendingDelays: why each caller's command is held back
  timer       \* where the motion whose timer runs will end

mockVars == <<fast, delayed, timer>>

MockTypeOK ==
  /\ fast \in BOOLEAN
  /\ delayed \in [Callers -> {"no", "delay", "timeout"}]
  /\ timer \in {"none", "holding", "idle"}

MockInit ==
  /\ fast \in BOOLEAN
  /\ delayed = [c \in Callers |-> "no"]
  /\ timer = "none"

-----------------------------------------------------------------------------

LevelOf(final) == IF final = "holding" THEN Full ELSE 0

MockShow(s, l, f) == state' = s /\ level' = l /\ fault' = f

\* scheduleMotion: in the fast mode the microtask runs before the command
\* returns.
Schedule(moving, final, f) ==
  IF fast
  THEN MockShow(final, LevelOf(final), f) /\ timer' = "none"
  ELSE MockShow(moving, level, f) /\ timer' = final

\* cancelPending.
Superseded(except) ==
  {c \in Callers : delayed[c] # "no" /\ call[c] # except}

Release(gone) == [c \in Callers |-> IF c \in gone THEN "no" ELSE delayed[c]]

\* What a command does before it waits.
Prepare(op) == IF op = "stop" THEN timer' = "none" ELSE UNCHANGED timer

\* What a command does when it is acknowledged.
Acknowledge(op) ==
  CASE op = "inflate" -> Schedule("inflating", "holding", "none")
    [] op = "deflate" -> Schedule("deflating", "idle", fault)
    [] op = "stop" -> Prepare(op) /\ MockShow("stopped", level, fault)
    [] OTHER -> UNCHANGED <<state, level, fault, timer>>

Gone(op) == IF op \in {"stop", "deflate"} THEN Superseded(op) ELSE {}

\* The calls of those whose commands were superseded are rejected.
Rejecting(gone, c, op) ==
  [k \in Callers |-> CASE k = c -> op [] k \in gone -> "none" [] OTHER -> call[k]]

MockConnect ==
  /\ ~connected /\ May(Queue, "connect")
  /\ connected' = TRUE
  /\ MockShow("idle", 0, "none")
  /\ UNCHANGED <<callVars, mockVars>>

\* A command without an injection is answered before anything else happens.
MockAnswered(c, op) ==
  LET gone == Gone(op) IN
  /\ connected /\ May(c, op)
  /\ Acknowledge(op)
  /\ UNCHANGED <<connected, fast>>
  /\ call' = Rejecting(gone, c, "none")
  /\ BeginAndReturn(c, op, ConfirmedDeflated')
  /\ delayed' = Release(gone)

\* beforeAck, with a delay or a timeout.
MockDelayed(c, op, kind) ==
  LET gone == Gone(op) IN
  /\ fast /\ kind \in Injections \intersect {"delay", "timeout"}
  /\ connected /\ May(c, op)
  /\ Prepare(op)
  /\ call' = Rejecting(gone, c, op)
  /\ since' = Disturb(c, op)
  /\ promise' = promise \ Withdrawn(op)
  /\ delayed' = [Release(gone) EXCEPT ![c] = kind]
  /\ UNCHANGED <<statusVars, fast>>

\* beforeAck, with a disconnection or a fault.
MockBreaks(c, op, kind) ==
  LET gone == Gone(op) IN
  /\ fast /\ kind \in Injections \intersect {"disconnect", "fault"}
  /\ connected /\ May(c, op)
  /\ Prepare(op)
  /\ IF kind = "fault"
     THEN MockShow("fault", level, "device") /\ UNCHANGED connected
     ELSE MockShow("disconnected", level, fault) /\ connected' = FALSE
  /\ call' = Rejecting(gone, c, "none")
  /\ since' = Disturb(c, op)
  /\ promise' = promise \ Withdrawn(op)
  /\ delayed' = Release(gone)
  /\ UNCHANGED fast

\* The delay of a command is over.
MockContinues(c) ==
  /\ delayed[c] # "no"
  /\ delayed' = [delayed EXCEPT ![c] = "no"]
  /\ IF delayed[c] = "delay" /\ connected
     THEN IF call[c] = "stop" THEN MockShow("stopped", level, fault) /\ UNCHANGED timer
          ELSE Acknowledge(call[c])
     ELSE UNCHANGED <<state, level, fault, timer>>
  /\ Return(c, delayed[c] = "delay" /\ connected)
  /\ UNCHANGED <<connected, fast>>

\* disconnect: STOP, DEFLATE without a ramp, and off; an injection may make
\* either fail.
MockDisconnect(ok) ==
  /\ ok \/ (fast /\ Injections # {})
  /\ connected /\ May(Queue, "disconnect")
  /\ connected' = FALSE
  /\ MockShow("disconnected", IF ok THEN 0 ELSE level, fault)
  /\ timer' = "none"
  /\ call' = Rejecting({c \in Callers : delayed[c] # "no"}, Queue, "none")
  /\ since' = Disturb(Queue, "disconnect")
  /\ promise' = promise \union IF ok THEN {"flat"} ELSE {}
  /\ delayed' = [c \in Callers |-> "no"]
  /\ UNCHANGED fast

\* The timer of the motion.
MockMotionEnds ==
  /\ timer # "none"
  /\ MockShow(timer, LevelOf(timer), fault)
  /\ timer' = "none"
  /\ UNCHANGED <<connected, callVars, fast, delayed>>

MockNext ==
  \/ MockConnect \/ MockMotionEnds
  \/ \E ok \in BOOLEAN : MockDisconnect(ok)
  \/ \E c \in Callers :
       \/ MockContinues(c)
       \/ \E op \in Commands :
            \/ MockAnswered(c, op)
            \/ \E kind \in Injections : MockDelayed(c, op, kind) \/ MockBreaks(c, op, kind)

=============================================================================
