---------------------------- MODULE PufferDevice ----------------------------
(***************************************************************************)
(* What every puffer device has (src/server/devices/types.ts): the status  *)
(* it shows, the calls it has not answered, and what its answers let the   *)
(* callers rely on.  SerialPuffer, ScreenPuffer and MockPuffer add what    *)
(* each does to keep its word.                                             *)
(***************************************************************************)
EXTENDS Naturals

CONSTANTS
  Queue,     \* the device operations, which wait for one another
  Direct,    \* a phase, a safety sequence or a stop, which do not wait
  Full       \* the level of the inflated puffer

ASSUME CallerAssumption == Queue # Direct
ASSUME LevelAssumption == Full \in Nat \ {0}

Callers == {Queue, Direct}

VARIABLES
  connected, state, level, fault,   \* DeviceStatus
  call,      \* the call of each caller that has not returned
  since,     \* the moves others have commanded since it began
  promise    \* what callers may rely on until they command otherwise

statusVars == <<connected, state, level, fault>>
callVars == <<call, since, promise>>
deviceVars == <<statusVars, callVars>>

States == {"disconnected", "connecting", "idle", "inflating", "holding",
           "deflating", "stopped", "fault"}
Moves == {"inflate", "deflate"}
Commands == Moves \union {"status", "stop"}
Operations == Commands \union {"connect", "disconnect"}

DeviceTypeOK ==
  /\ connected \in BOOLEAN
  /\ state \in States
  /\ level \in 0 .. Full
  /\ fault \in {"none", "timeout", "invalid", "device", "write", "lost", "unstopped"}
  /\ call \in [Callers -> Operations \union {"none"}]
  /\ since \in [Callers -> SUBSET Moves]
  /\ promise \subseteq {"stopped", "flat"}

DeviceInit ==
  /\ connected = FALSE /\ state = "disconnected" /\ level = 0 /\ fault = "none"
  /\ call = [c \in Callers |-> "none"]
  /\ since = [c \in Callers |-> {}]
  /\ promise = {}

-----------------------------------------------------------------------------

\* isConfirmedDeflatedStatus.
ConfirmedDeflated == connected /\ state = "idle" /\ level = 0 /\ fault = "none"

\* The device operations connect, disconnect, ask and try the puffer; what goes
\* beside them stops it and lets the air out, and inflates it during a run,
\* when nothing disconnects it.
May(c, op) ==
  /\ call[c] = "none"
  /\ IF c = Queue THEN op # "stop" ELSE op \in Commands
  /\ op = "inflate" => call[Queue] # "disconnect"
  /\ op = "disconnect" => call[Direct] # "inflate"

MovesOf(op) == IF op = "disconnect" THEN {"deflate"} ELSE {op} \intersect Moves

\* What a caller that commands op withdraws from what others were told.
Withdrawn(op) ==
  CASE op = "inflate" -> {"stopped", "flat"}
    [] op \in {"deflate", "disconnect"} -> {"stopped"}
    [] OTHER -> {}

\* The moves that a call may find disturbing it.  STOP overtakes the commands
\* that are under way; any other call has to reckon with them.
UnderWay(c, op) ==
  {call[k] : k \in Callers \ {c}} \ IF op = "stop" THEN Commands ELSE {}

Disturb(c, op) ==
  [k \in Callers |->
     IF k = c THEN UNION {MovesOf(o) : o \in UnderWay(c, op)}
     ELSE IF call[k] = "none" THEN {} ELSE since[k] \union MovesOf(op)]

\* What the answer to a call lets its caller rely on.
Told(op, moves, confirmed) ==
  CASE op = "stop" /\ moves = {} -> {"stopped"}
    [] op = "status" /\ confirmed /\ "inflate" \notin moves -> {"flat"}
    [] op = "disconnect" /\ "inflate" \notin moves -> {"flat"}
    [] OTHER -> {}

Begin(c, op) ==
  /\ May(c, op)
  /\ call' = [call EXCEPT ![c] = op]
  /\ since' = Disturb(c, op)
  /\ promise' = promise \ Withdrawn(op)

Return(c, ok) ==
  /\ call' = [call EXCEPT ![c] = "none"]
  /\ promise' = promise \union
                  IF ok THEN Told(call[c], since[c], ConfirmedDeflated) ELSE {}
  /\ since' = [since EXCEPT ![c] = {}]

\* A call that returns before anything else happens.
BeginAndReturn(c, op, confirmed) ==
  /\ since' = [Disturb(c, op) EXCEPT ![c] = {}]
  /\ promise' = (promise \ Withdrawn(op)) \union Told(op, Disturb(c, op)[c], confirmed)

=============================================================================
