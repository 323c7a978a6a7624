---------------------------- MODULE SerialPuffer ----------------------------
(***************************************************************************)
(* The driver of a puffer on a serial line                                 *)
(* (src/server/devices/serial-puffer-device.ts), and the line with the     *)
(* puffer at its other end, which is not part of the code: it executes     *)
(* commands in order and answers each at most once.  Request ids appear as *)
(* what the driver knows of them: each command and answer on the line is   *)
(* for the caller whose request is pending, for nobody any more            *)
(* ("ignored"), or for an id the driver does not know ("unknown").         *)
(***************************************************************************)
EXTENDS PufferDevice, Sequences

CONSTANTS
  Mishaps,       \* what may go wrong: an answer that is "lost" or "garbage", a
                 \* "fault" or a "restart" of the puffer, an "unplug", a
                 \* failing "write" or "open", an "error" of the port
  MaxMishaps,    \* how often
  MaxLine        \* how much is on the line when anything but STOP is sent

ASSUME BoundAssumption == MaxMishaps \in Nat /\ MaxLine \in Nat
ASSUME RecipientAssumption == Callers \intersect {"ignored", "unknown", "event"} = {}

VARIABLES
  port,          \* the port that is attached
  closing,       \* intentionalClose
  pending,       \* the command each caller waits for
  reply,         \* how it was settled, while its continuation is due
  step,          \* where disconnect is
  clean,         \* every step of disconnect was taken and none has failed
  overruled,     \* a move has been commanded since the driver saw a fault
  wire, line,    \* commands to the puffer, its answers and events
  puffer,        \* what the puffer does, and how full it is
  mishaps, garbled

driverVars == <<port, closing, pending, reply, step, clean, overruled>>
lineVars == <<wire, line, puffer, mishaps, garbled>>
serialVars == <<driverVars, lineVars>>

Recipients == Callers \union {"ignored", "unknown", "event"}

SerialTypeOK ==
  /\ port \in {"none", "opening", "open", "shut"}
  /\ {closing, clean, overruled, garbled} \subseteq BOOLEAN
  /\ pending \in [Callers -> Commands \union {"none"}]
  /\ reply \in [Callers -> {"none", "ok", "failed"}]
  /\ step \in {"none", "stop", "deflate", "confirm", "poll", "close"}
  /\ \A i \in DOMAIN wire : wire[i] \in [cmd : Commands, for : Recipients]
  /\ \A i \in DOMAIN line :
       line[i] \in [for : Recipients, ok : BOOLEAN, state : States, level : {0, Full},
                    measured : BOOLEAN]
  /\ puffer \in [state : States, level : {0, Full}]
  /\ mishaps \in 0 .. MaxMishaps

SerialInit ==
  /\ port = "none" /\ closing = FALSE
  /\ pending = [c \in Callers |-> "none"]
  /\ reply = [c \in Callers |-> "none"]
  /\ step = "none" /\ clean = TRUE /\ overruled = FALSE
  /\ wire = <<>> /\ line = <<>>
  /\ puffer = [state |-> "idle", level |-> 0]
  /\ mishaps = 0 /\ garbled = FALSE

-----------------------------------------------------------------------------
(* The driver.                                                             *)

Mishap(kind) ==
  /\ kind \in Mishaps /\ mishaps < MaxMishaps
  /\ mishaps' = mishaps + 1

Online == connected /\ port = "open"
Waiting == {c \in Callers : pending[c] # "none"}

\* Mutant: a request that is rejected is only taken off the pending ones.
Forgotten(seq, cs) ==
  [i \in DOMAIN seq |-> IF seq[i].for \in cs THEN [seq[i] EXCEPT !.for = "unknown"] ELSE seq[i]]

\* rememberIgnoredRequestId, of the requests of cs.
Ignored(seq, cs) ==
  [i \in DOMAIN seq |-> IF seq[i].for \in cs THEN [seq[i] EXCEPT !.for = "ignored"] ELSE seq[i]]

\* Mutant: it is only noted that the device is in fault.
NoEmergencyStop(w) == w

\* writeEmergencyStop.
WithEmergencyStop(w) ==
  IF port = "open" THEN Append(w, [cmd |-> "stop", for |-> "ignored"]) ELSE w

\* Mutant: a request that is rejected is deleted first, and then not found.
SettleOrForget(cs, how) ==
  /\ pending' = [c \in Callers |-> IF c \in cs THEN "none" ELSE pending[c]]
  /\ reply' = [c \in Callers |-> IF c \in cs /\ how = "ok" THEN how ELSE reply[c]]

\* The requests of cs are taken off the pending ones and settled.
Settle(cs, how) ==
  /\ pending' = [c \in Callers |-> IF c \in cs THEN "none" ELSE pending[c]]
  /\ reply' = [c \in Callers |-> IF c \in cs THEN how ELSE reply[c]]

\* A fault: the pending requests of cs are rejected, and STOP is written.
Alarm(code, cs, answers) ==
  /\ state' = "fault" /\ fault' = code
  /\ Settle(cs, "failed")
  /\ wire' = WithEmergencyStop(Ignored(wire, cs))
  /\ line' = Ignored(answers, cs)
  /\ overruled' = FALSE
  /\ UNCHANGED <<connected, level>>

\* What follows a settled promise comes before everything that a timer or the
\* port starts.
Calm == \A c \in Callers : reply[c] = "none"

\* connect.
SerialConnect ==
  /\ Calm /\ ~connected
  /\ Begin(Queue, "connect")
  /\ port' = "opening" /\ closing' = FALSE
  /\ state' = "connecting" /\ fault' = "none"
  /\ wire' = <<>> /\ line' = <<>>
  /\ UNCHANGED <<connected, level, pending, reply, step, clean, overruled, puffer, mishaps, garbled>>

SerialOpens ==
  /\ Calm /\ port = "opening"
  /\ port' = "open"
  /\ connected' = TRUE /\ state' = "idle" /\ level' = 0
  /\ Return(Queue, TRUE)
  /\ UNCHANGED <<fault, closing, pending, reply, step, clean, overruled, lineVars>>

SerialOpenFails ==
  /\ Calm /\ port = "opening"
  /\ Mishap("open")
  /\ port' = "none"
  /\ connected' = FALSE /\ state' = "disconnected"
  /\ Return(Queue, FALSE)
  /\ UNCHANGED <<level, fault, closing, pending, reply, step, clean, overruled,
                 wire, line, puffer, garbled>>

\* cancelPendingForStop.
Overtaken(op) == IF op = "stop" THEN {c \in Waiting : pending[c] # "stop"} ELSE {}

\* sendCommand.
Send(c, op) ==
  /\ pending' = [k \in Callers |->
       CASE k = c -> op [] k \in Overtaken(op) -> "none" [] OTHER -> pending[k]]
  /\ reply' = [k \in Callers |->
       CASE k = c -> "none" [] k \in Overtaken(op) -> "failed" [] OTHER -> reply[k]]
  /\ wire' = Append(Ignored(wire, Overtaken(op)), [cmd |-> op, for |-> c])
  /\ line' = Ignored(line, Overtaken(op))
  /\ overruled' = (overruled \/ op \in Moves)

\* The bound on what is on the line: one more for STOP.
Room(op) == Len(wire) + Len(line) < MaxLine + IF op = "stop" THEN 1 ELSE 0

SerialCommand(c, op) ==
  /\ Calm /\ Online
  /\ Room(op)
  /\ Begin(c, op)
  /\ Send(c, op)
  /\ UNCHANGED <<statusVars, port, closing, step, clean, puffer, mishaps, garbled>>

\* The call of a caller returns.
SerialReturn(c) ==
  /\ reply[c] # "none" /\ call[c] # "disconnect"
  /\ Return(c, reply[c] = "ok")
  /\ reply' = [reply EXCEPT ![c] = "none"]
  /\ UNCHANGED <<statusVars, port, closing, pending, step, clean, overruled, lineVars>>

\* The timer of a request, whether or not the answer is on its way.
SerialTimeout(c) ==
  /\ Calm /\ pending[c] # "none"
  /\ IF pending[c] = "stop"
     THEN /\ Settle({c}, "failed")
          /\ wire' = Ignored(wire, {c}) /\ line' = Ignored(line, {c})
          /\ UNCHANGED <<statusVars, overruled>>
     ELSE Alarm("timeout", {c}, line)
  /\ UNCHANGED <<callVars, port, closing, step, clean, puffer, mishaps, garbled>>

\* A command that never leaves; a caller has at most one on the line.
Without(seq, i) == SubSeq(seq, 1, i - 1) \o SubSeq(seq, i + 1, Len(seq))

\* The callback of a write reports an error: of a command ...
SerialWriteFails(c) ==
  \E i \in DOMAIN wire :
    LET unsent == Without(wire, i) IN
    /\ Calm /\ wire[i].for = c
    /\ Mishap("write")
    /\ IF pending[c] = "stop"
       THEN /\ Settle({c}, "failed")
            /\ wire' = unsent
            /\ UNCHANGED <<statusVars, line, overruled>>
       ELSE /\ state' = "fault" /\ fault' = "write"
            /\ Settle({c}, "failed")
            /\ wire' = WithEmergencyStop(unsent)
            /\ overruled' = FALSE
            /\ UNCHANGED <<connected, level, line>>
    /\ UNCHANGED <<callVars, port, closing, step, clean, puffer, garbled>>

\* ... or of an emergency STOP.
EmergencyWriteFails ==
  /\ Calm /\ wire # <<>>
  /\ wire[Len(wire)] = [cmd |-> "stop", for |-> "ignored"]
  /\ Mishap("write")
  /\ state' = "fault" /\ fault' = "unstopped"
  /\ wire' = SubSeq(wire, 1, Len(wire) - 1)
  /\ UNCHANGED <<connected, level, callVars, driverVars, line, puffer, garbled>>

\* handleData: the lines of a chunk are handled before any continuation.
Receive ==
  LET a == Head(line)
      rest == Tail(line)
      c == a.for
      Takes(how) == /\ Settle({c}, how)
                    /\ line' = rest
                    /\ state' = a.state
                    /\ level' = IF a.measured THEN a.level ELSE level
                    /\ UNCHANGED connected
  IN
  /\ line # <<>> /\ port = "open"
  /\ \/ /\ c = "event" /\ a.ok
        /\ state' = a.state /\ level' = a.level /\ fault' = "none"
        /\ line' = rest
        /\ UNCHANGED <<connected, pending, reply, wire, overruled>>
     \/ c = "event" /\ ~a.ok /\ Alarm("device", Waiting, rest)
     \/ c = "ignored" /\ line' = rest
        /\ UNCHANGED <<statusVars, pending, reply, wire, overruled>>
     \/ c = "unknown" /\ Alarm("invalid", Waiting, rest)
     \/ /\ c \in Callers /\ a.ok
        /\ Takes("ok")
        /\ fault' = "none"
        /\ UNCHANGED <<wire, overruled>>
     \/ /\ c \in Callers /\ ~a.ok
        /\ Takes("failed")
        /\ fault' = "device"
        /\ wire' = WithEmergencyStop(wire)
        /\ overruled' = FALSE
  /\ UNCHANGED <<callVars, port, closing, step, clean, puffer, mishaps, garbled>>

\* handleSerialError.
SerialError ==
  /\ Calm /\ port = "open" /\ ~closing
  /\ Mishap("error")
  /\ Alarm("lost", Waiting, line)
  /\ UNCHANGED <<callVars, port, closing, step, clean, puffer, garbled>>

\* handleSerialClose, of a port nobody closes.
SerialUnplugged ==
  /\ Calm /\ port = "open"
  /\ Mishap("unplug")
  /\ port' = "shut"
  /\ connected' = FALSE /\ state' = "disconnected"
  /\ IF closing THEN UNCHANGED <<fault, pending, reply>>
     ELSE fault' = "lost" /\ Settle(Waiting, "failed")
  /\ wire' = <<>> /\ line' = <<>>
  /\ UNCHANGED <<level, callVars, closing, step, clean, overruled, puffer, garbled>>

-----------------------------------------------------------------------------
(* disconnect.                                                             *)

\* STOP first; a port that is not open is only let go.
SerialDisconnect ==
  /\ Calm /\ port # "none"
  /\ Room("stop")
  /\ Begin(Queue, "disconnect")
  /\ clean' = Online
  /\ IF Online
     THEN step' = "stop" /\ Send(Queue, "stop") /\ UNCHANGED closing
     ELSE /\ step' = "close" /\ closing' = TRUE
          /\ Settle(Waiting, "failed")
          /\ wire' = Ignored(wire, Waiting) /\ line' = Ignored(line, Waiting)
          /\ UNCHANGED overruled
  /\ UNCHANGED <<statusVars, port, puffer, mishaps, garbled>>

\* The port is to be closed, and whatever is pending is rejected.
Shut(ok) ==
  /\ step' = "close" /\ closing' = TRUE /\ clean' = (clean /\ ok)
  /\ pending' = [c \in Callers |-> "none"]
  /\ reply' = [c \in Callers |-> CASE c = Queue -> "none"
                                   [] c \in Waiting -> "failed" [] OTHER -> reply[c]]
  /\ wire' = Ignored(wire, Waiting) /\ line' = Ignored(line, Waiting)
  /\ UNCHANGED overruled

\* The next command of disconnect, which fails at once when the port has gone.
Proceed(next, op) ==
  IF Online THEN step' = next /\ Send(Queue, op) /\ UNCHANGED <<closing, clean>>
            ELSE Shut(FALSE)

\* Mutant: DEFLATE is taken for done when it is acknowledged.
NoConfirmation ==
  /\ call[Queue] = "disconnect" /\ reply[Queue] # "none"
  /\ CASE step = "stop" -> Proceed("deflate", "deflate")
       [] OTHER -> Shut(reply[Queue] = "ok")
  /\ UNCHANGED <<statusVars, callVars, port, puffer, mishaps, garbled>>

\* STOP is settled, then DEFLATE, then the status that must confirm it.
DisconnectContinues ==
  /\ call[Queue] = "disconnect" /\ reply[Queue] # "none"
  /\ \/ step = "stop" /\ reply[Queue] = "ok" /\ Proceed("deflate", "deflate")
     \/ /\ step = "stop" /\ reply[Queue] = "failed"
        /\ IF Online
           THEN /\ pending' = [pending EXCEPT ![Queue] = "deflate"]
                /\ reply' = [reply EXCEPT ![Queue] = "none"]
                /\ wire' = Append(WithEmergencyStop(wire), [cmd |-> "deflate", for |-> Queue])
                /\ step' = "deflate" /\ clean' = FALSE /\ overruled' = TRUE
                /\ UNCHANGED <<closing, line>>
           ELSE Shut(FALSE)
     \/ step = "deflate" /\ reply[Queue] = "ok" /\ Proceed("confirm", "status")
     \/ step = "deflate" /\ reply[Queue] = "failed" /\ Shut(FALSE)
     \/ step = "confirm" /\ reply[Queue] = "ok" /\ ConfirmedDeflated /\ Shut(TRUE)
     \/ /\ step = "confirm" /\ reply[Queue] = "ok" /\ ~ConfirmedDeflated
        /\ IF fault # "none" \/ state = "fault"
           THEN Shut(FALSE)
           ELSE /\ step' = "poll"
                /\ reply' = [reply EXCEPT ![Queue] = "none"]
                /\ UNCHANGED <<pending, wire, line, closing, clean, overruled>>
     \/ step = "confirm" /\ reply[Queue] = "failed" /\ Shut(FALSE)
  /\ UNCHANGED <<statusVars, callVars, port, puffer, mishaps, garbled>>

\* waitForConfirmedDeflatedStatus asks again after a while.
DisconnectPolls ==
  /\ Calm /\ step = "poll"
  /\ Proceed("confirm", "status")
  /\ UNCHANGED <<statusVars, callVars, port, puffer, mishaps, garbled>>

\* It gives up at its deadline.
DisconnectGivesUp ==
  /\ Calm /\ step = "poll"
  /\ Shut(FALSE)
  /\ UNCHANGED <<statusVars, callVars, port, puffer, mishaps, garbled>>

\* The port is closed, or that fails or takes too long.
DisconnectEnds(ok) ==
  /\ Calm /\ step = "close"
  /\ IF ok THEN UNCHANGED mishaps ELSE Mishap("error")
  /\ port' = "none" /\ step' = "none" /\ clean' = TRUE
  /\ connected' = FALSE /\ state' = "disconnected"
  /\ wire' = <<>> /\ line' = <<>>
  /\ Return(Queue, clean /\ ok)
  /\ UNCHANGED <<level, fault, closing, pending, reply, overruled, puffer, garbled>>

-----------------------------------------------------------------------------
(* The puffer.                                                             *)

Answer(for, ok, s, measured) ==
  [for |-> for, ok |-> ok, state |-> s, level |-> puffer.level, measured |-> measured]

\* What it does on a command.
Obeyed(op) ==
  CASE op = "inflate" -> [state |-> "inflating", level |-> Full]
    [] op = "deflate" /\ puffer.level = 0 -> [state |-> "idle", level |-> 0]
    [] op = "deflate" /\ puffer.level # 0 -> [puffer EXCEPT !.state = "deflating"]
    [] op = "stop" -> [puffer EXCEPT !.state = "stopped"]
    [] OTHER -> puffer

\* The next command is executed, and refused in fault.  The answer may be lost,
\* or arrive as something that is none.
Execute ==
  LET e == Head(wire)
      ok == puffer.state # "fault"
      next == IF ok THEN Obeyed(e.cmd) ELSE puffer
  IN
  /\ wire # <<>>
  /\ wire' = Tail(wire)
  /\ puffer' = next
  /\ \/ /\ line' = Append(line, [Answer(e.for, ok, next.state, e.cmd = "status")
                                   EXCEPT !.level = next.level])
        /\ UNCHANGED <<mishaps, garbled>>
     \/ Mishap("lost") /\ UNCHANGED <<line, garbled>>
     \/ /\ Mishap("garbage") /\ garbled' = TRUE
        /\ line' = Append(line, Answer("unknown", FALSE, "fault", FALSE))
  /\ UNCHANGED <<statusVars, callVars, driverVars>>

PufferMoves ==
  /\ puffer.state \in {"inflating", "deflating"}
  /\ puffer' = IF puffer.state = "inflating" THEN [puffer EXCEPT !.state = "holding"]
               ELSE [state |-> "idle", level |-> 0]
  /\ UNCHANGED <<statusVars, callVars, driverVars, wire, line, mishaps, garbled>>

\* It stops where it is: in fault, or because it starts again.
PufferFaults ==
  /\ port = "open" /\ puffer.state # "fault"
  /\ Mishap("fault")
  /\ puffer' = [puffer EXCEPT !.state = "fault"]
  /\ line' = Append(line, Answer("event", FALSE, "fault", TRUE))
  /\ UNCHANGED <<statusVars, callVars, driverVars, wire, garbled>>

PufferRestarts ==
  LET s == IF puffer.level = 0 THEN "idle" ELSE "stopped" IN
  /\ port = "open"
  /\ Mishap("restart")
  /\ puffer' = [puffer EXCEPT !.state = s]
  /\ wire' = <<>>
  /\ line' = Append(line, Answer("event", TRUE, s, TRUE))
  /\ UNCHANGED <<statusVars, callVars, driverVars, garbled>>

SerialNext ==
  \/ SerialConnect \/ SerialOpens \/ SerialOpenFails
  \/ \E c \in Callers :
       \/ SerialReturn(c) \/ SerialTimeout(c) \/ SerialWriteFails(c)
       \/ \E op \in Commands : SerialCommand(c, op)
  \/ EmergencyWriteFails \/ Receive \/ SerialError \/ SerialUnplugged
  \/ SerialDisconnect \/ DisconnectContinues \/ DisconnectPolls \/ DisconnectGivesUp
  \/ \E ok \in BOOLEAN : DisconnectEnds(ok)
  \/ Execute \/ PufferMoves \/ PufferFaults \/ PufferRestarts

=============================================================================
