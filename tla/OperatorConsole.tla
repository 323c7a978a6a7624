--------------------------- MODULE OperatorConsole ---------------------------
(***************************************************************************)
(* The staff's console (src/client/operator/OperatorScreen.tsx), its       *)
(* requests (src/client/shared/api.ts, src/server/api/router.ts) and its   *)
(* socket.  What the server tells arrives on two ways: events on the       *)
(* socket, in order, and the answer to each request whenever it comes.     *)
(* The console shows what came last.                                       *)
(***************************************************************************)
EXTENDS SessionService

CONSTANTS
  Earlier,       \* sessions that were completed before this page was opened
  EventRoom,     \* events that may be on their way to the console
  MaxTroubles    \* reloads, lost connections, failed requests, displays and runs

ASSUME EarlierAssumption == Earlier \subseteq Sessions
ASSUME TroubleAssumption == MaxTroubles \in Nat

\* Kinds of requests that may be under way side by side.
Slots == {"busy", "emergency", "restore", "gate"}

VARIABLES
  \* The browser.
  console,       \* what the page holds
  request,       \* the request of each slot
  events,        \* operator snapshots on their way to the page
  troubles,
  \* The server.
  work,          \* requests that were begun and not answered
  \* Of the past.
  pressed        \* of the stop that is under way, the run that was going on if the
                 \* page showed it, or no session

consoleVars == <<serviceVars, console, request, events, troubles, work, pressed>>

NoView == [id |-> None, phase |-> "none", attended |-> FALSE]

\* displayConnected matters to the page in setup only.
OperatorSnapshot(s, x) ==
  [id |-> s, phase |-> ShownPhase(x), attended |-> ShownPhase(x) = "setup" /\ x.attended]

Idle == [op |-> "none", id |-> None, stage |-> "idle", view |-> NoView, confirmed |-> FALSE]
Sent(op, id) == [Idle EXCEPT !.op = op, !.id = id, !.stage = "sent"]

\* GET /operator/session-confirmation and GET /sessions/:id change nothing: they
\* are answered as they are sent, and the answer comes when it comes.
SeenConfirmation ==
  [Idle EXCEPT !.op = "confirmation", !.stage = "answered", !.confirmed = agreed]
SeenSession(s) ==
  IF Exists(s)
  THEN [Idle EXCEPT !.op = "get", !.id = s, !.stage = "answered",
                    !.view = OperatorSnapshot(s, session[s])]
  ELSE [Idle EXCEPT !.op = "get", !.id = s, !.stage = "failed"]

\* A page that has just been opened, with what its session storage keeps.
Opened(stored) ==
  [socket |-> "closed", view |-> NoView, stored |-> stored, loaded |-> FALSE,
   confirmed |-> FALSE]

\* Its display page may still be open.
CompletedEarlier ==
  [Created EXCEPT !.step = Len(Course), !.ended = "completed", !.attended = TRUE]

ConsoleUnopened ==
  /\ console = Opened(None)
  /\ request = [r \in Slots |-> Idle]
  /\ events = <<>>
  /\ troubles = 0
  /\ work = {}
  /\ pressed = None

ConsoleInit ==
  /\ session = [s \in Sessions |-> IF s \in Earlier THEN CompletedEarlier ELSE Unborn]
  /\ active = None /\ lease = FALSE /\ agreed = FALSE
  /\ ConsoleUnopened

Operations == {"confirm", "create", "prepare", "start", "resume", "checkpoint",
               "handoff", "abort", "delete"}

Views == [id : Sessions \union {None}, phase : Phases, attended : BOOLEAN]
Requests == [op : Operations \union {"none", "stop", "confirmation", "get"},
             id : Sessions \union {None},
             stage : {"idle", "sent", "begun", "answered", "failed"},
             view : Views, confirmed : BOOLEAN]

ConsoleStates == [socket : {"closed", "open"}, view : Views, stored : Sessions \union {None},
                  loaded : BOOLEAN, confirmed : BOOLEAN]
Works == [slot : Slots, op : Operations \union {"stop"}, id : Sessions \union {None},
          target : Sessions \union {None}]

ConsoleTypeOK ==
  /\ console \in ConsoleStates
  /\ request \in [Slots -> Requests]
  /\ events \in Seq(Views)
  /\ troubles \in 0 .. MaxTroubles
  /\ work \subseteq Works
  /\ pressed \in Sessions \union {None}

Trouble == troubles < MaxTroubles /\ troubles' = troubles + 1

-----------------------------------------------------------------------------
(***************************************************************************)
(* The page.                                                               *)
(***************************************************************************)

Busy == request["busy"].stage # "idle"

\* operatorGateSatisfied.
GateSatisfied == console.loaded /\ console.socket = "open" /\ console.confirmed

\* What the buttons on the page offer: OperatorSessionGate, SetupForm,
\* ActionPanel and the export and device buttons.
Offers(op) ==
  CASE op = "confirm"    -> console.loaded /\ console.socket = "open" /\ ~console.confirmed
    [] op = "create"     -> console.view.id = None /\ GateSatisfied
    [] op = "prepare"    -> console.view.phase = "setup" /\ console.view.attended /\ GateSatisfied
    [] op = "start"      -> console.view.phase = "intro" /\ GateSatisfied
    [] op = "resume"     -> console.view.phase = "recovery"
    [] op = "checkpoint" -> console.view.phase = "response"
    [] op = "handoff"    -> console.view.phase = "summary"
    [] op = "abort"      -> console.view.id # None
                              /\ console.view.phase \notin {"completed", "aborted"}
    [] op = "delete"     -> console.view.phase \in {"completed", "aborted"}

\* A button of the page: one request at a time.  The code does not ask it, but
\* nobody uses the other buttons before the page has loaded (a bound).
Press(op) ==
  /\ ~Busy /\ Offers(op)
  /\ request["restore"].stage = "idle"
  /\ request' = [request EXCEPT !["busy"] = Sent(op, console.view.id)]
  /\ UNCHANGED <<serviceVars, console, events, troubles, work, pressed>>

RunGoingOn == IF active # None /\ Running(active) THEN active ELSE None

\* The emergency button or its shortcut, whatever else is under way.
PressEmergency ==
  /\ request["emergency"].stage = "idle"
  /\ request' = [request EXCEPT !["emergency"] = Sent("stop", console.view.id)]
  /\ pressed' = IF console.view.id \in {None, active} THEN RunGoingOn ELSE None
  /\ UNCHANGED <<serviceVars, console, events, troubles, work>>

\* The STOP button of the device test page, when no other stop is under way (a
\* bound).
PressTestStop ==
  /\ request["emergency"].stage = "idle"
  /\ request' = [request EXCEPT !["emergency"] = Sent("stop", None)]
  /\ pressed' = RunGoingOn
  /\ UNCHANGED <<serviceVars, console, events, troubles, work>>

\* The connection opens: the hub sends the active session, and the effect on
\* realtime.status asks for the confirmation.
SocketOpened ==
  /\ console.socket = "closed"
  /\ console' = [console EXCEPT !.socket = "open"]
  /\ events' = IF active = None THEN <<>>
               ELSE <<OperatorSnapshot(active, session[active])>>
  /\ request' = [request EXCEPT !["gate"] = SeenConfirmation]
  /\ UNCHANGED <<serviceVars, troubles, work, pressed>>

\* The hub's challenge is answered.
AnswerChallenge ==
  /\ console.socket = "open" /\ ~lease
  /\ GetLease
  /\ UNCHANGED <<console, request, events, troubles, work, pressed>>

\* The page shows the session an event is about, whichever it was showing.
ReceiveEvent ==
  /\ console.socket = "open" /\ events # <<>>
  /\ console' = [console EXCEPT !.view = Head(events)]
  /\ events' = Tail(events)
  /\ UNCHANGED <<serviceVars, request, troubles, work, pressed>>

\* A button's answer.
Applied(r) ==
  CASE r.op = "confirm" -> [console EXCEPT !.confirmed = TRUE]
    [] r.op = "create" -> [console EXCEPT !.view = r.view, !.stored = r.id]
    [] r.op = "delete" ->
         [console EXCEPT !.view = NoView, !.stored = None, !.confirmed = FALSE, !.loaded = TRUE]
    [] OTHER -> [console EXCEPT !.view = r.view]

\* The answer to a request, or its failure, which only ends it.
ReceiveAnswer(slot) ==
  LET r == request[slot] IN
  /\ r.stage \in {"answered", "failed"}
  /\ console' =
       CASE slot = "busy" /\ r.stage = "answered" -> Applied(r)
         [] slot = "emergency" /\ r.stage = "answered" /\ r.id # None ->
              [console EXCEPT !.view = r.view]
         [] slot = "restore" /\ r.stage = "answered" -> [console EXCEPT !.view = r.view]
         [] slot = "restore" /\ r.stage = "failed" -> [console EXCEPT !.stored = None]
         [] slot = "gate" /\ r.stage = "answered" ->
              [console EXCEPT !.confirmed = r.confirmed, !.loaded = TRUE]
         [] OTHER -> console
  /\ request' = [request EXCEPT ![slot] = Idle]
  /\ pressed' = IF slot = "emergency" THEN None ELSE pressed
  /\ UNCHANGED <<serviceVars, events, troubles, work>>

\* A request or its answer is lost on the way.
RequestFails(slot) ==
  /\ request[slot].stage \in {"sent", "answered"}
  /\ Trouble
  /\ request' = [request EXCEPT ![slot].stage = "failed"]
  /\ UNCHANGED <<serviceVars, console, events, work, pressed>>

\* The connection is lost.  The hub, which WebSocketHub follows, is taken to see
\* it at once.
SocketLost ==
  /\ console.socket = "open"
  /\ Trouble
  /\ console' = [console EXCEPT !.socket = "closed"]
  /\ events' = <<>>
  /\ LoseLease
  /\ UNCHANGED <<request, work, pressed>>

\* The page is loaded again, and asks for the session it has stored.  What the
\* server still does for the old page is kept if it changes a session.
Reload ==
  /\ Trouble
  /\ console' = Opened(console.stored)
  /\ events' = <<>>
  /\ request' = [r \in Slots |->
       IF r = "restore" /\ console.stored # None THEN SeenSession(console.stored) ELSE Idle]
  /\ pressed' = None
  /\ work' = {w \in work : w.op \in {"handoff", "abort", "stop", "delete"}}
  /\ LoseLease

-----------------------------------------------------------------------------
(***************************************************************************)
(* The server.                                                             *)
(***************************************************************************)

\* The event of a change of session s, to a console that is connected.
Announce(s) ==
  /\ Len(events) < EventRoom
  /\ events' = IF console.socket = "open"
               THEN Append(events, OperatorSnapshot(s, session'[s])) ELSE events

Silent == UNCHANGED events

Fresh == {s \in Sessions : session[s] = Unborn}

\* What begins the operation of a request, and whether the screens are told.
Operate(op, s) ==
  \/ op = "create" /\ Create(s) /\ Announce(s)
  \/ op = "prepare" /\ Prepare(s) /\ Announce(s)
  \/ op = "start" /\ Start(s) /\ Announce(s)
  \/ op = "resume" /\ Resume(s) /\ Announce(s)
  \/ op = "checkpoint" /\ Checkpoint(s) /\ Announce(s)
  \/ op = "handoff" /\ Handoff(s) /\ Announce(s)
  \/ op = "abort" /\ Abort(s) /\ Announce(s)
  \/ op = "delete" /\ MayDelete(s) /\ UNCHANGED serviceVars /\ Silent
  \/ op = "confirm" /\ Agree /\ Silent

\* Mutant: the stop that names no session leaves the run alone.
StopsDeviceOnly(id) == id

\* emergencyStop of the session named; stopDevice, which names none, is that of
\* the run going on.
Stopped(id) == IF id = None /\ active # None /\ Running(active) THEN active ELSE id

\* A stop waits for a failure under way; it ends the session it is about if that
\* is the active one.
BeginStop(id) ==
  /\ \A s \in Sessions : ~session[s].failing
  /\ id # None => Exists(id)
  /\ LET s == Stopped(id)
     IN  IF s # None /\ active = s /\ ~Over(s)
         THEN Abort(s) /\ Announce(s)
         ELSE UNCHANGED serviceVars /\ Silent

Begun(slot, s, target) ==
  /\ request' = [request EXCEPT ![slot].stage = "begun", ![slot].id = s]
  /\ work' = work \union
       {[slot |-> slot, op |-> request[slot].op, id |-> s, target |-> target]}

Begin(slot) ==
  LET r == request[slot] IN
  /\ r.stage = "sent"
  /\ IF r.op = "stop"
     THEN BeginStop(r.id) /\ Begun(slot, r.id, Stopped(r.id))
     ELSE IF r.op = "create"
     THEN Fresh # {} /\ LET s == CHOOSE s \in Fresh : TRUE IN Operate(r.op, s) /\ Begun(slot, s, s)
     ELSE Operate(r.op, r.id) /\ Begun(slot, r.id, r.id)
  /\ UNCHANGED <<console, troubles, pressed>>

\* Any request may be refused: for its guards, for a device that is not ready or
\* a log that cannot be written.
Refuse(slot) ==
  /\ request[slot].stage = "sent"
  /\ request' = [request EXCEPT ![slot].stage = "failed"]
  /\ UNCHANGED <<serviceVars, console, events, troubles, work, pressed>>

\* The answer says what is true when it is made; an unsafe device or a log that
\* fails makes it an error, and the session stays active.
Awaits(r, w) ==
  request[r].stage = "begun" /\ r = w.slot /\ request[r].op = w.op /\ request[r].id = w.id

Answered(w, ok) ==
  request' = [r \in Slots |->
    IF ~Awaits(r, w) THEN request[r]
    ELSE IF ok
         THEN [request[r] EXCEPT !.stage = "answered",
                 !.view = IF w.id = None THEN NoView ELSE OperatorSnapshot(w.id, session'[w.id])]
         ELSE [request[r] EXCEPT !.stage = "failed"]]

Finish(w) ==
  /\ work' = work \ {w}
  /\ \/ /\ w.op = "delete" /\ Delete(w.id)
        /\ Answered(w, TRUE)
     \/ /\ w.op \in {"handoff", "abort", "stop"} /\ Release(w.target)
        /\ Answered(w, TRUE)
     \/ /\ w.op \in Operations \ {"delete", "handoff", "abort"}
        /\ UNCHANGED serviceVars
        /\ Answered(w, TRUE)
     \/ /\ UNCHANGED serviceVars
        /\ Answered(w, FALSE)
  /\ UNCHANGED <<console, events, troubles, pressed>>

\* Timers, mishaps and the display, without anybody's request.
Unasked(s) ==
  /\ \/ (Timer(s) \/ FailureEnds(s)) /\ UNCHANGED troubles
     \/ ~session[s].attended /\ GetDisplay(s) /\ UNCHANGED troubles
     \/ (Fail(s) \/ LoseDisplay(s)) /\ Trouble
  /\ Announce(s)
  /\ UNCHANGED <<console, request, work, pressed>>

ConsoleNext ==
  \/ \E op \in Operations : Press(op)
  \/ PressEmergency \/ PressTestStop
  \/ SocketOpened \/ AnswerChallenge \/ ReceiveEvent \/ SocketLost \/ Reload
  \/ \E slot \in Slots :
       ReceiveAnswer(slot) \/ RequestFails(slot) \/ Begin(slot) \/ Refuse(slot)
  \/ \E w \in work : Finish(w)
  \/ \E s \in Sessions : Unasked(s)

-----------------------------------------------------------------------------

\* A stop that is answered with success has stopped the run: the one that was
\* going on when the button was pressed is over by then, whether the console
\* showed it or showed no session, whether it was pressed there or on the device
\* test page, and whatever other requests, reloads and failures happen meanwhile
\* (emergencyStop and stopDevice, session-controller.ts:485 and 812).  A console
\* that shows another session promises nothing.
AnsweredStopStopped ==
  request["emergency"].stage = "answered" /\ pressed # None => ~Running(pressed)
=============================================================================
