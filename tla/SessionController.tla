------------------------- MODULE SessionController -------------------------
(***************************************************************************)
(* The session state machine of the experiment server                      *)
(* (src/server/sessions/session-controller.ts).                            *)
(*                                                                         *)
(* Node runs the controller on one thread: what lies between two awaits is *)
(* one action here, and everything that can happen while a handler waits   *)
(* is another action.  Handlers that wait are "flows": each operator's     *)
(* pending HTTP request is the flow of a caller, and failureTask, the      *)
(* controller's own STOP / DEFLATE sequence, is the flow FailureTask.      *)
(***************************************************************************)
EXTENDS Naturals, FiniteSets

CONSTANTS
  Sessions,      \* ids the server may draw for sessions
  Callers,       \* operator requests that can be pending at the same time
  LastPosition,  \* presentations per session (4 in the protocol)
  Order,         \* Order[s][i]: how the i-th presentation of s is shown
  FailureTask,   \* the flow of failureTask
  Mishaps,       \* what may happen unasked: "fault" and "disconnected", reported
                 \* by the device, and "audit", a background audit not stored
  None           \* null

Positions == 1 .. LastPosition
Presentations == {"label", "puffer"}
Flows == Callers \union {FailureTask}

ASSUME SessionAssumption == None \notin Sessions
ASSUME FlowAssumption == FailureTask \notin Callers
ASSUME PositionAssumption == LastPosition \in Nat \ {0}
ASSUME MishapAssumption == Mishaps \subseteq {"fault", "disconnected", "audit"}
ASSUME OrderAssumption == Order \in [Sessions -> [Positions -> Presentations]]

Timed == {"handling", "processing", "result", "reset"}
Running == Timed \union {"intro", "response", "summary"}
Terminal == {"completed", "aborted"}
Over == Terminal \union {"error"}
Missing == {"unborn", "deleted"}      \* not in the sessions map
Phases == Running \union Over \union Missing \union {"setup"}
SafetyStages == {"stop", "deflate", "confirm", "record", "report"}

VARIABLES
  phase,          \* phase of each session
  position,       \* sequenceIndex + 1, 0 for null
  display,        \* displayConnected
  recovery,       \* recoveryRequired
  hasRemaining,   \* pausedRemainingMs holds a positive time
  active,         \* activeSessionId
  timer,          \* the armed phase timer: [session, phase] or None
  flow,           \* what each flow is waiting for
  resetChecks,    \* sessions whose reset timer waits for the device status
  commands,       \* sessions with an unacknowledged phase command
  safetyFailed,   \* lastSafetyFailure # null
  auditHealthy,   \* auditStorageHealthy
  emergencyLocked,
  lease,          \* operatorLeaseAvailable
  confirmed,      \* operatorSessionConfirmed
  puffer,         \* the device: "flat", "inflated" (or held), "deflating"
  link            \* the device link: "up", "lost", or "closed" while flat

sessionVars == <<phase, position, display, recovery, hasRemaining>>
operatorVars == <<lease, confirmed>>
deviceVars == <<puffer, link>>
vars == <<sessionVars, active, timer, flow, resetChecks, commands,
          safetyFailed, auditHealthy, emergencyLocked, operatorVars, deviceVars>>

Idle == [op |-> "none", session |-> None, stage |-> "idle", failed |-> FALSE]
Waiting(op, s, stage) == [op |-> op, session |-> s, stage |-> stage, failed |-> FALSE]

Ops == {"none", "create", "prepare", "abort", "emergency", "delete", "handoff", "test", "fail"}
Stages == SafetyStages \union
  {"idle", "reserving", "auditing", "queued", "checking", "inflating", "join", "finish"}
FlowType ==
  [op : Ops, session : Sessions \union {None}, stage : Stages, failed : BOOLEAN]

TypeOK ==
  /\ phase \in [Sessions -> Phases]
  /\ position \in [Sessions -> 0 .. LastPosition]
  /\ display \in [Sessions -> BOOLEAN]
  /\ recovery \in [Sessions -> BOOLEAN]
  /\ hasRemaining \in [Sessions -> BOOLEAN]
  /\ active \in Sessions \union {None}
  /\ timer \in [session : Sessions, phase : Timed] \union {None}
  /\ flow \in [Flows -> FlowType]
  /\ resetChecks \in SUBSET Sessions
  /\ commands \in SUBSET Sessions
  /\ safetyFailed \in BOOLEAN
  /\ auditHealthy \in BOOLEAN
  /\ emergencyLocked \in BOOLEAN
  /\ lease \in BOOLEAN
  /\ confirmed \in BOOLEAN
  /\ puffer \in {"flat", "inflated", "deflating"}
  /\ link \in {"up", "lost", "closed"}

Init ==
  /\ phase = [s \in Sessions |-> "unborn"]
  /\ position = [s \in Sessions |-> 0]
  /\ display = [s \in Sessions |-> FALSE]
  /\ recovery = [s \in Sessions |-> FALSE]
  /\ hasRemaining = [s \in Sessions |-> FALSE]
  /\ active = None
  /\ timer = None
  /\ flow = [f \in Flows |-> Idle]
  /\ resetChecks = {}
  /\ commands = {}
  /\ safetyFailed = FALSE
  /\ auditHealthy = TRUE
  /\ emergencyLocked = FALSE
  /\ lease = FALSE
  /\ confirmed = FALSE
  /\ puffer = "flat"
  /\ link = "up"

-----------------------------------------------------------------------------
(* The device as the controller sees it: commands take effect in the order *)
(* they are written; a command can be lost, and its promise can reject     *)
(* whether or not it took effect.                                          *)

Exists(s) == phase[s] \notin Missing
ActiveIs(p) == active # None /\ phase[active] \in p
Failing == flow[FailureTask].stage # "idle"
\* Mutant: the level of a connected device is not looked at.
ConnectedOnly == link = "up"

SafelyDeflated == link = "up" /\ puffer = "flat"

Reachable(effect) == IF link = "up" THEN {puffer, effect} ELSE {puffer}
AfterInflate == Reachable("inflated")
AfterDeflate == Reachable(IF puffer = "flat" THEN "flat" ELSE "deflating")
AfterStop == Reachable(IF puffer = "deflating" THEN "inflated" ELSE puffer)

\* Mutant: STOP leaves a status query that is under way alone.
StopKeepsQueries == flow

\* STOP rejects the commands pending in the driver, a status query that a
\* device test is waiting for included.
StopPending == [f \in Flows |-> IF flow[f].stage = "checking" THEN Idle ELSE flow[f]]

\* The synchronous beginning of safeStopAndDeflate, run by flow f.
BeginSafety(f, op, s) ==
  /\ flow' = [StopPending EXCEPT ![f] = Waiting(op, s, "stop")]
  /\ puffer' \in AfterStop

\* Mutant: only the timed phases are made safe.
StartsTimedFailure(s) == ~Failing /\ phase[s] \in Timed

\* failSession and the synchronous beginning of performFailSession: a second
\* failure joins the one in flight, whichever session that one is about.
StartsFailure(s) == ~Failing /\ phase[s] \notin Over \union Missing

Neutralise(s) ==
  IF StartsFailure(s)
  THEN /\ recovery' = [recovery EXCEPT ![s] = TRUE]
       /\ BeginSafety(FailureTask, "fail", s)
  ELSE UNCHANGED <<recovery, flow, puffer>>

\* Mutant: the timer is cancelled before the failure in flight is joined.
FailSessionCancels(s) == timer' = None /\ Neutralise(s)

FailSession(s) ==
  /\ timer' = IF StartsFailure(s) THEN None ELSE timer
  /\ Neutralise(s)

NoFailure == UNCHANGED <<timer, recovery, flow, puffer>>

\* handleBackgroundFailure.
FailActive == IF active = None THEN NoFailure ELSE FailSession(active)

-----------------------------------------------------------------------------
(* Creation of a session.                                                  *)

Creating == \E c \in Callers : flow[c].op = "create"

\* Mutant: a session is created beside the active one.
CreateBesideActive(c) ==
  /\ flow[c] = Idle
  /\ confirmed /\ auditHealthy /\ ~Creating
  /\ flow' = [flow EXCEPT ![c] = Waiting("create", None, "reserving")]
  /\ UNCHANGED <<sessionVars, active, timer, resetChecks, commands, safetyFailed,
                 auditHealthy, emergencyLocked, operatorVars, deviceVars>>

CreateBegin(c) ==
  /\ flow[c] = Idle
  /\ confirmed /\ auditHealthy
  /\ active = None /\ ~Creating
  /\ flow' = [flow EXCEPT ![c] = Waiting("create", None, "reserving")]
  /\ UNCHANGED <<sessionVars, active, timer, resetChecks, commands, safetyFailed,
                 auditHealthy, emergencyLocked, operatorVars, deviceVars>>

\* A used research id, a lost reservation or a registry error.
CreateRejected(c) ==
  /\ flow[c].op = "create" /\ flow[c].stage = "reserving"
  /\ flow' = [flow EXCEPT ![c] = Idle]
  /\ UNCHANGED <<sessionVars, active, timer, resetChecks, commands, safetyFailed,
                 auditHealthy, emergencyLocked, operatorVars, deviceVars>>

CreateCommit(c, s) ==
  /\ flow[c].op = "create" /\ flow[c].stage = "reserving"
  /\ phase[s] = "unborn"
  /\ phase' = [phase EXCEPT ![s] = "setup"]
  /\ active' = s
  /\ flow' = [flow EXCEPT ![c] = Waiting("create", s, "auditing")]
  /\ UNCHANGED <<position, display, recovery, hasRemaining, timer, resetChecks, commands,
                 safetyFailed, auditHealthy, emergencyLocked, operatorVars, deviceVars>>

CreateAudited(c) ==
  /\ flow[c].op = "create" /\ flow[c].stage = "auditing"
  /\ emergencyLocked' = FALSE
  /\ flow' = [flow EXCEPT ![c] = Idle]
  /\ UNCHANGED <<sessionVars, active, timer, resetChecks, commands, safetyFailed,
                 auditHealthy, operatorVars, deviceVars>>

\* What the maps hold of a session is dropped.
Forget(s) ==
  /\ phase' = [phase EXCEPT ![s] = "deleted"]
  /\ position' = [position EXCEPT ![s] = 0]
  /\ display' = [display EXCEPT ![s] = FALSE]
  /\ recovery' = [recovery EXCEPT ![s] = FALSE]
  /\ hasRemaining' = [hasRemaining EXCEPT ![s] = FALSE]

CreateAuditFails(c) ==
  /\ flow[c].op = "create" /\ flow[c].stage = "auditing"
  /\ Forget(flow[c].session)
  /\ active' = None
  /\ auditHealthy' = FALSE
  /\ flow' = [flow EXCEPT ![c] = Idle]
  /\ UNCHANGED <<timer, resetChecks, commands, safetyFailed, emergencyLocked,
                 operatorVars, deviceVars>>

-----------------------------------------------------------------------------
(* Phase entries.                                                          *)

ShowsPuffer(s, i) == Order[s][i] = "puffer"

\* enterTimedPhase up to its first await: the transition, the timer, and the
\* device command of a puffer presentation.
EnterTimedPhase(s, p, i) ==
  /\ phase' = [phase EXCEPT ![s] = p]
  /\ position' = [position EXCEPT ![s] = i]
  /\ recovery' = [recovery EXCEPT ![s] = FALSE]
  /\ timer' = [session |-> s, phase |-> p]
  /\ IF p \in {"result", "reset"} /\ ShowsPuffer(s, i)
     THEN /\ commands' = commands \union {s}
          /\ puffer' \in IF p = "result" THEN AfterInflate ELSE AfterDeflate
     ELSE UNCHANGED <<commands, puffer>>

\* enterUntimedPhase up to its first await.
EnterUntimedPhase(s, p) ==
  /\ phase' = [phase EXCEPT ![s] = p]
  /\ recovery' = [recovery EXCEPT ![s] = FALSE]

\* enterTerminalPhase up to its first await.
EnterTerminalPhase(s, p) ==
  /\ phase' = [phase EXCEPT ![s] = p]
  /\ recovery' = [recovery EXCEPT ![s] = FALSE]

-----------------------------------------------------------------------------
(* Operator requests that drive a session.                                 *)

ConfirmOperatorSession ==
  /\ lease
  /\ confirmed' = TRUE
  /\ UNCHANGED <<sessionVars, active, timer, flow, resetChecks, commands, safetyFailed,
                 auditHealthy, emergencyLocked, lease, deviceVars>>

CanPrepare(s) == lease /\ confirmed /\ active = s /\ phase[s] = "setup" /\ display[s]

PrepareBegin(c, s) ==
  /\ flow[c] = Idle
  /\ CanPrepare(s)
  /\ flow' = [flow EXCEPT ![c] = Waiting("prepare", s, "queued")]
  /\ UNCHANGED <<sessionVars, active, timer, resetChecks, commands, safetyFailed,
                 auditHealthy, emergencyLocked, operatorVars, deviceVars>>

\* Mutant: the status query of a device test is not queued.
QueueHoldsInflate == \E c \in Callers : flow[c].stage = "inflating"

\* A device test holds the head of the device operation queue.
QueueBusy == \E c \in Callers : flow[c].stage \in {"checking", "inflating"}

\* The queued getStatus answers, every guard is read again, and only then
\* the introduction begins.
PrepareContinues(c) ==
  LET s == flow[c].session IN
  /\ flow[c].op = "prepare"
  /\ ~QueueBusy
  /\ CanPrepare(s)
  /\ SafelyDeflated
  /\ EnterUntimedPhase(s, "intro")
  /\ position' = [position EXCEPT ![s] = 0]
  /\ flow' = [flow EXCEPT ![c] = Idle]
  /\ UNCHANGED <<display, hasRemaining, active, timer, resetChecks, commands, safetyFailed,
                 auditHealthy, emergencyLocked, operatorVars, deviceVars>>

\* A guard fails the second time, the device is not ready, or its status
\* query rejects.
PrepareRejected(c) ==
  /\ flow[c].op = "prepare"
  /\ flow' = [flow EXCEPT ![c] = Idle]
  /\ UNCHANGED <<sessionVars, active, timer, resetChecks, commands, safetyFailed,
                 auditHealthy, emergencyLocked, operatorVars, deviceVars>>

Start(s) ==
  /\ lease /\ confirmed
  /\ active = s /\ phase[s] = "intro"
  /\ ~recovery[s] /\ display[s]
  /\ EnterTimedPhase(s, "handling", 1)
  /\ UNCHANGED <<display, hasRemaining, active, flow, resetChecks, safetyFailed,
                 auditHealthy, emergencyLocked, operatorVars, link>>

CanResume(s) == lease /\ active = s /\ recovery[s] /\ display[s] /\ phase[s] # "error"

\* Mutant: the saved time is not asked for.
ResumeUnsaved(s) ==
  /\ CanResume(s) /\ phase[s] \in Timed
  /\ recovery' = [recovery EXCEPT ![s] = FALSE]
  /\ hasRemaining' = [hasRemaining EXCEPT ![s] = FALSE]
  /\ timer' = [session |-> s, phase |-> phase[s]]
  /\ UNCHANGED <<phase, position, display, active, flow, resetChecks, commands, safetyFailed,
                 auditHealthy, emergencyLocked, operatorVars, deviceVars>>

\* Mutant: the timer is not armed again.
ResumeWithoutTimer(s) ==
  /\ CanResume(s) /\ phase[s] \in Timed /\ hasRemaining[s]
  /\ recovery' = [recovery EXCEPT ![s] = FALSE]
  /\ hasRemaining' = [hasRemaining EXCEPT ![s] = FALSE]
  /\ UNCHANGED <<phase, position, display, active, timer, flow, resetChecks, commands,
                 safetyFailed, auditHealthy, emergencyLocked, operatorVars, deviceVars>>

ResumeTimed(s) ==
  /\ CanResume(s) /\ phase[s] \in Timed
  /\ hasRemaining[s]
  /\ recovery' = [recovery EXCEPT ![s] = FALSE]
  /\ hasRemaining' = [hasRemaining EXCEPT ![s] = FALSE]
  /\ timer' = [session |-> s, phase |-> phase[s]]
  /\ UNCHANGED <<phase, position, display, active, flow, resetChecks, commands, safetyFailed,
                 auditHealthy, emergencyLocked, operatorVars, deviceVars>>

ResumeUntimed(s) ==
  /\ CanResume(s) /\ phase[s] \notin Timed
  /\ recovery' = [recovery EXCEPT ![s] = FALSE]
  /\ UNCHANGED <<phase, position, display, hasRemaining, active, timer, flow, resetChecks,
                 commands, safetyFailed, auditHealthy, emergencyLocked, operatorVars,
                 deviceVars>>

CanConfirm(s, p) ==
  lease /\ active = s /\ phase[s] = p /\ ~recovery[s] /\ display[s]

\* Mutant: the last presentation is followed by another one.
NextPresentationAlways(s) ==
  /\ CanConfirm(s, "response")
  /\ EnterTimedPhase(s, "handling", position[s] + 1)
  /\ UNCHANGED <<display, hasRemaining, active, flow, resetChecks, safetyFailed,
                 auditHealthy, emergencyLocked, operatorVars, link>>

\* confirmResponseCheckpoint before the last presentation ...
NextPresentation(s) ==
  /\ CanConfirm(s, "response") /\ position[s] < LastPosition
  /\ EnterTimedPhase(s, "handling", position[s] + 1)
  /\ UNCHANGED <<display, hasRemaining, active, flow, resetChecks, safetyFailed,
                 auditHealthy, emergencyLocked, operatorVars, link>>

\* ... and after it.
Summarize(s) ==
  /\ CanConfirm(s, "response") /\ position[s] = LastPosition
  /\ EnterUntimedPhase(s, "summary")
  /\ UNCHANGED <<position, display, hasRemaining, active, timer, flow, resetChecks, commands,
                 safetyFailed, auditHealthy, emergencyLocked, operatorVars, deviceVars>>

\* confirmStaffHandoff up to the audit of the completed session ...
HandoffBegin(c, s) ==
  /\ flow[c] = Idle
  /\ CanConfirm(s, "summary")
  /\ EnterTerminalPhase(s, "completed")
  /\ flow' = [flow EXCEPT ![c] = Waiting("handoff", s, "auditing")]
  /\ UNCHANGED <<position, display, hasRemaining, active, timer, resetChecks, commands,
                 safetyFailed, auditHealthy, emergencyLocked, operatorVars, deviceVars>>

\* ... and after it: the session is let go only with a healthy audit store.
HandoffEnds(c) ==
  /\ flow[c].op = "handoff"
  /\ \E stored \in BOOLEAN :
       /\ auditHealthy' = (auditHealthy /\ stored)
       /\ active' = IF auditHealthy' /\ active = flow[c].session THEN None ELSE active
       /\ confirmed' = (confirmed /\ ~auditHealthy')
  /\ flow' = [flow EXCEPT ![c] = Idle]
  /\ UNCHANGED <<sessionVars, timer, resetChecks, commands, safetyFailed, emergencyLocked,
                 lease, deviceVars>>

-----------------------------------------------------------------------------
(* The phase timer (schedulePhaseAdvance, advancePhase).                   *)

NextTimed == [handling |-> "processing", processing |-> "result", result |-> "reset"]

\* Mutant: the phase is not looked at again.
AdvancesStale(s, p) == active = s

\* The callback runs advancePhase, which ignores a session that left the
\* phase, waits for recovery or is not active.
Advances(s, p) == phase[s] = p /\ ~recovery[s] /\ active = s

TimerAdvances ==
  LET s == timer.session IN
  /\ timer # None
  /\ timer.phase # "reset" /\ Advances(s, timer.phase)
  /\ EnterTimedPhase(s, NextTimed[timer.phase], position[s])
  /\ UNCHANGED <<display, hasRemaining, active, flow, resetChecks, safetyFailed,
                 auditHealthy, emergencyLocked, operatorVars, link>>

\* The reset of a label is over; that of the puffer asks the device first.
TimerEndsReset ==
  LET s == timer.session IN
  /\ timer # None
  /\ timer.phase = "reset" /\ Advances(s, "reset")
  /\ timer' = None
  /\ IF ShowsPuffer(s, position[s])
     THEN /\ resetChecks' = resetChecks \union {s}
          /\ UNCHANGED <<phase, recovery>>
     ELSE /\ EnterUntimedPhase(s, "response")
          /\ UNCHANGED resetChecks
  /\ UNCHANGED <<position, display, hasRemaining, active, flow, commands, safetyFailed,
                 auditHealthy, emergencyLocked, operatorVars, deviceVars>>

\* A session that moved on is left alone; for one that is gone the handler
\* throws, which fails the active session.
TimerIgnored ==
  LET s == timer.session IN
  /\ timer # None
  /\ ~Advances(s, timer.phase)
  /\ timer' = None
  /\ IF Exists(s) \/ active = None
     THEN UNCHANGED <<recovery, flow, puffer>>
     ELSE Neutralise(active)
  /\ UNCHANGED <<phase, position, display, hasRemaining, active, resetChecks, commands,
                 safetyFailed, auditHealthy, emergencyLocked, operatorVars, link>>

\* advancePhase goes on with the device status: every guard is read again.
ResetChecked(s) ==
  /\ s \in resetChecks
  /\ resetChecks' = resetChecks \ {s}
  /\ link = "up"
  /\ IF ~Advances(s, "reset")
     THEN UNCHANGED phase /\ NoFailure
     ELSE IF SafelyDeflated
          THEN /\ EnterUntimedPhase(s, "response")
               /\ UNCHANGED <<timer, flow, puffer>>
          ELSE FailSession(s) /\ UNCHANGED phase
  /\ UNCHANGED <<position, display, hasRemaining, active, commands, safetyFailed,
                 auditHealthy, emergencyLocked, operatorVars, link>>

\* The status query rejects: a lost link, a timeout, or a STOP.
ResetCheckRejected(s) ==
  /\ s \in resetChecks
  /\ resetChecks' = resetChecks \ {s}
  /\ FailActive
  /\ UNCHANGED <<phase, position, display, hasRemaining, active, commands, safetyFailed,
                 auditHealthy, emergencyLocked, operatorVars, link>>

-----------------------------------------------------------------------------
(* STOP, DEFLATE and the confirmation of the flat device                   *)
(* (safeStopAndDeflate), the same steps for every flow that runs it.       *)

InSafety(f) == flow[f].stage \in SafetyStages
ToStage(f, stage) == flow' = [flow EXCEPT ![f].stage = stage]
ToReport(f) == flow' = [flow EXCEPT ![f].stage = "report", ![f].failed = TRUE]

\* STOP settles either way; DEFLATE is written whatever came of it.
StopSettles(f) ==
  /\ flow[f].stage = "stop"
  /\ \E acked \in {b \in BOOLEAN : b => link = "up"} :
       flow' = [flow EXCEPT ![f].stage = "deflate", ![f].failed = ~acked]
  /\ puffer' \in AfterDeflate
  /\ UNCHANGED <<sessionVars, active, timer, resetChecks, commands, safetyFailed,
                 auditHealthy, emergencyLocked, operatorVars, link>>

DeflateSettles(f) ==
  /\ flow[f].stage = "deflate"
  /\ \/ link = "up" /\ ToStage(f, "confirm")
     \/ ToReport(f)
  /\ UNCHANGED <<sessionVars, active, timer, resetChecks, commands, safetyFailed,
                 auditHealthy, emergencyLocked, operatorVars, deviceVars>>

\* waitForConfirmedDeflatedStatus polls until the device is flat, faults or
\* the deadline passes.
DeflationConfirmed(f) ==
  /\ flow[f].stage = "confirm"
  /\ SafelyDeflated
  /\ ToStage(f, "record")
  /\ UNCHANGED <<sessionVars, active, timer, resetChecks, commands, safetyFailed,
                 auditHealthy, emergencyLocked, operatorVars, deviceVars>>

\* Mutant: the device is polled without a deadline.
DeflationAwaited(f) ==
  /\ flow[f].stage = "confirm" /\ link # "up"
  /\ ToReport(f)
  /\ UNCHANGED <<sessionVars, active, timer, resetChecks, commands, safetyFailed,
                 auditHealthy, emergencyLocked, operatorVars, deviceVars>>

DeflationUnconfirmed(f) ==
  /\ flow[f].stage = "confirm"
  /\ ToReport(f)
  /\ UNCHANGED <<sessionVars, active, timer, resetChecks, commands, safetyFailed,
                 auditHealthy, emergencyLocked, operatorVars, deviceVars>>

\* The strict audit of the confirmed deflation fails, or succeeds after a
\* STOP that was not acknowledged.  It is written to the active session.
DeflationReported(f) ==
  /\ flow[f].stage = "record"
  /\ \E stored \in {b \in BOOLEAN : IF b THEN flow[f].failed ELSE active # None} :
       auditHealthy' = (auditHealthy /\ stored)
  /\ ToReport(f)
  /\ UNCHANGED <<sessionVars, active, timer, resetChecks, commands, safetyFailed,
                 emergencyLocked, operatorVars, deviceVars>>

\* What safeStopAndDeflate leaves behind when it returns: lastSafetyFailure,
\* null also for a device that was disconnected on purpose while flat, and
\* the outcome of auditing a failure.
SafetyResult(f) ==
  /\ \/ flow[f].stage = "report"
     \/ flow[f].stage = "record" /\ ~flow[f].failed
  /\ safetyFailed' = (flow[f].failed /\ link # "closed")
  /\ auditHealthy' \in {auditHealthy, auditHealthy /\ (~flow[f].failed \/ active = None)}

\* performFailSession after the safety sequence: the error transition ...
FailureRecorded ==
  LET s == flow[FailureTask].session IN
  /\ SafetyResult(FailureTask)
  /\ phase[s] \notin Terminal
  /\ phase' = [phase EXCEPT ![s] = "error"]
  /\ recovery' = [recovery EXCEPT ![s] = FALSE]
  /\ ToStage(FailureTask, "auditing")
  /\ UNCHANGED <<position, display, hasRemaining, active, timer, resetChecks, commands,
                 emergencyLocked, operatorVars, deviceVars>>

\* ... which throws for a session that ended meanwhile, in whoever joined
\* the task as well ...
FailureThrows ==
  /\ SafetyResult(FailureTask)
  /\ phase[flow[FailureTask].session] \in Terminal
  /\ flow' = [f \in Flows |->
                IF f = FailureTask \/ flow[f].stage = "join" THEN Idle ELSE flow[f]]
  /\ UNCHANGED <<sessionVars, active, timer, resetChecks, commands, emergencyLocked,
                 operatorVars, deviceVars>>

\* ... and its audit, a failure of which is only logged.
FailureEnds ==
  /\ flow[FailureTask].stage = "auditing"
  /\ auditHealthy' \in {auditHealthy, FALSE}
  /\ flow' = [flow EXCEPT ![FailureTask] = Idle]
  /\ UNCHANGED <<sessionVars, active, timer, resetChecks, commands, safetyFailed,
                 emergencyLocked, operatorVars, deviceVars>>

-----------------------------------------------------------------------------
(* Aborting, stopping and deleting.                                        *)

\* abort: joins a failure in flight, or ends the session at once and makes
\* the device safe.
AbortNow(f, s) ==
  /\ phase[s] \notin Terminal
  /\ timer' = None
  /\ EnterTerminalPhase(s, "aborted")
  /\ BeginSafety(f, "abort", s)

AbortBegin(c, s) ==
  /\ flow[c] = Idle
  /\ Exists(s)
  /\ \/ /\ Failing
        /\ flow' = [flow EXCEPT ![c] = Waiting("abort", s, "join")]
        /\ UNCHANGED <<phase, recovery, timer, puffer>>
     \/ /\ ~Failing /\ active = s
        /\ AbortNow(c, s)
  /\ UNCHANGED <<position, display, hasRemaining, active, resetChecks, commands,
                 safetyFailed, auditHealthy, emergencyLocked, operatorVars, link>>

\* The joined failure is over: the session is in error, unless it went on.
AbortJoined(c) ==
  LET s == flow[c].session IN
  /\ flow[c].op = "abort" /\ flow[c].stage = "join" /\ ~Failing
  /\ \/ /\ active = s /\ phase[s] = "error"
        /\ EnterTerminalPhase(s, "aborted")
        /\ ToStage(c, "finish")
        /\ UNCHANGED <<timer, puffer>>
     \/ /\ active = s /\ phase[s] # "error"
        /\ AbortNow(c, s)
     \/ /\ active # s \/ phase[s] \in Terminal
        /\ flow' = [flow EXCEPT ![c] = Idle]
        /\ UNCHANGED <<phase, recovery, timer, puffer>>
  /\ UNCHANGED <<position, display, hasRemaining, active, resetChecks, commands,
                 safetyFailed, auditHealthy, emergencyLocked, operatorVars, link>>

\* Mutant: only a timed phase is aborted.
EmergencyInTimedPhase(c, s) ==
  /\ flow[c] = Idle /\ ~Failing
  /\ phase[s] # "unborn"
  /\ timer' = None
  /\ emergencyLocked' = TRUE
  /\ BeginSafety(c, "emergency", s)
  /\ IF active = s /\ phase[s] \in Timed
     THEN EnterTerminalPhase(s, "aborted")
     ELSE UNCHANGED <<phase, recovery>>
  /\ UNCHANGED <<position, display, hasRemaining, active, resetChecks, commands,
                 safetyFailed, auditHealthy, operatorVars, link>>

\* emergencyStop: cancels the timer, locks the device and begins STOP first,
\* whatever session the request names, a deleted one included.
EmergencyBegin(c, s) ==
  /\ flow[c] = Idle
  /\ phase[s] # "unborn"
  /\ timer' = None
  /\ emergencyLocked' = TRUE
  /\ IF Failing
     THEN /\ flow' = [flow EXCEPT ![c] = Waiting("emergency", s, "join")]
          /\ UNCHANGED <<phase, recovery, puffer>>
     ELSE /\ BeginSafety(c, "emergency", s)
          /\ IF active = s /\ phase[s] \notin Terminal
             THEN EnterTerminalPhase(s, "aborted")
             ELSE UNCHANGED <<phase, recovery>>
  /\ UNCHANGED <<position, display, hasRemaining, active, resetChecks, commands,
                 safetyFailed, auditHealthy, operatorVars, link>>

EmergencyJoined(c) ==
  LET s == flow[c].session IN
  /\ flow[c].op = "emergency" /\ flow[c].stage = "join" /\ ~Failing
  /\ IF active = s /\ phase[s] = "error"
     THEN EnterTerminalPhase(s, "aborted")
     ELSE UNCHANGED <<phase, recovery>>
  /\ ToStage(c, "finish")
  /\ UNCHANGED <<position, display, hasRemaining, active, timer, resetChecks, commands,
                 safetyFailed, auditHealthy, emergencyLocked, operatorVars, deviceVars>>

\* The end of abort and emergencyStop: the active session is let go only if
\* the device is known to be safe and the audit store healthy.  Only the
\* abort that joined no failure keeps the operator's confirmation.
LetGo(c) ==
  LET s == flow[c].session
      released == ~safetyFailed' /\ auditHealthy' /\ active = s /\ phase[s] \in Terminal
  IN
  /\ active' = IF released THEN None ELSE active
  /\ confirmed' = (confirmed /\ (~released \/ (flow[c].op = "abort" /\ InSafety(c))))
  /\ flow' = [flow EXCEPT ![c] = Idle]

StopReturns(c) ==
  /\ flow[c].op \in {"abort", "emergency"}
  /\ SafetyResult(c)
  /\ LetGo(c)
  /\ UNCHANGED <<sessionVars, timer, resetChecks, commands, emergencyLocked, lease,
                 deviceVars>>

\* The terminal audit of a joined abort or stop settles.
JoinedStopReturns(c) ==
  /\ flow[c].op \in {"abort", "emergency"} /\ flow[c].stage = "finish"
  /\ auditHealthy' \in {auditHealthy, auditHealthy /\ phase[flow[c].session] # "aborted"}
  /\ UNCHANGED safetyFailed
  /\ LetGo(c)
  /\ UNCHANGED <<sessionVars, timer, resetChecks, commands, emergencyLocked, lease,
                 deviceVars>>

\* delete: an active session in setup is made safe first.
DeleteBegin(c, s) ==
  /\ flow[c] = Idle
  /\ Exists(s) /\ phase[s] # "error"
  /\ active = s => phase[s] = "setup"
  /\ IF active = s
     THEN timer' = None /\ BeginSafety(c, "delete", s)
     ELSE /\ flow' = [flow EXCEPT ![c] = Waiting("delete", s, "auditing")]
          /\ UNCHANGED <<timer, puffer>>
  /\ UNCHANGED <<sessionVars, active, resetChecks, commands, safetyFailed, auditHealthy,
                 emergencyLocked, operatorVars, link>>

\* After the safety sequence the session is looked up again and refused only
\* if it is in error.
DeleteContinues(c) ==
  LET s == flow[c].session
      refused == safetyFailed' \/ ~Exists(s) \/ phase[s] = "error"
  IN
  /\ flow[c].op = "delete"
  /\ SafetyResult(c)
  /\ active' = IF refused THEN active ELSE None
  /\ flow' = [flow EXCEPT ![c] = IF refused THEN Idle ELSE Waiting("delete", s, "auditing")]
  /\ UNCHANGED <<sessionVars, timer, resetChecks, commands, emergencyLocked, operatorVars,
                 deviceVars>>

DeleteAudited(c) ==
  /\ flow[c].op = "delete" /\ flow[c].stage = "auditing"
  /\ Forget(flow[c].session)
  /\ confirmed' = FALSE
  /\ flow' = [flow EXCEPT ![c] = Idle]
  /\ UNCHANGED <<active, timer, resetChecks, commands, safetyFailed, auditHealthy,
                 emergencyLocked, lease, deviceVars>>

DeleteAuditFails(c) ==
  /\ flow[c].op = "delete" /\ flow[c].stage = "auditing"
  /\ auditHealthy' = FALSE
  /\ flow' = [flow EXCEPT ![c] = Idle]
  /\ UNCHANGED <<sessionVars, active, timer, resetChecks, commands, safetyFailed,
                 emergencyLocked, operatorVars, deviceVars>>

-----------------------------------------------------------------------------
(* The participant display and the operator lease.                         *)

\* What happens to the display of a session that is over is left out.
Watched(s) == phase[s] \notin Over \union Missing

\* markDisplayReady.
DisplayReady(s) ==
  /\ Watched(s) /\ ~display[s]
  /\ display' = [display EXCEPT ![s] = TRUE]
  /\ UNCHANGED <<phase, position, recovery, hasRemaining, active, timer, flow, resetChecks,
                 commands, safetyFailed, auditHealthy, emergencyLocked, operatorVars,
                 deviceVars>>

\* markDisplayDisconnected.  The remaining time is read off the end of the
\* phase, which is null, and so leaves nothing, while recovery is required.
DisplayLost(s) ==
  /\ Watched(s) /\ display[s]
  /\ display' = [display EXCEPT ![s] = FALSE]
  /\ IF active = s /\ phase[s] \in {"result", "reset"}
     THEN FailSession(s) /\ UNCHANGED hasRemaining
     ELSE /\ IF active = s /\ phase[s] \in Timed
             THEN /\ \E remaining \in BOOLEAN :
                       hasRemaining' = [hasRemaining EXCEPT ![s] = remaining /\ ~recovery[s]]
                  /\ timer' = None
             ELSE UNCHANGED <<hasRemaining, timer>>
          /\ recovery' = [recovery EXCEPT ![s] = @ \/ (active = s /\ phase[s] \in Running)]
          /\ UNCHANGED <<flow, puffer>>
  /\ UNCHANGED <<phase, position, active, resetChecks, commands, safetyFailed, auditHealthy,
                 emergencyLocked, operatorVars, link>>

LeaseGranted ==
  /\ ~lease
  /\ lease' = TRUE
  /\ UNCHANGED <<sessionVars, active, timer, flow, resetChecks, commands, safetyFailed,
                 auditHealthy, emergencyLocked, confirmed, deviceVars>>

\* markOperatorDisconnected: the last confirmed lease is gone.
LeaseLost ==
  /\ lease
  /\ lease' = FALSE
  /\ confirmed' = FALSE
  /\ IF ActiveIs(Running) THEN FailSession(active) ELSE NoFailure
  /\ UNCHANGED <<phase, position, display, hasRemaining, active, resetChecks, commands,
                 safetyFailed, auditHealthy, emergencyLocked, link>>

-----------------------------------------------------------------------------
(* The device: its reports, its tests in setup, the STOP button.           *)

DeviceDeflates ==
  /\ puffer = "deflating"
  /\ puffer' = "flat"
  /\ UNCHANGED <<sessionVars, active, timer, flow, resetChecks, commands, safetyFailed,
                 auditHealthy, emergencyLocked, operatorVars, link>>

\* handleDeviceStatus for a fault or a lost connection.
DeviceReports(report) ==
  /\ link = "up"
  /\ link' = IF report = "disconnected" THEN "lost" ELSE link
  /\ IF ActiveIs(Running) THEN FailSession(active) ELSE NoFailure
  /\ UNCHANGED <<phase, position, display, hasRemaining, active, resetChecks, commands,
                 safetyFailed, auditHealthy, emergencyLocked, operatorVars>>

\* The command of a phase is acknowledged, or its promise rejects, however
\* late; the session that issued it fails unless it is over.
CommandSettles(s) ==
  /\ s \in commands
  /\ commands' = commands \ {s}
  /\ \/ NoFailure
     \/ IF active = s THEN FailSession(s) ELSE NoFailure
  /\ UNCHANGED <<phase, position, display, hasRemaining, active, resetChecks, safetyFailed,
                 auditHealthy, emergencyLocked, operatorVars, link>>

\* An audit in the background cannot be stored: every report, acknowledgement,
\* connection and phase writes one.
AuditFails ==
  /\ "audit" \in Mishaps
  /\ \E s \in Sessions : Exists(s)
  /\ auditHealthy' = FALSE
  /\ FailActive
  /\ UNCHANGED <<phase, position, display, hasRemaining, active, resetChecks, commands,
                 safetyFailed, emergencyLocked, operatorVars, link>>

\* requireDeviceTestAllowed; connecting and deflating pass a locked device.
DeviceTestAllowed == active # None => phase[active] = "setup"

ConnectDevice ==
  /\ DeviceTestAllowed /\ ~QueueBusy
  /\ link # "up"
  /\ link' = "up"
  /\ UNCHANGED <<sessionVars, active, timer, flow, resetChecks, commands, safetyFailed,
                 auditHealthy, emergencyLocked, operatorVars, puffer>>

\* disconnectDevice: the driver stops and deflates before it closes.
DisconnectDevice ==
  /\ DeviceTestAllowed /\ ~emergencyLocked /\ ~QueueBusy
  /\ link = "up" /\ puffer = "flat"
  /\ link' = "closed"
  /\ UNCHANGED <<sessionVars, active, timer, flow, resetChecks, commands, safetyFailed,
                 auditHealthy, emergencyLocked, operatorVars, puffer>>

TestDeflate ==
  /\ DeviceTestAllowed /\ ~QueueBusy
  /\ puffer' \in AfterDeflate
  /\ UNCHANGED <<sessionVars, active, timer, flow, resetChecks, commands, safetyFailed,
                 auditHealthy, emergencyLocked, operatorVars, link>>

\* testInflate: allowed when it is requested and again when its turn comes ...
TestBegin(c) ==
  /\ flow[c] = Idle
  /\ DeviceTestAllowed /\ ~emergencyLocked
  /\ flow' = [flow EXCEPT ![c] = Waiting("test", None, "queued")]
  /\ UNCHANGED <<sessionVars, active, timer, resetChecks, commands, safetyFailed,
                 auditHealthy, emergencyLocked, operatorVars, deviceVars>>

TestChecks(c) ==
  /\ flow[c].op = "test" /\ flow[c].stage = "queued"
  /\ ~QueueBusy
  /\ flow' = [flow EXCEPT ![c] =
                IF DeviceTestAllowed /\ ~emergencyLocked
                THEN Waiting("test", None, "checking") ELSE Idle]
  /\ UNCHANGED <<sessionVars, active, timer, resetChecks, commands, safetyFailed,
                 auditHealthy, emergencyLocked, operatorVars, deviceVars>>

\* ... but not between the device status and INFLATE.
TestInflates(c) ==
  /\ flow[c].stage = "checking"
  /\ IF SafelyDeflated
     THEN ToStage(c, "inflating") /\ puffer' \in AfterInflate
     ELSE flow' = [flow EXCEPT ![c] = Idle] /\ UNCHANGED puffer
  /\ UNCHANGED <<sessionVars, active, timer, resetChecks, commands, safetyFailed,
                 auditHealthy, emergencyLocked, operatorVars, link>>

TestEnds(c) ==
  /\ flow[c].stage = "inflating"
  /\ flow' = [flow EXCEPT ![c] = Idle]
  /\ UNCHANGED <<sessionVars, active, timer, resetChecks, commands, safetyFailed,
                 auditHealthy, emergencyLocked, operatorVars, deviceVars>>

\* stopDevice outside a run is a bare STOP; in a run it is emergencyStop.
StopDevice ==
  /\ ~ActiveIs(Running \union {"error"})
  /\ puffer' \in AfterStop
  /\ flow' = StopPending
  /\ UNCHANGED <<sessionVars, active, timer, resetChecks, commands, safetyFailed,
                 auditHealthy, emergencyLocked, operatorVars, link>>

-----------------------------------------------------------------------------
(* The next-state relation.                                                *)

CallerRequests(c) ==
  \/ CreateBegin(c)
  \/ TestBegin(c)
  \/ \E s \in Sessions :
       \/ PrepareBegin(c, s)
       \/ HandoffBegin(c, s)
       \/ AbortBegin(c, s)
       \/ EmergencyBegin(c, s)
       \/ DeleteBegin(c, s)

\* What a pending request waits for arrives.
CallerContinues(c) ==
  \/ CreateRejected(c)
  \/ \E s \in Sessions : CreateCommit(c, s)
  \/ CreateAudited(c) \/ CreateAuditFails(c)
  \/ PrepareContinues(c) \/ PrepareRejected(c)
  \/ HandoffEnds(c)
  \/ AbortJoined(c) \/ EmergencyJoined(c)
  \/ StopReturns(c) \/ JoinedStopReturns(c)
  \/ DeleteContinues(c) \/ DeleteAudited(c) \/ DeleteAuditFails(c)
  \/ TestChecks(c) \/ TestInflates(c) \/ TestEnds(c)

SafetyContinues(f) ==
  \/ StopSettles(f) \/ DeflateSettles(f)
  \/ DeflationConfirmed(f) \/ DeflationUnconfirmed(f) \/ DeflationReported(f)

FailureContinues == FailureRecorded \/ FailureThrows \/ FailureEnds

TimerDue == TimerAdvances \/ TimerEndsReset \/ TimerIgnored

ResetCheckSettles(s) == ResetChecked(s) \/ ResetCheckRejected(s)

Environment ==
  \/ ConfirmOperatorSession
  \/ LeaseGranted \/ LeaseLost
  \/ DeviceDeflates
  \/ \E report \in Mishaps \ {"audit"} : DeviceReports(report)
  \/ AuditFails
  \/ ConnectDevice \/ DisconnectDevice \/ TestDeflate \/ StopDevice
  \/ \E s \in Sessions :
       \/ Start(s) \/ ResumeTimed(s) \/ ResumeUntimed(s)
       \/ NextPresentation(s) \/ Summarize(s)
       \/ DisplayReady(s) \/ DisplayLost(s)

Next ==
  \/ Environment
  \/ TimerDue
  \/ FailureContinues
  \/ \E s \in Sessions : ResetCheckSettles(s) \/ CommandSettles(s)
  \/ \E f \in Flows : SafetyContinues(f)
  \/ \E c \in Callers : CallerRequests(c) \/ CallerContinues(c)

Spec == Init /\ [][Next]_vars

(***************************************************************************)
(* Timers fire, driver calls settle within their acknowledgement timeout,  *)
(* writes complete.  Operators, displays and the device owe nothing.       *)
(***************************************************************************)
Fairness ==
  /\ WF_vars(TimerDue)
  /\ WF_vars(FailureContinues)
  /\ \A s \in Sessions : WF_vars(ResetCheckSettles(s))
  /\ \A f \in Flows : WF_vars(SafetyContinues(f))
  /\ \A c \in Callers : WF_vars(CallerContinues(c))

FairSpec == Spec /\ Fairness

-----------------------------------------------------------------------------
(* Safety.                                                                 *)

\* A running participant is in front of a device that is not flat only while
\* a puffer presentation shows its result or its reset: enterTimedPhase and
\* testInflate never leave an inflated device to an introduction, a label, a
\* response or a summary.
PufferOnlyInPufferPresentation ==
  ActiveIs(Running) /\ puffer # "flat" =>
    phase[active] \in {"result", "reset"} /\ ShowsPuffer(active, position[active])

\* No device test that has passed its guards is still waiting for the device
\* status, or inflating, when a run is on: prepare queues behind it.
NoDeviceTestDuringRun ==
  \A c \in Callers : flow[c].stage \in {"checking", "inflating"} => ~ActiveIs(Running)

\* Once abort or emergencyStop has confirmed that the device of its own
\* active session is flat, nothing inflates it before that request lets the
\* session go, neither a late device test nor a phase timer.
ConfirmedStopHolds ==
  \A c \in Callers :
    /\ flow[c].op \in {"abort", "emergency"} /\ flow[c].stage = "record"
    /\ active # None /\ active = flow[c].session
    => puffer = "flat" /\ phase[active] \in Terminal

\* Two participants are never run at the same time.
OneRunAtATime ==
  \A s, t \in Sessions : phase[s] \in Running /\ phase[t] \in Running => s = t

\* A run without a confirmed operator lease is being made safe.
LeaseSupervised == ActiveIs(Running) /\ ~lease => Failing

FailureOf(s) == Failing /\ flow[FailureTask].session = s

\* A run that is brought to a halt in result or reset, the phases that show
\* the stimulus, stays halted until it ends: whatever operators, displays and
\* timers do while STOP and DEFLATE are under way, resume included, it does
\* not go on and leaves its phase only for error, aborted or deleted.
StimulusFailureIsFinal ==
  [][\A s \in Sessions :
       FailureOf(s) /\ recovery[s] /\ phase[s] \in {"result", "reset"} =>
         \/ phase'[s] = phase[s] /\ recovery'[s]
         \/ phase'[s] \in {"error", "aborted", "deleted"}]_vars

\* The timer of the phase on show stops only because the phase is left,
\* waits for recovery or for the device, or the operator stopped the device.
TimerStopsForCause ==
  [][/\ ActiveIs(Timed) /\ ~recovery[active]
     /\ timer = [session |-> active, phase |-> phase[active]]
     /\ timer' # timer
     => \/ phase'[active] # phase[active] \/ recovery'[active]
        \/ active \in resetChecks' \/ emergencyLocked']_vars

-----------------------------------------------------------------------------
(* The protocol the participant is promised.                               *)

Shown(s) ==
  CASE phase[s] \in {"unborn", "setup"} -> "waiting"
    [] phase[s] \in Running \union {"completed"} -> phase[s]
    [] OTHER -> "ended"

Protocol == INSTANCE ExperimentProtocol WITH
  shown <- [s \in Sessions |-> Shown(s)],
  position <- [s \in Sessions |-> IF Shown(s) = "ended" THEN 0 ELSE position[s]]

\* The controller, with all its concurrent requests, timers and failures,
\* shows every participant a run of the protocol.
ImplementsProtocol == Protocol!Spec

-----------------------------------------------------------------------------
(* Liveness, for FairSpec.                                                 *)

Runs(s) == active = s /\ phase[s] \in Running

\* A run whose last operator lease is lost ends, even if a lease comes back.
LostLeaseEndsRun == \A s \in Sessions : Runs(s) /\ ~lease ~> ~Runs(s)

\* A timed phase does not last for ever: it leads to the response, the end of
\* the run, or a wait for the operator.
TimedPhaseEnds ==
  \A s \in Sessions :
    Runs(s) /\ phase[s] \in Timed ~>
      ~(Runs(s) /\ phase[s] \in Timed) \/ recovery[s] \/ emergencyLocked

\* After an emergency stop no run goes on.
EmergencyStopEndsRun == \A s \in Sessions : emergencyLocked /\ Runs(s) ~> ~Runs(s)

-----------------------------------------------------------------------------
(* What the documents say and the code does not keep.                      *)

\* The time saved when the display was lost is there until the operator
\* resumes, or the phase is left.
SavedTimeKept ==
  [][\A s \in Sessions :
       recovery[s] /\ hasRemaining[s] /\ recovery'[s] /\ phase'[s] = phase[s] =>
         hasRemaining'[s]]_vars

\* A run whose failure handling has begun is never recorded as completed.
FailedRunNeverCompletes ==
  [][\A s \in Sessions : FailureOf(s) => phase'[s] # "completed"]_vars

=============================================================================
