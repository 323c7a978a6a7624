---------------------- MODULE SessionControllerProofs ----------------------
(***************************************************************************)
(* What the controller promises of every session, for every set of         *)
(* sessions and callers and every presentation order. TypeOK is inductive  *)
(* by itself; its proof has a lemma for each helper and one for each group *)
(* of actions. The refinement of ExperimentProtocol rests on a summary of  *)
(* what any step does to the phases (PhaseMoves) and on PositionInv.       *)
(* TimerStopsForCause is settled step by step, in TimerCalm.               *)
(* StimulusFailureIsFinal needs that a run halted while it shows the       *)
(* stimulus has no time saved to go on with (SavedInv).                    *)
(***************************************************************************)
EXTENDS SessionController, TLAPS

FlowOK == flow \in [Flows -> FlowType]
PufferOK == puffer \in {"flat", "inflated", "deflating"}
TimerOK == timer \in [session : Sessions, phase : Timed] \union {None}

-----------------------------------------------------------------------------
(* What the helpers do to the type of what they change.                    *)

LEMMA IdleTyped == Idle \in FlowType
  BY DEF Idle, FlowType, Ops, Stages

LEMMA WaitingTyped ==
  ASSUME NEW op \in Ops, NEW s \in Sessions \union {None}, NEW stage \in Stages
  PROVE  Waiting(op, s, stage) \in FlowType
  BY DEF Waiting, FlowType

LEMMA SomeStages ==
  {"stop", "deflate", "confirm", "record", "report", "reserving", "auditing", "queued",
   "checking", "inflating", "join", "finish"} \subseteq Stages
  BY DEF Stages, SafetyStages

LEMMA StageTyped ==
  ASSUME FlowOK, NEW f \in Flows, NEW stage \in Stages
  PROVE  [flow EXCEPT ![f].stage = stage] \in [Flows -> FlowType]
  <1>1. [flow[f] EXCEPT !.stage = stage] \in FlowType
    BY DEF FlowOK, FlowType
  <1> QED BY <1>1 DEF FlowOK

LEMMA ReportTyped ==
  ASSUME FlowOK, NEW f \in Flows, NEW stage \in Stages, NEW failed \in BOOLEAN
  PROVE  [flow EXCEPT ![f].stage = stage, ![f].failed = failed] \in [Flows -> FlowType]
  <1>1. [flow[f] EXCEPT !.stage = stage, !.failed = failed] \in FlowType
    BY DEF FlowOK, FlowType
  <1> QED BY <1>1 DEF FlowOK

LEMMA IdledTyped ==
  ASSUME FlowOK, NEW f \in Flows
  PROVE  [flow EXCEPT ![f] = Idle] \in [Flows -> FlowType]
  BY IdleTyped DEF FlowOK

LEMMA BegunTyped ==
  ASSUME FlowOK, NEW f \in Flows,
         NEW op \in Ops, NEW s \in Sessions \union {None}, NEW stage \in Stages
  PROVE  [flow EXCEPT ![f] = Waiting(op, s, stage)] \in [Flows -> FlowType]
  BY WaitingTyped DEF FlowOK

LEMMA StopPendingTyped ==
  ASSUME FlowOK PROVE StopPending \in [Flows -> FlowType]
  BY IdleTyped DEF FlowOK, StopPending

LEMMA BeginSafetyTyped ==
  ASSUME FlowOK, PufferOK, NEW f \in Flows, NEW op \in Ops, NEW s \in Sessions,
         BeginSafety(f, op, s)
  PROVE  FlowOK' /\ PufferOK'
  <1>1. Waiting(op, s, "stop") \in FlowType
    BY WaitingTyped, SomeStages
  <1>2. FlowOK'
    BY <1>1, StopPendingTyped DEF BeginSafety, FlowOK
  <1>3. PufferOK'
    BY DEF BeginSafety, AfterStop, Reachable, PufferOK
  <1> QED BY <1>2, <1>3

LEMMA NeutraliseTyped ==
  ASSUME TypeOK, NEW s \in Sessions, Neutralise(s)
  PROVE  FlowOK' /\ PufferOK' /\ recovery' \in [Sessions -> BOOLEAN]
  BY BeginSafetyTyped DEF Neutralise, TypeOK, FlowOK, PufferOK, Ops, Flows

LEMMA FailSessionTyped ==
  ASSUME TypeOK, NEW s \in Sessions, FailSession(s)
  PROVE  FlowOK' /\ PufferOK' /\ TimerOK' /\ recovery' \in [Sessions -> BOOLEAN]
  BY NeutraliseTyped DEF FailSession, TypeOK, TimerOK

LEMMA FailActiveTyped ==
  ASSUME TypeOK, FailActive \/ NoFailure
  PROVE  FlowOK' /\ PufferOK' /\ TimerOK' /\ recovery' \in [Sessions -> BOOLEAN]
  BY FailSessionTyped DEF FailActive, NoFailure, TypeOK, FlowOK, PufferOK, TimerOK

LEMMA EnterTimedPhaseTyped ==
  ASSUME TypeOK, NEW s \in Sessions, NEW p \in Timed, NEW i \in 0 .. LastPosition,
         EnterTimedPhase(s, p, i)
  PROVE  /\ phase' \in [Sessions -> Phases]
         /\ position' \in [Sessions -> 0 .. LastPosition]
         /\ recovery' \in [Sessions -> BOOLEAN]
         /\ TimerOK'
         /\ commands' \in SUBSET Sessions
         /\ PufferOK'
  <1>1. p \in Phases
    BY DEF Phases, Running
  <1>2. commands' \in SUBSET Sessions /\ PufferOK'
    BY DEF EnterTimedPhase, TypeOK, PufferOK, AfterInflate, AfterDeflate, Reachable
  <1> QED BY <1>1, <1>2 DEF EnterTimedPhase, TypeOK, TimerOK

LEMMA EnteredTyped ==
  ASSUME TypeOK, NEW s,
         \/ \E p \in {"intro", "response", "summary"} : EnterUntimedPhase(s, p)
         \/ \E p \in {"completed", "aborted"} : EnterTerminalPhase(s, p)
  PROVE  phase' \in [Sessions -> Phases] /\ recovery' \in [Sessions -> BOOLEAN]
  <1>1. PICK p \in {"intro", "response", "summary", "completed", "aborted"} :
          EnterUntimedPhase(s, p)
    BY DEF EnterUntimedPhase, EnterTerminalPhase
  <1>2. p \in Phases
    BY DEF Phases, Running, Over, Terminal
  <1> QED BY <1>1, <1>2 DEF EnterUntimedPhase, TypeOK

LEMMA ForgetTyped ==
  ASSUME TypeOK, NEW s, Forget(s)
  PROVE  /\ phase' \in [Sessions -> Phases]
         /\ position' \in [Sessions -> 0 .. LastPosition]
         /\ display' \in [Sessions -> BOOLEAN]
         /\ recovery' \in [Sessions -> BOOLEAN]
         /\ hasRemaining' \in [Sessions -> BOOLEAN]
  <1>1. "deleted" \in Phases /\ 0 \in 0 .. LastPosition
    BY PositionAssumption DEF Phases, Missing
  <1> QED BY <1>1 DEF Forget, TypeOK

-----------------------------------------------------------------------------
(* Every step keeps the types.                                             *)

LEMMA TypeTimer == ASSUME TypeOK, TimerDue PROVE TypeOK'
  <1>1. CASE TimerAdvances
    <2>1. timer.session \in Sessions /\ NextTimed[timer.phase] \in Timed
      BY <1>1 DEF TimerAdvances, TypeOK, Timed, NextTimed
    <2>2. position[timer.session] \in 0 .. LastPosition
      BY <2>1 DEF TypeOK
    <2>3. EnterTimedPhase(timer.session, NextTimed[timer.phase], position[timer.session])
      BY <1>1 DEF TimerAdvances
    <2> QED
      BY <1>1, <2>1, <2>2, <2>3, EnterTimedPhaseTyped
      DEF TimerAdvances, TypeOK, TimerOK, PufferOK, operatorVars
  <1>2. CASE TimerEndsReset
    <2>1. phase' \in [Sessions -> Phases] /\ recovery' \in [Sessions -> BOOLEAN]
      <3>1. CASE UNCHANGED <<phase, recovery>>
        BY <3>1 DEF TypeOK
      <3>2. CASE EnterUntimedPhase(timer.session, "response")
        BY <3>2, EnteredTyped
      <3> QED BY <1>2, <3>1, <3>2 DEF TimerEndsReset
    <2>2. resetChecks' \in SUBSET Sessions /\ timer' = None
      BY <1>2 DEF TimerEndsReset, TypeOK
    <2> QED BY <1>2, <2>1, <2>2 DEF TimerEndsReset, TypeOK, operatorVars, deviceVars
  <1>3. CASE TimerIgnored
    <2>1. FlowOK' /\ PufferOK' /\ recovery' \in [Sessions -> BOOLEAN]
      <3>1. CASE UNCHANGED <<recovery, flow, puffer>>
        BY <3>1 DEF TypeOK, FlowOK, PufferOK
      <3>2. CASE active # None /\ Neutralise(active)
        BY <3>2, NeutraliseTyped DEF TypeOK
      <3> QED BY <1>3, <3>1, <3>2 DEF TimerIgnored
    <2>2. /\ timer' = None
          /\ UNCHANGED <<phase, position, display, hasRemaining, active, resetChecks,
                         commands, safetyFailed, auditHealthy, emergencyLocked,
                         operatorVars, link>>
      BY <1>3 DEF TimerIgnored
    <2> QED BY <2>1, <2>2 DEF TypeOK, FlowOK, PufferOK, operatorVars
  <1> QED BY <1>1, <1>2, <1>3 DEF TimerDue

LEMMA TypeChecks ==
  ASSUME TypeOK, NEW s \in Sessions, ResetCheckSettles(s) \/ CommandSettles(s)
  PROVE  TypeOK'
  <1>1. CASE ResetChecked(s)
    <2>1. CASE NoFailure /\ UNCHANGED phase
      BY <1>1, <2>1 DEF ResetChecked, NoFailure, TypeOK, operatorVars
    <2>2. CASE EnterUntimedPhase(s, "response") /\ UNCHANGED <<timer, flow, puffer>>
      BY <1>1, <2>2, EnteredTyped DEF ResetChecked, TypeOK, operatorVars
    <2>3. CASE FailSession(s) /\ UNCHANGED phase
      BY <1>1, <2>3, FailSessionTyped
      DEF ResetChecked, TypeOK, FlowOK, PufferOK, TimerOK, operatorVars
    <2> QED BY <1>1, <2>1, <2>2, <2>3 DEF ResetChecked
  <1>2. CASE ResetCheckRejected(s)
    BY <1>2, FailActiveTyped
    DEF ResetCheckRejected, TypeOK, FlowOK, PufferOK, TimerOK, operatorVars
  <1>3. CASE CommandSettles(s)
    <2>1. FlowOK' /\ PufferOK' /\ TimerOK' /\ recovery' \in [Sessions -> BOOLEAN]
      BY <1>3, FailActiveTyped, FailSessionTyped DEF CommandSettles
    <2> QED BY <1>3, <2>1 DEF CommandSettles, TypeOK, FlowOK, PufferOK, TimerOK, operatorVars
  <1> QED BY <1>1, <1>2, <1>3 DEF ResetCheckSettles

LEMMA TypeSafety ==
  ASSUME TypeOK, NEW f \in Flows, SafetyContinues(f)
  PROVE  TypeOK'
  <1> FlowOK
    BY DEF TypeOK, FlowOK
  <1>1. CASE StopSettles(f)
    <2>1. PICK acked \in BOOLEAN :
            flow' = [flow EXCEPT ![f].stage = "deflate", ![f].failed = ~acked]
      BY <1>1 DEF StopSettles
    <2>2. (~acked) \in BOOLEAN
      OBVIOUS
    <2>3. flow' \in [Flows -> FlowType]
      BY <2>1, <2>2, ReportTyped, SomeStages
    <2>4. PufferOK'
      BY <1>1 DEF StopSettles, TypeOK, PufferOK, AfterDeflate, Reachable
    <2> QED BY <1>1, <2>3, <2>4 DEF StopSettles, TypeOK, PufferOK, sessionVars, operatorVars
  <1>2. CASE DeflateSettles(f) \/ DeflationConfirmed(f) \/ DeflationUnconfirmed(f)
    <2>1. flow' \in [Flows -> FlowType]
      <3> "confirm" \in Stages /\ "record" \in Stages /\ "report" \in Stages
        BY SomeStages
      <3>1. CASE \E stage \in Stages : ToStage(f, stage)
        BY <3>1, StageTyped DEF ToStage
      <3>2. CASE ToReport(f)
        BY <3>2, ReportTyped DEF ToReport
      <3> QED
        BY <1>2, <3>1, <3>2 DEF DeflateSettles, DeflationConfirmed, DeflationUnconfirmed
    <2>2. UNCHANGED <<sessionVars, active, timer, resetChecks, commands, safetyFailed,
                      auditHealthy, emergencyLocked, operatorVars, deviceVars>>
      BY <1>2 DEF DeflateSettles, DeflationConfirmed, DeflationUnconfirmed
    <2> QED BY <2>1, <2>2 DEF TypeOK, sessionVars, operatorVars, deviceVars
  <1>3. CASE DeflationReported(f)
    <2>1. flow' \in [Flows -> FlowType]
      BY <1>3, ReportTyped, SomeStages DEF DeflationReported, ToReport
    <2>2. auditHealthy' \in BOOLEAN
      BY <1>3 DEF DeflationReported
    <2>3. UNCHANGED <<sessionVars, active, timer, resetChecks, commands, safetyFailed,
                      emergencyLocked, operatorVars, deviceVars>>
      BY <1>3 DEF DeflationReported
    <2> QED BY <2>1, <2>2, <2>3 DEF TypeOK, sessionVars, operatorVars, deviceVars
  <1> QED BY <1>1, <1>2, <1>3 DEF SafetyContinues

LEMMA SafetyResultTyped ==
  ASSUME TypeOK, NEW f \in Flows, SafetyResult(f)
  PROVE  safetyFailed' \in BOOLEAN /\ auditHealthy' \in BOOLEAN
  BY DEF SafetyResult, TypeOK

LEMMA TypeFailure == ASSUME TypeOK, FailureContinues PROVE TypeOK'
  <1> FlowOK /\ FailureTask \in Flows
    BY DEF TypeOK, FlowOK, Flows
  <1>1. CASE FailureRecorded
    <2>1. flow' \in [Flows -> FlowType]
      BY <1>1, StageTyped, SomeStages DEF FailureRecorded, ToStage
    <2>2. phase' \in [Sessions -> Phases] /\ recovery' \in [Sessions -> BOOLEAN]
      BY <1>1 DEF FailureRecorded, TypeOK, Phases, Over
    <2>3. safetyFailed' \in BOOLEAN /\ auditHealthy' \in BOOLEAN
      BY <1>1, SafetyResultTyped DEF FailureRecorded
    <2> QED BY <1>1, <2>1, <2>2, <2>3 DEF FailureRecorded, TypeOK, operatorVars, deviceVars
  <1>2. CASE FailureThrows
    <2>1. flow' \in [Flows -> FlowType]
      BY <1>2, IdleTyped DEF FailureThrows, FlowOK
    <2>2. safetyFailed' \in BOOLEAN /\ auditHealthy' \in BOOLEAN
      BY <1>2, SafetyResultTyped DEF FailureThrows
    <2> QED
      BY <1>2, <2>1, <2>2 DEF FailureThrows, TypeOK, sessionVars, operatorVars, deviceVars
  <1>3. CASE FailureEnds
    <2>1. flow' \in [Flows -> FlowType]
      BY <1>3, IdledTyped DEF FailureEnds
    <2> QED BY <1>3, <2>1 DEF FailureEnds, TypeOK, sessionVars, operatorVars, deviceVars
  <1> QED BY <1>1, <1>2, <1>3 DEF FailureContinues

LEMMA TypeCreation ==
  ASSUME TypeOK, NEW c \in Callers,
         \/ CreateBegin(c) \/ CreateRejected(c)
         \/ \E s \in Sessions : CreateCommit(c, s)
         \/ CreateAudited(c) \/ CreateAuditFails(c)
  PROVE  TypeOK'
  <1> FlowOK /\ c \in Flows
    BY DEF TypeOK, FlowOK, Flows
  <1> "create" \in Ops
    BY DEF Ops
  <1>1. FlowOK'
    <2>1. \/ flow' = [flow EXCEPT ![c] = Idle]
          \/ \E s \in Sessions \union {None}, stage \in {"reserving", "auditing"} :
               flow' = [flow EXCEPT ![c] = Waiting("create", s, stage)]
      BY DEF CreateBegin, CreateRejected, CreateCommit, CreateAudited, CreateAuditFails
    <2> QED BY <2>1, IdledTyped, BegunTyped, SomeStages DEF FlowOK
  <1>2. CASE CreateBegin(c) \/ CreateRejected(c) \/ CreateAudited(c)
    BY <1>1, <1>2
    DEF CreateBegin, CreateRejected, CreateAudited, TypeOK, FlowOK, sessionVars,
        operatorVars, deviceVars
  <1>3. ASSUME NEW s \in Sessions, CreateCommit(c, s) PROVE TypeOK'
    <2>1. "setup" \in Phases
      BY DEF Phases
    <2> QED
      BY <1>1, <1>3, <2>1 DEF CreateCommit, TypeOK, FlowOK, operatorVars, deviceVars
  <1>4. CASE CreateAuditFails(c)
    BY <1>1, <1>4, ForgetTyped DEF CreateAuditFails, TypeOK, FlowOK, operatorVars, deviceVars
  <1> QED BY <1>2, <1>3, <1>4

LEMMA TypeDriving ==
  ASSUME TypeOK, NEW c \in Callers,
         \/ \E s \in Sessions : PrepareBegin(c, s) \/ HandoffBegin(c, s)
         \/ PrepareContinues(c) \/ PrepareRejected(c) \/ HandoffEnds(c)
  PROVE  TypeOK'
  <1> FlowOK /\ c \in Flows
    BY DEF TypeOK, FlowOK, Flows
  <1> {"prepare", "handoff"} \subseteq Ops
    BY DEF Ops
  <1>1. FlowOK'
    <2>1. \/ flow' = [flow EXCEPT ![c] = Idle]
          \/ \E s \in Sessions, op \in {"prepare", "handoff"}, stage \in {"queued", "auditing"} :
               flow' = [flow EXCEPT ![c] = Waiting(op, s, stage)]
      BY DEF PrepareBegin, HandoffBegin, PrepareContinues, PrepareRejected, HandoffEnds
    <2> QED BY <2>1, IdledTyped, BegunTyped, SomeStages DEF FlowOK
  <1>2. CASE PrepareRejected(c) \/ \E s \in Sessions : PrepareBegin(c, s)
    BY <1>1, <1>2
    DEF PrepareBegin, PrepareRejected, TypeOK, FlowOK, sessionVars, operatorVars, deviceVars
  <1>3. CASE PrepareContinues(c)
    <2>1. EnterUntimedPhase(flow[c].session, "intro")
      BY <1>3 DEF PrepareContinues
    <2>2. phase' \in [Sessions -> Phases] /\ recovery' \in [Sessions -> BOOLEAN]
      BY <2>1, EnteredTyped
    <2>3. position' \in [Sessions -> 0 .. LastPosition]
      <3>1. 0 \in 0 .. LastPosition
        BY PositionAssumption
      <3>2. position' = [position EXCEPT ![flow[c].session] = 0]
        BY <1>3 DEF PrepareContinues
      <3> QED BY <3>1, <3>2 DEF TypeOK
    <2> QED
      BY <1>1, <1>3, <2>2, <2>3 DEF PrepareContinues, TypeOK, FlowOK, operatorVars, deviceVars
  <1>4. ASSUME NEW s \in Sessions, HandoffBegin(c, s) PROVE TypeOK'
    <2>1. phase' \in [Sessions -> Phases] /\ recovery' \in [Sessions -> BOOLEAN]
      BY <1>4, EnteredTyped DEF HandoffBegin
    <2> QED
      BY <1>1, <1>4, <2>1 DEF HandoffBegin, TypeOK, FlowOK, operatorVars, deviceVars
  <1>5. CASE HandoffEnds(c)
    <2>1. auditHealthy' \in BOOLEAN /\ confirmed' \in BOOLEAN
      <3>1. PICK stored \in BOOLEAN : /\ auditHealthy' = (auditHealthy /\ stored)
                                     /\ confirmed' = (confirmed /\ ~auditHealthy')
        BY <1>5 DEF HandoffEnds
      <3>2. (auditHealthy /\ stored) \in BOOLEAN /\ (confirmed /\ ~auditHealthy') \in BOOLEAN
        OBVIOUS
      <3> QED BY <3>1, <3>2, Zenon
    <2>2. active' \in Sessions \union {None}
      BY <1>5 DEF HandoffEnds, TypeOK
    <2> QED BY <1>1, <1>5, <2>1, <2>2 DEF HandoffEnds, TypeOK, FlowOK, sessionVars, deviceVars
  <1> QED BY <1>2, <1>3, <1>4, <1>5

LEMMA AbortNowTyped ==
  ASSUME TypeOK, NEW c \in Callers, NEW s \in Sessions, AbortNow(c, s)
  PROVE  /\ FlowOK' /\ PufferOK' /\ timer' = None
         /\ phase' \in [Sessions -> Phases] /\ recovery' \in [Sessions -> BOOLEAN]
  <1>1. FlowOK' /\ PufferOK'
    BY BeginSafetyTyped DEF AbortNow, TypeOK, FlowOK, PufferOK, Flows, Ops
  <1> QED BY <1>1, EnteredTyped DEF AbortNow

LEMMA LetGoTyped ==
  ASSUME TypeOK, NEW c \in Callers, LetGo(c)
  PROVE  FlowOK' /\ active' \in Sessions \union {None} /\ confirmed' \in BOOLEAN
  <1>1. FlowOK'
    BY IdledTyped DEF LetGo, TypeOK, FlowOK, Flows
  <1> QED BY <1>1 DEF LetGo, TypeOK

LEMMA TypeStopping ==
  ASSUME TypeOK, NEW c \in Callers,
         \/ \E s \in Sessions : AbortBegin(c, s) \/ EmergencyBegin(c, s)
         \/ AbortJoined(c) \/ EmergencyJoined(c) \/ StopReturns(c) \/ JoinedStopReturns(c)
  PROVE  TypeOK'
  <1> FlowOK /\ PufferOK /\ c \in Flows
    BY DEF TypeOK, FlowOK, PufferOK, Flows
  <1> "abort" \in Ops /\ "emergency" \in Ops /\ "join" \in Stages /\ "finish" \in Stages
    BY DEF Ops, Stages
  <1>1. ASSUME NEW s \in Sessions, AbortBegin(c, s) PROVE TypeOK'
    <2>1. /\ FlowOK' /\ PufferOK' /\ TimerOK'
          /\ phase' \in [Sessions -> Phases] /\ recovery' \in [Sessions -> BOOLEAN]
      <3>1. CASE AbortNow(c, s)
        BY <3>1, AbortNowTyped DEF TimerOK
      <3>2. CASE flow' = [flow EXCEPT ![c] = Waiting("abort", s, "join")]
                 /\ UNCHANGED <<phase, recovery, timer, puffer>>
        BY <3>2, BegunTyped DEF TypeOK, FlowOK, PufferOK, TimerOK
      <3> QED BY <1>1, <3>1, <3>2 DEF AbortBegin
    <2> QED BY <1>1, <2>1 DEF AbortBegin, TypeOK, FlowOK, PufferOK, TimerOK, operatorVars
  <1>2. ASSUME NEW s \in Sessions, EmergencyBegin(c, s) PROVE TypeOK'
    <2>1. FlowOK' /\ PufferOK'
      <3>1. CASE flow' = [flow EXCEPT ![c] = Waiting("emergency", s, "join")]
                 /\ UNCHANGED puffer
        BY <3>1, BegunTyped DEF FlowOK, PufferOK
      <3>2. CASE BeginSafety(c, "emergency", s)
        BY <3>2, BeginSafetyTyped
      <3> QED BY <1>2, <3>1, <3>2 DEF EmergencyBegin
    <2>2. phase' \in [Sessions -> Phases] /\ recovery' \in [Sessions -> BOOLEAN]
      BY <1>2, EnteredTyped DEF EmergencyBegin, TypeOK
    <2> QED BY <1>2, <2>1, <2>2 DEF EmergencyBegin, TypeOK, FlowOK, PufferOK, operatorVars
  <1>3. CASE AbortJoined(c)
    <2> DEFINE s == flow[c].session
    <2>1. /\ FlowOK' /\ PufferOK' /\ TimerOK'
          /\ phase' \in [Sessions -> Phases] /\ recovery' \in [Sessions -> BOOLEAN]
      <3>1. CASE EnterTerminalPhase(s, "aborted") /\ ToStage(c, "finish")
                 /\ UNCHANGED <<timer, puffer>>
        BY <3>1, EnteredTyped, StageTyped DEF ToStage, TypeOK, FlowOK, PufferOK, TimerOK
      <3>2. CASE active = s /\ phase[s] # "error" /\ AbortNow(c, s)
        <4>1. CASE s \in Sessions
          BY <3>2, <4>1, AbortNowTyped DEF TimerOK
        <4>2. CASE s \notin Sessions
          <5>1. s = None
            BY <4>2 DEF FlowOK, FlowType
          <5>2. Waiting("abort", s, "stop") \in FlowType
            BY <5>1, WaitingTyped, SomeStages
          <5>3. FlowOK' /\ PufferOK'
            BY <3>2, <5>2, StopPendingTyped
            DEF AbortNow, BeginSafety, FlowOK, PufferOK, AfterStop, Reachable
          <5> QED BY <3>2, <5>3, EnteredTyped DEF AbortNow, TimerOK
        <4> QED BY <4>1, <4>2
      <3>3. CASE flow' = [flow EXCEPT ![c] = Idle] /\ UNCHANGED <<phase, recovery, timer, puffer>>
        BY <3>3, IdledTyped DEF TypeOK, FlowOK, PufferOK, TimerOK
      <3> QED BY <1>3, <3>1, <3>2, <3>3 DEF AbortJoined
    <2> QED BY <1>3, <2>1 DEF AbortJoined, TypeOK, FlowOK, PufferOK, TimerOK, operatorVars
  <1>4. CASE EmergencyJoined(c)
    <2>1. FlowOK'
      BY <1>4, StageTyped DEF EmergencyJoined, ToStage, FlowOK
    <2>2. phase' \in [Sessions -> Phases] /\ recovery' \in [Sessions -> BOOLEAN]
      BY <1>4, EnteredTyped DEF EmergencyJoined, TypeOK
    <2> QED BY <1>4, <2>1, <2>2 DEF EmergencyJoined, TypeOK, FlowOK, operatorVars, deviceVars
  <1>5. CASE StopReturns(c) \/ JoinedStopReturns(c)
    <2>1. FlowOK' /\ active' \in Sessions \union {None} /\ confirmed' \in BOOLEAN
      BY <1>5, LetGoTyped DEF StopReturns, JoinedStopReturns
    <2>2. safetyFailed' \in BOOLEAN /\ auditHealthy' \in BOOLEAN
      BY <1>5, SafetyResultTyped DEF StopReturns, JoinedStopReturns, TypeOK
    <2>3. UNCHANGED <<sessionVars, timer, resetChecks, commands, emergencyLocked, lease,
                      deviceVars>>
      BY <1>5 DEF StopReturns, JoinedStopReturns
    <2> QED BY <2>1, <2>2, <2>3 DEF TypeOK, FlowOK, sessionVars, deviceVars
  <1> QED BY <1>1, <1>2, <1>3, <1>4, <1>5

LEMMA TypeDeletion ==
  ASSUME TypeOK, NEW c \in Callers,
         \/ \E s \in Sessions : DeleteBegin(c, s)
         \/ DeleteContinues(c) \/ DeleteAudited(c) \/ DeleteAuditFails(c)
  PROVE  TypeOK'
  <1> FlowOK /\ PufferOK /\ c \in Flows
    BY DEF TypeOK, FlowOK, PufferOK, Flows
  <1> "delete" \in Ops /\ "auditing" \in Stages
    BY DEF Ops, Stages
  <1>1. ASSUME NEW s \in Sessions, DeleteBegin(c, s) PROVE TypeOK'
    <2>1. FlowOK' /\ PufferOK' /\ TimerOK'
      <3>1. CASE timer' = None /\ BeginSafety(c, "delete", s)
        BY <3>1, BeginSafetyTyped DEF TimerOK
      <3>2. CASE /\ flow' = [flow EXCEPT ![c] = Waiting("delete", s, "auditing")]
                 /\ UNCHANGED <<timer, puffer>>
        BY <3>2, BegunTyped DEF TypeOK, FlowOK, PufferOK, TimerOK
      <3> QED BY <1>1, <3>1, <3>2 DEF DeleteBegin
    <2> QED
      BY <1>1, <2>1
      DEF DeleteBegin, TypeOK, FlowOK, PufferOK, TimerOK, sessionVars, operatorVars
  <1>2. CASE DeleteContinues(c)
    <2>1. Waiting("delete", flow[c].session, "auditing") \in FlowType
      BY WaitingTyped DEF FlowOK, FlowType
    <2>2. FlowOK'
      BY <1>2, <2>1, IdleTyped DEF DeleteContinues, FlowOK
    <2>3. safetyFailed' \in BOOLEAN /\ auditHealthy' \in BOOLEAN
      BY <1>2, SafetyResultTyped DEF DeleteContinues
    <2>4. active' \in Sessions \union {None}
      BY <1>2 DEF DeleteContinues, TypeOK
    <2> QED
      BY <1>2, <2>2, <2>3, <2>4
      DEF DeleteContinues, TypeOK, FlowOK, sessionVars, operatorVars, deviceVars
  <1>3. CASE DeleteAudited(c)
    <2>1. FlowOK'
      BY <1>3, IdledTyped DEF DeleteAudited, FlowOK
    <2> QED BY <1>3, <2>1, ForgetTyped DEF DeleteAudited, TypeOK, FlowOK, deviceVars
  <1>4. CASE DeleteAuditFails(c)
    <2>1. FlowOK'
      BY <1>4, IdledTyped DEF DeleteAuditFails, FlowOK
    <2> QED
      BY <1>4, <2>1 DEF DeleteAuditFails, TypeOK, FlowOK, sessionVars, operatorVars, deviceVars
  <1> QED BY <1>1, <1>2, <1>3, <1>4

LEMMA TypeDeviceTest ==
  ASSUME TypeOK, NEW c \in Callers,
         TestBegin(c) \/ TestChecks(c) \/ TestInflates(c) \/ TestEnds(c)
  PROVE  TypeOK'
  <1> FlowOK /\ PufferOK /\ c \in Flows
    BY DEF TypeOK, FlowOK, PufferOK, Flows
  <1> /\ "test" \in Ops
      /\ "queued" \in Stages /\ "checking" \in Stages /\ "inflating" \in Stages
    BY DEF Ops, Stages
  <1>1. FlowOK'
    <2>1. Waiting("test", None, "queued") \in FlowType /\ Waiting("test", None, "checking") \in FlowType
      BY WaitingTyped
    <2>2. CASE ToStage(c, "inflating")
      BY <2>2, StageTyped DEF ToStage, FlowOK
    <2>3. CASE \E w \in FlowType : flow' = [flow EXCEPT ![c] = w]
      BY <2>3 DEF FlowOK
    <2> QED BY <2>1, <2>2, <2>3, IdleTyped DEF TestBegin, TestChecks, TestInflates, TestEnds
  <1>2. PufferOK'
    BY DEF TestBegin, TestChecks, TestInflates, TestEnds, deviceVars, PufferOK, AfterInflate,
           Reachable
  <1>3. UNCHANGED <<sessionVars, active, timer, resetChecks, commands, safetyFailed,
                    auditHealthy, emergencyLocked, operatorVars, link>>
    BY DEF TestBegin, TestChecks, TestInflates, TestEnds, deviceVars
  <1> QED BY <1>1, <1>2, <1>3 DEF TypeOK, FlowOK, PufferOK, sessionVars, operatorVars

LEMMA TypeCallers ==
  ASSUME TypeOK, NEW c \in Callers, CallerRequests(c) \/ CallerContinues(c)
  PROVE  TypeOK'
  BY TypeCreation, TypeDriving, TypeStopping, TypeDeletion, TypeDeviceTest
  DEF CallerRequests, CallerContinues

LEMMA TypeProgress ==
  ASSUME TypeOK, NEW s \in Sessions,
         \/ Start(s) \/ ResumeTimed(s) \/ ResumeUntimed(s)
         \/ NextPresentation(s) \/ Summarize(s)
  PROVE  TypeOK'
  <1>1. CASE Start(s) \/ NextPresentation(s)
    <2>1. \E i \in 0 .. LastPosition : EnterTimedPhase(s, "handling", i)
      <3>1. position[s] \in 0 .. LastPosition /\ 1 \in 0 .. LastPosition
        BY PositionAssumption DEF TypeOK
      <3>2. position[s] < LastPosition => position[s] + 1 \in 0 .. LastPosition
        BY <3>1, PositionAssumption
      <3> QED BY <1>1, <3>1, <3>2 DEF Start, NextPresentation, CanConfirm
    <2>2. "handling" \in Timed
      BY DEF Timed
    <2> QED
      BY <1>1, <2>1, <2>2, EnterTimedPhaseTyped
      DEF Start, NextPresentation, TypeOK, TimerOK, PufferOK, operatorVars
  <1>2. CASE ResumeTimed(s)
    BY <1>2 DEF ResumeTimed, TypeOK, operatorVars, deviceVars
  <1>3. CASE ResumeUntimed(s)
    BY <1>3 DEF ResumeUntimed, TypeOK, operatorVars, deviceVars
  <1>4. CASE Summarize(s)
    BY <1>4, EnteredTyped DEF Summarize, TypeOK, operatorVars, deviceVars
  <1> QED BY <1>1, <1>2, <1>3, <1>4

LEMMA TypeDisplay ==
  ASSUME TypeOK, NEW s \in Sessions, DisplayReady(s) \/ DisplayLost(s)
  PROVE  TypeOK'
  <1>1. CASE DisplayReady(s)
    BY <1>1 DEF DisplayReady, TypeOK, operatorVars, deviceVars
  <1>2. CASE DisplayLost(s)
    <2>1. CASE FailSession(s) /\ UNCHANGED hasRemaining
      BY <1>2, <2>1, FailSessionTyped
      DEF DisplayLost, TypeOK, FlowOK, PufferOK, TimerOK, operatorVars
    <2>2. CASE ~(active = s /\ phase[s] \in {"result", "reset"})
      <3>1. hasRemaining' \in [Sessions -> BOOLEAN] /\ TimerOK'
        <4>1. CASE active = s /\ phase[s] \in Timed
          <5>1. PICK remaining \in BOOLEAN :
                  hasRemaining' = [hasRemaining EXCEPT ![s] = remaining /\ ~recovery[s]]
            BY <1>2, <2>2, <4>1 DEF DisplayLost
          <5>2. (remaining /\ ~recovery[s]) \in BOOLEAN
            OBVIOUS
          <5>3. hasRemaining' \in [Sessions -> BOOLEAN]
            BY <5>1, <5>2 DEF TypeOK
          <5> QED BY <1>2, <2>2, <4>1, <5>3 DEF DisplayLost, TimerOK
        <4>2. CASE ~(active = s /\ phase[s] \in Timed)
          BY <1>2, <2>2, <4>2 DEF DisplayLost, TypeOK, TimerOK
        <4> QED BY <4>1, <4>2
      <3>2. recovery' \in [Sessions -> BOOLEAN]
        <4>1. recovery' = [recovery EXCEPT ![s] = @ \/ (active = s /\ phase[s] \in Running)]
          BY <1>2, <2>2 DEF DisplayLost
        <4>2. (recovery[s] \/ (active = s /\ phase[s] \in Running)) \in BOOLEAN
          OBVIOUS
        <4> QED BY <4>1, <4>2 DEF TypeOK
      <3>3. UNCHANGED <<flow, puffer>>
        BY <1>2, <2>2 DEF DisplayLost
      <3>4. /\ display' = [display EXCEPT ![s] = FALSE]
            /\ UNCHANGED <<phase, position, active, resetChecks, commands, safetyFailed,
                           auditHealthy, emergencyLocked, operatorVars, link>>
        BY <1>2 DEF DisplayLost
      <3> QED BY <3>1, <3>2, <3>3, <3>4 DEF TypeOK, TimerOK, operatorVars
    <2> QED BY <1>2, <2>1, <2>2 DEF DisplayLost
  <1> QED BY <1>1, <1>2

LEMMA TypeEnvironment == ASSUME TypeOK, Environment PROVE TypeOK'
  <1>1. CASE ConfirmOperatorSession \/ LeaseGranted
    BY <1>1 DEF ConfirmOperatorSession, LeaseGranted, TypeOK, sessionVars, deviceVars
  <1>2. CASE LeaseLost \/ AuditFails \/ \E report \in Mishaps \ {"audit"} : DeviceReports(report)
    <2>1. FlowOK' /\ PufferOK' /\ TimerOK' /\ recovery' \in [Sessions -> BOOLEAN]
      <3>1. CASE FailActive \/ NoFailure
        BY <3>1, FailActiveTyped
      <3>2. CASE ActiveIs(Running) /\ FailSession(active)
        BY <3>2, FailSessionTyped DEF ActiveIs, TypeOK
      <3> QED BY <1>2, <3>1, <3>2 DEF LeaseLost, AuditFails, DeviceReports
    <2>2. /\ lease' \in BOOLEAN /\ confirmed' \in BOOLEAN /\ auditHealthy' \in BOOLEAN
          /\ link' \in {"up", "lost", "closed"}
      BY <1>2 DEF LeaseLost, AuditFails, DeviceReports, TypeOK, operatorVars
    <2>3. UNCHANGED <<phase, position, display, hasRemaining, active, resetChecks, commands,
                      safetyFailed, emergencyLocked>>
      BY <1>2 DEF LeaseLost, AuditFails, DeviceReports
    <2> QED BY <2>1, <2>2, <2>3 DEF TypeOK, FlowOK, PufferOK, TimerOK
  <1>3. CASE DeviceDeflates \/ ConnectDevice \/ DisconnectDevice \/ TestDeflate \/ StopDevice
    <2>1. FlowOK'
      BY <1>3, StopPendingTyped
      DEF DeviceDeflates, ConnectDevice, DisconnectDevice, TestDeflate, StopDevice, TypeOK, FlowOK
    <2>2. PufferOK' /\ link' \in {"up", "lost", "closed"}
      BY <1>3
      DEF DeviceDeflates, ConnectDevice, DisconnectDevice, TestDeflate, StopDevice, TypeOK,
          PufferOK, AfterStop, AfterDeflate, Reachable
    <2>3. UNCHANGED <<sessionVars, active, timer, resetChecks, commands, safetyFailed,
                      auditHealthy, emergencyLocked, operatorVars>>
      BY <1>3 DEF DeviceDeflates, ConnectDevice, DisconnectDevice, TestDeflate, StopDevice
    <2> QED BY <2>1, <2>2, <2>3 DEF TypeOK, FlowOK, PufferOK, sessionVars, operatorVars
  <1> QED BY <1>1, <1>2, <1>3, TypeProgress, TypeDisplay DEF Environment

LEMMA TypeInit == Init => TypeOK
  <1> SUFFICES ASSUME Init PROVE TypeOK OBVIOUS
  <1>1. flow \in [Flows -> FlowType]
    BY IdleTyped DEF Init
  <1>2. phase \in [Sessions -> Phases]
    BY DEF Init, Phases, Missing
  <1>3. position \in [Sessions -> 0 .. LastPosition]
    BY PositionAssumption DEF Init
  <1> QED BY <1>1, <1>2, <1>3 DEF Init, TypeOK

LEMMA TypeStep == TypeOK /\ [Next]_vars => TypeOK'
  <1> SUFFICES ASSUME TypeOK, [Next]_vars PROVE TypeOK' OBVIOUS
  <1>1. CASE Next
    BY <1>1, TypeEnvironment, TypeTimer, TypeFailure, TypeChecks, TypeSafety, TypeCallers
    DEF Next
  <1>2. CASE UNCHANGED vars
    BY <1>2 DEF vars, TypeOK, sessionVars, operatorVars, deviceVars
  <1> QED BY <1>1, <1>2

\* The state of the controller and of its flows has its type in every state.
THEOREM TypeCorrect == Spec => []TypeOK
  <1> QED BY TypeInit, TypeStep, PTL DEF Spec

-----------------------------------------------------------------------------
(* What a step may do to the phases: nothing; let one session be born; move *)
(* the active session one phase on; or end one session.                     *)

Moved(s, from, to) == phase[s] = from /\ phase' = [phase EXCEPT ![s] = to]

Born(s) ==
  /\ Moved(s, "unborn", "setup") /\ active' = s /\ UNCHANGED position
  /\ \E c \in Callers :
       /\ flow[c].op = "create" /\ flow[c].stage = "reserving"
       /\ flow'[c] = Waiting("create", s, "auditing")

MovesOn(s) ==
  \/ /\ Moved(s, "setup", "intro") /\ lease /\ UNCHANGED lease
     /\ \E c \in Callers : flow[c].op = "prepare"
     /\ position' = [position EXCEPT ![s] = 0]
  \/ Moved(s, "intro", "handling") /\ position' = [position EXCEPT ![s] = 1]
  \/ /\ Moved(s, "response", "handling") /\ position[s] < LastPosition
     /\ position' = [position EXCEPT ![s] = position[s] + 1]
  \/ /\ UNCHANGED position
     /\ \/ Moved(s, "handling", "processing") \/ Moved(s, "processing", "result")
        \/ Moved(s, "result", "reset") \/ Moved(s, "reset", "response")
        \/ Moved(s, "response", "summary") /\ position[s] = LastPosition
        \/ Moved(s, "summary", "completed")

Deletes(c, s) ==
  flow[c].op = "delete" /\ flow[c].stage = "auditing" /\ flow[c].session = s

Ends(s) ==
  /\ \E p \in {"error", "aborted", "deleted"} :
       /\ phase' = [phase EXCEPT ![s] = p]
       /\ p = "error" => phase[s] \notin Terminal
       /\ p = "deleted" => active' = None \/ \E c \in Callers : Deletes(c, s)
  /\ position' \in {position, [position EXCEPT ![s] = 0]}

Stays == UNCHANGED <<phase, position>>

PhaseMoves ==
  \/ \E s \in Sessions : Born(s)
  \/ /\ active' \in {active, None}
     /\ Stays \/ \E s \in Sessions : Ends(s) \/ (active = s /\ MovesOn(s))

\* The end of a session that does not exist changes nothing.
LEMMA EndsOrStays == ASSUME TypeOK, NEW s, Ends(s) PROVE Stays \/ \E t \in Sessions : Ends(t)
  <1>1. CASE s \notin Sessions
    <2>1. phase' = phase
      BY <1>1 DEF TypeOK, Ends
    <2>2. position' = position
      BY <1>1 DEF TypeOK, Ends
    <2> QED BY <2>1, <2>2 DEF Stays
  <1> QED BY <1>1

LEMMA PhaseEnvironment == ASSUME TypeOK, Environment PROVE PhaseMoves
  <1>1. ASSUME NEW s \in Sessions, Start(s) \/ NextPresentation(s) \/ Summarize(s)
        PROVE  PhaseMoves
    <2>1. active = s /\ MovesOn(s) /\ active' = active
      BY <1>1
      DEF Start, NextPresentation, Summarize, CanConfirm, EnterTimedPhase, EnterUntimedPhase,
          MovesOn, Moved
    <2> QED BY <2>1 DEF PhaseMoves
  <1>2. CASE Stays /\ active' = active
    BY <1>2 DEF PhaseMoves
  <1> QED
    BY <1>1, <1>2
    DEF Environment, ConfirmOperatorSession, LeaseGranted, LeaseLost, DeviceDeflates,
        DeviceReports, AuditFails, ConnectDevice, DisconnectDevice, TestDeflate, StopDevice,
        ResumeTimed, ResumeUntimed, DisplayReady, DisplayLost, sessionVars, Stays

LEMMA PhaseTimer == ASSUME TypeOK, TimerDue PROVE PhaseMoves
  <1>1. CASE TimerAdvances
    <2> DEFINE s == timer.session
    <2>1. s \in Sessions /\ timer.phase \in {"handling", "processing", "result"} /\ active = s
      BY <1>1 DEF TimerAdvances, Advances, TypeOK, Timed
    <2>2. position' = position
      BY <1>1, <2>1 DEF TimerAdvances, EnterTimedPhase, TypeOK
    <2>3. Moved(s, timer.phase, NextTimed[timer.phase]) /\ active' = active
      BY <1>1 DEF TimerAdvances, Advances, EnterTimedPhase, Moved
    <2>4. MovesOn(s)
      BY <2>1, <2>2, <2>3 DEF NextTimed, MovesOn
    <2> QED BY <2>1, <2>3, <2>4 DEF PhaseMoves
  <1>2. CASE TimerEndsReset
    <2> DEFINE s == timer.session
    <2>1. s \in Sessions /\ active = s
      BY <1>2 DEF TimerEndsReset, Advances, TypeOK
    <2>2. (MovesOn(s) \/ Stays) /\ active' = active
      BY <1>2
      DEF TimerEndsReset, Advances, EnterUntimedPhase, MovesOn, Moved, Stays, deviceVars
    <2> QED BY <2>1, <2>2 DEF PhaseMoves
  <1>3. CASE TimerIgnored
    BY <1>3 DEF TimerIgnored, PhaseMoves, Stays
  <1> QED BY <1>1, <1>2, <1>3 DEF TimerDue

LEMMA PhaseChecks ==
  ASSUME TypeOK, NEW s \in Sessions, ResetCheckSettles(s) \/ CommandSettles(s)
  PROVE  PhaseMoves
  <1>1. CASE Advances(s, "reset") /\ EnterUntimedPhase(s, "response") /\ UNCHANGED position
    BY <1>1 DEF ResetCheckSettles, ResetChecked, ResetCheckRejected, CommandSettles, PhaseMoves,
                MovesOn, Moved, Advances, EnterUntimedPhase
  <1> QED
    BY <1>1 DEF ResetCheckSettles, ResetChecked, ResetCheckRejected, CommandSettles, PhaseMoves,
                Stays

LEMMA PhaseFailure == ASSUME TypeOK, FailureContinues PROVE PhaseMoves
  <1>1. CASE FailureRecorded
    <2>1. Ends(flow[FailureTask].session) /\ active' = active
      BY <1>1 DEF FailureRecorded, Ends, Terminal
    <2> QED BY <2>1, EndsOrStays DEF PhaseMoves
  <1>2. CASE FailureThrows \/ FailureEnds
    BY <1>2 DEF FailureThrows, FailureEnds, sessionVars, PhaseMoves, Stays
  <1> QED BY <1>1, <1>2 DEF FailureContinues

LEMMA PhaseSafety == ASSUME NEW f \in Flows, SafetyContinues(f) PROVE Stays /\ active' = active
  BY DEF SafetyContinues, StopSettles, DeflateSettles, DeflationConfirmed,
         DeflationUnconfirmed, DeflationReported, sessionVars, Stays

LEMMA PhaseCallers ==
  ASSUME TypeOK, NEW c \in Callers, CallerRequests(c) \/ CallerContinues(c)
  PROVE  PhaseMoves
  <1> DEFINE s == flow[c].session
  <1>1. CASE Stays /\ active' \in {active, None}
    BY <1>1 DEF PhaseMoves
  <1>2. ASSUME NEW t, Ends(t), active' \in {active, None} PROVE PhaseMoves
    BY <1>2, EndsOrStays DEF PhaseMoves
  <1>3. ASSUME NEW t \in Sessions, CreateCommit(c, t) PROVE PhaseMoves
    <2>1. flow'[c] = Waiting("create", t, "auditing")
      BY <1>3 DEF CreateCommit, TypeOK, Flows
    <2> QED BY <1>3, <2>1 DEF CreateCommit, PhaseMoves, Born, Moved
  <1>4. CASE CreateAuditFails(c) \/ DeleteAudited(c)
    <2>1. Ends(s) /\ active' \in {active, None}
      BY <1>4 DEF CreateAuditFails, DeleteAudited, Forget, Ends, Deletes
    <2> QED BY <2>1, <1>2
  <1>5. CASE PrepareContinues(c)
    <2>1. active = s /\ MovesOn(s) /\ active' = active
      BY <1>5
      DEF PrepareContinues, CanPrepare, EnterUntimedPhase, MovesOn, Moved, operatorVars
    <2>2. CASE s \in Sessions
      BY <2>1, <2>2 DEF PhaseMoves
    <2>3. CASE s \notin Sessions
      <3>1. phase' = phase
        BY <1>5, <2>3 DEF PrepareContinues, EnterUntimedPhase, TypeOK
      <3>2. position' = position
        BY <1>5, <2>3 DEF PrepareContinues, TypeOK
      <3> QED BY <1>1, <2>1, <3>1, <3>2 DEF Stays
    <2> QED BY <2>2, <2>3
  <1>6. ASSUME NEW t \in Sessions, HandoffBegin(c, t) PROVE PhaseMoves
    <2>1. active = t /\ MovesOn(t) /\ active' = active
      BY <1>6 DEF HandoffBegin, CanConfirm, EnterTerminalPhase, MovesOn, Moved
    <2> QED BY <2>1 DEF PhaseMoves
  <1>7. ASSUME NEW t \in Sessions, AbortBegin(c, t) \/ EmergencyBegin(c, t) PROVE PhaseMoves
    <2>1. (Ends(t) \/ Stays) /\ active' = active
      BY <1>7 DEF AbortBegin, AbortNow, EmergencyBegin, EnterTerminalPhase, Ends, Stays
    <2> QED BY <2>1, <1>1, <1>2
  <1>8. CASE AbortJoined(c) \/ EmergencyJoined(c)
    <2>1. (Ends(s) \/ Stays) /\ active' = active
      BY <1>8 DEF AbortJoined, AbortNow, EmergencyJoined, EnterTerminalPhase, Ends, Stays
    <2> QED BY <2>1, <1>1, <1>2
  <1>9. CASE \/ CreateBegin(c) \/ TestBegin(c) \/ CreateRejected(c) \/ CreateAudited(c)
             \/ \E t \in Sessions : PrepareBegin(c, t) \/ DeleteBegin(c, t)
             \/ PrepareRejected(c) \/ HandoffEnds(c) \/ StopReturns(c) \/ JoinedStopReturns(c)
             \/ DeleteContinues(c) \/ DeleteAuditFails(c)
             \/ TestChecks(c) \/ TestInflates(c) \/ TestEnds(c)
    BY <1>9, <1>1
    DEF CreateBegin, TestBegin, CreateRejected, CreateAudited, PrepareBegin, DeleteBegin,
        PrepareRejected, HandoffEnds, StopReturns, JoinedStopReturns, LetGo, DeleteContinues,
        DeleteAuditFails, TestChecks, TestInflates, TestEnds, sessionVars, Stays
  <1> QED
    BY <1>3, <1>4, <1>5, <1>6, <1>7, <1>8, <1>9 DEF CallerRequests, CallerContinues

LEMMA PhaseStep == TypeOK /\ [Next]_vars => PhaseMoves
  <1> SUFFICES ASSUME TypeOK, [Next]_vars PROVE PhaseMoves OBVIOUS
  <1>1. CASE Stays /\ active' = active
    BY <1>1 DEF PhaseMoves
  <1>2. CASE UNCHANGED vars
    BY <1>1, <1>2 DEF vars, sessionVars, Stays
  <1> QED
    BY <1>1, <1>2, PhaseEnvironment, PhaseTimer, PhaseFailure, PhaseChecks, PhaseSafety,
       PhaseCallers DEF Next

-----------------------------------------------------------------------------
(* The controller shows a run of the protocol.                             *)

\* A presentation is counted from its handling to its response.
PositionInv ==
  \A s \in Sessions :
    /\ phase[s] \in {"unborn", "setup", "intro"} => position[s] = 0
    /\ phase[s] \in Timed \union {"response"} => position[s] # 0

LEMMA PositionStep == ASSUME TypeOK, PositionInv, PhaseMoves PROVE PositionInv'
  <1>1. ASSUME NEW s \in Sessions, MovesOn(s) PROVE PositionInv'
    <2>1. position[s] \in Nat
      BY PositionAssumption DEF TypeOK
    <2> QED BY <1>1, <2>1 DEF TypeOK, PositionInv, MovesOn, Moved, Timed
  <1>2. ASSUME NEW s \in Sessions, Ends(s) PROVE PositionInv'
    BY <1>2 DEF TypeOK, PositionInv, Ends, Timed
  <1>3. ASSUME NEW s \in Sessions, Born(s) PROVE PositionInv'
    BY <1>3 DEF TypeOK, PositionInv, Born, Moved, Timed
  <1> QED BY <1>1, <1>2, <1>3 DEF PhaseMoves, Stays, PositionInv

ShownAs(p) ==
  CASE p \in {"unborn", "setup"} -> "waiting"
    [] p \in Running \union {"completed"} -> p
    [] OTHER -> "ended"

Shows == [s \in Sessions |-> Shown(s)]
Reached == [s \in Sessions |-> IF Shown(s) = "ended" THEN 0 ELSE position[s]]

LEMMA ShownAsIs ==
  /\ ShownAs("unborn") = "waiting" /\ ShownAs("setup") = "waiting"
  /\ \A p \in Running \union {"completed"} : ShownAs(p) = p
  /\ \A p \in {"error", "aborted", "deleted"} : ShownAs(p) = "ended"
  BY DEF ShownAs, Running, Timed

LEMMA ShownIs ==
  /\ Shows = [s \in Sessions |-> ShownAs(phase[s])]
  /\ Shows' = [s \in Sessions |-> ShownAs(phase'[s])]
  /\ Reached = [s \in Sessions |-> IF ShownAs(phase[s]) = "ended" THEN 0 ELSE position[s]]
  /\ Reached' = [s \in Sessions |-> IF ShownAs(phase'[s]) = "ended" THEN 0 ELSE position'[s]]
  BY DEF Shows, Reached, Shown, ShownAs

LEMMA ShowsChange ==
  ASSUME TypeOK, NEW s \in Sessions, NEW p, phase' = [phase EXCEPT ![s] = p]
  PROVE  Shows' = [Shows EXCEPT ![s] = ShownAs(p)]
  BY ShownIs DEF TypeOK

LEMMA ReachedKept ==
  ASSUME TypeOK, NEW s \in Sessions, NEW p, phase' = [phase EXCEPT ![s] = p], UNCHANGED position,
         (ShownAs(p) = "ended") <=> (ShownAs(phase[s]) = "ended")
  PROVE  Reached' = Reached
  BY ShownIs DEF TypeOK

LEMMA ShownMove ==
  ASSUME TypeOK, NEW s \in Sessions, NEW p \in Running, NEW q \in Running \union {"completed"},
         Moved(s, p, q), UNCHANGED position
  PROVE  /\ Shows[s] = p /\ Shows' = [Shows EXCEPT ![s] = q]
         /\ Reached[s] = position[s] /\ Reached' = Reached
  <1>1. phase[s] = p /\ phase' = [phase EXCEPT ![s] = q]
    BY DEF Moved
  <1>2. ShownAs(p) = p /\ ShownAs(q) = q /\ p # "ended" /\ q # "ended"
    BY ShownAsIs DEF Running, Timed
  <1>3. Shows' = [Shows EXCEPT ![s] = ShownAs(q)] /\ Reached' = Reached
    BY <1>1, <1>2, ShowsChange, ReachedKept
  <1>4. Shows[s] = p /\ Reached[s] = position[s]
    BY <1>1, <1>2, ShownIs
  <1> QED BY <1>2, <1>3, <1>4

LEMMA ProtocolMove ==
  ASSUME TypeOK, PositionInv, NEW s \in Sessions, MovesOn(s)
  PROVE  Protocol!Next
  <1> /\ {"intro", "handling", "processing", "result", "reset", "response", "summary"} \subseteq Running
      /\ "completed" \notin Running /\ "ended" \notin Running
    BY DEF Running, Timed
  <1>0. position[s] \in Nat /\ LastPosition \in Nat
    BY PositionAssumption DEF TypeOK
  <1>1. CASE Moved(s, "setup", "intro") /\ position' = [position EXCEPT ![s] = 0]
    <2>1. position' = position
      BY <1>1 DEF TypeOK, PositionInv, Moved
    <2>2. Shows[s] = "waiting" /\ Shows' = [Shows EXCEPT ![s] = "intro"] /\ Reached' = Reached
      <3>1. phase[s] = "setup" /\ phase' = [phase EXCEPT ![s] = "intro"]
        BY <1>1 DEF Moved
      <3>2. ShownAs("setup") = "waiting" /\ ShownAs("intro") = "intro"
        BY ShownAsIs
      <3>3. Shows' = [Shows EXCEPT ![s] = "intro"] /\ Reached' = Reached
        BY <2>1, <3>1, <3>2, ShowsChange, ReachedKept
      <3>4. Shows[s] = "waiting"
        BY <3>1, <3>2, ShownIs
      <3> QED BY <3>3, <3>4
    <2>3. Protocol!Introduce(s)
      BY <2>2 DEF Protocol!Introduce, Protocol!Show, Shows, Reached
    <2> QED BY <2>3 DEF Protocol!Next
  <1>2. CASE \/ /\ Moved(s, "intro", "handling")
                /\ position' = [position EXCEPT ![s] = 1]
             \/ /\ Moved(s, "response", "handling") /\ position[s] < LastPosition
                /\ position' = [position EXCEPT ![s] = position[s] + 1]
    <2>1. /\ phase' = [phase EXCEPT ![s] = "handling"]
          /\ position' = [position EXCEPT ![s] = position[s] + 1]
          /\ phase[s] = IF position[s] = 0 THEN "intro" ELSE "response"
          /\ position[s] < LastPosition
      BY <1>0, <1>2, PositionAssumption DEF Moved, PositionInv, TypeOK
    <2>2. /\ Shows[s] = (IF position[s] = 0 THEN "intro" ELSE "response")
          /\ Shows' = [Shows EXCEPT ![s] = "handling"]
          /\ Reached[s] = position[s]
      <3>1. ShownAs("handling") = "handling" /\ ShownAs(phase[s]) = phase[s]
        BY <2>1, ShownAsIs
      <3>2. Shows' = [Shows EXCEPT ![s] = "handling"]
        BY <2>1, <3>1, ShowsChange
      <3>3. Shows[s] = phase[s] /\ Reached[s] = position[s]
        BY <2>1, <3>1, ShownIs
      <3> QED BY <2>1, <3>2, <3>3
    <2>3. Reached' = [Reached EXCEPT ![s] = Reached[s] + 1]
      <3>1. ShownAs(phase[s]) # "ended" /\ ShownAs("handling") # "ended"
        BY <2>1, ShownAsIs
      <3> QED BY <1>0, <2>1, <2>2, <3>1, ShownIs DEF TypeOK
    <2>4. Protocol!Present(s)
      BY <2>1, <2>2, <2>3 DEF Protocol!Present, Protocol!Show, Shows, Reached
    <2> QED BY <2>4 DEF Protocol!Next
  <1>3. CASE /\ UNCHANGED position
             /\ \/ Moved(s, "handling", "processing") \/ Moved(s, "processing", "result")
                \/ Moved(s, "result", "reset") \/ Moved(s, "reset", "response")
    <2>1. /\ \/ Shows[s] = "handling" /\ Shows' = [Shows EXCEPT ![s] = "processing"]
             \/ Shows[s] = "processing" /\ Shows' = [Shows EXCEPT ![s] = "result"]
             \/ Shows[s] = "result" /\ Shows' = [Shows EXCEPT ![s] = "reset"]
             \/ Shows[s] = "reset" /\ Shows' = [Shows EXCEPT ![s] = "response"]
          /\ Reached' = Reached
      BY <1>3, ShownMove
    <2>2. Protocol!Proceed(s)
      BY <2>1 DEF Protocol!Proceed, Protocol!Show, Shows, Reached
    <2> QED BY <2>2 DEF Protocol!Next
  <1>4. CASE UNCHANGED position /\ Moved(s, "response", "summary") /\ position[s] = LastPosition
    <2>1. /\ Shows[s] = "response" /\ Shows' = [Shows EXCEPT ![s] = "summary"]
          /\ Reached[s] = LastPosition /\ Reached' = Reached
      BY <1>4, ShownMove
    <2>2. Protocol!Summarize(s)
      BY <2>1 DEF Protocol!Summarize, Protocol!Show, Shows, Reached
    <2> QED BY <2>2 DEF Protocol!Next
  <1>5. CASE UNCHANGED position /\ Moved(s, "summary", "completed")
    <2>1. /\ Shows[s] = "summary" /\ Shows' = [Shows EXCEPT ![s] = "completed"]
          /\ Reached' = Reached
      BY <1>5, ShownMove
    <2>2. Protocol!Complete(s)
      BY <2>1 DEF Protocol!Complete, Protocol!Show, Shows, Reached
    <2> QED BY <2>2 DEF Protocol!Next
  <1> QED BY <1>1, <1>2, <1>3, <1>4, <1>5 DEF MovesOn

LEMMA ProtocolStep ==
  ASSUME TypeOK, PositionInv, PhaseMoves
  PROVE  [Protocol!Next]_<<Shows, Reached>>
  <1>1. ASSUME NEW s \in Sessions, Born(s) PROVE UNCHANGED <<Shows, Reached>>
    <2>1. Shows' = Shows
      BY <1>1, ShownAsIs, ShownIs DEF Born, Moved, TypeOK
    <2> QED BY <1>1, <2>1, ShownAsIs, ReachedKept DEF Born, Moved
  <1>2. ASSUME NEW s \in Sessions, Ends(s) PROVE [Protocol!Next]_<<Shows, Reached>>
    <2>1. PICK p \in {"error", "aborted", "deleted"} : phase' = [phase EXCEPT ![s] = p]
      BY <1>2 DEF Ends
    <2>2. Shows' = [Shows EXCEPT ![s] = "ended"]
      <3>1. Shows' = [Shows EXCEPT ![s] = ShownAs(p)]
        BY <2>1, ShowsChange
      <3>2. ShownAs(p) = "ended"
        BY ShownAsIs
      <3> QED BY <3>1, <3>2
    <2>3. Reached' = [Reached EXCEPT ![s] = 0]
      <3>1. ShownAs(p) = "ended" /\ \A t \in Sessions \ {s} : position'[t] = position[t]
        BY <1>2, ShownAsIs DEF Ends, TypeOK
      <3> QED BY <2>1, <3>1, ShownIs DEF TypeOK
    <2>4. CASE Shows[s] = "ended"
      <3>1. Reached[s] = 0
        BY <2>4 DEF Shows, Reached
      <3> QED BY <2>2, <2>3, <2>4, <3>1 DEF Shows, Reached
    <2>5. CASE Shows[s] # "ended"
      <3>1. Protocol!End(s)
        BY <2>2, <2>3, <2>5 DEF Protocol!End, Shows, Reached
      <3> QED BY <3>1 DEF Protocol!Next
    <2> QED BY <2>4, <2>5
  <1>3. CASE Stays
    BY <1>3, ShownIs DEF Stays
  <1> QED BY <1>1, <1>2, <1>3, ProtocolMove DEF PhaseMoves

LEMMA ProtocolInit == Init => PositionInv /\ Protocol!Init
  <1> SUFFICES ASSUME Init PROVE PositionInv /\ Protocol!Init OBVIOUS
  <1>1. PositionInv
    BY DEF Init, PositionInv, Timed
  <1>2. Shows = [s \in Sessions |-> "waiting"] /\ Reached = [s \in Sessions |-> 0]
    BY ShownIs, ShownAsIs DEF Init
  <1> QED BY <1>1, <1>2 DEF Protocol!Init, Shows, Reached

\* With all its concurrent requests, timers and failures, the controller shows
\* every participant a run of the protocol: the phases of a presentation and
\* the presentations of the order each once and in turn, and nothing after the
\* end, for any number of sessions, of requests and of presentations.
THEOREM ProtocolKept == Spec => ImplementsProtocol
  <1>1. Init => TypeOK /\ PositionInv /\ Protocol!Init
    BY TypeInit, ProtocolInit
  <1>2. TypeOK /\ PositionInv /\ [Next]_vars =>
          /\ (TypeOK /\ PositionInv)'
          /\ [Protocol!Next]_<<Shows, Reached>>
    BY TypeStep, PhaseStep, PositionStep, ProtocolStep
  <1> QED BY <1>1, <1>2, PTL DEF Spec, ImplementsProtocol, Protocol!Spec, Shows, Reached

-----------------------------------------------------------------------------
(* The phase timer and the pauses.                                         *)

\* The timer of the phase on show is armed.
OnShow ==
  /\ active # None /\ phase[active] \in Timed /\ ~recovery[active]
  /\ timer = [session |-> active, phase |-> phase[active]]

StopCause ==
  \/ phase'[active] # phase[active] \/ recovery'[active]
  \/ active \in resetChecks' \/ emergencyLocked'

TimerCalm == OnShow /\ timer' # timer => StopCause

LEMMA FailureStopsTimer ==
  ASSUME TypeOK, NoFailure \/ FailActive \/ (active # None /\ FailSession(active))
  PROVE  TimerCalm
  <1>1. CASE active # None /\ FailSession(active)
    BY <1>1 DEF FailSession, Neutralise, TypeOK, TimerCalm, OnShow, StopCause
  <1> QED BY <1>1 DEF FailActive, NoFailure, TimerCalm

LEMMA TimerEnvironment == ASSUME TypeOK, Environment PROVE TimerCalm
  <1>1. CASE LeaseLost \/ AuditFails \/ \E report \in Mishaps \ {"audit"} : DeviceReports(report)
    BY <1>1, FailureStopsTimer DEF LeaseLost, AuditFails, DeviceReports, ActiveIs
  <1>2. ASSUME NEW s \in Sessions, Start(s) \/ NextPresentation(s) \/ ResumeTimed(s)
        PROVE  TimerCalm
    BY <1>2 DEF Start, NextPresentation, CanConfirm, ResumeTimed, CanResume, TimerCalm, OnShow, Timed
  <1>3. ASSUME NEW s \in Sessions, DisplayLost(s) PROVE TimerCalm
    <2>1. CASE active = s /\ FailSession(s)
      BY <2>1, FailureStopsTimer, SessionAssumption
    <2>2. CASE ~(active = s /\ phase[s] \in {"result", "reset"})
      <3>1. timer' # timer => active = s /\ phase[s] \in Timed
        BY <1>3, <2>2 DEF DisplayLost
      <3>2. recovery' = [recovery EXCEPT ![s] = @ \/ (active = s /\ phase[s] \in Running)]
        BY <1>3, <2>2 DEF DisplayLost
      <3>3. active = s /\ phase[s] \in Timed => recovery'[s]
        BY <3>2 DEF TypeOK, Running
      <3> QED BY <3>1, <3>3 DEF TimerCalm, StopCause
    <2> QED BY <1>3, <2>1, <2>2 DEF DisplayLost
  <1>4. CASE timer' = timer
    BY <1>4 DEF TimerCalm
  <1> QED
    BY <1>1, <1>2, <1>3, <1>4
    DEF Environment, ConfirmOperatorSession, LeaseGranted, DeviceDeflates, ConnectDevice,
        DisconnectDevice, TestDeflate, StopDevice, ResumeUntimed, Summarize, DisplayReady

LEMMA TimerDueCalm == ASSUME TypeOK, TimerDue PROVE TimerCalm
  <1> SUFFICES ASSUME OnShow PROVE StopCause
    BY DEF TimerCalm
  <1>1. /\ timer # None /\ timer.session = active /\ timer.phase = phase[active]
        /\ timer.phase \in Timed /\ Advances(active, timer.phase) /\ active \in Sessions
    BY DEF OnShow, Advances, TypeOK, TimerDue, TimerAdvances, TimerEndsReset, TimerIgnored
  <1>2. CASE TimerAdvances
    <2>1. phase'[active] = NextTimed[timer.phase]
      BY <1>1, <1>2 DEF TimerAdvances, EnterTimedPhase, TypeOK
    <2>2. NextTimed[timer.phase] # timer.phase
      BY <1>1, <1>2 DEF TimerAdvances, NextTimed, Timed
    <2> QED BY <1>1, <2>1, <2>2 DEF StopCause
  <1>3. CASE TimerEndsReset
    BY <1>1, <1>3 DEF TimerEndsReset, EnterUntimedPhase, TypeOK, StopCause
  <1> QED BY <1>1, <1>2, <1>3 DEF TimerDue, TimerIgnored

LEMMA TimerChecks ==
  ASSUME TypeOK, NEW s \in Sessions, ResetCheckSettles(s) \/ CommandSettles(s)
  PROVE  TimerCalm
  <1> active = s => active # None
    BY SessionAssumption
  <1> QED
    BY FailureStopsTimer
    DEF ResetCheckSettles, ResetChecked, ResetCheckRejected, CommandSettles, Advances, NoFailure,
        TimerCalm

LEMMA TimerCallers ==
  ASSUME TypeOK, NEW c \in Callers, CallerRequests(c) \/ CallerContinues(c)
  PROVE  TimerCalm
  <1>1. ASSUME NEW s, active = s, AbortNow(c, s) PROVE TimerCalm
    BY <1>1
    DEF AbortNow, EnterTerminalPhase, TypeOK, TimerCalm, OnShow, StopCause, Timed
  <1>2. ASSUME NEW s \in Sessions, EmergencyBegin(c, s) PROVE TimerCalm
    BY <1>2 DEF EmergencyBegin, TimerCalm, StopCause
  <1>3. ASSUME NEW s \in Sessions, DeleteBegin(c, s) PROVE TimerCalm
    BY <1>3 DEF DeleteBegin, TimerCalm, OnShow, Timed
  <1>4. CASE timer' = timer
    BY <1>4 DEF TimerCalm
  <1>5. ASSUME NEW s \in Sessions, AbortBegin(c, s) PROVE TimerCalm
    BY <1>1, <1>4, <1>5 DEF AbortBegin
  <1>6. CASE AbortJoined(c)
    BY <1>1, <1>4, <1>6 DEF AbortJoined
  <1> QED
    BY <1>2, <1>3, <1>4, <1>5, <1>6
    DEF CallerRequests, CallerContinues, CreateBegin, CreateCommit, TestBegin, CreateRejected,
        CreateAudited, CreateAuditFails, PrepareBegin, PrepareContinues, PrepareRejected,
        HandoffBegin, HandoffEnds, EmergencyJoined, StopReturns, JoinedStopReturns,
        DeleteContinues, DeleteAudited, DeleteAuditFails, TestChecks, TestInflates, TestEnds

LEMMA TimerStep == TypeOK /\ [Next]_vars => TimerCalm
  <1> SUFFICES ASSUME TypeOK, [Next]_vars PROVE TimerCalm OBVIOUS
  <1>1. CASE timer' = timer
    BY <1>1 DEF TimerCalm
  <1>2. CASE FailureContinues \/ (\E f \in Flows : SafetyContinues(f)) \/ UNCHANGED vars
    BY <1>1, <1>2
    DEF FailureContinues, FailureRecorded, FailureThrows, FailureEnds, SafetyContinues,
        StopSettles, DeflateSettles, DeflationConfirmed, DeflationUnconfirmed,
        DeflationReported, vars
  <1> QED BY <1>2, TimerEnvironment, TimerDueCalm, TimerChecks, TimerCallers DEF Next

\* No step of any request, report or failure stops the timer of the phase that
\* is on show, unless the phase is left, waits for recovery or for the device,
\* or the operator stopped the device: no run is left standing in a timed phase.
THEOREM TimerNeverStopsUnasked == Spec => TimerStopsForCause
  <1>1. TypeOK /\ [Next]_vars =>
          [/\ ActiveIs(Timed) /\ ~recovery[active]
           /\ timer = [session |-> active, phase |-> phase[active]]
           /\ timer' # timer
           => \/ phase'[active] # phase[active] \/ recovery'[active]
              \/ active \in resetChecks' \/ emergencyLocked']_vars
    BY TimerStep DEF TimerCalm, OnShow, StopCause, ActiveIs
  <1> QED BY <1>1, TypeInit, TypeStep, PTL DEF Spec, TimerStopsForCause

-----------------------------------------------------------------------------

\* Time is saved only for a run that waits in handling or processing: a run
\* that is halted while it shows the stimulus has none to resume with.
SavedInv ==
  \A s \in Sessions :
    hasRemaining[s] =>
      \/ phase[s] \in {"handling", "processing"} /\ recovery[s]
      \/ phase[s] \in Over

HaltedShowing(s) == recovery[s] /\ phase[s] \in {"result", "reset"}

HaltKept(s) ==
  HaltedShowing(s) =>
    \/ phase'[s] = phase[s] /\ recovery'[s]
    \/ phase'[s] \in {"error", "aborted", "deleted"}

HaltsKept == SavedInv' /\ \A s \in Sessions : HaltKept(s)

\* A step that saves no time and ends no wait.
LEMMA Waits ==
  ASSUME TypeOK, SavedInv, UNCHANGED <<phase, hasRemaining>>,
         \A s \in Sessions : recovery[s] => recovery'[s]
  PROVE  HaltsKept
  BY DEF SavedInv, HaltsKept, HaltKept, HaltedShowing

LEMMA FailureWaits ==
  ASSUME TypeOK, SavedInv, UNCHANGED <<phase, hasRemaining>>,
         \/ NoFailure \/ FailActive \/ UNCHANGED recovery
         \/ \E s \in Sessions \union {None} : FailSession(s) \/ Neutralise(s)
  PROVE  HaltsKept
  <1>1. \A s \in Sessions : recovery[s] => recovery'[s]
    BY DEF NoFailure, FailActive, FailSession, Neutralise, TypeOK
  <1> QED BY <1>1, Waits

\* A session that neither waits nor is over goes on, or a session ends.
LEMMA HaltsEntered ==
  ASSUME TypeOK, SavedInv, NEW s, NEW p,
         phase' = [phase EXCEPT ![s] = p],
         recovery' = [recovery EXCEPT ![s] = FALSE],
         \/ p \in {"error", "aborted"} /\ hasRemaining' = hasRemaining
         \/ p = "deleted" /\ hasRemaining' = [hasRemaining EXCEPT ![s] = FALSE]
         \/ /\ phase[s] \notin Over /\ (phase[s] = "setup" \/ ~recovery[s])
            /\ hasRemaining' = hasRemaining
  PROVE  HaltsKept
  <1>1. SavedInv'
    <2> SUFFICES ASSUME NEW t \in Sessions, hasRemaining'[t]
                 PROVE  \/ phase'[t] \in {"handling", "processing"} /\ recovery'[t]
                        \/ phase'[t] \in Over
      BY DEF SavedInv
    <2>1. hasRemaining[t]
      BY DEF TypeOK
    <2>2. CASE t # s
      BY <2>1, <2>2 DEF TypeOK, SavedInv
    <2>3. CASE t = s
      <3>1. phase[s] \notin Over /\ (phase[s] = "setup" \/ ~recovery[s]) => ~hasRemaining[s]
        BY <2>3 DEF SavedInv
      <3> QED BY <2>1, <2>3, <3>1, SMT DEF TypeOK, Over, Terminal
    <2> QED BY <2>2, <2>3
  <1>2. \A t \in Sessions : HaltKept(t)
    BY DEF TypeOK, HaltKept, HaltedShowing
  <1> QED BY <1>1, <1>2 DEF HaltsKept

LEMMA HaltsEnvironment == ASSUME TypeOK, SavedInv, Environment PROVE HaltsKept
  <1>1. ASSUME NEW s \in Sessions, Start(s) \/ NextPresentation(s) \/ Summarize(s)
        PROVE  HaltsKept
    <2>1. /\ \E p : phase' = [phase EXCEPT ![s] = p]
          /\ recovery' = [recovery EXCEPT ![s] = FALSE] /\ hasRemaining' = hasRemaining
          /\ phase[s] \in {"intro", "response"} /\ ~recovery[s]
      BY <1>1 DEF Start, NextPresentation, Summarize, CanConfirm, EnterTimedPhase, EnterUntimedPhase
    <2> QED BY <2>1, HaltsEntered DEF Over, Terminal
  <1>2. ASSUME NEW s \in Sessions, ResumeTimed(s) \/ ResumeUntimed(s) PROVE HaltsKept
    <2>1. /\ phase' = phase /\ recovery' = [recovery EXCEPT ![s] = FALSE]
          /\ \/ hasRemaining[s] /\ phase[s] \in Timed
                /\ hasRemaining' = [hasRemaining EXCEPT ![s] = FALSE]
             \/ phase[s] \notin Timed /\ hasRemaining' = hasRemaining
      BY <1>2 DEF ResumeTimed, ResumeUntimed
    <2> QED
      BY <2>1
      DEF TypeOK, SavedInv, HaltsKept, HaltKept, HaltedShowing, Timed, Over, Terminal
  <1>3. ASSUME NEW s \in Sessions, DisplayLost(s) PROVE HaltsKept
    <2>1. CASE FailSession(s) /\ UNCHANGED hasRemaining
      BY <1>3, <2>1, FailureWaits DEF DisplayLost
    <2>2. CASE ~(active = s /\ phase[s] \in {"result", "reset"})
      <3>1. /\ phase' = phase
            /\ recovery' = [recovery EXCEPT ![s] = @ \/ (active = s /\ phase[s] \in Running)]
            /\ \/ hasRemaining' = hasRemaining
               \/ active = s /\ phase[s] \in {"handling", "processing"}
                  /\ \E remaining \in BOOLEAN : hasRemaining' = [hasRemaining EXCEPT ![s] = remaining]
        BY <1>3, <2>2 DEF DisplayLost, Timed
      <3>2. \A t \in Sessions : recovery[t] => recovery'[t]
        BY <3>1 DEF TypeOK
      <3>3. active = s /\ phase[s] \in {"handling", "processing"} => recovery'[s]
        BY <3>1 DEF TypeOK, Running, Timed
      <3> QED BY <3>1, <3>2, <3>3 DEF TypeOK, SavedInv, HaltsKept, HaltKept, HaltedShowing
    <2> QED BY <1>3, <2>1, <2>2 DEF DisplayLost
  <1>4. CASE LeaseLost \/ AuditFails \/ \E report \in Mishaps \ {"audit"} : DeviceReports(report)
    BY <1>4, FailureWaits DEF LeaseLost, AuditFails, DeviceReports, TypeOK
  <1>5. CASE UNCHANGED <<phase, recovery, hasRemaining>>
    BY <1>5, Waits
  <1> QED
    BY <1>1, <1>2, <1>3, <1>4, <1>5
    DEF Environment, ConfirmOperatorSession, LeaseGranted, DeviceDeflates, ConnectDevice,
        DisconnectDevice, TestDeflate, StopDevice, DisplayReady, sessionVars

LEMMA HaltsTimer == ASSUME TypeOK, SavedInv, TimerDue PROVE HaltsKept
  <1> DEFINE s == timer.session
  <1>1. CASE /\ TimerAdvances \/ TimerEndsReset
             /\ \E p : phase' = [phase EXCEPT ![s] = p]
             /\ recovery' = [recovery EXCEPT ![s] = FALSE]
    <2>1. /\ phase[s] \in Timed /\ ~recovery[s] /\ hasRemaining' = hasRemaining
      BY <1>1 DEF TimerAdvances, TimerEndsReset, Advances, TypeOK
    <2> QED BY <1>1, <2>1, HaltsEntered DEF Over, Terminal, Timed
  <1>2. CASE TimerEndsReset /\ UNCHANGED <<phase, recovery>>
    BY <1>2, Waits DEF TimerEndsReset
  <1>3. CASE TimerIgnored
    BY <1>3, FailureWaits DEF TimerIgnored, TypeOK
  <1> QED
    BY <1>1, <1>2, <1>3 DEF TimerDue, TimerAdvances, TimerEndsReset, EnterTimedPhase,
                            EnterUntimedPhase

LEMMA HaltsChecks ==
  ASSUME TypeOK, SavedInv, NEW s \in Sessions, ResetCheckSettles(s) \/ CommandSettles(s)
  PROVE  HaltsKept
  <1>1. CASE /\ Advances(s, "reset") /\ EnterUntimedPhase(s, "response")
             /\ hasRemaining' = hasRemaining
    BY <1>1, HaltsEntered DEF Advances, EnterUntimedPhase, Over, Terminal
  <1>2. CASE UNCHANGED <<phase, hasRemaining>> /\ (NoFailure \/ FailActive \/ FailSession(s))
    BY <1>2, FailureWaits
  <1> QED
    BY <1>1, <1>2 DEF ResetCheckSettles, ResetChecked, ResetCheckRejected, CommandSettles

LEMMA HaltsFailure == ASSUME TypeOK, SavedInv, FailureContinues PROVE HaltsKept
  <1>1. CASE FailureRecorded
    BY <1>1, HaltsEntered DEF FailureRecorded
  <1>2. CASE FailureThrows \/ FailureEnds
    BY <1>2, Waits DEF FailureThrows, FailureEnds, sessionVars
  <1> QED BY <1>1, <1>2 DEF FailureContinues

LEMMA HaltsCallers ==
  ASSUME TypeOK, SavedInv, NEW c \in Callers, CallerRequests(c) \/ CallerContinues(c)
  PROVE  HaltsKept
  <1>1. CASE UNCHANGED <<phase, recovery, hasRemaining>>
    BY <1>1, Waits
  <1>2. ASSUME NEW s, EnterTerminalPhase(s, "aborted"), UNCHANGED hasRemaining PROVE HaltsKept
    BY <1>2, HaltsEntered DEF EnterTerminalPhase
  <1>3. ASSUME NEW s \in Sessions, CreateCommit(c, s) PROVE HaltsKept
    BY <1>3 DEF CreateCommit, TypeOK, SavedInv, HaltsKept, HaltKept, HaltedShowing, Over, Terminal
  <1>4. ASSUME NEW s, Forget(s) PROVE HaltsKept
    BY <1>4, HaltsEntered DEF Forget
  <1>5. CASE PrepareContinues(c)
    <2> DEFINE s == flow[c].session
    <2>1. /\ phase[s] = "setup" /\ phase' = [phase EXCEPT ![s] = "intro"]
          /\ recovery' = [recovery EXCEPT ![s] = FALSE] /\ hasRemaining' = hasRemaining
      BY <1>5 DEF PrepareContinues, CanPrepare, EnterUntimedPhase
    <2> QED BY <2>1, HaltsEntered DEF Over, Terminal
  <1>6. ASSUME NEW s \in Sessions, HandoffBegin(c, s) PROVE HaltsKept
    <2>1. /\ phase[s] = "summary" /\ ~recovery[s] /\ phase' = [phase EXCEPT ![s] = "completed"]
          /\ recovery' = [recovery EXCEPT ![s] = FALSE] /\ hasRemaining' = hasRemaining
      BY <1>6 DEF HandoffBegin, CanConfirm, EnterTerminalPhase
    <2> QED BY <2>1, HaltsEntered DEF Over, Terminal
  <1>7. ASSUME NEW s \in Sessions, AbortBegin(c, s) \/ EmergencyBegin(c, s) PROVE HaltsKept
    BY <1>1, <1>2, <1>7 DEF AbortBegin, AbortNow, EmergencyBegin
  <1>8. CASE AbortJoined(c) \/ EmergencyJoined(c)
    BY <1>1, <1>2, <1>8 DEF AbortJoined, AbortNow, EmergencyJoined
  <1> QED
    BY <1>1, <1>3, <1>4, <1>5, <1>6, <1>7, <1>8
    DEF CallerRequests, CallerContinues, CreateBegin, TestBegin, CreateRejected, CreateAudited,
        CreateAuditFails, PrepareBegin, PrepareRejected, HandoffEnds, StopReturns,
        JoinedStopReturns, DeleteBegin, DeleteContinues, DeleteAudited, DeleteAuditFails,
        TestChecks, TestInflates, TestEnds, sessionVars

LEMMA HaltsStep == TypeOK /\ SavedInv /\ [Next]_vars => HaltsKept
  <1> SUFFICES ASSUME TypeOK, SavedInv, [Next]_vars PROVE HaltsKept OBVIOUS
  <1>1. CASE UNCHANGED <<phase, recovery, hasRemaining>>
    BY <1>1, Waits
  <1>2. CASE (\E f \in Flows : SafetyContinues(f)) \/ UNCHANGED vars
    BY <1>1, <1>2
    DEF SafetyContinues, StopSettles, DeflateSettles, DeflationConfirmed, DeflationUnconfirmed,
        DeflationReported, vars, sessionVars
  <1> QED
    BY <1>2, HaltsEnvironment, HaltsTimer, HaltsFailure, HaltsChecks, HaltsCallers DEF Next

\* A run that a failure halts in result or reset never goes on: no resume, late
\* timer or late answer of the device moves it, it leaves its phase only for
\* error, aborted or deleted.
THEOREM HaltedStimulusIsFinal == Spec => StimulusFailureIsFinal
  <1>1. Init => TypeOK /\ SavedInv
    BY TypeInit DEF Init, SavedInv
  <1>2. TypeOK /\ SavedInv /\ [Next]_vars =>
          /\ (TypeOK /\ SavedInv)'
          /\ [\A s \in Sessions :
                FailureOf(s) /\ recovery[s] /\ phase[s] \in {"result", "reset"} =>
                  \/ phase'[s] = phase[s] /\ recovery'[s]
                  \/ phase'[s] \in {"error", "aborted", "deleted"}]_vars
    BY TypeStep, HaltsStep DEF HaltsKept, HaltKept, HaltedShowing
  <1> QED BY <1>1, <1>2, PTL DEF Spec, StimulusFailureIsFinal

-----------------------------------------------------------------------------
(***************************************************************************)
(* What the requests, the failure task and the device do to a run          *)
(* together. A running participant meets an inflated device only in the    *)
(* presentation that asks for it: this is inductive together with the fact *)
(* that no device test is waiting, or inflating, while a run is on         *)
(* (PufferInv), since the only commands that inflate are that of a result  *)
(* phase and that of a test, and the only way into a run, prepare, queues  *)
(* behind every test and wants the device flat. The rest stands on three   *)
(* summaries of what any step may do (PhaseMoves, FlowMoves and LetsGo)    *)
(* and on FlowInv, which says what a handler that waits may still rely on: *)
(* a confirmed stop holds (StopInv), there is one run at a time            *)
(* (RunsActive), and a run without a lease is being made safe              *)
(* (SupervisionInv).                                                       *)
(***************************************************************************)

RunOn == active # None /\ phase[active] \in Running
Testing(c) == flow[c].stage \in {"checking", "inflating"}

PufferInv == PufferOnlyInPufferPresentation /\ NoDeviceTestDuringRun

LEMMA PufferInvIs ==
  PufferInv <=>
    /\ RunOn /\ puffer # "flat" =>
         phase[active] \in {"result", "reset"} /\ ShowsPuffer(active, position[active])
    /\ \A c \in Callers : Testing(c) => ~RunOn
  BY DEF PufferInv, PufferOnlyInPufferPresentation, NoDeviceTestDuringRun, ActiveIs, RunOn, Testing

-----------------------------------------------------------------------------
(* Calm steps: they do not move the run that is on, do not inflate a flat  *)
(* device and begin no device test.                                        *)

RunCalm ==
  RunOn' => /\ RunOn /\ active' = active
            /\ phase'[active] = phase[active] /\ position'[active] = position[active]
PufferCalm == puffer = "flat" => puffer' = "flat"
TestsCalm == \A c \in Callers : Testing(c)' => Testing(c)

LEMMA CalmStep ==
  ASSUME PufferInv, RunCalm, PufferCalm, TestsCalm PROVE PufferInv'
  <1>1. \A c \in Callers : Testing(c)' => ~RunOn'
    BY PufferInvIs DEF RunCalm, TestsCalm
  <1>2. RunOn' /\ puffer' # "flat" =>
          phase'[active'] \in {"result", "reset"} /\ ShowsPuffer(active', position'[active'])
    BY PufferInvIs DEF RunCalm, PufferCalm
  <1> QED
    BY <1>1, <1>2
    DEF PufferInv, PufferOnlyInPufferPresentation, NoDeviceTestDuringRun, ActiveIs, RunOn,
        Testing, ShowsPuffer

LEMMA CalmFlow ==
  ASSUME flow \in [Flows -> FlowType], NEW f \in Flows, NEW w,
         w.stage \notin {"checking", "inflating"},
         flow' \in {[flow EXCEPT ![f] = w], [StopPending EXCEPT ![f] = w]}
  PROVE  TestsCalm
  <1> SUFFICES ASSUME NEW c \in Callers, Testing(c)' PROVE Testing(c)
    BY DEF TestsCalm
  <1>1. c \in Flows
    BY DEF Flows
  <1>2. c # f
    BY <1>1 DEF Testing, StopPending
  <1> QED BY <1>1, <1>2 DEF Testing, StopPending, Idle

LEMMA CalmIdle ==
  ASSUME flow \in [Flows -> FlowType], NEW f \in Flows, flow' = [flow EXCEPT ![f] = Idle]
  PROVE  TestsCalm
  <1> Idle.stage = "idle"
    BY DEF Idle
  <1> QED BY CalmFlow

LEMMA CalmBegun ==
  ASSUME flow \in [Flows -> FlowType], NEW f \in Flows, NEW op, NEW s,
         NEW stage \in Stages \ {"checking", "inflating"},
         flow' = [flow EXCEPT ![f] = Waiting(op, s, stage)]
  PROVE  TestsCalm
  <1> Waiting(op, s, stage).stage = stage
    BY DEF Waiting
  <1> QED BY CalmFlow

LEMMA CalmStage ==
  ASSUME flow \in [Flows -> FlowType], NEW f \in Flows,
         NEW stage \in Stages \ {"checking", "inflating"},
         \/ ToStage(f, stage)
         \/ \E failed \in BOOLEAN :
              flow' = [flow EXCEPT ![f].stage = stage, ![f].failed = failed]
  PROVE  TestsCalm
  <1>1. PICK w \in FlowType : w.stage = stage /\ flow' = [flow EXCEPT ![f] = w]
    <2>1. CASE ToStage(f, stage)
      <3>1. [flow[f] EXCEPT !.stage = stage] \in FlowType
        BY DEF FlowType
      <3>2. [flow[f] EXCEPT !.stage = stage].stage = stage
        BY DEF FlowType
      <3> QED BY <2>1, <3>1, <3>2 DEF ToStage
    <2>2. ASSUME NEW failed \in BOOLEAN,
                 flow' = [flow EXCEPT ![f].stage = stage, ![f].failed = failed]
          PROVE  \E w \in FlowType : w.stage = stage /\ flow' = [flow EXCEPT ![f] = w]
      <3>1. [flow[f] EXCEPT !.stage = stage, !.failed = failed] \in FlowType
        BY DEF FlowType
      <3>2. [flow[f] EXCEPT !.stage = stage, !.failed = failed].stage = stage
        BY DEF FlowType
      <3> QED BY <2>2, <3>1, <3>2
    <2> QED BY <2>1, <2>2
  <1> QED BY <1>1, CalmFlow

LEMMA CalmSafety ==
  ASSUME flow \in [Flows -> FlowType], NEW f \in Flows, NEW op, NEW s, BeginSafety(f, op, s)
  PROVE  PufferCalm /\ TestsCalm
  <1>1. PufferCalm
    BY DEF BeginSafety, AfterStop, Reachable, PufferCalm
  <1>2. Waiting(op, s, "stop").stage = "stop"
    BY DEF Waiting
  <1> QED BY <1>1, <1>2, CalmFlow DEF BeginSafety

LEMMA CalmNeutralise ==
  ASSUME TypeOK, NEW s, Neutralise(s) PROVE PufferCalm /\ TestsCalm
  <1>1. CASE StartsFailure(s)
    BY <1>1, CalmSafety DEF Neutralise, TypeOK, Flows
  <1>2. CASE ~StartsFailure(s)
    BY <1>2 DEF Neutralise, PufferCalm, TestsCalm, Testing
  <1> QED BY <1>1, <1>2

LEMMA CalmFailure ==
  ASSUME TypeOK, NEW s, FailSession(s) \/ FailActive \/ NoFailure PROVE PufferCalm /\ TestsCalm
  BY CalmNeutralise DEF FailSession, FailActive, NoFailure, PufferCalm, TestsCalm, Testing

LEMMA RunKept ==
  ASSUME active' \in {active, None}, phase' = phase, position' = position PROVE RunCalm
  BY DEF RunCalm, RunOn

LEMMA RunEnded ==
  ASSUME TypeOK, active' \in {active, None}, NEW s, NEW p, p \notin Running,
         phase' = [phase EXCEPT ![s] = p],
         position' \in {position, [position EXCEPT ![s] = 0]}
  PROVE  RunCalm
  BY DEF TypeOK, RunCalm, RunOn

-----------------------------------------------------------------------------
(* The calm steps.                                                         *)

LEMMA PufferCreation ==
  ASSUME TypeOK, PufferInv, NEW c \in Callers,
         \/ CreateBegin(c) \/ CreateRejected(c)
         \/ \E s \in Sessions : CreateCommit(c, s)
         \/ CreateAudited(c) \/ CreateAuditFails(c)
  PROVE  PufferInv'
  <1> c \in Flows /\ flow \in [Flows -> FlowType]
    BY DEF Flows, TypeOK
  <1>1. TestsCalm
    BY CalmIdle, CalmBegun, SomeStages
    DEF CreateBegin, CreateRejected, CreateCommit, CreateAudited, CreateAuditFails
  <1>2. PufferCalm
    BY DEF CreateBegin, CreateRejected, CreateCommit, CreateAudited, CreateAuditFails,
           deviceVars, PufferCalm
  <1>3. RunCalm
    <2>1. CASE CreateBegin(c) \/ CreateRejected(c) \/ CreateAudited(c)
      BY <2>1, RunKept DEF CreateBegin, CreateRejected, CreateAudited, sessionVars
    <2>2. ASSUME NEW s \in Sessions, CreateCommit(c, s) PROVE RunCalm
      BY <2>2 DEF CreateCommit, TypeOK, RunCalm, RunOn, Running, Timed
    <2>3. CASE CreateAuditFails(c)
      BY <2>3 DEF CreateAuditFails, RunCalm, RunOn
    <2> QED BY <2>1, <2>2, <2>3
  <1> QED BY <1>1, <1>2, <1>3, CalmStep

LEMMA PufferStopping ==
  ASSUME TypeOK, PufferInv, NEW c \in Callers,
         \/ \E s \in Sessions : AbortBegin(c, s) \/ EmergencyBegin(c, s)
         \/ AbortJoined(c) \/ EmergencyJoined(c) \/ StopReturns(c) \/ JoinedStopReturns(c)
  PROVE  PufferInv'
  <1> c \in Flows /\ flow \in [Flows -> FlowType]
    BY DEF Flows, TypeOK
  <1> "aborted" \notin Running
    BY DEF Running, Timed
  <1>1. ASSUME NEW s, AbortNow(c, s), UNCHANGED <<active, position>> PROVE PufferInv'
    BY <1>1, CalmSafety, RunEnded, CalmStep DEF AbortNow, EnterTerminalPhase
  <1>2. ASSUME NEW s, NEW op, flow' = [flow EXCEPT ![c] = Waiting(op, s, "join")],
               UNCHANGED <<phase, position, active, puffer>>
        PROVE  PufferInv'
    BY <1>2, CalmBegun, SomeStages, RunKept, CalmStep DEF PufferCalm
  <1>3. ASSUME NEW s, EnterTerminalPhase(s, "aborted") \/ UNCHANGED phase,
               UNCHANGED <<position, active>>
        PROVE  RunCalm
    BY <1>3, RunEnded, RunKept DEF EnterTerminalPhase
  <1>4. ASSUME NEW s \in Sessions, AbortBegin(c, s) PROVE PufferInv'
    BY <1>1, <1>2, <1>4 DEF AbortBegin
  <1>5. ASSUME NEW s \in Sessions, EmergencyBegin(c, s) PROVE PufferInv'
    <2>1. PufferCalm /\ TestsCalm
      BY <1>5, CalmSafety, CalmBegun, SomeStages DEF EmergencyBegin, PufferCalm
    <2> QED BY <1>3, <1>5, <2>1, CalmStep DEF EmergencyBegin
  <1>6. CASE AbortJoined(c)
    <2>1. CASE /\ EnterTerminalPhase(flow[c].session, "aborted")
               /\ ToStage(c, "finish") /\ UNCHANGED <<timer, puffer>>
      BY <1>3, <1>6, <2>1, CalmStage, SomeStages, CalmStep DEF AbortJoined, PufferCalm
    <2>2. CASE AbortNow(c, flow[c].session)
      BY <1>1, <1>6, <2>2 DEF AbortJoined
    <2>3. CASE flow' = [flow EXCEPT ![c] = Idle] /\ UNCHANGED <<phase, recovery, timer, puffer>>
      BY <1>3, <1>6, <2>3, CalmIdle, CalmStep DEF AbortJoined, PufferCalm
    <2> QED BY <1>6, <2>1, <2>2, <2>3 DEF AbortJoined
  <1>7. CASE EmergencyJoined(c)
    BY <1>3, <1>7, CalmStage, SomeStages, CalmStep DEF EmergencyJoined, PufferCalm, deviceVars
  <1>8. CASE StopReturns(c) \/ JoinedStopReturns(c)
    BY <1>8, CalmIdle, RunKept, CalmStep
    DEF StopReturns, JoinedStopReturns, LetGo, PufferCalm, sessionVars, deviceVars
  <1> QED BY <1>4, <1>5, <1>6, <1>7, <1>8

LEMMA PufferDeletion ==
  ASSUME TypeOK, PufferInv, NEW c \in Callers,
         \/ \E s \in Sessions : DeleteBegin(c, s)
         \/ DeleteContinues(c) \/ DeleteAudited(c) \/ DeleteAuditFails(c)
  PROVE  PufferInv'
  <1> c \in Flows /\ flow \in [Flows -> FlowType]
    BY DEF Flows, TypeOK
  <1>1. ASSUME NEW s \in Sessions, DeleteBegin(c, s) PROVE PufferInv'
    <2>1. PufferCalm /\ TestsCalm
      BY <1>1, CalmSafety, CalmBegun, SomeStages DEF DeleteBegin, PufferCalm
    <2> QED BY <1>1, <2>1, RunKept, CalmStep DEF DeleteBegin, sessionVars
  <1>2. CASE DeleteContinues(c)
    <2>1. TestsCalm
      <3>1. \/ flow' = [flow EXCEPT ![c] = Idle]
            \/ flow' = [flow EXCEPT ![c] = Waiting("delete", flow[c].session, "auditing")]
        BY <1>2 DEF DeleteContinues
      <3> QED BY <3>1, CalmIdle, CalmBegun, SomeStages
    <2> QED
      BY <1>2, <2>1, RunKept, CalmStep DEF DeleteContinues, PufferCalm, sessionVars, deviceVars
  <1>3. CASE DeleteAudited(c)
    <2>1. RunCalm
      <3> "deleted" \notin Running
        BY DEF Running, Timed
      <3> QED BY <1>3, RunEnded DEF DeleteAudited, Forget
    <2> QED BY <1>3, <2>1, CalmIdle, CalmStep DEF DeleteAudited, PufferCalm, deviceVars
  <1>4. CASE DeleteAuditFails(c)
    BY <1>4, CalmIdle, RunKept, CalmStep
    DEF DeleteAuditFails, PufferCalm, sessionVars, deviceVars
  <1> QED BY <1>1, <1>2, <1>3, <1>4

LEMMA PufferSafety ==
  ASSUME TypeOK, PufferInv, NEW f \in Flows, SafetyContinues(f)
  PROVE  PufferInv'
  <1> flow \in [Flows -> FlowType]
    BY DEF TypeOK
  <1>1. TestsCalm
    <2> /\ "deflate" \in Stages \ {"checking", "inflating"}
        /\ "confirm" \in Stages \ {"checking", "inflating"}
        /\ "record" \in Stages \ {"checking", "inflating"}
        /\ "report" \in Stages \ {"checking", "inflating"}
      BY SomeStages
    <2>1. CASE StopSettles(f)
      <3>1. PICK acked \in BOOLEAN :
              flow' = [flow EXCEPT ![f].stage = "deflate", ![f].failed = ~acked]
        BY <2>1 DEF StopSettles
      <3>2. (~acked) \in BOOLEAN
        OBVIOUS
      <3> QED BY <3>1, <3>2, CalmStage
    <2>2. CASE \E stage \in {"confirm", "record"} : ToStage(f, stage)
      BY <2>2, CalmStage
    <2>3. CASE ToReport(f)
      BY <2>3, CalmStage DEF ToReport
    <2> QED
      BY <2>1, <2>2, <2>3
      DEF SafetyContinues, DeflateSettles, DeflationConfirmed, DeflationUnconfirmed,
          DeflationReported
  <1>2. PufferCalm
    BY DEF SafetyContinues, StopSettles, DeflateSettles, DeflationConfirmed,
           DeflationUnconfirmed, DeflationReported, deviceVars, PufferCalm, AfterDeflate,
           Reachable
  <1>3. RunCalm
    BY RunKept
    DEF SafetyContinues, StopSettles, DeflateSettles, DeflationConfirmed,
        DeflationUnconfirmed, DeflationReported, sessionVars
  <1> QED BY <1>1, <1>2, <1>3, CalmStep

LEMMA PufferFailure == ASSUME TypeOK, PufferInv, FailureContinues PROVE PufferInv'
  <1> FailureTask \in Flows /\ flow \in [Flows -> FlowType]
    BY DEF TypeOK, Flows
  <1>1. CASE FailureRecorded
    <2>1. RunCalm
      <3> "error" \notin Running
        BY DEF Running, Timed
      <3> QED BY <1>1, RunEnded DEF FailureRecorded
    <2> QED
      BY <1>1, <2>1, CalmStage, SomeStages, CalmStep DEF FailureRecorded, PufferCalm, deviceVars
  <1>2. CASE FailureThrows
    <2>1. TestsCalm
      BY <1>2 DEF FailureThrows, TestsCalm, Testing, Idle, Flows
    <2> QED BY <1>2, <2>1, RunKept, CalmStep DEF FailureThrows, PufferCalm, sessionVars, deviceVars
  <1>3. CASE FailureEnds
    BY <1>3, CalmIdle, RunKept, CalmStep DEF FailureEnds, PufferCalm, sessionVars, deviceVars
  <1> QED BY <1>1, <1>2, <1>3 DEF FailureContinues

LEMMA PufferEnvironment ==
  ASSUME TypeOK, PufferInv,
         \/ ConfirmOperatorSession \/ LeaseGranted \/ LeaseLost \/ AuditFails
         \/ \E report \in Mishaps \ {"audit"} : DeviceReports(report)
         \/ DeviceDeflates \/ ConnectDevice \/ DisconnectDevice \/ TestDeflate \/ StopDevice
         \/ \E s \in Sessions :
              ResumeTimed(s) \/ ResumeUntimed(s) \/ DisplayReady(s) \/ DisplayLost(s)
         \/ \E s \in Sessions : ResetCheckRejected(s) \/ CommandSettles(s)
         \/ TimerIgnored
  PROVE  PufferInv'
  <1>1. RunCalm
    BY RunKept
    DEF ConfirmOperatorSession, LeaseGranted, LeaseLost, AuditFails, DeviceReports,
        DeviceDeflates, ConnectDevice, DisconnectDevice, TestDeflate, StopDevice, ResumeTimed,
        ResumeUntimed, DisplayReady, DisplayLost, ResetCheckRejected, CommandSettles,
        TimerIgnored, sessionVars
  <1>2. PufferCalm /\ TestsCalm
    <2>1. CASE NoFailure \/ FailActive \/ \E s \in Sessions \union {None} : FailSession(s)
      BY <2>1, CalmFailure
    <2>2. CASE UNCHANGED <<flow, puffer>>
      BY <2>2 DEF PufferCalm, TestsCalm, Testing
    <2>3. CASE StopDevice
      BY <2>3 DEF StopDevice, PufferCalm, AfterStop, Reachable, TestsCalm, Testing, StopPending,
                  TypeOK, Flows, Idle
    <2>4. CASE DeviceDeflates \/ TestDeflate
      BY <2>4 DEF DeviceDeflates, TestDeflate, PufferCalm, AfterDeflate, Reachable, TestsCalm,
                  Testing
    <2>5. CASE TimerIgnored
      BY <2>5, CalmNeutralise DEF TimerIgnored, PufferCalm, TestsCalm, Testing
    <2> QED
      BY <2>1, <2>2, <2>3, <2>4, <2>5
      DEF ConfirmOperatorSession, LeaseGranted, LeaseLost, AuditFails, DeviceReports,
          ConnectDevice, DisconnectDevice, ResumeTimed, ResumeUntimed, DisplayReady, DisplayLost,
          ResetCheckRejected, CommandSettles, deviceVars, TypeOK
  <1> QED BY <1>1, <1>2, CalmStep

-----------------------------------------------------------------------------
(* The steps that move the run, and the device tests.                      *)

\* A run enters a phase that shows no inflated device when the device is flat.
LEMMA FlatEntry ==
  ASSUME PufferInv, puffer' = "flat", TestsCalm,
         \A c \in Callers : Testing(c) => ~RunOn'
  PROVE  PufferInv'
  <1>1. \A c \in Callers : Testing(c)' => ~RunOn'
    BY DEF TestsCalm
  <1> QED
    BY <1>1
    DEF PufferInv, PufferOnlyInPufferPresentation, NoDeviceTestDuringRun, ActiveIs, RunOn,
        Testing

LEMMA PufferDriving ==
  ASSUME TypeOK, PufferInv, NEW c \in Callers,
         \/ \E s \in Sessions : PrepareBegin(c, s) \/ HandoffBegin(c, s)
         \/ PrepareContinues(c) \/ PrepareRejected(c) \/ HandoffEnds(c)
  PROVE  PufferInv'
  <1> c \in Flows /\ flow \in [Flows -> FlowType]
    BY DEF Flows, TypeOK
  <1>1. TestsCalm
    BY CalmIdle, CalmBegun, SomeStages
    DEF PrepareBegin, HandoffBegin, PrepareContinues, PrepareRejected, HandoffEnds
  <1>2. CASE PrepareContinues(c)
    <2>1. puffer' = "flat"
      BY <1>2 DEF PrepareContinues, SafelyDeflated, deviceVars
    <2>2. \A d \in Callers : ~Testing(d)
      BY <1>2 DEF PrepareContinues, QueueBusy, Testing
    <2> QED BY <1>1, <2>1, <2>2, FlatEntry
  <1>3. ASSUME NEW s \in Sessions, HandoffBegin(c, s) PROVE PufferInv'
    <2> "completed" \notin Running
      BY DEF Running, Timed
    <2> QED
      BY <1>1, <1>3, RunEnded, CalmStep
      DEF HandoffBegin, EnterTerminalPhase, PufferCalm, deviceVars
  <1>4. CASE \/ PrepareRejected(c) \/ HandoffEnds(c)
             \/ \E s \in Sessions : PrepareBegin(c, s)
    <2>1. active' \in {active, None} /\ UNCHANGED <<phase, position, puffer>>
      BY <1>4 DEF PrepareBegin, PrepareRejected, HandoffEnds, sessionVars, deviceVars
    <2> QED BY <1>1, <2>1, RunKept, CalmStep DEF PufferCalm
  <1> QED BY <1>2, <1>3, <1>4

LEMMA PufferTests ==
  ASSUME TypeOK, PufferInv, NEW c \in Callers,
         TestBegin(c) \/ TestChecks(c) \/ TestInflates(c) \/ TestEnds(c)
  PROVE  PufferInv'
  <1> c \in Flows /\ flow \in [Flows -> FlowType]
    BY DEF Flows, TypeOK
  <1>1. UNCHANGED <<phase, position, active>>
    BY DEF TestBegin, TestChecks, TestInflates, TestEnds, sessionVars
  <1>2. CASE TestBegin(c) \/ TestEnds(c)
    BY <1>1, <1>2, CalmBegun, CalmIdle, SomeStages, RunKept, CalmStep
    DEF TestBegin, TestEnds, PufferCalm, deviceVars
  <1>3. CASE TestChecks(c)
    <2>1. CASE DeviceTestAllowed
      <3>1. ~RunOn
        BY <2>1 DEF DeviceTestAllowed, RunOn, Running, Timed
      <3> QED
        BY <1>1, <3>1
        DEF PufferInv, PufferOnlyInPufferPresentation, NoDeviceTestDuringRun, ActiveIs, RunOn
    <2>2. CASE ~DeviceTestAllowed
      <3>1. flow' = [flow EXCEPT ![c] = Idle] /\ UNCHANGED puffer
        BY <1>3, <2>2 DEF TestChecks, deviceVars
      <3> QED BY <1>1, <3>1, CalmIdle, RunKept, CalmStep DEF PufferCalm
    <2> QED BY <2>1, <2>2
  <1>4. CASE TestInflates(c)
    <2>1. ~RunOn
      BY <1>4, PufferInvIs DEF TestInflates, Testing
    <2> QED
      BY <1>1, <2>1
      DEF PufferInv, PufferOnlyInPufferPresentation, NoDeviceTestDuringRun, ActiveIs, RunOn
  <1> QED BY <1>2, <1>3, <1>4

\* The phase entries of a run that is on, its device tests long over.
LEMMA PufferEntries ==
  ASSUME TypeOK, PufferInv, active \in Sessions, RunOn, UNCHANGED <<flow, active>>,
         \/ /\ phase[active] \in {"intro", "response"}
            /\ \E i \in 0 .. LastPosition : EnterTimedPhase(active, "handling", i)
         \/ /\ phase[active] = "handling"
            /\ EnterTimedPhase(active, "processing", position[active])
         \/ /\ phase[active] = "processing"
            /\ EnterTimedPhase(active, "result", position[active])
         \/ /\ phase[active] = "result"
            /\ EnterTimedPhase(active, "reset", position[active])
         \/ /\ \/ phase[active] = "response"
               \/ puffer = "flat"
               \/ ~ShowsPuffer(active, position[active])
            /\ \E p \in Running : EnterUntimedPhase(active, p)
            /\ UNCHANGED <<position, puffer>>
  PROVE  PufferInv'
  <1>1. /\ puffer # "flat" =>
             phase[active] \in {"result", "reset"} /\ ShowsPuffer(active, position[active])
        /\ \A c \in Callers : ~Testing(c)
    BY PufferInvIs
  <1>2. \A c \in Callers : ~Testing(c)'
    BY <1>1 DEF Testing
  <1>3. puffer' # "flat" =>
          phase'[active] \in {"result", "reset"} /\ ShowsPuffer(active, position'[active])
    BY <1>1 DEF EnterTimedPhase, EnterUntimedPhase, ShowsPuffer, TypeOK, AfterInflate,
                AfterDeflate, Reachable
  <1> QED
    BY <1>2, <1>3
    DEF PufferInv, PufferOnlyInPufferPresentation, NoDeviceTestDuringRun, ActiveIs, Testing,
        ShowsPuffer

LEMMA PufferProgress ==
  ASSUME TypeOK, PufferInv,
         \/ TimerAdvances \/ TimerEndsReset
         \/ \E s \in Sessions :
              Start(s) \/ NextPresentation(s) \/ Summarize(s) \/ ResetChecked(s)
  PROVE  PufferInv'
  <1> {"handling", "processing", "result", "reset", "intro", "response", "summary"}
        \subseteq Running
    BY DEF Running, Timed
  <1>1. ASSUME NEW s \in Sessions, Start(s) \/ NextPresentation(s) PROVE PufferInv'
    <2>1. 1 \in 0 .. LastPosition
      BY PositionAssumption
    <2>2. position[s] < LastPosition => position[s] + 1 \in 0 .. LastPosition
      BY PositionAssumption DEF TypeOK
    <2>3. /\ active = s /\ phase[s] \in {"intro", "response"}
          /\ \E i \in 0 .. LastPosition : EnterTimedPhase(s, "handling", i)
          /\ UNCHANGED <<flow, active>>
      BY <1>1, <2>1, <2>2 DEF Start, NextPresentation, CanConfirm
    <2>4. RunOn
      BY <2>3, SessionAssumption DEF RunOn
    <2> QED BY <2>3, <2>4, PufferEntries
  <1>2. ASSUME NEW s \in Sessions, Summarize(s) PROVE PufferInv'
    <2>1. RunOn /\ active = s
      BY <1>2, SessionAssumption DEF Summarize, CanConfirm, RunOn
    <2>2. /\ phase[active] = "response" /\ EnterUntimedPhase(active, "summary")
          /\ UNCHANGED <<position, puffer, flow, active>>
      BY <1>2, <2>1 DEF Summarize, CanConfirm, deviceVars
    <2>3. active \in Sessions
      BY <1>2, <2>1
    <2> QED BY <2>1, <2>2, <2>3, PufferEntries
  <1>3. CASE TimerAdvances
    <2>1. /\ timer.session \in Sessions /\ active = timer.session
          /\ timer.phase \in {"handling", "processing", "result"}
          /\ phase[active] = timer.phase
      BY <1>3 DEF TimerAdvances, Advances, TypeOK, Timed
    <2>2. RunOn
      BY <2>1, SessionAssumption DEF RunOn
    <2>3. /\ EnterTimedPhase(active, NextTimed[timer.phase], position[active])
          /\ UNCHANGED <<flow, active>>
      BY <1>3, <2>1 DEF TimerAdvances
    <2> QED BY <2>1, <2>2, <2>3, PufferEntries DEF NextTimed
  <1>4. CASE TimerEndsReset
    <2>1. /\ timer.session \in Sessions /\ active = timer.session /\ phase[active] = "reset"
          /\ UNCHANGED <<flow, active, position, puffer>>
      BY <1>4 DEF TimerEndsReset, Advances, TypeOK, deviceVars
    <2>2. RunOn
      BY <2>1, SessionAssumption DEF RunOn
    <2>3. CASE ShowsPuffer(timer.session, position[timer.session])
      BY <1>4, <2>1, <2>3, RunKept, CalmStep
      DEF TimerEndsReset, PufferCalm, TestsCalm, Testing
    <2>4. CASE ~ShowsPuffer(timer.session, position[timer.session])
      BY <1>4, <2>1, <2>2, <2>4, PufferEntries DEF TimerEndsReset
    <2> QED BY <2>3, <2>4
  <1>5. ASSUME NEW s \in Sessions, ResetChecked(s) PROVE PufferInv'
    <2>1. CASE UNCHANGED phase /\ (NoFailure \/ FailSession(s))
      BY <1>5, <2>1, CalmFailure, RunKept, CalmStep DEF ResetChecked
    <2>2. CASE /\ Advances(s, "reset") /\ SafelyDeflated
               /\ EnterUntimedPhase(s, "response") /\ UNCHANGED <<timer, flow, puffer>>
      <3>1. RunOn /\ active = s
        BY <2>2, SessionAssumption DEF Advances, RunOn
      <3>2. puffer = "flat" /\ UNCHANGED <<position, active>> /\ active \in Sessions
        BY <1>5, <2>2, <3>1 DEF ResetChecked, SafelyDeflated
      <3> QED BY <2>2, <3>1, <3>2, PufferEntries
    <2> QED BY <1>5, <2>1, <2>2 DEF ResetChecked
  <1> QED BY <1>1, <1>2, <1>3, <1>4, <1>5

-----------------------------------------------------------------------------

LEMMA PufferInit == Init => PufferInv
  BY DEF Init, PufferInv, PufferOnlyInPufferPresentation, NoDeviceTestDuringRun, ActiveIs

LEMMA PufferStep == TypeOK /\ PufferInv /\ [Next]_vars => PufferInv'
  <1> SUFFICES ASSUME TypeOK, PufferInv, [Next]_vars PROVE PufferInv' OBVIOUS
  <1>1. CASE Environment
    BY <1>1, PufferEnvironment, PufferProgress DEF Environment
  <1>2. CASE TimerDue
    BY <1>2, PufferEnvironment, PufferProgress DEF TimerDue
  <1>3. CASE FailureContinues
    BY <1>3, PufferFailure
  <1>4. CASE \E s \in Sessions : ResetCheckSettles(s) \/ CommandSettles(s)
    BY <1>4, PufferEnvironment, PufferProgress DEF ResetCheckSettles
  <1>5. CASE \E f \in Flows : SafetyContinues(f)
    BY <1>5, PufferSafety
  <1>6. CASE \E c \in Callers : CallerRequests(c) \/ CallerContinues(c)
    BY <1>6, PufferCreation, PufferDriving, PufferStopping, PufferDeletion, PufferTests
    DEF CallerRequests, CallerContinues
  <1>7. CASE UNCHANGED vars
    BY <1>7 DEF vars, sessionVars, deviceVars, PufferInv, PufferOnlyInPufferPresentation,
                NoDeviceTestDuringRun, ActiveIs, ShowsPuffer
  <1> QED BY <1>1, <1>2, <1>3, <1>4, <1>5, <1>6, <1>7 DEF Next

\* No device test that passed its guards is pending when a run is on, and a
\* running participant is in front of a device that is not flat only while a
\* puffer presentation shows its result or its reset: for any number of
\* sessions and of requests pending at the same time, in every order of
\* requests, timers, failures and reports.
THEOREM PufferAlwaysSafe ==
  Spec => [](PufferOnlyInPufferPresentation /\ NoDeviceTestDuringRun)
  <1>1. Init => TypeOK /\ PufferInv
    BY TypeInit, PufferInit
  <1>2. TypeOK /\ PufferInv /\ [Next]_vars => (TypeOK /\ PufferInv)'
    BY TypeStep, PufferStep
  <1>3. PufferInv => PufferOnlyInPufferPresentation /\ NoDeviceTestDuringRun
    BY DEF PufferInv
  <1> QED BY <1>1, <1>2, <1>3, PTL DEF Spec

\* No device test that has passed its guards waits for the device, or
\* inflates it, while a run is on: what testInflate checked before its await
\* still holds after it.
THEOREM NoTestMeetsRun == Spec => []NoDeviceTestDuringRun
  <1> QED BY PufferAlwaysSafe, PTL

-----------------------------------------------------------------------------
(* What a step may do to the flows.                                        *)

Known(s) == s \in Sessions /\ phase[s] # "unborn"
Past(s) == s \in Sessions /\ phase[s] \in Over \union {"deleted"}
StaysKnown(s) == s \in Sessions /\ phase'[s] # "unborn"
StaysPast(s) == s \in Sessions /\ phase'[s] \in Over \union {"deleted"}

\* A flow goes on with what it does.
Goes(f) ==
  /\ flow'[f].op = flow[f].op /\ flow'[f].session = flow[f].session
  /\ \/ flow[f].stage \in SafetyStages /\ flow'[f].stage \in SafetyStages
     \/ flow[f].stage = "join" /\ flow'[f].stage = "finish"
     \/ flow[f].stage = "checking" /\ flow'[f].stage = "inflating"
  /\ flow'[f].stage = "record" => puffer = "flat" /\ puffer' = "flat"

\* The failure task ends with the last of its own steps.
Kept(f) ==
  \/ flow'[f] = flow[f]
  \/ /\ flow'[f] = Idle
     /\ f = FailureTask => flow[f].stage = "checking" \/ FailureThrows \/ FailureEnds
  \/ Goes(f)

StopsRun(c, op, s) ==
  /\ active = s => phase'[s] \in Terminal
  /\ flow' = [StopPending EXCEPT ![c] = Waiting(op, s, "stop")]

\* A caller's flow begins, or waits for something else.
Begun(c) ==
  \/ flow'[c].op = "prepare" /\ flow'[c].stage = "queued"
  \/ flow'[c].op = "test" /\ flow'[c].stage = "queued"
  \/ flow'[c].op = "test" /\ flow'[c].stage = "checking" /\ DeviceTestAllowed
  \/ /\ flow'[c].op = "create" /\ flow'[c].stage = "reserving"
     /\ active = None /\ active' = None /\ ~Creating
  \/ /\ flow[c].op = "create" /\ flow[c].stage = "reserving"
     /\ \E s \in Sessions : Born(s) /\ flow'[c] = Waiting("create", s, "auditing")
  \/ \E s \in Sessions :
       /\ Known(s) /\ active' \in {active, None}
       /\ \/ /\ flow'[c] = Waiting("delete", s, "auditing")
             /\ active' # s
          \/ flow'[c] = Waiting("delete", s, "stop") /\ active' = s /\ phase'[s] = "setup"
          \/ \E op \in {"abort", "emergency"} : flow'[c] = Waiting(op, s, "join")
          \/ \E op \in {"abort", "emergency"} : StopsRun(c, op, s)
          \/ flow'[c] = Waiting("handoff", s, "auditing") /\ phase'[s] = "completed"

\* So does failureTask.
FailureBegun ==
  \/ /\ flow'[FailureTask].stage = "stop" /\ flow'[FailureTask].session \in Sessions
  \/ /\ flow'[FailureTask].stage = "auditing"
     /\ flow'[FailureTask].session = flow[FailureTask].session
     /\ flow[FailureTask].stage \in SafetyStages
     /\ phase' = [phase EXCEPT ![flow[FailureTask].session] = "error"]

FlowMoves ==
  /\ \/ \A c \in Callers : Kept(c)
     \/ \E c \in Callers : Begun(c) /\ \A d \in Callers \ {c} : Kept(d)
  /\ Kept(FailureTask) \/ FailureBegun

-----------------------------------------------------------------------------

CallerOK(c) ==
  /\ flow[c].op \in {"abort", "emergency", "delete", "handoff"} => Known(flow[c].session)
  /\ flow[c].op = "handoff" => Past(flow[c].session)
  /\ flow[c].op = "delete" /\ flow[c].stage = "auditing" => active # flow[c].session
  /\ flow[c].op = "create" =>
       \/ flow[c].stage = "reserving" /\ active = None
       \/ flow[c].stage = "auditing" /\ Known(flow[c].session) /\ active \in {None, flow[c].session}

OneCreator == \A c, d \in Callers : flow[c].op = "create" /\ flow[d].op = "create" => c = d

FailureOK ==
  LET w == flow[FailureTask] IN
  \/ w.stage = "idle"
  \/ w.stage \in SafetyStages /\ w.session \in Sessions
  \/ w.stage = "auditing" /\ Past(w.session)

FlowInv == (\A c \in Callers : CallerOK(c)) /\ OneCreator /\ FailureOK

LEMMA PastKept ==
  ASSUME TypeOK, PhaseMoves, NEW s \in Sessions
  PROVE  (Known(s) => StaysKnown(s)) /\ (Past(s) => StaysPast(s))
  <1>1. CASE phase'[s] = phase[s]
    BY <1>1 DEF Known, Past, StaysKnown, StaysPast
  <1>2. ASSUME NEW t \in Sessions, Born(t) \/ Ends(t) \/ MovesOn(t), phase'[s] # phase[s]
        PROVE  (Known(s) => StaysKnown(s)) /\ (Past(s) => StaysPast(s))
    <2>1. t = s
      BY <1>2 DEF TypeOK, Born, Ends, MovesOn, Moved
    <2>2. \/ phase[s] = "unborn"
          \/ phase'[s] \in {"error", "aborted", "deleted"}
          \/ phase[s] \in Running \union {"setup"}
             /\ phase'[s] \in Running \union {"completed"}
      BY <1>2, <2>1 DEF TypeOK, Born, Ends, MovesOn, Moved, Running, Timed
    <2> QED BY <2>2 DEF Known, Past, StaysKnown, StaysPast, Over, Terminal, Running, Timed
  <1> QED BY <1>1, <1>2 DEF PhaseMoves, Stays

LEMMA IdleIs == Idle.op = "none" /\ Idle.stage = "idle"
  BY DEF Idle

LEMMA WaitingIs ==
  \A op, s, stage :
    /\ Waiting(op, s, stage).op = op /\ Waiting(op, s, stage).session = s
    /\ Waiting(op, s, stage).stage = stage
  BY DEF Waiting

LEMMA SafetyStagesAre ==
  /\ {"stop", "deflate", "confirm", "record", "report"} = SafetyStages
  /\ {"idle", "reserving", "auditing", "queued", "checking", "inflating", "join", "finish"}
       \intersect SafetyStages = {}
  BY DEF SafetyStages

LEMMA StopsBegun ==
  ASSUME NEW c \in Callers
  PROVE  \A op, s : StopsRun(c, op, s) => flow'[c] = Waiting(op, s, "stop")
  BY DEF StopsRun, StopPending, Flows

\* What is known of a caller's flow survives what it does not begin.
LEMMA CallerKept ==
  ASSUME TypeOK, PhaseMoves, NEW c \in Callers, CallerOK(c), Kept(c),
         flow[c].op = "create" => active' \in {active, None}
  PROVE  CallerOK(c)'
  <1>1. CASE flow'[c] = flow[c]
    <2>1. flow[c].op \in {"abort", "emergency", "delete", "handoff"} => StaysKnown(flow[c].session)
      BY PastKept DEF CallerOK, Known
    <2>2. flow[c].op = "handoff" => StaysPast(flow[c].session)
      BY PastKept DEF CallerOK, Past
    <2>3. flow[c].op = "delete" /\ flow[c].stage = "auditing" => active' # flow[c].session
      BY SessionAssumption DEF CallerOK, PhaseMoves, Born, Moved, Known
    <2>4. flow[c].op = "create" /\ flow[c].stage = "auditing" => StaysKnown(flow[c].session)
      BY PastKept DEF CallerOK, Known
    <2> QED BY <1>1, <2>1, <2>2, <2>3, <2>4 DEF CallerOK, Known, Past, StaysKnown, StaysPast
  <1>2. CASE flow'[c] = Idle
    BY <1>2, IdleIs DEF CallerOK
  <1>3. CASE Goes(c)
    <2>1. /\ flow'[c].op = flow[c].op /\ flow'[c].session = flow[c].session
          /\ flow[c].stage \notin {"reserving", "auditing"}
          /\ flow'[c].stage \notin {"reserving", "auditing"}
      BY <1>3, SafetyStagesAre DEF Goes
    <2>2. flow[c].op \in {"abort", "emergency", "delete", "handoff"} => StaysKnown(flow[c].session)
      BY PastKept DEF CallerOK, Known
    <2>3. flow[c].op = "handoff" => StaysPast(flow[c].session)
      BY PastKept DEF CallerOK, Past
    <2> QED BY <2>1, <2>2, <2>3 DEF CallerOK, Known, Past, StaysKnown, StaysPast
  <1> QED BY <1>1, <1>2, <1>3 DEF Kept

LEMMA CallerBegun ==
  ASSUME TypeOK, PhaseMoves, NEW c \in Callers, Begun(c)
  PROVE  CallerOK(c)'
  <1>1. CASE flow'[c].op \in {"prepare", "test"}
    BY <1>1 DEF CallerOK
  <1>2. CASE flow'[c].op = "create" /\ flow'[c].stage = "reserving" /\ active' = None
    BY <1>2 DEF CallerOK
  <1>3. ASSUME NEW s \in Sessions, Born(s), flow'[c] = Waiting("create", s, "auditing")
        PROVE  CallerOK(c)'
    <2>1. phase'[s] # "unborn" /\ active' = s
      BY <1>3 DEF Born, Moved, TypeOK
    <2> QED BY <1>3, <2>1, WaitingIs DEF CallerOK, Known
  <1>4. ASSUME NEW s \in Sessions, Known(s),
               \/ flow'[c] = Waiting("delete", s, "auditing") /\ active' # s
               \/ flow'[c] = Waiting("delete", s, "stop")
               \/ \E op \in {"abort", "emergency"}, stage \in {"join", "stop"} :
                    flow'[c] = Waiting(op, s, stage)
               \/ flow'[c] = Waiting("handoff", s, "auditing") /\ phase'[s] = "completed"
        PROVE  CallerOK(c)'
    <2>1. phase'[s] # "unborn"
      BY <1>4, PastKept DEF StaysKnown
    <2>2. "completed" \in Over
      BY DEF Over, Terminal
    <2>3. flow'[c].session = s
      BY <1>4, WaitingIs
    <2>4. CASE flow'[c] = Waiting("delete", s, "auditing") /\ active' # s
      BY <2>1, <2>3, <2>4, WaitingIs DEF CallerOK, Known
    <2>5. CASE flow'[c] = Waiting("handoff", s, "auditing") /\ phase'[s] = "completed"
      BY <2>1, <2>2, <2>3, <2>5, WaitingIs DEF CallerOK, Known, Past
    <2>6. CASE /\ flow'[c].op \in {"delete", "abort", "emergency"}
               /\ flow'[c].stage \in {"join", "stop"}
      BY <2>1, <2>3, <2>6 DEF CallerOK, Known
    <2> QED BY <1>4, <2>4, <2>5, <2>6, WaitingIs
  <1> QED BY <1>1, <1>2, <1>3, <1>4, StopsBegun DEF Begun

LEMMA FlowInvStep ==
  ASSUME TypeOK, FlowInv, PhaseMoves, FlowMoves
  PROVE  FlowInv'
  <1>1. \A d \in Callers : Kept(d) /\ flow'[d].op = "create" => flow[d].op = "create"
    BY IdleIs DEF Kept, Goes
  <1>2. ASSUME NEW d \in Callers, Kept(d), flow[d].op = "create" PROVE active' \in {active, None}
    <2> SUFFICES ASSUME NEW s \in Sessions, Born(s) PROVE FALSE
      BY DEF PhaseMoves
    <2>1. flow[d].stage = "reserving" /\ flow'[d] = Waiting("create", s, "auditing")
      BY <1>2 DEF Born, FlowInv, OneCreator
    <2> QED BY <1>2, <2>1, IdleIs, WaitingIs, SafetyStagesAre DEF Kept, Goes
  <1>3. ASSUME NEW d \in Callers, Kept(d) PROVE CallerOK(d)'
    BY <1>2, <1>3, CallerKept DEF FlowInv
  <1>4. \A d \in Callers : CallerOK(d)'
    BY <1>3, CallerBegun DEF FlowMoves
  <1>5. OneCreator'
    <2> SUFFICES ASSUME NEW c \in Callers, NEW d \in Callers, c # d,
                        flow'[c].op = "create", flow'[d].op = "create"
                 PROVE  FALSE
      BY DEF OneCreator
    <2>1. \A b \in Callers :
            Begun(b) /\ flow'[b].op = "create" => flow[b].op = "create" \/ ~Creating
      BY WaitingIs, StopsBegun DEF Begun
    <2>2. \/ flow[c].op = "create" /\ flow[d].op = "create"
          \/ ~Creating /\ (flow[c].op = "create" \/ flow[d].op = "create")
      BY <1>1, <2>1 DEF FlowMoves
    <2> QED BY <2>2 DEF FlowInv, OneCreator, Creating
  <1>6. FailureOK'
    <2>1. CASE FailureBegun
      <3>1. CASE flow'[FailureTask].stage = "stop"
        BY <2>1, <3>1, SafetyStagesAre DEF FailureBegun, FailureOK
      <3>2. CASE /\ flow'[FailureTask].stage = "auditing"
                 /\ flow'[FailureTask].session = flow[FailureTask].session
                 /\ flow[FailureTask].stage \in SafetyStages
                 /\ phase' = [phase EXCEPT ![flow[FailureTask].session] = "error"]
        <4>1. flow[FailureTask].session \in Sessions
          BY <3>2, SafetyStagesAre DEF FlowInv, FailureOK, Past
        <4>2. phase'[flow[FailureTask].session] \in Over
          BY <3>2, <4>1 DEF TypeOK, Over
        <4> QED BY <3>2, <4>1, <4>2 DEF FailureOK, Past
      <3> QED BY <2>1, <3>1, <3>2 DEF FailureBegun
    <2>2. CASE Kept(FailureTask)
      <3>1. CASE flow'[FailureTask] = Idle
        BY <3>1, IdleIs DEF FailureOK
      <3>2. CASE flow'[FailureTask] = flow[FailureTask]
        <4>1. Past(flow[FailureTask].session) => StaysPast(flow[FailureTask].session)
          BY PastKept DEF Past
        <4> QED BY <3>2, <4>1 DEF FlowInv, FailureOK, Past, StaysPast
      <3>3. CASE Goes(FailureTask)
        BY <3>3, SafetyStagesAre DEF FlowInv, FailureOK, Goes, Past
      <3> QED BY <2>2, <3>1, <3>2, <3>3 DEF Kept
    <2> QED BY <2>1, <2>2 DEF FlowMoves
  <1> QED BY <1>4, <1>5, <1>6 DEF FlowInv

OthersKept(f) == \A g \in Flows \ {f} : Kept(g)
AllKept == \A g \in Flows : Kept(g)

LEMMA FlowAt ==
  ASSUME FlowOK, NEW f \in Flows, NEW w,
         flow' = [flow EXCEPT ![f] = w] \/ flow' = [StopPending EXCEPT ![f] = w]
  PROVE  flow'[f] = w /\ OthersKept(f)
  BY DEF FlowOK, StopPending, OthersKept, Kept

LEMMA StageAt ==
  ASSUME FlowOK, NEW f \in Flows, NEW stage,
         \/ ToStage(f, stage)
         \/ \E failed \in BOOLEAN :
              flow' = [flow EXCEPT ![f].stage = stage, ![f].failed = failed]
  PROVE  /\ flow'[f].op = flow[f].op /\ flow'[f].session = flow[f].session
         /\ flow'[f].stage = stage
         /\ OthersKept(f)
  <1>1. PICK w : /\ w.op = flow[f].op /\ w.session = flow[f].session /\ w.stage = stage
                 /\ flow' = [flow EXCEPT ![f] = w]
    <2>1. CASE ToStage(f, stage)
      <3> DEFINE w == [flow[f] EXCEPT !.stage = stage]
      <3>1. w.op = flow[f].op /\ w.session = flow[f].session /\ w.stage = stage
        BY DEF FlowOK, FlowType
      <3>2. flow' = [flow EXCEPT ![f] = w]
        BY <2>1 DEF ToStage
      <3> QED BY <3>1, <3>2
    <2>2. ASSUME NEW failed \in BOOLEAN,
                 flow' = [flow EXCEPT ![f].stage = stage, ![f].failed = failed]
          PROVE  \E w : /\ w.op = flow[f].op /\ w.session = flow[f].session /\ w.stage = stage
                        /\ flow' = [flow EXCEPT ![f] = w]
      <3> DEFINE w == [flow[f] EXCEPT !.stage = stage, !.failed = failed]
      <3>1. w.op = flow[f].op /\ w.session = flow[f].session /\ w.stage = stage
        BY DEF FlowOK, FlowType
      <3>2. flow' = [flow EXCEPT ![f] = w]
        BY <2>2
      <3> QED BY <3>1, <3>2
    <2> QED BY <2>1, <2>2
  <1> QED BY <1>1, FlowAt

LEMMA FlowsKept == ASSUME AllKept PROVE FlowMoves
  BY DEF AllKept, FlowMoves, Flows

LEMMA FlowsUnchanged == ASSUME UNCHANGED flow PROVE AllKept
  BY DEF AllKept, Kept

LEMMA CallerMoves ==
  ASSUME NEW c \in Callers, OthersKept(c), Kept(c) \/ Begun(c) PROVE FlowMoves
  <1>1. FailureTask \in Flows \ {c}
    BY FlowAssumption DEF Flows
  <1> QED BY <1>1 DEF FlowMoves, OthersKept, Flows

LEMMA IdleMoves ==
  ASSUME NEW c \in Callers, flow'[c] = Idle, OthersKept(c) PROVE FlowMoves
  BY CallerMoves, FlowAssumption DEF Kept

LEMMA FailureMoves ==
  ASSUME OthersKept(FailureTask), Kept(FailureTask) \/ FailureBegun PROVE FlowMoves
  <1>1. Callers \subseteq Flows \ {FailureTask}
    BY FlowAssumption DEF Flows
  <1> QED BY <1>1 DEF FlowMoves, OthersKept

LEMMA FlowNeutralise ==
  ASSUME TypeOK, NEW s \in Sessions, Neutralise(s) PROVE FlowMoves
  <1> FlowOK /\ FailureTask \in Flows
    BY DEF TypeOK, FlowOK, Flows
  <1>1. CASE StartsFailure(s)
    <2>1. flow' = [StopPending EXCEPT ![FailureTask] = Waiting("fail", s, "stop")]
      BY <1>1 DEF Neutralise, BeginSafety
    <2>2. flow'[FailureTask] = Waiting("fail", s, "stop") /\ OthersKept(FailureTask)
      BY <2>1, FlowAt
    <2>3. FailureBegun
      BY <2>2, WaitingIs DEF FailureBegun
    <2> QED BY <2>2, <2>3, FailureMoves
  <1>2. CASE ~StartsFailure(s)
    BY <1>2, FlowsKept, FlowsUnchanged DEF Neutralise
  <1> QED BY <1>1, <1>2

LEMMA FlowFailing ==
  ASSUME TypeOK,
         \/ NoFailure \/ FailActive \/ UNCHANGED flow
         \/ \E s \in Sessions : FailSession(s) \/ Neutralise(s)
  PROVE  FlowMoves
  <1>1. CASE UNCHANGED flow
    BY <1>1, FlowsKept, FlowsUnchanged
  <1>2. ASSUME NEW s \in Sessions, Neutralise(s) PROVE FlowMoves
    BY <1>2, FlowNeutralise
  <1> QED BY <1>1, <1>2 DEF NoFailure, FailActive, FailSession, TypeOK

LEMMA FlowEnvironment == ASSUME TypeOK, Environment PROVE FlowMoves
  <1>1. CASE LeaseLost \/ AuditFails \/ \E report \in Mishaps \ {"audit"} : DeviceReports(report)
    BY <1>1, FlowFailing DEF LeaseLost, AuditFails, DeviceReports, ActiveIs, TypeOK
  <1>2. ASSUME NEW s \in Sessions, DisplayLost(s) PROVE FlowMoves
    BY <1>2, FlowFailing DEF DisplayLost
  <1>3. CASE StopDevice
    <2>1. AllKept
      BY <1>3 DEF StopDevice, StopPending, AllKept, Kept
    <2> QED BY <2>1, FlowsKept
  <1>4. CASE UNCHANGED flow
    BY <1>4, FlowFailing
  <1> QED
    BY <1>1, <1>2, <1>3, <1>4
    DEF Environment, ConfirmOperatorSession, LeaseGranted, DeviceDeflates, ConnectDevice,
        DisconnectDevice, TestDeflate, Start, NextPresentation, Summarize, ResumeTimed,
        ResumeUntimed, DisplayReady

LEMMA FlowTimer == ASSUME TypeOK, TimerDue PROVE FlowMoves
  BY FlowFailing DEF TimerDue, TimerAdvances, TimerEndsReset, TimerIgnored, TypeOK

LEMMA FlowChecks ==
  ASSUME TypeOK, NEW s \in Sessions, ResetCheckSettles(s) \/ CommandSettles(s) PROVE FlowMoves
  BY FlowFailing
  DEF ResetCheckSettles, ResetChecked, ResetCheckRejected, CommandSettles, NoFailure

LEMMA FlowFailure == ASSUME TypeOK, FailureContinues PROVE FlowMoves
  <1> FlowOK /\ FailureTask \in Flows
    BY DEF TypeOK, FlowOK, Flows
  <1>1. CASE FailureRecorded
    <2>1. /\ flow'[FailureTask].session = flow[FailureTask].session
          /\ flow'[FailureTask].stage = "auditing" /\ OthersKept(FailureTask)
      BY <1>1, StageAt DEF FailureRecorded
    <2>2. flow[FailureTask].stage \in SafetyStages
      BY <1>1, SafetyStagesAre DEF FailureRecorded, SafetyResult
    <2>3. FailureBegun
      BY <1>1, <2>1, <2>2 DEF FailureRecorded, FailureBegun
    <2> QED BY <2>1, <2>3, FailureMoves
  <1>2. CASE FailureThrows
    <2>1. \A f \in Flows : flow'[f] = flow[f] \/ flow'[f] = Idle
      BY <1>2 DEF FailureThrows
    <2>2. AllKept
      <3> SUFFICES ASSUME NEW f \in Flows PROVE Kept(f)
        BY DEF AllKept
      <3>1. CASE flow'[f] = flow[f]
        BY <3>1 DEF Kept
      <3>2. CASE flow'[f] = Idle
        BY <1>2, <3>2, Zenon DEF Kept
      <3> QED BY <2>1, <3>1, <3>2
    <2> QED BY <2>2, FlowsKept
  <1>3. CASE FailureEnds
    <2>1. flow'[FailureTask] = Idle /\ OthersKept(FailureTask)
      BY <1>3, FlowAt DEF FailureEnds
    <2> QED BY <1>3, <2>1, FailureMoves DEF Kept
  <1> QED BY <1>1, <1>2, <1>3 DEF FailureContinues

LEMMA FlowSafety == ASSUME TypeOK, NEW f \in Flows, SafetyContinues(f) PROVE FlowMoves
  <1> FlowOK
    BY DEF TypeOK, FlowOK
  <1>1. flow[f].stage \in SafetyStages
    BY SafetyStagesAre
    DEF SafetyContinues, StopSettles, DeflateSettles, DeflationConfirmed, DeflationUnconfirmed,
        DeflationReported
  <1>2. ASSUME NEW stage \in SafetyStages, stage = "record" => puffer = "flat" /\ puffer' = "flat",
               \/ ToStage(f, stage)
               \/ \E failed \in BOOLEAN :
                    flow' = [flow EXCEPT ![f].stage = stage, ![f].failed = failed]
        PROVE  AllKept
    <2>1. /\ flow'[f].op = flow[f].op /\ flow'[f].session = flow[f].session
          /\ flow'[f].stage = stage /\ OthersKept(f)
      BY <1>2, StageAt
    <2>2. Goes(f)
      BY <1>1, <1>2, <2>1 DEF Goes
    <2> QED BY <2>1, <2>2 DEF AllKept, OthersKept, Kept
  <1>3. CASE StopSettles(f)
    <2>1. PICK acked \in BOOLEAN :
            flow' = [flow EXCEPT ![f].stage = "deflate", ![f].failed = ~acked]
      BY <1>3 DEF StopSettles
    <2>2. (~acked) \in BOOLEAN
      OBVIOUS
    <2> QED BY <2>1, <2>2, <1>2, SafetyStagesAre, FlowsKept
  <1>4. CASE ToReport(f)
    BY <1>4, <1>2, SafetyStagesAre, FlowsKept DEF ToReport
  <1>5. CASE ToStage(f, "confirm")
    BY <1>5, <1>2, SafetyStagesAre, FlowsKept
  <1>6. CASE DeflationConfirmed(f)
    <2>1. ToStage(f, "record") /\ puffer = "flat" /\ puffer' = "flat"
      BY <1>6 DEF DeflationConfirmed, SafelyDeflated, deviceVars
    <2> QED BY <2>1, <1>2, SafetyStagesAre, FlowsKept
  <1> QED
    BY <1>3, <1>4, <1>5, <1>6
    DEF SafetyContinues, DeflateSettles, DeflationUnconfirmed, DeflationReported

LEMMA FlowCreation ==
  ASSUME TypeOK, PhaseMoves, NEW c \in Callers,
         \/ CreateBegin(c) \/ CreateRejected(c)
         \/ \E s \in Sessions : CreateCommit(c, s)
         \/ CreateAudited(c) \/ CreateAuditFails(c)
  PROVE  FlowMoves
  <1> FlowOK /\ c \in Flows
    BY DEF TypeOK, FlowOK, Flows
  <1>1. CASE CreateBegin(c)
    <2>1. flow'[c] = Waiting("create", None, "reserving") /\ OthersKept(c)
      BY <1>1, FlowAt DEF CreateBegin
    <2>2. Begun(c)
      BY <1>1, <2>1, WaitingIs DEF CreateBegin, Begun
    <2> QED BY <2>1, <2>2, CallerMoves
  <1>2. ASSUME NEW s \in Sessions, CreateCommit(c, s) PROVE FlowMoves
    <2>1. flow'[c] = Waiting("create", s, "auditing") /\ OthersKept(c)
      BY <1>2, FlowAt DEF CreateCommit
    <2>2. Born(s)
      BY <1>2, <2>1 DEF CreateCommit, Born, Moved
    <2>3. Begun(c)
      BY <1>2, <2>1, <2>2 DEF CreateCommit, Begun
    <2> QED BY <2>1, <2>3, CallerMoves
  <1>3. CASE flow' = [flow EXCEPT ![c] = Idle]
    BY <1>3, FlowAt, IdleMoves
  <1> QED BY <1>1, <1>2, <1>3 DEF CreateRejected, CreateAudited, CreateAuditFails

LEMMA FlowDriving ==
  ASSUME TypeOK, NEW c \in Callers,
         \/ \E s \in Sessions : PrepareBegin(c, s) \/ HandoffBegin(c, s)
         \/ PrepareContinues(c) \/ PrepareRejected(c) \/ HandoffEnds(c)
         \/ TestBegin(c) \/ TestChecks(c) \/ TestInflates(c) \/ TestEnds(c)
  PROVE  FlowMoves
  <1> FlowOK /\ c \in Flows
    BY DEF TypeOK, FlowOK, Flows
  <1>1. CASE \/ TestBegin(c)
             \/ TestChecks(c) /\ DeviceTestAllowed /\ ~emergencyLocked
             \/ \E s \in Sessions : PrepareBegin(c, s)
    <2>1. ASSUME NEW op, NEW s, NEW stage,
                 flow' = [flow EXCEPT ![c] = Waiting(op, s, stage)],
                 \/ op \in {"prepare", "test"} /\ stage = "queued"
                 \/ op = "test" /\ stage = "checking" /\ DeviceTestAllowed
          PROVE  FlowMoves
      <3>1. flow'[c] = Waiting(op, s, stage) /\ OthersKept(c)
        BY <2>1, FlowAt
      <3>2. Begun(c)
        BY <2>1, <3>1, WaitingIs DEF Begun
      <3> QED BY <3>1, <3>2, CallerMoves
    <2> QED BY <1>1, <2>1 DEF TestBegin, TestChecks, PrepareBegin
  <1>2. ASSUME NEW s \in Sessions, HandoffBegin(c, s) PROVE FlowMoves
    <2>1. flow'[c] = Waiting("handoff", s, "auditing") /\ OthersKept(c)
      BY <1>2, FlowAt DEF HandoffBegin
    <2>2. Known(s) /\ phase'[s] = "completed" /\ active' = active
      BY <1>2 DEF HandoffBegin, CanConfirm, EnterTerminalPhase, TypeOK, Known
    <2>3. Begun(c)
      BY <2>1, <2>2 DEF Begun
    <2> QED BY <2>1, <2>3, CallerMoves
  <1>3. CASE flow' = [flow EXCEPT ![c] = Idle]
    BY <1>3, FlowAt, IdleMoves
  <1>4. CASE TestInflates(c) /\ ToStage(c, "inflating")
    <2>1. /\ flow'[c].op = flow[c].op /\ flow'[c].session = flow[c].session
          /\ flow'[c].stage = "inflating" /\ OthersKept(c)
      BY <1>4, StageAt
    <2>2. Goes(c)
      BY <1>4, <2>1 DEF TestInflates, Goes
    <2> QED BY <2>1, <2>2, CallerMoves DEF Kept
  <1> QED
    BY <1>1, <1>2, <1>3, <1>4
    DEF PrepareContinues, PrepareRejected, HandoffEnds, TestChecks, TestInflates, TestEnds

LEMMA FlowStopping ==
  ASSUME TypeOK, FlowInv, NEW c \in Callers,
         \/ \E s \in Sessions : AbortBegin(c, s) \/ EmergencyBegin(c, s)
         \/ AbortJoined(c) \/ EmergencyJoined(c) \/ StopReturns(c) \/ JoinedStopReturns(c)
  PROVE  FlowMoves
  <1> FlowOK /\ c \in Flows
    BY DEF TypeOK, FlowOK, Flows
  <1>1. ASSUME NEW s \in Sessions, Known(s), AbortNow(c, s), active' = active PROVE FlowMoves
    <2>1. flow' = [StopPending EXCEPT ![c] = Waiting("abort", s, "stop")] /\ OthersKept(c)
      BY <1>1, FlowAt DEF AbortNow, BeginSafety
    <2>2. phase'[s] \in Terminal
      BY <1>1 DEF AbortNow, EnterTerminalPhase, TypeOK, Terminal
    <2>3. Begun(c)
      BY <1>1, <2>1, <2>2 DEF Begun, StopsRun
    <2> QED BY <2>1, <2>3, CallerMoves
  <1>2. ASSUME NEW s \in Sessions, NEW op \in {"abort", "emergency"}, Known(s), active' = active,
               flow' = [flow EXCEPT ![c] = Waiting(op, s, "join")]
        PROVE  FlowMoves
    <2>1. flow'[c] = Waiting(op, s, "join") /\ OthersKept(c)
      BY <1>2, FlowAt
    <2>2. Begun(c)
      BY <1>2, <2>1 DEF Begun
    <2> QED BY <2>1, <2>2, CallerMoves
  <1>3. CASE flow' = [flow EXCEPT ![c] = Idle]
    BY <1>3, FlowAt, IdleMoves
  <1>4. CASE flow[c].stage = "join" /\ ToStage(c, "finish")
    <2>1. /\ flow'[c].op = flow[c].op /\ flow'[c].session = flow[c].session
          /\ flow'[c].stage = "finish" /\ OthersKept(c)
      BY <1>4, StageAt
    <2>2. Goes(c)
      BY <1>4, <2>1 DEF Goes
    <2> QED BY <2>1, <2>2, CallerMoves DEF Kept
  <1>5. ASSUME NEW s \in Sessions, AbortBegin(c, s) PROVE FlowMoves
    <2>1. Known(s) /\ active' = active
      BY <1>5 DEF AbortBegin, Exists, Missing, Known
    <2> QED BY <1>1, <1>2, <1>5, <2>1 DEF AbortBegin
  <1>6. ASSUME NEW s \in Sessions, EmergencyBegin(c, s) PROVE FlowMoves
    <2>1. Known(s) /\ active' = active
      BY <1>6 DEF EmergencyBegin, Known
    <2>2. CASE Failing
      BY <1>2, <1>6, <2>1, <2>2 DEF EmergencyBegin
    <2>3. CASE ~Failing
      <3>1. flow' = [StopPending EXCEPT ![c] = Waiting("emergency", s, "stop")]
        BY <1>6, <2>3 DEF EmergencyBegin, BeginSafety
      <3>2. active = s => phase'[s] \in Terminal
        BY <1>6, <2>3 DEF EmergencyBegin, EnterTerminalPhase, TypeOK, Terminal
      <3>3. OthersKept(c)
        BY <3>1, FlowAt
      <3>4. Begun(c)
        BY <2>1, <3>1, <3>2 DEF Begun, StopsRun
      <3> QED BY <3>3, <3>4, CallerMoves
    <2> QED BY <2>2, <2>3
  <1>7. CASE AbortJoined(c)
    <2>1. Known(flow[c].session) /\ active' = active
      BY <1>7 DEF AbortJoined, FlowInv, CallerOK
    <2>2. CASE AbortNow(c, flow[c].session)
      BY <1>1, <2>1, <2>2 DEF Known
    <2> QED BY <1>3, <1>4, <1>7, <2>2 DEF AbortJoined
  <1>8. CASE EmergencyJoined(c)
    BY <1>4, <1>8 DEF EmergencyJoined
  <1>9. CASE StopReturns(c) \/ JoinedStopReturns(c)
    BY <1>3, <1>9 DEF StopReturns, JoinedStopReturns, LetGo
  <1> QED BY <1>5, <1>6, <1>7, <1>8, <1>9

LEMMA FlowDeletion ==
  ASSUME TypeOK, FlowInv, NEW c \in Callers,
         \/ \E s \in Sessions : DeleteBegin(c, s)
         \/ DeleteContinues(c) \/ DeleteAudited(c) \/ DeleteAuditFails(c)
  PROVE  FlowMoves
  <1> FlowOK /\ c \in Flows
    BY DEF TypeOK, FlowOK, Flows
  <1>1. ASSUME NEW s \in Sessions, Known(s), active' \in {active, None}, active' # s,
               flow' = [flow EXCEPT ![c] = Waiting("delete", s, "auditing")]
        PROVE  FlowMoves
    <2>1. flow'[c] = Waiting("delete", s, "auditing") /\ OthersKept(c)
      BY <1>1, FlowAt
    <2>2. Begun(c)
      BY <1>1, <2>1 DEF Begun
    <2> QED BY <2>1, <2>2, CallerMoves
  <1>2. CASE flow' = [flow EXCEPT ![c] = Idle]
    BY <1>2, FlowAt, IdleMoves
  <1>3. ASSUME NEW s \in Sessions, DeleteBegin(c, s) PROVE FlowMoves
    <2>1. Known(s) /\ active' = active
      BY <1>3 DEF DeleteBegin, Exists, Missing, Known
    <2>2. CASE active = s /\ BeginSafety(c, "delete", s)
      <3>1. flow'[c] = Waiting("delete", s, "stop") /\ OthersKept(c)
        BY <2>2, FlowAt DEF BeginSafety
      <3>2. active' = s /\ phase'[s] = "setup"
        BY <1>3, <2>2, <3>1, WaitingIs DEF DeleteBegin, sessionVars
      <3>3. Begun(c)
        BY <2>1, <3>1, <3>2 DEF Begun
      <3> QED BY <3>1, <3>3, CallerMoves
    <2> QED BY <1>1, <1>3, <2>1, <2>2 DEF DeleteBegin
  <1>4. CASE DeleteContinues(c)
    <2>1. Known(flow[c].session)
      BY <1>4 DEF DeleteContinues, FlowInv, CallerOK
    <2> QED BY <1>1, <1>2, <1>4, <2>1, SessionAssumption DEF DeleteContinues, Known
  <1> QED BY <1>2, <1>3, <1>4 DEF DeleteAudited, DeleteAuditFails

LEMMA FlowStep == TypeOK /\ FlowInv /\ [Next]_vars => FlowMoves
  <1> SUFFICES ASSUME TypeOK, FlowInv, [Next]_vars PROVE FlowMoves OBVIOUS
  <1>1. CASE UNCHANGED vars
    BY <1>1, FlowFailing DEF vars
  <1>2. ASSUME NEW c \in Callers, CallerRequests(c) \/ CallerContinues(c) PROVE FlowMoves
    BY <1>2, PhaseStep, FlowCreation, FlowDriving, FlowStopping, FlowDeletion
    DEF CallerRequests, CallerContinues
  <1> QED
    BY <1>1, <1>2, FlowEnvironment, FlowTimer, FlowFailure, FlowChecks, FlowSafety DEF Next

LEMMA FlowInvInit == Init => FlowInv
  BY IdleIs DEF Init, FlowInv, CallerOK, OneCreator, FailureOK, Flows

LEMMA FlowInvKept == TypeOK /\ FlowInv /\ [Next]_vars => FlowInv'
  BY PhaseStep, FlowStep, FlowInvStep

-----------------------------------------------------------------------------
(* A confirmed stop holds.                                                 *)

\* An abort or an emergency stop that makes its own active session safe.
StopHeld(c) ==
  /\ flow[c].op \in {"abort", "emergency"} /\ flow[c].stage \in SafetyStages
  /\ active # None /\ active = flow[c].session

StopInv ==
  \A c \in Callers :
    StopHeld(c) =>
      /\ phase[active] \in Terminal
      /\ \A d \in Callers : flow[d].stage # "checking"
      /\ flow[c].stage = "record" => puffer = "flat"

\* A flat device is inflated by a device test or the result phase of the run only.
Inflates ==
  \/ \E c \in Callers : flow[c].stage = "checking"
  \/ active # None /\ phase[active] \in Timed

FlatKept == puffer = "flat" /\ puffer' # "flat" => Inflates

LEMMA FlatCalm == ASSUME PufferCalm PROVE FlatKept
  BY DEF PufferCalm, FlatKept

LEMMA FlatStep == TypeOK /\ [Next]_vars => FlatKept
  <1> SUFFICES ASSUME TypeOK, [Next]_vars PROVE FlatKept OBVIOUS
  <1>1. CASE puffer' = puffer
    BY <1>1 DEF FlatKept
  <1>2. CASE \/ NoFailure \/ FailActive
             \/ \E s \in Sessions \union {None} : FailSession(s) \/ Neutralise(s)
    BY <1>2, CalmFailure, CalmNeutralise, FlatCalm
  <1>3. ASSUME NEW s, NEW p, NEW i, EnterTimedPhase(s, p, i),
               p = "result" => active # None /\ phase[active] \in Timed
        PROVE  FlatKept
    BY <1>3 DEF EnterTimedPhase, AfterDeflate, Reachable, FlatKept, Inflates
  <1>4. ASSUME NEW c \in Callers, NEW op, NEW s, BeginSafety(c, op, s) PROVE FlatKept
    BY <1>4, CalmSafety, FlatCalm DEF TypeOK, Flows
  <1>5. CASE Environment
    <2>1. CASE DeviceDeflates \/ TestDeflate \/ StopDevice
      BY <2>1 DEF DeviceDeflates, TestDeflate, StopDevice, AfterDeflate, AfterStop, Reachable,
                  FlatKept
    <2>2. ASSUME NEW s \in Sessions, Start(s) \/ NextPresentation(s) PROVE FlatKept
      BY <1>3, <2>2 DEF Start, NextPresentation
    <2>3. ASSUME NEW s \in Sessions, DisplayLost(s) PROVE FlatKept
      BY <1>1, <1>2, <2>3 DEF DisplayLost
    <2> QED
      BY <1>1, <1>2, <1>5, <2>1, <2>2, <2>3
      DEF Environment, ConfirmOperatorSession, LeaseGranted, LeaseLost, AuditFails,
          DeviceReports, ConnectDevice, DisconnectDevice, Summarize, ResumeTimed, ResumeUntimed,
          DisplayReady, deviceVars, TypeOK
  <1>6. CASE TimerDue
    <2>1. CASE TimerAdvances
      <3>1. active # None /\ phase[active] \in Timed
        BY <2>1, SessionAssumption DEF TimerAdvances, Advances, TypeOK
      <3> QED BY <1>3, <2>1, <3>1 DEF TimerAdvances
    <2> QED BY <1>1, <1>2, <1>6, <2>1 DEF TimerDue, TimerEndsReset, TimerIgnored, deviceVars, TypeOK
  <1>7. ASSUME NEW s \in Sessions, ResetCheckSettles(s) \/ CommandSettles(s) PROVE FlatKept
    BY <1>1, <1>2, <1>7 DEF ResetCheckSettles, ResetChecked, ResetCheckRejected, CommandSettles
  <1>8. CASE FailureContinues \/ UNCHANGED vars
    BY <1>1, <1>8 DEF FailureContinues, FailureRecorded, FailureThrows, FailureEnds, vars, deviceVars
  <1>9. ASSUME NEW f \in Flows, SafetyContinues(f) PROVE FlatKept
    BY <1>9
    DEF SafetyContinues, StopSettles, DeflateSettles, DeflationConfirmed, DeflationUnconfirmed,
        DeflationReported, deviceVars, AfterDeflate, Reachable, FlatKept
  <1>10. ASSUME NEW c \in Callers, CallerRequests(c) \/ CallerContinues(c) PROVE FlatKept
    <2>1. CASE TestInflates(c)
      BY <2>1 DEF TestInflates, FlatKept, Inflates
    <2>2. CASE AbortJoined(c) \/ \E s \in Sessions : AbortBegin(c, s)
      BY <1>1, <1>4, <2>2 DEF AbortBegin, AbortJoined, AbortNow
    <2>3. CASE \E s \in Sessions : EmergencyBegin(c, s) \/ DeleteBegin(c, s)
      BY <1>1, <1>4, <2>3 DEF EmergencyBegin, DeleteBegin
    <2> QED
      BY <1>1, <1>10, <2>1, <2>2, <2>3
      DEF CallerRequests, CallerContinues, CreateBegin, CreateRejected, CreateCommit,
          CreateAudited, CreateAuditFails, PrepareBegin, PrepareContinues, PrepareRejected,
          HandoffBegin, HandoffEnds, EmergencyJoined, StopReturns, JoinedStopReturns,
          DeleteContinues, DeleteAudited, DeleteAuditFails, TestBegin, TestChecks, TestEnds,
          deviceVars
  <1> QED BY <1>5, <1>6, <1>7, <1>8, <1>9, <1>10 DEF Next

LEMMA StopInvStep ==
  ASSUME TypeOK, FlowInv, StopInv, PhaseMoves, FlowMoves, FlatKept
  PROVE  StopInv'
  <1> SUFFICES ASSUME NEW c \in Callers, StopHeld(c)'
               PROVE  /\ phase'[active'] \in Terminal
                      /\ \A d \in Callers : flow'[d].stage # "checking"
                      /\ flow'[c].stage = "record" => puffer' = "flat"
    BY DEF StopInv
  <1>1. CASE Begun(c) /\ \A d \in Callers \ {c} : Kept(d)
    <2>1. PICK s \in Sessions, op \in {"abort", "emergency"} :
            active' \in {active, None} /\ StopsRun(c, op, s)
      BY <1>1, WaitingIs, SafetyStagesAre DEF StopHeld, Begun
    <2>2. flow'[c] = Waiting(op, s, "stop") /\ active' = s /\ active = s
      BY <2>1, StopsBegun, WaitingIs, SessionAssumption DEF StopHeld
    <2>3. \A d \in Callers : flow'[d].stage # "checking"
      BY <2>1, <2>2, WaitingIs, IdleIs DEF StopsRun, StopPending, TypeOK, Flows
    <2> QED BY <2>1, <2>2, <2>3, WaitingIs DEF StopsRun
  <1>2. CASE Kept(c)
    <2>1. /\ flow[c].op \in {"abort", "emergency"} /\ flow[c].stage \in SafetyStages
          /\ flow'[c].session = flow[c].session /\ active' = flow[c].session
          /\ Known(flow[c].session)
      <3>1. flow'[c] = flow[c] \/ Goes(c)
        BY <1>2, IdleIs DEF StopHeld, Kept
      <3>2. flow[c].op \in {"abort", "emergency"} /\ flow[c].stage \in SafetyStages
        BY <3>1, SafetyStagesAre DEF StopHeld, Goes
      <3> QED BY <3>1, <3>2 DEF StopHeld, Goes, FlowInv, CallerOK
    <2> DEFINE s == flow[c].session
    <2>2. active = s /\ s \in Sessions
      BY <2>1, SessionAssumption DEF PhaseMoves, Born, Moved, Known
    <2>3. StopHeld(c)
      BY <2>1, <2>2, SessionAssumption DEF StopHeld
    <2>4. /\ phase[s] \in Terminal
          /\ \A d \in Callers : flow[d].stage # "checking"
          /\ flow[c].stage = "record" => puffer = "flat"
      BY <2>2, <2>3 DEF StopInv
    <2>5. phase'[s] \in Terminal
      <3>1. \A t \in Sessions : ~Born(t)
        BY <2>1, <2>2 DEF Born, Moved, Known
      <3>2. ASSUME NEW t \in Sessions, Ends(t) PROVE phase'[s] \in Terminal
        <4>1. CASE t # s
          BY <2>4, <3>2, <4>1 DEF Ends, TypeOK
        <4>2. CASE t = s
          <5>1. \A d \in Callers : ~Deletes(d, s)
            BY <2>2 DEF Deletes, FlowInv, CallerOK
          <5>2. phase' = [phase EXCEPT ![s] = "aborted"]
            BY <2>1, <2>2, <2>4, <3>2, <4>2, <5>1, SessionAssumption DEF Ends
          <5> QED BY <2>2, <5>2 DEF TypeOK, Terminal
        <4> QED BY <4>1, <4>2
      <3>3. ~MovesOn(s)
        BY <2>4 DEF MovesOn, Moved, Terminal
      <3> QED BY <2>2, <2>4, <3>1, <3>2, <3>3 DEF PhaseMoves, Stays
    <2>6. \A d \in Callers : flow'[d].stage # "checking"
      <3>1. \A d \in Callers : Kept(d) => flow'[d].stage # "checking"
        BY <2>4, IdleIs, SafetyStagesAre DEF Kept, Goes
      <3>2. ~DeviceTestAllowed
        BY <2>2, <2>4, SessionAssumption DEF DeviceTestAllowed, Terminal
      <3>3. \A d \in Callers : Begun(d) => flow'[d].stage # "checking"
        BY <3>2, WaitingIs, StopsBegun DEF Begun
      <3> QED BY <3>1, <3>3 DEF FlowMoves
    <2>7. flow'[c].stage = "record" => puffer' = "flat"
      <3>1. ~Inflates
        BY <2>2, <2>4 DEF Inflates, Terminal, Timed
      <3>2. puffer = "flat" => puffer' = "flat"
        BY <3>1 DEF FlatKept
      <3> QED BY <1>2, <2>4, <3>2, IdleIs DEF Kept, Goes
    <2> QED BY <2>1, <2>5, <2>6, <2>7
  <1> QED BY <1>1, <1>2 DEF FlowMoves

\* Once an abort or emergencyStop has confirmed that the device of its active
\* session is flat, the device stays flat and the session over until the
\* request lets it go, whatever other operators request at the same time.
THEOREM ConfirmedStopKept == Spec => []ConfirmedStopHolds
  <1>1. Init => TypeOK /\ FlowInv /\ StopInv
    BY TypeInit, FlowInvInit DEF Init, StopInv, StopHeld
  <1>2. TypeOK /\ FlowInv /\ StopInv /\ [Next]_vars => (TypeOK /\ FlowInv /\ StopInv)'
    BY TypeStep, FlowInvKept, PhaseStep, FlowStep, FlatStep, StopInvStep
  <1>3. StopInv => ConfirmedStopHolds
    BY SafetyStagesAre DEF StopInv, StopHeld, ConfirmedStopHolds
  <1> QED BY <1>1, <1>2, <1>3, PTL DEF Spec

-----------------------------------------------------------------------------
(* Two participants are run at the same time only when a deletion lets go  *)
(* of a run that began while it waited.                                    *)

RunsActive == \A s \in Sessions : phase[s] \in Running => active = s

\* A deletion that ends its STOP and DEFLATE while a run is on.
DeletionOvertaken == RunOn /\ \E c \in Callers : DeleteContinues(c) /\ active' = None

\* Who lets go of the active session.
LetsGo ==
  \/ active' = active
  \/ \E s \in Sessions : Born(s)
  \/ active' = None /\ ~(active # None /\ phase'[active] \in Running)
  \/ \E c \in Callers : DeleteContinues(c) /\ active' = None

LEMMA ReleaseStep ==
  ASSUME TypeOK, FlowInv, [Next]_vars PROVE LetsGo
  <1>1. CASE active' = active
    BY <1>1 DEF LetsGo
  <1>2. ASSUME NEW c \in Callers, NEW s \in Sessions, CreateCommit(c, s) PROVE LetsGo
    <2>1. flow'[c] = Waiting("create", s, "auditing")
      BY <1>2 DEF CreateCommit, TypeOK, Flows
    <2> QED BY <1>2, <2>1 DEF CreateCommit, LetsGo, Born, Moved
  <1>3. ASSUME NEW c \in Callers, CreateAuditFails(c) PROVE LetsGo
    <2>1. Known(flow[c].session) /\ active \in {None, flow[c].session}
      BY <1>3 DEF CreateAuditFails, FlowInv, CallerOK
    <2>2. phase'[flow[c].session] \notin Running
      BY <1>3, <2>1 DEF CreateAuditFails, Forget, TypeOK, Known, Running, Timed
    <2> QED BY <1>3, <2>1, <2>2 DEF CreateAuditFails, LetsGo
  <1>4. ASSUME NEW c \in Callers, HandoffEnds(c) PROVE LetsGo
    <2>1. Past(flow[c].session)
      BY <1>4 DEF HandoffEnds, FlowInv, CallerOK
    <2>2. active' = active \/ (active' = None /\ active = flow[c].session)
      BY <1>4 DEF HandoffEnds
    <2>3. phase' = phase
      BY <1>4 DEF HandoffEnds, sessionVars
    <2> QED BY <2>1, <2>2, <2>3 DEF LetsGo, Past, Over, Terminal, Running, Timed
  <1>5. ASSUME NEW c \in Callers, StopReturns(c) \/ JoinedStopReturns(c) PROVE LetsGo
    BY <1>5
    DEF StopReturns, JoinedStopReturns, LetGo, sessionVars, LetsGo, Terminal, Running, Timed
  <1>6. ASSUME NEW c \in Callers, DeleteContinues(c) PROVE LetsGo
    BY <1>6 DEF DeleteContinues, LetsGo
  <1>7. ASSUME NEW c \in Callers, CallerRequests(c) \/ CallerContinues(c) PROVE LetsGo
    BY <1>1, <1>2, <1>3, <1>4, <1>5, <1>6, <1>7
    DEF CallerRequests, CallerContinues, CreateBegin, CreateRejected, CreateAudited,
        PrepareBegin, PrepareContinues, PrepareRejected, HandoffBegin, AbortBegin, EmergencyBegin,
        AbortJoined, EmergencyJoined, DeleteBegin, DeleteAudited, DeleteAuditFails, TestBegin,
        TestChecks, TestInflates, TestEnds
  <1>8. CASE TimerDue \/ FailureContinues \/ UNCHANGED vars
    BY <1>1, <1>8
    DEF TimerDue, TimerAdvances, TimerEndsReset, TimerIgnored, FailureContinues, FailureRecorded,
        FailureThrows, FailureEnds, vars
  <1>9. CASE \/ \E s \in Sessions : ResetCheckSettles(s) \/ CommandSettles(s)
             \/ \E f \in Flows : SafetyContinues(f)
    BY <1>1, <1>9
    DEF ResetCheckSettles, ResetChecked, ResetCheckRejected, CommandSettles, SafetyContinues,
        StopSettles, DeflateSettles, DeflationConfirmed, DeflationUnconfirmed, DeflationReported
  <1>10. CASE Environment
    BY <1>1, <1>10
    DEF Environment, ConfirmOperatorSession, LeaseGranted, LeaseLost, DeviceDeflates,
        DeviceReports, AuditFails, ConnectDevice, DisconnectDevice, TestDeflate, StopDevice,
        Start, ResumeTimed, ResumeUntimed, NextPresentation, Summarize, DisplayReady, DisplayLost
  <1> QED BY <1>7, <1>8, <1>9, <1>10 DEF Next

LEMMA RunsActiveStep ==
  ASSUME TypeOK, FlowInv, RunsActive, PhaseMoves, LetsGo, ~DeletionOvertaken
  PROVE  RunsActive'
  <1> SUFFICES ASSUME NEW t \in Sessions, phase'[t] \in Running PROVE active' = t
    BY DEF RunsActive
  <1>1. phase[t] \in Running \/ active = t
    BY DEF PhaseMoves, Stays, Born, Ends, MovesOn, Moved, TypeOK, Running, Timed
  <1>2. active = t
    BY <1>1 DEF RunsActive
  <1>3. ASSUME NEW s \in Sessions, Born(s) PROVE FALSE
    <2>1. active = None
      BY <1>3 DEF Born, FlowInv, CallerOK
    <2> QED BY <1>2, <2>1, SessionAssumption
  <1>4. active' = t \/ active' = None
    BY <1>2, <1>3 DEF PhaseMoves
  <1>5. CASE active' = None
    <2>1. \E c \in Callers : DeleteContinues(c) /\ active' = None
      BY <1>2, <1>3, <1>5, SessionAssumption DEF LetsGo
    <2>2. phase' = phase
      BY <2>1 DEF DeleteContinues, sessionVars
    <2> QED BY <1>2, <2>1, <2>2, SessionAssumption DEF DeletionOvertaken, RunOn
  <1> QED BY <1>4, <1>5

\* Two participants are never run at the same time, for any number of sessions
\* and requests, as long as no deletion of a session that waited for STOP and
\* DEFLATE (delete) lets go of a run: the one way in which the active session
\* is forgotten while it runs.
THEOREM OneRunUnlessOvertaken ==
  Spec /\ [][~DeletionOvertaken]_vars => []OneRunAtATime
  <1>1. Init => TypeOK /\ FlowInv /\ RunsActive
    BY TypeInit, FlowInvInit DEF Init, RunsActive, Running, Timed
  <1>2. TypeOK /\ FlowInv /\ RunsActive /\ [Next]_vars /\ [~DeletionOvertaken]_vars =>
          (TypeOK /\ FlowInv /\ RunsActive)'
    <2> SUFFICES ASSUME TypeOK, FlowInv, RunsActive, [Next]_vars, [~DeletionOvertaken]_vars
                 PROVE  (TypeOK /\ FlowInv /\ RunsActive)'
      OBVIOUS
    <2>1. CASE UNCHANGED vars
      BY <2>1, TypeStep, FlowInvKept DEF vars, sessionVars, RunsActive
    <2>2. CASE ~DeletionOvertaken
      BY <2>2, TypeStep, FlowInvKept, PhaseStep, ReleaseStep, RunsActiveStep
    <2> QED BY <2>1, <2>2
  <1>3. RunsActive => OneRunAtATime
    BY DEF RunsActive, OneRunAtATime
  <1> QED BY <1>1, <1>2, <1>3, PTL DEF Spec

\* With one request at a time nothing begins a run while a deletion waits.
DeletionsAlone ==
  \A c \in Callers :
    flow[c].op = "delete" /\ flow[c].stage \in SafetyStages =>
      active \in {None, flow[c].session} /\ phase[flow[c].session] \notin Running

LEMMA DeletionsAloneStep ==
  ASSUME \A c, d \in Callers : c = d,
         TypeOK, FlowInv, DeletionsAlone, PhaseMoves, FlowMoves
  PROVE  DeletionsAlone'
  <1> SUFFICES ASSUME NEW c \in Callers, flow'[c].op = "delete", flow'[c].stage \in SafetyStages
               PROVE  /\ active' \in {None, flow'[c].session}
                      /\ phase'[flow'[c].session] \notin Running
    BY DEF DeletionsAlone
  <1>1. CASE Begun(c)
    <2>1. PICK s \in Sessions :
            flow'[c] = Waiting("delete", s, "stop") /\ active' = s /\ phase'[s] = "setup"
      <3>1. \A s \in Sessions, op \in {"abort", "emergency"} : ~StopsRun(c, op, s)
        BY WaitingIs, StopsBegun
      <3>2. \A s, t : flow'[c] # Waiting("delete", s, "auditing") /\ flow'[c] # Waiting("create", s, t)
        BY WaitingIs, SafetyStagesAre
      <3> QED BY <1>1, <3>1, <3>2, WaitingIs DEF Begun
    <2> QED BY <2>1, WaitingIs DEF Running, Timed
  <1>2. CASE Kept(c)
    <2> DEFINE s == flow[c].session
    <2>1. flow[c].op = "delete" /\ flow[c].stage \in SafetyStages /\ flow'[c].session = s
      BY <1>2, IdleIs, SafetyStagesAre DEF Kept, Goes
    <2>2. active \in {None, s} /\ phase[s] \notin Running /\ s \in Sessions
      BY <2>1 DEF DeletionsAlone, FlowInv, CallerOK, Known
    <2>3. active' \in {active, None}
      <3> SUFFICES ASSUME NEW t \in Sessions, Born(t) PROVE FALSE
        BY DEF PhaseMoves
      <3>1. PICK d \in Callers : flow[d].op = "create"
        BY DEF Born
      <3>2. d = c
        OBVIOUS
      <3> QED BY <2>1, <3>1, <3>2
    <2>4. phase'[s] \notin Running
      BY <2>1, <2>2 DEF PhaseMoves, Stays, Born, Ends, MovesOn, Moved, TypeOK, Running, Timed
    <2> QED BY <2>1, <2>2, <2>3, <2>4
  <1> QED BY <1>1, <1>2 DEF FlowMoves

\* With one operator request at a time, however many sessions follow each
\* other, no deletion can be overtaken: one participant is run at a time.
THEOREM OneRunWithOneRequest ==
  ASSUME \A c, d \in Callers : c = d
  PROVE  Spec => []OneRunAtATime
  <1>1. Init => TypeOK /\ FlowInv /\ DeletionsAlone
    BY TypeInit, FlowInvInit, IdleIs DEF Init, DeletionsAlone, Flows
  <1>2. TypeOK /\ FlowInv /\ DeletionsAlone /\ [Next]_vars =>
          (TypeOK /\ FlowInv /\ DeletionsAlone)'
    BY TypeStep, FlowInvKept, PhaseStep, FlowStep, DeletionsAloneStep
  <1>3. TypeOK /\ FlowInv /\ DeletionsAlone /\ [Next]_vars => [~DeletionOvertaken]_vars
    BY SafetyStagesAre DEF DeletionsAlone, DeletionOvertaken, DeleteContinues, SafetyResult, RunOn
  <1> QED BY <1>1, <1>2, <1>3, OneRunUnlessOvertaken, PTL DEF Spec

-----------------------------------------------------------------------------
(* A run without a lease is being made safe.                               *)

SupervisionInv == RunOn /\ ~lease => Failing

\* The failure in flight is that of the run that is on.
FailureIsOwn == Failing /\ RunOn => flow[FailureTask].session = active

LEMMA FailureBeginsFor ==
  ASSUME TypeOK, RunOn, FailSession(active) PROVE Failing'
  <1>1. CASE StartsFailure(active)
    <2>1. flow'[FailureTask] = Waiting("fail", active, "stop")
      BY <1>1 DEF FailSession, Neutralise, BeginSafety, StopPending, Flows
    <2> QED BY <2>1, WaitingIs DEF Failing
  <1>2. CASE Failing
    BY <1>2 DEF FailSession, Neutralise, StartsFailure, Failing
  <1> QED BY <1>1, <1>2 DEF StartsFailure, RunOn, Running, Timed, Over, Terminal, Missing

\* The lease goes with a failure of the run, the failure task in its time.
LeaseKept == RunOn /\ lease /\ ~lease' => Failing'
FailureKept == Failing => Failing' \/ FailureThrows \/ FailureEnds

LEMMA LeaseStep == TypeOK /\ [Next]_vars => LeaseKept
  <1> SUFFICES ASSUME TypeOK, [Next]_vars PROVE LeaseKept OBVIOUS
  <1>1. CASE lease' = lease
    BY <1>1 DEF LeaseKept
  <1>2. CASE LeaseLost
    BY <1>2, FailureBeginsFor DEF LeaseLost, ActiveIs, RunOn, LeaseKept
  <1>3. CASE Environment
    BY <1>1, <1>2, <1>3
    DEF Environment, ConfirmOperatorSession, LeaseGranted, DeviceDeflates, DeviceReports,
        AuditFails, ConnectDevice, DisconnectDevice, TestDeflate, StopDevice, Start, ResumeTimed,
        ResumeUntimed, NextPresentation, Summarize, DisplayReady, DisplayLost, operatorVars,
        LeaseKept
  <1>4. CASE TimerDue \/ FailureContinues \/ UNCHANGED vars
    BY <1>1, <1>4
    DEF TimerDue, TimerAdvances, TimerEndsReset, TimerIgnored, FailureContinues, FailureRecorded,
        FailureThrows, FailureEnds, vars, operatorVars
  <1>5. CASE \/ \E s \in Sessions : ResetCheckSettles(s) \/ CommandSettles(s)
             \/ \E f \in Flows : SafetyContinues(f)
    BY <1>1, <1>5
    DEF ResetCheckSettles, ResetChecked, ResetCheckRejected, CommandSettles, SafetyContinues,
        StopSettles, DeflateSettles, DeflationConfirmed, DeflationUnconfirmed, DeflationReported,
        operatorVars
  <1>6. ASSUME NEW c \in Callers, CallerRequests(c) \/ CallerContinues(c) PROVE LeaseKept
    BY <1>1, <1>6
    DEF CallerRequests, CallerContinues, CreateBegin, CreateRejected, CreateCommit,
        CreateAudited, CreateAuditFails, PrepareBegin, PrepareContinues, PrepareRejected,
        HandoffBegin, HandoffEnds, AbortBegin, EmergencyBegin, AbortJoined, EmergencyJoined,
        StopReturns, JoinedStopReturns, DeleteBegin, DeleteContinues, DeleteAudited,
        DeleteAuditFails, TestBegin, TestChecks, TestInflates, TestEnds, operatorVars
  <1> QED BY <1>3, <1>4, <1>5, <1>6 DEF Next

\* failureTask ends only with the last of its own steps.
LEMMA FailureStep == TypeOK /\ FlowInv /\ [Next]_vars => FailureKept
  <1> SUFFICES ASSUME TypeOK, FlowInv, [Next]_vars, Failing, ~Failing'
               PROVE  FailureThrows \/ FailureEnds
    BY DEF FailureKept
  <1>1. flow[FailureTask].stage # "idle" /\ flow'[FailureTask].stage = "idle"
    BY DEF Failing
  <1>2. flow[FailureTask].stage # "checking"
    BY <1>1, SafetyStagesAre DEF FlowInv, FailureOK
  <1>3. ~Goes(FailureTask) /\ ~FailureBegun
    BY <1>1, SafetyStagesAre DEF Goes, FailureBegun
  <1>4. Kept(FailureTask)
    BY <1>3, FlowStep DEF FlowMoves
  <1> QED BY <1>1, <1>2, <1>3, <1>4 DEF Kept

LEMMA SupervisionStep ==
  ASSUME TypeOK, FlowInv, SupervisionInv, FailureIsOwn,
         PhaseMoves, LeaseKept, FailureKept
  PROVE  SupervisionInv'
  <1> SUFFICES ASSUME RunOn', ~lease' PROVE Failing'
    BY DEF SupervisionInv
  <1>1. active' = active /\ active \in Sessions
    BY SessionAssumption DEF PhaseMoves, Born, Moved, RunOn, TypeOK, Running, Timed
  <1>2. CASE RunOn
    <2>1. CASE lease
      BY <1>2, <2>1 DEF LeaseKept
    <2>2. CASE ~lease
      <3>1. Failing /\ flow[FailureTask].session = active
        BY <1>2, <2>2 DEF SupervisionInv, FailureIsOwn
      <3>2. ~FailureThrows
        BY <1>2, <3>1 DEF FailureThrows, RunOn, Running, Timed, Terminal
      <3>3. ~FailureEnds
        BY <1>2, <3>1, SafetyStagesAre
        DEF FailureEnds, FlowInv, FailureOK, Past, RunOn, Running, Timed, Over, Terminal
      <3> QED BY <3>1, <3>2, <3>3 DEF FailureKept
    <2> QED BY <2>1, <2>2
  <1>3. CASE ~RunOn
    <2>1. phase[active] \notin Running /\ phase'[active] \in Running
      BY <1>1, <1>3 DEF RunOn
    <2>2. lease'
      BY <1>1, <2>1, SessionAssumption
      DEF PhaseMoves, Stays, Born, Ends, MovesOn, Moved, TypeOK, Running, Timed
    <2> QED BY <2>2
  <1> QED BY <1>2, <1>3

\* A run without a confirmed operator lease is being made safe, as long as the
\* failure that is being handled is never one of an earlier session
\* (failSession joins the failure in flight, whichever session it is about).
THEOREM RunsSupervised == Spec /\ []FailureIsOwn => []LeaseSupervised
  <1>1. Init => TypeOK /\ FlowInv /\ SupervisionInv
    BY TypeInit, FlowInvInit DEF Init, SupervisionInv, RunOn
  <1>2. TypeOK /\ FlowInv /\ SupervisionInv /\ FailureIsOwn /\ [Next]_vars =>
          (TypeOK /\ FlowInv /\ SupervisionInv)'
    BY TypeStep, FlowInvKept, PhaseStep, LeaseStep, FailureStep, SupervisionStep
  <1>3. SupervisionInv => LeaseSupervised
    BY DEF SupervisionInv, LeaseSupervised, ActiveIs, RunOn
  <1> QED BY <1>1, <1>2, <1>3, PTL DEF Spec

\* With one session LeaseSupervised holds without condition.
THEOREM LoneSessionSupervised ==
  ASSUME \A s, t \in Sessions : s = t
  PROVE  Spec => []LeaseSupervised
  <1>1. Init => TypeOK /\ FlowInv
    BY TypeInit, FlowInvInit
  <1>2. TypeOK /\ FlowInv /\ [Next]_vars => (TypeOK /\ FlowInv)'
    BY TypeStep, FlowInvKept
  <1>3. TypeOK /\ FlowInv => FailureIsOwn
    BY DEF TypeOK, FlowInv, FailureOK, Failing, Past, FailureIsOwn, RunOn
  <1> QED BY <1>1, <1>2, <1>3, RunsSupervised, PTL DEF Spec

=============================================================================
