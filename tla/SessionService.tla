---------------------------- MODULE SessionService ----------------------------
(***************************************************************************)
(* What the screens can tell of the server's sessions: which operation of  *)
(* SessionController (src/server/sessions/session-controller.ts) is        *)
(* accepted when, and what the snapshots say afterwards.  The controller's *)
(* own interleavings are in SessionController; here an operation is one    *)
(* step, and a failure two.  The device accepts every command.             *)
(***************************************************************************)
EXTENDS Naturals, Sequences

CONSTANTS Sessions, None, Presentations

ASSUME PresentationAssumption == Presentations \in Nat \ {0}
ASSUME NoneAssumption == None \notin Sessions

VARIABLES
  session,     \* [Sessions -> record]; step 0 is one that was not created yet
  active,      \* activeSessionId
  lease,       \* operatorLeaseAvailable
  agreed       \* operatorSessionConfirmed

serviceVars == <<session, active, lease, agreed>>

\* The phases of a run in their order: handling and processing are "timed",
\* result and reset are "stimulus".
Presentation == <<"timed", "stimulus", "response">>
Course ==
  <<"setup", "intro">>
    \o [i \in 1 .. 3 * Presentations |-> Presentation[((i - 1) % 3) + 1]]
    \o <<"summary">>

Unborn == [step |-> 0, ended |-> "no", recovery |-> FALSE, paused |-> FALSE,
           failing |-> FALSE, attended |-> FALSE]

Created == [Unborn EXCEPT !.step = 1]

PhaseOf(x) ==
  IF x.step = 0 THEN "none" ELSE IF x.ended # "no" THEN x.ended ELSE Course[x.step]

\* What a snapshot shows: a phase that waits for recovery is not shown.
ShownPhase(x) == IF x.recovery /\ x.ended = "no" THEN "recovery" ELSE PhaseOf(x)

Exists(s) == PhaseOf(session[s]) \notin {"none", "deleted"}
Over(s) == session[s].ended \in {"completed", "aborted"}

\* A run is going on: the participant is led through it.
Running(s) ==
  PhaseOf(session[s]) \in {"intro", "timed", "stimulus", "response", "summary"}

Endings == {"completed", "aborted", "error", "deleted"}
Phases == {"none", "recovery", "setup", "intro", "timed", "stimulus", "response", "summary"}
            \union Endings

Records == [step : 0 .. Len(Course), ended : {"no"} \union Endings, recovery : BOOLEAN,
            paused : BOOLEAN, failing : BOOLEAN, attended : BOOLEAN]

ServiceTypeOK ==
  /\ session \in [Sessions -> Records]
  /\ active \in Sessions \union {None}
  /\ lease \in BOOLEAN /\ agreed \in BOOLEAN

-----------------------------------------------------------------------------

\* The session goes on in its course, with its display there.
Proceeds(s, phases) ==
  /\ active = s /\ PhaseOf(session[s]) \in phases
  /\ ~session[s].recovery
  /\ session' = [session EXCEPT ![s].step = @ + 1]
  /\ UNCHANGED <<active, lease, agreed>>

Create(s) ==
  /\ agreed /\ active = None
  /\ session[s] = Unborn
  /\ session' = [session EXCEPT ![s] = Created]
  /\ active' = s
  /\ UNCHANGED <<lease, agreed>>

Prepare(s) == lease /\ agreed /\ session[s].attended /\ Proceeds(s, {"setup"})
Start(s) == lease /\ agreed /\ session[s].attended /\ Proceeds(s, {"intro"})

\* The timers of handling, processing, result and reset.
Timer(s) == Proceeds(s, {"timed", "stimulus"})

Checkpoint(s) == lease /\ session[s].attended /\ Proceeds(s, {"response"})

\* A timed phase that has no remaining time cannot be resumed.
Resume(s) ==
  /\ lease /\ active = s
  /\ session[s].recovery /\ session[s].attended
  /\ PhaseOf(session[s]) \in {"timed", "stimulus"} => session[s].paused
  /\ session' = [session EXCEPT ![s].recovery = FALSE, ![s].paused = FALSE]
  /\ UNCHANGED <<active, lease, agreed>>

Ends(s, how) == session' = [session EXCEPT ![s].ended = how]

Handoff(s) ==
  /\ lease /\ active = s /\ PhaseOf(session[s]) = "summary"
  /\ ~session[s].recovery /\ session[s].attended
  /\ Ends(s, "completed")
  /\ UNCHANGED <<active, lease, agreed>>

\* abort, and emergencyStop of the active session: a failure under way is
\* waited for.
Abort(s) ==
  /\ active = s /\ ~Over(s) /\ ~session[s].failing
  /\ Ends(s, "aborted")
  /\ UNCHANGED <<active, lease, agreed>>

\* The end is recorded and the device safe: the session gives way to the next.
Releasable(s) == s # None /\ active = s /\ Over(s)

Release(s) ==
  /\ active' = IF Releasable(s) THEN None ELSE active
  /\ agreed' = (agreed /\ ~Releasable(s))
  /\ UNCHANGED <<session, lease>>

MayDelete(s) ==
  /\ Exists(s) /\ PhaseOf(session[s]) # "error"
  /\ active = s => PhaseOf(session[s]) = "setup"

Delete(s) ==
  /\ MayDelete(s)
  /\ session' = [session EXCEPT ![s] = [Unborn EXCEPT !.step = 1, !.ended = "deleted"]]
  /\ active' = IF active = s THEN None ELSE active
  /\ agreed' = FALSE
  /\ UNCHANGED lease

-----------------------------------------------------------------------------

\* performFailSession: the run is stopped at once, and in error when the device
\* is safe.
FailsNow(x) == [x EXCEPT !.recovery = TRUE, !.failing = TRUE]

Fail(s) ==
  /\ active = s /\ session[s].ended = "no" /\ ~session[s].failing
  /\ session' = [session EXCEPT ![s] = FailsNow(@)]
  /\ UNCHANGED <<active, lease, agreed>>

FailureEnds(s) ==
  /\ session[s].failing
  /\ session' = [session EXCEPT ![s].failing = FALSE,
                                ![s].ended = IF @ = "no" THEN "error" ELSE @,
                                ![s].recovery = IF session[s].ended = "no" THEN FALSE ELSE @]
  /\ UNCHANGED <<active, lease, agreed>>

\* markDisplayDisconnected: a stimulus ends the run, another phase waits.
Unattended(s, x) ==
  IF active # s \/ PhaseOf(x) \notin {"intro", "timed", "stimulus", "response", "summary"}
  THEN x
  ELSE IF PhaseOf(x) = "stimulus"
       THEN FailsNow(x)
       ELSE [x EXCEPT !.recovery = TRUE, !.paused = @ \/ PhaseOf(x) = "timed"]

LoseDisplay(s) ==
  /\ session[s].attended
  /\ session' = [session EXCEPT ![s] = Unattended(s, [@ EXCEPT !.attended = FALSE])]
  /\ UNCHANGED <<active, lease, agreed>>

GetDisplay(s) ==
  /\ Exists(s)
  /\ session' = [session EXCEPT ![s].attended = TRUE]
  /\ UNCHANGED <<active, lease, agreed>>

GetLease == lease' = TRUE /\ UNCHANGED <<session, active, agreed>>

\* markOperatorDisconnected.
LoseLease ==
  /\ lease' = FALSE
  /\ agreed' = FALSE
  /\ session' = [s \in Sessions |->
                   IF active = s /\ Running(s) /\ ~session[s].failing
                   THEN FailsNow(session[s]) ELSE session[s]]
  /\ UNCHANGED active

Agree == lease /\ agreed' = TRUE /\ UNCHANGED <<session, active, lease>>
=============================================================================
