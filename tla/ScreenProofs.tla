---------------------------- MODULE ScreenProofs ----------------------------
(***************************************************************************)
(* What the two screens show is true of the server's sessions, for any     *)
(* number of sessions, pages and connections, of lost links, reloads and   *)
(* requests that fail.  Both parts rest on a summary of what an operation  *)
(* of the server does to a session (Onward): its step does not fall, and   *)
(* what has ended does not come back.                                      *)
(*                                                                         *)
(* The page (PagesFit, HubFits): snapshots on their way to it are in the   *)
(* order of their steps, none is behind what the page shows and none ahead *)
(* of the session; a run is under way, or shown, only over a connection    *)
(* that was the display when the staff let it go on.                       *)
(*                                                                         *)
(* The console (AliveIsActive, StopKept): the run a stop was pressed on is *)
(* the active session until it ends, the request for the stop names it or  *)
(* no session, and once the server has begun the stop that run is over.    *)
(***************************************************************************)
EXTENDS Screens, TLAPS, SequenceTheorems

LEMMA CourseSteps ==
  /\ Len(Course) \in Nat /\ Len(Course) >= 3
  /\ Course[1] = "setup"
  /\ Course[Len(Course)] = "summary"
  /\ \A i \in 2 .. Len(Course) : Course[i] \in {"intro", "timed", "stimulus", "response", "summary"}
<1> DEFINE n == 3 * Presentations
           mid == [i \in 1 .. n |-> Presentation[((i - 1) % 3) + 1]]
           head == <<"setup", "intro">>
           end == <<"summary">>
           S == {"setup", "intro", "timed", "stimulus", "response", "summary"}
<1>1. n \in Nat /\ n >= 3
  BY PresentationAssumption
<1>2. \A i \in 1 .. n : mid[i] \in {"timed", "stimulus", "response"}
  <2>1. TAKE i \in 1 .. n
  <2>2. ((i - 1) % 3) + 1 \in {1, 2, 3}
    BY <1>1
  <2> QED
    BY <2>2 DEF Presentation
<1>3. mid \in Seq(S) /\ Len(mid) = n
  BY <1>1, <1>2
<1>4. head \in Seq(S) /\ Len(head) = 2 /\ head[1] = "setup" /\ head[2] = "intro"
  OBVIOUS
<1>5. end \in Seq(S) /\ Len(end) = 1 /\ end[1] = "summary"
  OBVIOUS
<1>6. Course = (head \o mid) \o end
  BY DEF Course
<1> HIDE DEF mid, head, end, n, S
<1>7. /\ Len(head \o mid) = Len(head) + Len(mid)
      /\ \A i \in 1 .. (Len(head) + Len(mid)) :
           (head \o mid)[i] = IF i <= Len(head) THEN head[i] ELSE mid[i - Len(head)]
      /\ head \o mid \in Seq(S)
  BY <1>3, <1>4, ConcatProperties
<1>a. head \o mid \in Seq(S)
  BY <1>7
<1>8. /\ Len((head \o mid) \o end) = Len(head \o mid) + Len(end)
      /\ \A i \in 1 .. (Len(head \o mid) + Len(end)) :
           ((head \o mid) \o end)[i] =
             IF i <= Len(head \o mid) THEN (head \o mid)[i] ELSE end[i - Len(head \o mid)]
  BY <1>5, <1>a, ConcatProperties
<1>9. Len(head \o mid) = n + 2 /\ Len(Course) = n + 3
  BY <1>1, <1>3, <1>4, <1>5, <1>6, <1>7, <1>8
<1>10. ASSUME NEW i \in 1 .. n + 2 PROVE Course[i] = IF i <= 2 THEN head[i] ELSE mid[i - 2]
  <2>1. /\ i \in 1 .. (Len(head \o mid) + Len(end)) /\ i <= Len(head \o mid)
        /\ i \in 1 .. (Len(head) + Len(mid))
    BY <1>1, <1>3, <1>4, <1>5, <1>9
  <2>2. Course[i] = (head \o mid)[i]
    BY <1>6, <1>8, <2>1
  <2>3. (head \o mid)[i] = IF i <= Len(head) THEN head[i] ELSE mid[i - Len(head)]
    BY <1>7, <2>1
  <2> QED
    BY <1>4, <2>2, <2>3
<1>11. Course[n + 3] = "summary"
  BY <1>1, <1>5, <1>6, <1>8, <1>9
<1>12. Course[1] = "setup" /\ Course[2] = "intro"
  BY <1>1, <1>4, <1>10
<1>13. \A i \in 3 .. n + 2 : Course[i] \in {"timed", "stimulus", "response"}
  <2>1. TAKE i \in 3 .. n + 2
  <2>2. i - 2 \in 1 .. n /\ i \in 1 .. n + 2 /\ ~(i <= 2)
    BY <1>1
  <2> QED
    BY <1>2, <1>10, <2>2
<1>14. ASSUME NEW i \in 2 .. Len(Course)
       PROVE  Course[i] \in {"intro", "timed", "stimulus", "response", "summary"}
  <2>1. i = 2 \/ i = n + 3 \/ i \in 3 .. n + 2
    BY <1>1, <1>9
  <2> QED
    BY <1>11, <1>12, <1>13, <2>1
<1> QED
  BY <1>1, <1>9, <1>11, <1>12, <1>14

RunPhases == {"timed", "stimulus", "response", "summary"}
ShowsRun(x) == ShownPhase(x) \in RunPhases

LEMMA StepPhases ==
  ASSUME NEW x \in Records
  PROVE  /\ PhaseOf(x) \in Phases \ {"recovery"}
         /\ ShownPhase(x) \in Phases
         /\ x.ended # "no" => ShownPhase(x) \notin RunPhases \union {"intro", "setup"}
         /\ x.step # 0 /\ x.ended # "no" => PhaseOf(x) = x.ended
         /\ PhaseOf(x) \in {"setup", "intro"} \union RunPhases => x.step # 0 /\ x.ended = "no"
         /\ PhaseOf(x) = "setup" => x.step = 1
         /\ x.step >= 2 /\ x.ended = "no" => PhaseOf(x) \in {"intro"} \union RunPhases
         /\ PhaseOf(x) \in {"setup", "intro", "timed", "stimulus", "response"}
              => x.step + 1 \in 0 .. Len(Course)
<1> DEFINE last == Len(Course)
<1>1. last \in Nat /\ last >= 3 /\ Course[1] = "setup" /\ Course[last] = "summary"
      /\ \A i \in 2 .. last : Course[i] \in {"intro", "timed", "stimulus", "response", "summary"}
  BY CourseSteps
<1>2. x.step \in 0 .. last /\ x.ended \in {"no", "completed", "aborted", "error", "deleted"}
      /\ x.recovery \in BOOLEAN
  BY DEF Records, Endings
<1> HIDE DEF last
<1>3. x.step = 0 \/ x.step = 1 \/ x.step \in 2 .. last
  BY <1>1, <1>2
<1>4. CASE x.step = 0
  <2>1. PhaseOf(x) = "none"
    BY <1>4 DEF PhaseOf
  <2> QED
    BY <1>1, <1>2, <1>4, <2>1 DEF Phases, Endings, RunPhases, ShownPhase
<1>5. CASE x.step # 0 /\ x.ended # "no"
  <2>1. PhaseOf(x) = x.ended
    BY <1>5 DEF PhaseOf
  <2> QED
    BY <1>1, <1>2, <1>5, <2>1 DEF Phases, Endings, RunPhases, ShownPhase
<1>6. CASE x.step = 1 /\ x.ended = "no"
  <2>1. PhaseOf(x) = "setup"
    BY <1>1, <1>6 DEF PhaseOf
  <2> QED
    BY <1>1, <1>2, <1>6, <2>1 DEF Phases, Endings, RunPhases, ShownPhase, last
<1>7. CASE x.step \in 2 .. last /\ x.ended = "no"
  <2>1. PhaseOf(x) = Course[x.step] /\ x.step # 0
    BY <1>1, <1>7 DEF PhaseOf
  <2>2. PhaseOf(x) \in {"intro", "timed", "stimulus", "response", "summary"}
    BY <1>1, <1>7, <2>1
  <2>3. PhaseOf(x) # "summary" => x.step + 1 \in 0 .. last
    BY <1>1, <1>7, <2>1
  <2> QED
    BY <1>1, <1>2, <1>7, <2>1, <2>2, <2>3 DEF Phases, Endings, RunPhases, ShownPhase, last
<1> QED
  BY <1>2, <1>3, <1>4, <1>5, <1>6, <1>7

LEMMA Replaced ==
  ASSUME session \in [Sessions -> Records], NEW s \in Sessions, NEW y \in Records,
         session' = [session EXCEPT ![s] = y]
  PROVE  /\ session' \in [Sessions -> Records]
         /\ session'[s] = y
         /\ \A t \in Sessions \ {s} : session'[t] = session[t]
OBVIOUS

(* What an operation on a session that exists may do to it: it goes on, or *)
(* ends for good.                                                          *)
Moves(x, y) ==
  /\ y.attended = x.attended
  /\ x.step <= y.step
  /\ x.ended # "no" => y.ended # "no"
  /\ y.ended = "deleted" => x.ended = "deleted"

Onward(s) ==
  /\ session' \in [Sessions -> Records]
  /\ \A t \in Sessions \ {s} : session'[t] = session[t]
  /\ Moves(session[s], session'[s])
  /\ session'[s].step = session[s].step \/ active = s
  /\ session'[s].failing => session[s].failing \/ active = s
  /\ UNCHANGED <<active, lease, agreed>>

LEMMA RecordFields ==
  ASSUME NEW x \in Records
  PROVE  /\ x.step \in 0 .. Len(Course) /\ x.step \in Nat
         /\ x.ended \in {"no", "completed", "aborted", "error", "deleted"}
         /\ x.recovery \in BOOLEAN /\ x.paused \in BOOLEAN /\ x.failing \in BOOLEAN
         /\ x.attended \in BOOLEAN
         /\ x = [step |-> x.step, ended |-> x.ended, recovery |-> x.recovery,
                 paused |-> x.paused, failing |-> x.failing, attended |-> x.attended]
BY CourseSteps DEF Records, Endings

LEMMA ProceedsMoves ==
  ASSUME session \in [Sessions -> Records], NEW s \in Sessions, NEW phases,
         phases \subseteq {"setup", "intro", "timed", "stimulus", "response"},
         Proceeds(s, phases)
  PROVE  Onward(s) /\ session[s].ended = "no"
<1> DEFINE x == session[s]
           y == [x EXCEPT !.step = @ + 1]
<1>1. x \in Records
  OBVIOUS
<1>2. x.step + 1 \in 0 .. Len(Course) /\ x.ended = "no"
  BY <1>1, StepPhases DEF Proceeds, RunPhases
<1>3. y \in Records
  BY <1>1, <1>2 DEF Records
<1>4. session' = [session EXCEPT ![s] = y]
  BY DEF Proceeds
<1>5. Moves(x, y) /\ y.failing = x.failing
  BY <1>1, <1>2, RecordFields DEF Moves
<1> HIDE DEF x, y
<1>6. session' \in [Sessions -> Records] /\ session'[s] = y
      /\ \A t \in Sessions \ {s} : session'[t] = session[t]
  BY <1>3, <1>4, Replaced
<1> QED
  BY <1>2, <1>5, <1>6 DEF Onward, Proceeds, x

LEMMA EndsMoves ==
  ASSUME session \in [Sessions -> Records], NEW s \in Sessions,
         NEW how \in {"completed", "aborted"}, active = s, Ends(s, how),
         UNCHANGED <<active, lease, agreed>>
  PROVE  Onward(s) /\ session'[s].ended = how
<1> DEFINE x == session[s]
           y == [x EXCEPT !.ended = how]
<1>1. x \in Records
  OBVIOUS
<1>2. y \in Records
  BY <1>1 DEF Records, Endings
<1>3. session' = [session EXCEPT ![s] = y]
  BY DEF Ends
<1>4. Moves(x, y) /\ y.failing = x.failing /\ y.ended = how
  BY <1>1, RecordFields DEF Moves
<1> HIDE DEF x, y
<1>5. session' \in [Sessions -> Records] /\ session'[s] = y
      /\ \A t \in Sessions \ {s} : session'[t] = session[t]
  BY <1>2, <1>3, Replaced
<1> QED
  BY <1>4, <1>5 DEF Onward, x

LEMMA FailsNowIs ==
  ASSUME NEW x \in Records
  PROVE  /\ FailsNow(x) \in Records
         /\ FailsNow(x).step = x.step /\ FailsNow(x).ended = x.ended
         /\ FailsNow(x).attended = x.attended /\ FailsNow(x).recovery
         /\ FailsNow(x).failing
BY DEF Records, FailsNow

LEMMA NoRunInRecovery ==
  ASSUME NEW x \in Records, x.recovery
  PROVE  ~ShowsRun(x)
BY StepPhases DEF ShowsRun, ShownPhase, RunPhases

LEMMA FailMoves ==
  ASSUME session \in [Sessions -> Records], NEW s \in Sessions, Fail(s)
  PROVE  Onward(s) /\ ~ShowsRun(session'[s])
<1> DEFINE x == session[s]
           y == FailsNow(x)
<1>1. x \in Records
  OBVIOUS
<1>2. y \in Records /\ y.step = x.step /\ y.ended = x.ended /\ y.attended = x.attended
      /\ y.recovery
  BY <1>1, FailsNowIs
<1>3. session' = [session EXCEPT ![s] = y]
  BY DEF Fail
<1>4. x.step \in Nat
  BY <1>1, RecordFields
<1>5. Moves(x, y)
  BY <1>2, <1>4 DEF Moves
<1> HIDE DEF x, y
<1>6. session' \in [Sessions -> Records] /\ session'[s] = y
      /\ \A t \in Sessions \ {s} : session'[t] = session[t]
  BY <1>2, <1>3, Replaced
<1>7. ~ShowsRun(y)
  BY <1>2, NoRunInRecovery
<1> QED
  BY <1>5, <1>6, <1>7 DEF Onward, Fail, x

LEMMA FailureEndsMoves ==
  ASSUME session \in [Sessions -> Records], NEW s \in Sessions, FailureEnds(s)
  PROVE  Onward(s) /\ ~ShowsRun(session'[s]) /\ session[s].failing
<1> DEFINE x == session[s]
           y == [x EXCEPT !.failing = FALSE,
                          !.ended = IF @ = "no" THEN "error" ELSE @,
                          !.recovery = IF x.ended = "no" THEN FALSE ELSE @]
<1>1. x \in Records
  OBVIOUS
<1>2. y \in Records
  BY <1>1 DEF Records, Endings
<1>3. session' = [session EXCEPT ![s] = y]
  BY DEF FailureEnds
<1>4. Moves(x, y) /\ y.ended # "no" /\ y.step = x.step /\ ~y.failing
  BY <1>1, RecordFields DEF Moves
<1> HIDE DEF x, y
<1>5. session' \in [Sessions -> Records] /\ session'[s] = y
      /\ \A t \in Sessions \ {s} : session'[t] = session[t]
  BY <1>2, <1>3, Replaced
<1>6. ~ShowsRun(y)
  BY <1>2, <1>4, StepPhases DEF ShowsRun
<1> QED
  BY <1>4, <1>5, <1>6 DEF Onward, FailureEnds, x

LEMMA AbortMoves ==
  ASSUME session \in [Sessions -> Records], NEW s \in Sessions, Abort(s)
  PROVE  Onward(s) /\ ~ShowsRun(session'[s]) /\ session'[s].ended = "aborted"
<1>1. Onward(s) /\ session'[s].ended = "aborted"
  BY EndsMoves DEF Abort
<1>2. session'[s] \in Records
  BY <1>1 DEF Onward
<1> QED
  BY <1>1, <1>2, StepPhases DEF ShowsRun

LEMMA HandoffMoves ==
  ASSUME session \in [Sessions -> Records], NEW s \in Sessions, Handoff(s)
  PROVE  Onward(s) /\ ~ShowsRun(session'[s])
<1>1. Onward(s) /\ session'[s].ended = "completed"
  BY EndsMoves DEF Handoff
<1>2. session'[s] \in Records
  BY <1>1 DEF Onward
<1> QED
  BY <1>1, <1>2, StepPhases DEF ShowsRun

(* A step from a phase of the run shows nothing that was not shown.        *)
LEMMA RunProceeds ==
  ASSUME session \in [Sessions -> Records], NEW s \in Sessions,
         Timer(s) \/ Checkpoint(s)
  PROVE  Onward(s) /\ ShowsRun(session[s])
<1>1. CASE Timer(s)
  <2>1. Onward(s) /\ session[s].ended = "no"
    BY <1>1, ProceedsMoves DEF Timer
  <2> QED
    BY <1>1, <2>1 DEF Timer, Proceeds, ShowsRun, ShownPhase, RunPhases
<1>2. CASE Checkpoint(s)
  <2>1. Onward(s) /\ session[s].ended = "no"
    BY <1>2, ProceedsMoves DEF Checkpoint
  <2> QED
    BY <1>2, <2>1 DEF Checkpoint, Proceeds, ShowsRun, ShownPhase, RunPhases
<1> QED
  BY <1>1, <1>2

LEMMA StaffMoves ==
  ASSUME session \in [Sessions -> Records], NEW s \in Sessions,
         Prepare(s) \/ Start(s) \/ Resume(s)
  PROVE  Onward(s) /\ session[s].attended /\ active = s
<1>1. CASE Prepare(s)
  <2>1. Onward(s)
    BY <1>1, ProceedsMoves DEF Prepare
  <2> QED
    BY <1>1, <2>1 DEF Prepare, Proceeds
<1>2. CASE Start(s)
  <2>1. Onward(s)
    BY <1>2, ProceedsMoves DEF Start
  <2> QED
    BY <1>2, <2>1 DEF Start, Proceeds
<1>3. CASE Resume(s)
  <2> DEFINE x == session[s]
             y == [x EXCEPT !.recovery = FALSE, !.paused = FALSE]
  <2>1. x \in Records
    OBVIOUS
  <2>2. y \in Records
    BY <2>1 DEF Records
  <2>3. session' = [session EXCEPT ![s] = y]
    BY <1>3 DEF Resume
  <2>4. Moves(x, y) /\ y.failing = x.failing
    BY <2>1, RecordFields DEF Moves
  <2> HIDE DEF x, y
  <2>5. session' \in [Sessions -> Records] /\ session'[s] = y
        /\ \A t \in Sessions \ {s} : session'[t] = session[t]
    BY <2>2, <2>3, Replaced
  <2> QED
    BY <1>3, <2>4, <2>5 DEF Onward, Resume, x
<1> QED
  BY <1>1, <1>2, <1>3

(* The display comes and goes: no step of the run, but a lost one stops    *)
(* what was shown.                                                         *)
LEMMA DisplayGets ==
  ASSUME session \in [Sessions -> Records], NEW s \in Sessions, GetDisplay(s)
  PROVE  /\ session' \in [Sessions -> Records]
         /\ \A t \in Sessions \ {s} : session'[t] = session[t]
         /\ session'[s] = [session[s] EXCEPT !.attended = TRUE]
         /\ session'[s].step = session[s].step /\ session'[s].ended = session[s].ended
         /\ session'[s].failing = session[s].failing /\ session'[s].attended
         /\ ShownPhase(session'[s]) = ShownPhase(session[s])
         /\ UNCHANGED <<active, lease, agreed>>
<1> DEFINE x == session[s]
           y == [x EXCEPT !.attended = TRUE]
<1>1. x \in Records
  OBVIOUS
<1>2. y \in Records
  BY <1>1 DEF Records
<1>3. session' = [session EXCEPT ![s] = y]
  BY DEF GetDisplay
<1>4. y.step = x.step /\ y.ended = x.ended /\ y.failing = x.failing /\ y.attended
      /\ y.recovery = x.recovery
  BY <1>1, RecordFields
<1>5. y = [session[s] EXCEPT !.attended = TRUE]
  OBVIOUS
<1> HIDE DEF x, y
<1>6. session' \in [Sessions -> Records] /\ session'[s] = y
      /\ \A t \in Sessions \ {s} : session'[t] = session[t]
  BY <1>2, <1>3, Replaced
<1>7. ShownPhase(y) = ShownPhase(x)
  BY <1>4 DEF ShownPhase, PhaseOf
<1> QED
  BY <1>4, <1>5, <1>6, <1>7 DEF GetDisplay, x

LEMMA DisplayLost ==
  ASSUME session \in [Sessions -> Records], NEW s \in Sessions, LoseDisplay(s)
  PROVE  /\ session' \in [Sessions -> Records]
         /\ \A t \in Sessions \ {s} : session'[t] = session[t]
         /\ session'[s].step = session[s].step /\ session'[s].ended = session[s].ended
         /\ session'[s].failing => session[s].failing \/ active = s
         /\ ~session'[s].attended
         /\ ShowsRun(session'[s]) => active # s
         /\ UNCHANGED <<active, lease, agreed>>
<1> DEFINE x == session[s]
           z == [x EXCEPT !.attended = FALSE]
           w == [z EXCEPT !.recovery = TRUE, !.paused = @ \/ PhaseOf(z) = "timed"]
           y == Unattended(s, z)
<1>1. x \in Records /\ z \in Records /\ w \in Records
  BY DEF Records
<1>2. z.step = x.step /\ z.ended = x.ended /\ z.failing = x.failing /\ ~z.attended
  BY <1>1, RecordFields
<1>3. w.step = z.step /\ w.ended = z.ended /\ w.failing = z.failing /\ ~w.attended
      /\ w.recovery
  BY <1>1, <1>2, RecordFields
<1>4. session' = [session EXCEPT ![s] = y]
  BY DEF LoseDisplay
<1>5. \/ y = z /\ (active = s => PhaseOf(z) \notin {"intro"} \union RunPhases)
      \/ y = FailsNow(z) /\ active = s
      \/ y = w /\ active = s
  BY DEF Unattended, RunPhases
<1> HIDE DEF w, y
<1>6. FailsNow(z) \in Records /\ FailsNow(z).step = z.step /\ FailsNow(z).ended = z.ended
      /\ FailsNow(z).attended = z.attended /\ FailsNow(z).recovery
  BY <1>1, FailsNowIs
<1> HIDE DEF z, x
<1>7. y \in Records /\ y.step = x.step /\ y.ended = x.ended /\ ~y.attended
      /\ (y.failing => x.failing \/ active = s)
  BY <1>1, <1>2, <1>3, <1>5, <1>6
<1>8. ShowsRun(y) => active # s
  <2>1. CASE y = z /\ (active = s => PhaseOf(z) \notin {"intro"} \union RunPhases)
    BY <2>1 DEF ShowsRun, ShownPhase, RunPhases
  <2>2. CASE y.recovery
    BY <1>7, <2>2, NoRunInRecovery
  <2> QED
    BY <1>3, <1>5, <1>6, <2>1, <2>2
<1>9. session' \in [Sessions -> Records] /\ session'[s] = y
      /\ \A t \in Sessions \ {s} : session'[t] = session[t]
  BY <1>4, <1>7, Replaced
<1> QED
  BY <1>7, <1>8, <1>9 DEF LoseDisplay, x

LEMMA LeaseLost ==
  ASSUME session \in [Sessions -> Records], LoseLease
  PROVE  /\ session' \in [Sessions -> Records]
         /\ \A s \in Sessions : /\ session'[s].step = session[s].step
                                /\ session'[s].ended = session[s].ended
         /\ active' = active /\ lease' = FALSE /\ agreed' = FALSE
<1>1. \A s \in Sessions :
        session'[s] = IF active = s /\ Running(s) /\ ~session[s].failing
                      THEN FailsNow(session[s]) ELSE session[s]
  BY DEF LoseLease
<1>2. session' = [s \in Sessions |-> session'[s]]
  BY DEF LoseLease
<1>3. \A s \in Sessions : session'[s] \in Records
                          /\ session'[s].step = session[s].step
                          /\ session'[s].ended = session[s].ended
  BY <1>1, FailsNowIs
<1>4. session' \in [Sessions -> Records]
  BY <1>2, <1>3
<1> QED
  BY <1>3, <1>4 DEF LoseLease

LEMMA UnbornIs ==
  /\ Unborn \in Records /\ Unborn.step = 0 /\ Unborn.ended = "no"
  /\ Created \in Records /\ Created.step = 1 /\ Created.ended = "no" /\ ~Created.attended
  /\ ~Created.failing /\ ~ShowsRun(Created)
<1>1. 0 \in 0 .. Len(Course) /\ 1 \in 0 .. Len(Course) /\ Course[1] = "setup"
  BY CourseSteps
<1>2. Unborn \in Records /\ Unborn.step = 0 /\ Unborn.ended = "no" /\ ~Unborn.failing
      /\ ~Unborn.attended /\ ~Unborn.recovery
  BY <1>1 DEF Unborn, Records
<1>3. Created \in Records /\ Created.step = 1 /\ Created.ended = Unborn.ended
      /\ Created.failing = Unborn.failing /\ Created.attended = Unborn.attended
      /\ Created.recovery = Unborn.recovery
  BY <1>1, <1>2 DEF Created, Records
<1>4. ShownPhase(Created) = "setup"
  BY <1>1, <1>2, <1>3 DEF ShownPhase, PhaseOf
<1> QED
  BY <1>2, <1>3, <1>4 DEF ShowsRun, RunPhases

LEMMA Deletes ==
  ASSUME session \in [Sessions -> Records], NEW s \in Sessions, Delete(s)
  PROVE  /\ session' \in [Sessions -> Records]
         /\ \A t \in Sessions \ {s} : session'[t] = session[t]
         /\ session'[s].step = 1 /\ session'[s].ended = "deleted"
         /\ ~session'[s].failing /\ ~session'[s].attended
         /\ ~ShowsRun(session'[s])
<1> DEFINE y == [Unborn EXCEPT !.step = 1, !.ended = "deleted"]
<1>1. 1 \in 0 .. Len(Course)
  BY CourseSteps
<1>2. Unborn \in Records /\ ~Unborn.failing /\ ~Unborn.attended
  BY UnbornIs DEF Unborn
<1>3. y \in Records /\ y.step = 1 /\ y.ended = "deleted" /\ ~y.failing /\ ~y.attended
  BY <1>1, <1>2 DEF Records, Endings
<1>4. session' = [session EXCEPT ![s] = y]
  BY DEF Delete
<1> HIDE DEF y
<1>5. session' \in [Sessions -> Records] /\ session'[s] = y
      /\ \A t \in Sessions \ {s} : session'[t] = session[t]
  BY <1>3, <1>4, Replaced
<1>6. ~ShowsRun(y)
  BY <1>3, StepPhases DEF ShowsRun
<1> QED
  BY <1>3, <1>5, <1>6

-----------------------------------------------------------------------------
(* The participant's page.                                                 *)

Now == session[Session]

NotAhead(m, x) == x.ended # "deleted" => m.step <= x.step

(* What holds of a page pg with the answer fe to its request and the       *)
(* snapshots ib on their way to it, when v are the vouched connections and *)
(* x is the session.                                                       *)
Fits(pg, fe, ib, v, x) ==
  /\ pg.conn = 0 <=> pg.socket \in {"none", "due"}
  /\ pg.conn = 0 => ib = <<>> /\ ~pg.synchronized
  /\ pg.conn # 0 /\ pg.conn \notin v =>
       /\ pg.synchronized => pg.snapshot.phase \notin RunPhases
       /\ \A i \in 1 .. Len(ib) : ib[i].phase \notin RunPhases
  /\ NotAhead(pg.snapshot, x) /\ NotAhead(fe.snapshot, x)
  /\ \A i \in 1 .. Len(ib) : NotAhead(ib[i], x) /\ pg.snapshot.step <= ib[i].step
  /\ \A i, j \in 1 .. Len(ib) : i <= j => ib[i].step <= ib[j].step
  /\ ~pg.loaded => pg.snapshot.step = 0 /\ pg.socket \in {"none", "due"}
  /\ fe.state # "none" => ~pg.loaded

PagesFit ==
  /\ \A p \in Pages : Fits(page[p], fetch[p], inbox[p], vouched, Now)
  /\ \A p, q \in Pages : page[p].conn = page[q].conn /\ page[p].conn # 0 => p = q

(* The session and the connections the hub has.                            *)
HubFits ==
  /\ \A c \in display : hub[c] = "ready"
  /\ \A c, d \in display : c = d
  /\ Now.attended <=> display # {}
  /\ \A c \in Connections : hub[c] = "ready" /\ c \notin display => Now.ended = "deleted"
  /\ Now.step # 0
  /\ Now.ended = "no" => active = Session
  /\ Now.ended = "deleted" => active # Session /\ ~Now.failing /\ ~Now.attended
  /\ ~Now.attended => ~ShowsRun(Now)
  /\ \A c \in Connections : hub[c] = "ready" /\ ShowsRun(Now) => c \in vouched

PageTypes ==
  /\ page \in [Pages -> PageStates]
  /\ fetch \in [Pages -> Fetches]
  /\ inbox \in [Pages -> Seq(Snapshots)]

HubTypes ==
  /\ hub \in [Connections -> {"none", "asked", "open", "ready", "closing"}]
  /\ cut \subseteq Connections /\ display \subseteq Connections
  /\ vouched \subseteq Connections
  /\ mishaps \in 0 .. MaxMishaps

DisplayInv == ServiceTypeOK /\ PageTypes /\ HubTypes /\ PagesFit /\ HubFits

LEMMA PageFields ==
  ASSUME NEW pg \in PageStates
  PROVE  /\ pg.loaded \in BOOLEAN /\ pg.socket \in {"none", "due", "connecting", "open"}
         /\ pg.conn \in Connections \union {0} /\ pg.synchronized \in BOOLEAN
         /\ pg.snapshot \in Snapshots /\ pg.snapshot.step \in Nat
BY DEF PageStates, Snapshots

LEMMA SnapshotTypes ==
  /\ NoSnapshot \in Snapshots /\ NoSnapshot.step = 0 /\ NoSnapshot.phase = "recovery"
  /\ NoFetch \in Fetches /\ NoFetch.state = "none" /\ NoFetch.snapshot = NoSnapshot
  /\ Shut \in PageStates /\ Shut.conn = 0 /\ Shut.socket = "none" /\ ~Shut.synchronized
  /\ ~Shut.loaded /\ Shut.snapshot = NoSnapshot
  /\ \A x \in Records : /\ PublicSnapshot(x) \in Snapshots
                        /\ PublicSnapshot(x).step = x.step
                        /\ PublicSnapshot(x).phase = ShownPhase(x)
<1>1. NoSnapshot \in Snapshots /\ NoSnapshot.step = 0 /\ NoSnapshot.phase = "recovery"
  BY DEF NoSnapshot, Snapshots, Phases
<1>2. NoFetch \in Fetches /\ NoFetch.state = "none" /\ NoFetch.snapshot = NoSnapshot
  BY <1>1 DEF NoFetch, Fetches
<1>3. /\ Shut \in PageStates /\ Shut.conn = 0 /\ Shut.socket = "none" /\ ~Shut.synchronized
      /\ ~Shut.loaded /\ Shut.snapshot = NoSnapshot
  BY <1>1 DEF Shut, PageStates
<1>4. ASSUME NEW x \in Records
      PROVE  /\ PublicSnapshot(x) \in Snapshots /\ PublicSnapshot(x).step = x.step
             /\ PublicSnapshot(x).phase = ShownPhase(x)
  <2>1. x.step \in Nat /\ ShownPhase(x) \in Phases
    BY RecordFields, StepPhases
  <2> QED
    BY <2>1 DEF PublicSnapshot, Snapshots
<1> QED
  BY <1>1, <1>2, <1>3, <1>4

LEMMA Coming ==
  ASSUME NEW ib \in Seq(Snapshots), NEW i \in 1 .. Len(ib)
  PROVE  ib[i] \in Snapshots /\ ib[i].step \in Nat
<1>1. ib[i] \in Snapshots
  OBVIOUS
<1> QED
  BY <1>1 DEF Snapshots

(* What fits goes on fitting as the session goes on and more connections   *)
(* are vouched for.                                                        *)
LEMMA FitsLater ==
  ASSUME NEW pg \in PageStates, NEW fe \in Fetches, NEW ib \in Seq(Snapshots),
         NEW v, NEW w, NEW x \in Records, NEW y \in Records,
         Fits(pg, fe, ib, v, x),
         pg.conn \in v => pg.conn \in w,
         y.ended # "deleted" => x.ended # "deleted" /\ x.step <= y.step
  PROVE  Fits(pg, fe, ib, w, y)
<1>1. x.step \in Nat /\ y.step \in Nat /\ pg.snapshot.step \in Nat
  BY RecordFields, PageFields
<1>2. fe.snapshot.step \in Nat
  BY DEF Fetches, Snapshots
<1>3. \A i \in 1 .. Len(ib) : ib[i] \in Snapshots /\ ib[i].step \in Nat
  BY Coming
<1>4. NotAhead(pg.snapshot, y) /\ NotAhead(fe.snapshot, y)
  BY <1>1, <1>2 DEF Fits, NotAhead
<1>5. \A i \in 1 .. Len(ib) : NotAhead(ib[i], y)
  BY <1>1, <1>3 DEF Fits, NotAhead
<1> QED
  BY <1>4, <1>5 DEF Fits

LEMMA FitsAppend ==
  ASSUME NEW pg \in PageStates, NEW fe \in Fetches, NEW ib \in Seq(Snapshots),
         NEW v, NEW x \in Records,
         Fits(pg, fe, ib, v, x), pg.conn # 0, x.ended # "deleted",
         ShowsRun(x) => pg.conn \in v
  PROVE  Fits(pg, fe, Append(ib, PublicSnapshot(x)), v, x)
<1> DEFINE m == PublicSnapshot(x)
           jb == Append(ib, m)
           n == Len(ib)
<1>1. m \in Snapshots /\ m.step = x.step /\ (m.phase \in RunPhases <=> ShowsRun(x)) /\ x.step \in Nat
  BY SnapshotTypes, RecordFields DEF ShowsRun
<1>2. n \in Nat /\ Len(jb) = n + 1 /\ jb[n + 1] = m /\ \A i \in 1 .. n : jb[i] = ib[i]
  BY <1>1
<1>3. \A i \in 1 .. n : ib[i] \in Snapshots /\ ib[i].step \in Nat
  BY Coming
<1>4. pg.snapshot.step \in Nat /\ pg.snapshot.step <= x.step
  BY PageFields DEF Fits, NotAhead
<1>5. \A i \in 1 .. n : ib[i].step <= x.step
  BY DEF Fits, NotAhead
<1> HIDE DEF m, jb
<1>6. \A i \in 1 .. Len(jb) : i \in 1 .. n \/ (i = n + 1)
  BY <1>2
<1>7. pg.conn \notin v => \A i \in 1 .. Len(jb) : jb[i].phase \notin RunPhases
  BY <1>1, <1>2, <1>6 DEF Fits
<1>8. \A i \in 1 .. Len(jb) : NotAhead(jb[i], x) /\ pg.snapshot.step <= jb[i].step
  BY <1>1, <1>2, <1>4, <1>5, <1>6 DEF Fits, NotAhead
<1>9. ASSUME NEW i \in 1 .. Len(jb), NEW j \in 1 .. Len(jb), i <= j
      PROVE  jb[i].step <= jb[j].step
  <2>1. CASE j \in 1 .. n
    <3>1. i \in 1 .. n
      BY <1>2, <1>9, <2>1
    <3> QED
      BY <1>2, <1>9, <2>1, <3>1 DEF Fits
  <2>2. CASE j = n + 1
    BY <1>1, <1>2, <1>5, <1>6, <2>2
  <2> QED
    BY <1>6, <2>1, <2>2
<1>10. Fits(pg, fe, jb, v, x)
  BY <1>7, <1>8, <1>9 DEF Fits
<1> QED
  BY <1>10 DEF jb, m

LEMMA FitsTail ==
  ASSUME NEW pg \in PageStates, NEW fe \in Fetches, NEW ib \in Seq(Snapshots),
         NEW v, NEW x \in Records, ib # <<>>,
         Fits(pg, fe, ib, v, x)
  PROVE  /\ [pg EXCEPT !.snapshot = Head(ib), !.synchronized = TRUE] \in PageStates
         /\ pg.snapshot.step <= Head(ib).step
         /\ Fits([pg EXCEPT !.snapshot = Head(ib), !.synchronized = TRUE], fe, Tail(ib), v, x)
<1> DEFINE hg == [pg EXCEPT !.snapshot = Head(ib), !.synchronized = TRUE]
           jb == Tail(ib)
           n == Len(ib)
<1>1. n \in Nat /\ n >= 1 /\ Len(jb) = n - 1 /\ Head(ib) = ib[1]
      /\ \A i \in 1 .. n - 1 : jb[i] = ib[i + 1]
  OBVIOUS
<1>2. ib[1] \in Snapshots
  BY <1>1
<1>3. hg \in PageStates /\ hg.snapshot = ib[1] /\ hg.conn = pg.conn /\ hg.socket = pg.socket
      /\ hg.loaded = pg.loaded /\ hg.synchronized
  BY <1>1, <1>2 DEF PageStates
<1>4. pg.conn # 0 /\ pg.loaded
  BY PageFields DEF Fits
<1> HIDE DEF hg, jb
<1>5. \A i \in 1 .. Len(jb) : i + 1 \in 1 .. n /\ 1 <= i + 1 /\ i \in 1 .. n - 1
  BY <1>1
<1>6. pg.conn \notin v =>
        /\ hg.snapshot.phase \notin RunPhases
        /\ \A i \in 1 .. Len(jb) : jb[i].phase \notin RunPhases
  BY <1>1, <1>3, <1>4, <1>5 DEF Fits
<1>7. ASSUME NEW i \in 1 .. Len(jb)
      PROVE  NotAhead(jb[i], x) /\ hg.snapshot.step <= jb[i].step
  <2>1. /\ i + 1 \in 1 .. Len(ib) /\ 1 \in 1 .. Len(ib)
        /\ 1 <= i + 1 /\ jb[i] = ib[i + 1]
    BY <1>1, <1>5
  <2>2. NotAhead(ib[i + 1], x) /\ ib[1].step <= ib[i + 1].step
    BY <2>1 DEF Fits
  <2> QED
    BY <1>3, <2>1, <2>2
<1>8. \A i, j \in 1 .. Len(jb) : i <= j => jb[i].step <= jb[j].step
  <2>1. TAKE i, j \in 1 .. Len(jb)
  <2>2. i <= j => i + 1 <= j + 1
    BY <1>1
  <2>3. jb[i] = ib[i + 1] /\ jb[j] = ib[j + 1] /\ i + 1 \in 1 .. n /\ j + 1 \in 1 .. n
    BY <1>1, <1>5
  <2> QED
    BY <2>2, <2>3 DEF Fits
<1>9. NotAhead(hg.snapshot, x) /\ pg.snapshot.step <= ib[1].step
  BY <1>1, <1>3 DEF Fits
<1>10. Fits(hg, fe, jb, v, x)
  BY <1>3, <1>4, <1>6, <1>7, <1>8, <1>9 DEF Fits
<1> QED
  BY <1>1, <1>3, <1>9, <1>10 DEF hg, jb

(* A step of one page.                                                     *)
LEMMA PageStep ==
  ASSUME DisplayInv, NEW p \in Pages, NEW pg \in PageStates, NEW fe \in Fetches,
         NEW ib \in Seq(Snapshots),
         page' = [page EXCEPT ![p] = pg],
         fetch' = [fetch EXCEPT ![p] = fe],
         inbox' = [inbox EXCEPT ![p] = ib],
         session' = session,
         Fits(pg, fe, ib, vouched, Now),
         \/ pg.conn \in {0, page[p].conn}
         \/ \A q \in Pages : page[q].conn # pg.conn,
         \A q \in Pages : page'[q].conn \in vouched => page'[q].conn \in vouched'
  PROVE  PageTypes' /\ PagesFit'
<1>1. PageTypes /\ PagesFit /\ Now \in Records
  BY SessionAssumption DEF DisplayInv, ServiceTypeOK, Now
<1>2. /\ page'[p] = pg /\ fetch'[p] = fe /\ inbox'[p] = ib
      /\ \A q \in Pages \ {p} : page'[q] = page[q] /\ fetch'[q] = fetch[q] /\ inbox'[q] = inbox[q]
  BY <1>1 DEF PageTypes
<1>3. PageTypes'
  BY <1>1 DEF PageTypes
<1>4. \A q \in Pages : page'[q] \in PageStates /\ fetch'[q] \in Fetches
                       /\ inbox'[q] \in Seq(Snapshots)
  BY <1>3 DEF PageTypes
<1>5. ASSUME NEW q \in Pages
      PROVE  Fits(page'[q], fetch'[q], inbox'[q], vouched', Now)
  <2>1. Fits(page'[q], fetch'[q], inbox'[q], vouched, Now)
    BY <1>1, <1>2 DEF PagesFit
  <2>2. Now.step <= Now.step
    BY <1>1, RecordFields
  <2> QED
    BY <1>1, <1>4, <2>1, <2>2, FitsLater
<1>6. ASSUME NEW q \in Pages, NEW r \in Pages, page'[q].conn = page'[r].conn, page'[q].conn # 0
      PROVE  q = r
  BY <1>1, <1>2, <1>6 DEF PagesFit
<1>7. Now' = Now
  BY DEF Now
<1> QED
  BY <1>3, <1>5, <1>6, <1>7 DEF PagesFit

LEMMA SamePages ==
  ASSUME DisplayInv, UNCHANGED <<session, page, fetch, inbox>>,
         \A q \in Pages : page[q].conn \in vouched => page[q].conn \in vouched'
  PROVE  PageTypes' /\ PagesFit'
<1>1. PageTypes /\ PagesFit /\ Now \in Records
  BY SessionAssumption DEF DisplayInv, ServiceTypeOK, Now
<1>2. ASSUME NEW q \in Pages
      PROVE  Fits(page[q], fetch[q], inbox[q], vouched', Now)
  <2>1. Fits(page[q], fetch[q], inbox[q], vouched, Now)
    BY <1>1 DEF PagesFit
  <2>2. page[q] \in PageStates /\ fetch[q] \in Fetches /\ inbox[q] \in Seq(Snapshots)
    BY <1>1 DEF PageTypes
  <2>3. Now.step <= Now.step
    BY <1>1, RecordFields
  <2> QED
    BY <1>1, <2>1, <2>2, <2>3, FitsLater
<1>3. Now' = Now
  BY DEF Now
<1> QED
  BY <1>1, <1>2, <1>3 DEF PagesFit, PageTypes

(* A step that makes no connection ready and takes nothing back.           *)
LEMMA HubStays ==
  ASSUME HubFits, UNCHANGED <<session, active, display>>,
         \A c \in display : hub'[c] = "ready",
         \A c \in Connections : hub'[c] = "ready" =>
             hub[c] = "ready" /\ (c \in vouched => c \in vouched')
  PROVE  HubFits'
BY DEF HubFits, Now

LEMMA Forgets ==
  ASSUME HubTypes, Forget
  PROVE  /\ cut' \subseteq Connections /\ vouched' \subseteq Connections
         /\ \A c \in vouched : hub'[c] # "none" => c \in vouched'
         /\ \A p \in Pages : page'[p].conn \in vouched => page'[p].conn \in vouched'
<1> DEFINE known == {c \in Connections : hub'[c] # "none" \/ \E p \in Pages : page'[p].conn = c}
<1>1. cut' = cut \intersect known /\ vouched' = vouched \intersect known
  BY DEF Forget
<1>2. vouched \subseteq Connections /\ cut \subseteq Connections
  BY DEF HubTypes
<1> QED
  BY <1>1, <1>2

(* The event of a step of the session.                                     *)
LEMMA Broadcasts ==
  ASSUME DisplayInv, Broadcast, UNCHANGED <<page, fetch>>,
         session' \in [Sessions -> Records],
         Now.ended # "deleted", Now.step <= Now'.step, Now'.ended # "deleted",
         vouched \subseteq vouched',
         ShowsRun(Now') => \A c \in Connections : hub[c] = "ready" => c \in vouched'
  PROVE  PageTypes' /\ PagesFit'
<1>1. PageTypes /\ PagesFit /\ Now \in Records /\ Now' \in Records /\ Now' = session'[Session]
  BY SessionAssumption DEF DisplayInv, ServiceTypeOK, Now
<1>2. ASSUME NEW q \in Pages
      PROVE  /\ inbox'[q] \in Seq(Snapshots)
             /\ Fits(page[q], fetch[q], inbox'[q], vouched', Now')
  <2>1. page[q] \in PageStates /\ fetch[q] \in Fetches /\ inbox[q] \in Seq(Snapshots)
    BY <1>1 DEF PageTypes
  <2>2. Fits(page[q], fetch[q], inbox[q], vouched', Now')
    <3>1. Fits(page[q], fetch[q], inbox[q], vouched, Now)
      BY <1>1 DEF PagesFit
    <3> QED
      BY <1>1, <2>1, <3>1, FitsLater
  <2>3. inbox'[q] = IF q \in Receivers THEN Append(inbox[q], PublicSnapshot(session'[Session]))
                    ELSE inbox[q]
    BY DEF Broadcast
  <2>4. CASE q \in Receivers
    <3>1. page[q].conn # 0 /\ hub[page[q].conn] = "ready" /\ page[q].conn \in Connections
      BY <2>1, <2>4, PageFields DEF Receivers
    <3>2. ShowsRun(Now') => page[q].conn \in vouched'
      BY <3>1
    <3>3. Fits(page[q], fetch[q], Append(inbox[q], PublicSnapshot(Now')), vouched', Now')
      BY <1>1, <2>1, <2>2, <3>1, <3>2, FitsAppend
    <3>4. PublicSnapshot(Now') \in Snapshots
      BY <1>1, SnapshotTypes
    <3> QED
      BY <1>1, <2>1, <2>3, <2>4, <3>3, <3>4
  <2>5. CASE q \notin Receivers
    BY <2>1, <2>2, <2>3, <2>5
  <2> QED
    BY <2>4, <2>5
<1>3. inbox' \in [Pages -> Seq(Snapshots)]
  <2>1. inbox' = [q \in Pages |-> inbox'[q]]
    BY DEF Broadcast
  <2> QED
    BY <1>2, <2>1
<1>4. PageTypes'
  BY <1>1, <1>3 DEF PageTypes
<1>5. \A p, q \in Pages : page'[p].conn = page'[q].conn /\ page'[p].conn # 0 => p = q
  BY <1>1 DEF PagesFit
<1> QED
  BY <1>2, <1>4, <1>5 DEF PagesFit

-----------------------------------------------------------------------------
(* The steps of the browser.                                               *)

LEMMA PageOf ==
  ASSUME DisplayInv, NEW p \in Pages
  PROVE  /\ page[p] \in PageStates /\ fetch[p] \in Fetches /\ inbox[p] \in Seq(Snapshots)
         /\ Fits(page[p], fetch[p], inbox[p], vouched, Now)
         /\ Now \in Records
         /\ page = [page EXCEPT ![p] = page[p]]
         /\ fetch = [fetch EXCEPT ![p] = fetch[p]]
         /\ inbox = [inbox EXCEPT ![p] = inbox[p]]
BY SessionAssumption DEF DisplayInv, PageTypes, PagesFit, ServiceTypeOK, Now

NoStepBack ==
  \A p \in Pages : Open(p) /\ Open(p)' => page'[p].snapshot.step >= page[p].snapshot.step

LEMMA StepsOn ==
  ASSUME PageTypes, NEW p \in Pages, NEW pg, page' = [page EXCEPT ![p] = pg],
         Open(p) /\ pg.socket # "none" => pg.snapshot.step >= page[p].snapshot.step
  PROVE  NoStepBack
<1>1. page'[p] = pg /\ \A q \in Pages \ {p} : page'[q] = page[q]
  BY DEF PageTypes
<1>2. \A q \in Pages : page[q].snapshot.step \in Nat
  BY PageFields DEF PageTypes
<1> QED
  BY <1>1, <1>2 DEF NoStepBack, Open

LEMMA StandsStill ==
  ASSUME PageTypes, page' = page PROVE NoStepBack
<1>1. \A q \in Pages : page[q].snapshot.step \in Nat
  BY PageFields DEF PageTypes
<1> QED
  BY <1>1 DEF NoStepBack

LEMMA LoadSafe ==
  ASSUME DisplayInv, NEW p \in Pages, Load(p)
  PROVE  DisplayInv' /\ NoStepBack
<1> DEFINE pg == [Shut EXCEPT !.socket = "due"]
           fe == [fetch[p] EXCEPT !.state = "asked"]
<1>1. pg \in PageStates /\ pg.conn = 0 /\ pg.socket = "due" /\ ~pg.loaded /\ ~pg.synchronized
      /\ pg.snapshot.step = 0
  BY SnapshotTypes DEF PageStates
<1>2. fe \in Fetches /\ fe.snapshot = fetch[p].snapshot
  BY PageOf DEF Fetches
<1>3. page[p].conn = 0 /\ inbox[p] = <<>>
  BY PageOf DEF Load, Open, Fits
<1>4. page' = [page EXCEPT ![p] = pg] /\ fetch' = [fetch EXCEPT ![p] = fe] /\ inbox' = inbox
      /\ UNCHANGED <<serviceVars, linkVars>>
  BY DEF Load
<1> HIDE DEF pg, fe
<1>5. Fits(pg, fe, inbox[p], vouched, Now)
  <2>1. Now.step \in Nat /\ Len(inbox[p]) = 0 /\ inbox[p] = <<>>
    BY <1>3, PageOf, RecordFields
  <2> QED
    BY <1>1, <1>2, <2>1, PageOf DEF Fits, NotAhead
<1>6. PageTypes' /\ PagesFit'
  BY <1>1, <1>2, <1>4, <1>5, PageOf, PageStep DEF serviceVars, linkVars
<1>7. HubFits'
  BY <1>4 DEF DisplayInv, HubFits, Now, serviceVars, linkVars
<1>8. ServiceTypeOK' /\ HubTypes'
  BY <1>4 DEF DisplayInv, ServiceTypeOK, HubTypes, serviceVars, linkVars
<1>9. NoStepBack
  BY <1>4, StepsOn DEF DisplayInv, Load
<1> QED
  BY <1>6, <1>7, <1>8, <1>9 DEF DisplayInv

LEMMA FetchedSafe ==
  ASSUME DisplayInv, NEW p \in Pages, Fetched(p)
  PROVE  DisplayInv' /\ NoStepBack
<1> DEFINE m == IF fetch[p].state = "answered" THEN fetch[p].snapshot
                ELSE [page[p].snapshot EXCEPT !.phase = "error"]
           pg == [page[p] EXCEPT !.loaded = TRUE, !.snapshot = m]
<1>1. ~page[p].loaded /\ page[p].snapshot.step = 0 /\ page[p].conn = 0 /\ inbox[p] = <<>>
  BY PageOf, PageFields DEF Fetched, Fits
<1>2. m \in Snapshots
  BY PageOf DEF PageStates, Fetches, Snapshots, Phases, Endings
<1>3. m.step = fetch[p].snapshot.step \/ m.step = page[p].snapshot.step
  BY PageOf DEF PageStates, Snapshots
<1> HIDE DEF m
<1>4. pg \in PageStates /\ pg.loaded /\ pg.snapshot = m /\ pg.conn = 0
      /\ pg.socket = page[p].socket /\ pg.synchronized = page[p].synchronized
  BY <1>1, <1>2, PageOf DEF PageStates
<1>5. page' = [page EXCEPT ![p] = pg] /\ fetch' = [fetch EXCEPT ![p] = NoFetch] /\ inbox' = inbox
      /\ UNCHANGED <<serviceVars, linkVars>>
  BY DEF Fetched, m
<1> HIDE DEF pg
<1>6. Fits(pg, NoFetch, inbox[p], vouched, Now)
  <2>1. Now.step \in Nat /\ Len(inbox[p]) = 0 /\ inbox[p] = <<>>
    BY <1>1, PageOf, RecordFields
  <2>2. NotAhead(m, Now) /\ NotAhead(NoFetch.snapshot, Now)
    BY <1>3, <2>1, PageOf, SnapshotTypes DEF Fits, NotAhead
  <2> QED
    BY <1>1, <1>4, <2>1, <2>2, PageOf, SnapshotTypes DEF Fits
<1>7. NoFetch \in Fetches
  BY SnapshotTypes
<1>8. PageTypes' /\ PagesFit'
  <2>1. inbox' = [inbox EXCEPT ![p] = inbox[p]] /\ inbox[p] \in Seq(Snapshots)
    BY <1>5, PageOf
  <2>2. session' = session /\ vouched' = vouched
    BY <1>5 DEF serviceVars, linkVars
  <2> QED
    BY <1>4, <1>5, <1>6, <1>7, <2>1, <2>2, PageStep
<1>9. HubFits'
  BY <1>5 DEF DisplayInv, HubFits, Now, serviceVars, linkVars
<1>10. ServiceTypeOK' /\ HubTypes'
  BY <1>5 DEF DisplayInv, ServiceTypeOK, HubTypes, serviceVars, linkVars
<1>11. NoStepBack
  <2>1. m.step \in Nat
    BY <1>2 DEF Snapshots
  <2>2. pg.snapshot.step >= page[p].snapshot.step
    BY <1>1, <1>4, <2>1
  <2> QED
    BY <1>5, <2>2, StepsOn DEF DisplayInv
<1> QED
  BY <1>8, <1>9, <1>10, <1>11 DEF DisplayInv

LEMMA FetchFailsSafe ==
  ASSUME DisplayInv, NEW p \in Pages, FetchFails(p)
  PROVE  DisplayInv' /\ NoStepBack
<1> DEFINE fe == [state |-> "failed", snapshot |-> NoSnapshot]
<1>1. fe \in Fetches /\ fe.state = "failed" /\ fe.snapshot.step = 0
  BY SnapshotTypes DEF Fetches
<1>2. /\ page' = page /\ fetch' = [fetch EXCEPT ![p] = fe] /\ inbox' = inbox
      /\ fetch[p].state # "none" /\ mishaps < MaxMishaps /\ mishaps' = mishaps + 1
      /\ UNCHANGED <<session, active, lease, agreed, hub, cut, display, vouched>>
  BY DEF FetchFails, Mishap, serviceVars
<1> HIDE DEF fe
<1>3. Fits(page[p], fe, inbox[p], vouched, Now)
  <2>1. Now.step \in Nat
    BY PageOf, RecordFields
  <2> QED
    BY <1>1, <1>2, <2>1, PageOf DEF Fits, NotAhead
<1>4. PageTypes' /\ PagesFit'
  BY <1>1, <1>2, <1>3, PageOf, PageStep
<1>5. HubFits'
  BY <1>2 DEF DisplayInv, HubFits, Now
<1>6. ServiceTypeOK' /\ HubTypes'
  BY <1>2, MishapAssumption DEF DisplayInv, ServiceTypeOK, HubTypes
<1>7. NoStepBack
  BY <1>2, StandsStill DEF DisplayInv
<1> QED
  BY <1>4, <1>5, <1>6, <1>7 DEF DisplayInv

LEMMA ServeDisplaySafe ==
  ASSUME DisplayInv, NEW p \in Pages, ServeDisplay(p)
  PROVE  DisplayInv' /\ NoStepBack
<1> DEFINE fe == IF Exists(Session)
                 THEN [state |-> "answered", snapshot |-> PublicSnapshot(Now)]
                 ELSE [state |-> "failed", snapshot |-> NoSnapshot]
<1>1. fe \in Fetches /\ (fe.snapshot.step = 0 \/ fe.snapshot.step = Now.step)
  BY PageOf, SnapshotTypes DEF Fetches
<1>2. /\ page' = page /\ fetch' = [fetch EXCEPT ![p] = fe] /\ inbox' = inbox
      /\ fetch[p].state # "none"
      /\ UNCHANGED <<serviceVars, linkVars>>
  BY DEF ServeDisplay, Now
<1> HIDE DEF fe
<1>3. Fits(page[p], fe, inbox[p], vouched, Now)
  <2>1. Now.step \in Nat
    BY PageOf, RecordFields
  <2> QED
    BY <1>1, <1>2, <2>1, PageOf DEF Fits, NotAhead
<1>4. PageTypes' /\ PagesFit'
  BY <1>1, <1>2, <1>3, PageOf, PageStep DEF serviceVars, linkVars
<1>5. HubFits'
  BY <1>2 DEF DisplayInv, HubFits, Now, serviceVars, linkVars
<1>6. ServiceTypeOK' /\ HubTypes'
  BY <1>2 DEF DisplayInv, ServiceTypeOK, HubTypes, serviceVars, linkVars
<1>7. NoStepBack
  BY <1>2, StandsStill DEF DisplayInv
<1> QED
  BY <1>4, <1>5, <1>6, <1>7 DEF DisplayInv

LEMMA ConnectSafe ==
  ASSUME DisplayInv, NEW p \in Pages, Connect(p)
  PROVE  DisplayInv' /\ NoStepBack
<1> DEFINE c == CHOOSE d \in Unused : TRUE
           pg == [page[p] EXCEPT !.socket = "connecting", !.conn = c, !.synchronized = FALSE]
<1>1. c \in Unused
  BY DEF Connect
<1>2. /\ page' = [page EXCEPT ![p] = pg] /\ hub' = [hub EXCEPT ![c] = "asked"]
      /\ page[p].socket = "due" /\ page[p].loaded
      /\ UNCHANGED <<session, active, lease, agreed, fetch, inbox, cut, mishaps, display, vouched>>
  BY DEF Connect, MayConnect, serviceVars
<1> HIDE DEF c
<1>3. c \in Connections /\ c # 0 /\ hub[c] = "none" /\ \A q \in Pages : page[q].conn # c
  BY <1>1, ConnectionAssumption DEF Unused
<1>4. pg \in PageStates /\ pg.socket = "connecting" /\ pg.conn = c /\ ~pg.synchronized
      /\ pg.loaded = page[p].loaded /\ pg.snapshot = page[p].snapshot
  BY <1>3, PageOf DEF PageStates
<1> HIDE DEF pg
<1>5. inbox[p] = <<>> /\ Len(inbox[p]) = 0
  BY <1>2, PageOf DEF Fits
<1>6. Fits(pg, fetch[p], inbox[p], vouched, Now)
  BY <1>2, <1>3, <1>4, <1>5, PageOf DEF Fits
<1>7. PageTypes' /\ PagesFit'
  BY <1>2, <1>3, <1>4, <1>6, PageOf, PageStep
<1>8. HubTypes' /\ hub'[c] = "asked" /\ \A d \in Connections \ {c} : hub'[d] = hub[d]
  BY <1>2, <1>3 DEF DisplayInv, HubTypes
<1>9. HubFits'
  <2>1. \A d \in display : d \in Connections /\ hub[d] = "ready"
    BY DEF DisplayInv, HubFits, HubTypes
  <2> QED
    BY <1>2, <1>3, <1>8, <2>1, HubStays DEF DisplayInv
<1>10. ServiceTypeOK'
  BY <1>2 DEF DisplayInv, ServiceTypeOK
<1>11. NoStepBack
  <2>1. page[p].snapshot.step \in Nat
    BY PageOf, PageFields
  <2>2. pg.snapshot.step >= page[p].snapshot.step
    BY <1>2, <1>4, <2>1
  <2> QED
    BY <1>2, <1>4, <2>2, StepsOn DEF DisplayInv
<1> QED
  BY <1>7, <1>8, <1>9, <1>10, <1>11 DEF DisplayInv

LEMMA SocketOpensSafe ==
  ASSUME DisplayInv, NEW p \in Pages, SocketOpens(p)
  PROVE  DisplayInv' /\ NoStepBack
<1> DEFINE c == page[p].conn
           h == IF Exists(Session) THEN "open" ELSE "closing"
           pg == [page[p] EXCEPT !.socket = "open"]
<1>1. /\ page' = [page EXCEPT ![p] = pg] /\ hub' = [hub EXCEPT ![c] = h]
      /\ page[p].socket = "connecting" /\ hub[c] = "asked" /\ h \in {"open", "closing"}
      /\ UNCHANGED <<session, active, lease, agreed, fetch, inbox, cut, mishaps, display, vouched>>
  BY DEF SocketOpens, serviceVars
<1>2. pg \in PageStates /\ pg.socket = "open" /\ pg.conn = c /\ pg.synchronized = page[p].synchronized
      /\ pg.loaded = page[p].loaded /\ pg.snapshot = page[p].snapshot
  BY PageOf DEF PageStates
<1> HIDE DEF pg, h
<1>3. c # 0 /\ c \in Connections
  BY <1>1, PageOf, PageFields DEF Fits
<1>4. Fits(pg, fetch[p], inbox[p], vouched, Now)
  BY <1>1, <1>2, <1>3, PageOf DEF Fits
<1>5. PageTypes' /\ PagesFit'
  BY <1>1, <1>2, <1>4, PageOf, PageStep
<1>6. HubTypes' /\ hub'[c] = h /\ \A d \in Connections \ {c} : hub'[d] = hub[d]
  BY <1>1, <1>3 DEF DisplayInv, HubTypes
<1>7. HubFits'
  <2>1. \A d \in display : d \in Connections /\ hub[d] = "ready"
    BY DEF DisplayInv, HubFits, HubTypes
  <2> QED
    BY <1>1, <1>3, <1>6, <2>1, HubStays DEF DisplayInv
<1>8. ServiceTypeOK'
  BY <1>1 DEF DisplayInv, ServiceTypeOK
<1>9. NoStepBack
  <2>1. page[p].snapshot.step \in Nat
    BY PageOf, PageFields
  <2>2. pg.snapshot.step >= page[p].snapshot.step
    BY <1>1, <1>2, <2>1
  <2> QED
    BY <1>1, <1>2, <2>2, StepsOn DEF DisplayInv
<1> QED
  BY <1>5, <1>6, <1>7, <1>8, <1>9 DEF DisplayInv

LEMMA ReceiveSafe ==
  ASSUME DisplayInv, NEW p \in Pages, Receive(p)
  PROVE  DisplayInv' /\ NoStepBack
<1> DEFINE pg == [page[p] EXCEPT !.snapshot = Head(inbox[p]), !.synchronized = TRUE]
<1>1. /\ page' = [page EXCEPT ![p] = pg] /\ inbox' = [inbox EXCEPT ![p] = Tail(inbox[p])]
      /\ fetch' = fetch /\ inbox[p] # <<>>
      /\ UNCHANGED <<serviceVars, linkVars>>
  BY DEF Receive
<1>2. /\ pg \in PageStates /\ page[p].snapshot.step <= Head(inbox[p]).step
      /\ Fits(pg, fetch[p], Tail(inbox[p]), vouched, Now)
  BY <1>1, PageOf, FitsTail
<1>3. pg.conn = page[p].conn /\ pg.snapshot = Head(inbox[p])
  BY PageOf DEF PageStates
<1>4. Tail(inbox[p]) \in Seq(Snapshots)
  BY <1>1, PageOf
<1> HIDE DEF pg
<1>5. PageTypes' /\ PagesFit'
  BY <1>1, <1>2, <1>3, <1>4, PageOf, PageStep DEF serviceVars, linkVars
<1>6. HubFits'
  BY <1>1 DEF DisplayInv, HubFits, Now, serviceVars, linkVars
<1>7. ServiceTypeOK' /\ HubTypes'
  BY <1>1 DEF DisplayInv, ServiceTypeOK, HubTypes, serviceVars, linkVars
<1>8. NoStepBack
  <2>1. page[p].snapshot.step \in Nat /\ pg.snapshot.step \in Nat
    BY <1>2, PageOf, PageFields
  <2> QED
    BY <1>1, <1>2, <1>3, <2>1, StepsOn DEF DisplayInv
<1> QED
  BY <1>5, <1>6, <1>7, <1>8 DEF DisplayInv

LEMMA SocketClosesSafe ==
  ASSUME DisplayInv, NEW p \in Pages, SocketCloses(p)
  PROVE  DisplayInv' /\ NoStepBack
<1> DEFINE pg == Disconnected(p)
<1>1. /\ page' = [page EXCEPT ![p] = pg] /\ inbox' = [inbox EXCEPT ![p] = <<>>]
      /\ UNCHANGED <<session, active, lease, agreed, fetch, hub, mishaps, display>> /\ Forget
      /\ page[p].socket \in {"connecting", "open"}
  BY DEF SocketCloses, serviceVars
<1>2. pg \in PageStates /\ pg.socket = "due" /\ pg.conn = 0 /\ ~pg.synchronized
      /\ pg.loaded = page[p].loaded /\ pg.snapshot = page[p].snapshot
  BY PageOf DEF PageStates, Disconnected
<1> HIDE DEF pg
<1>3. /\ cut' \subseteq Connections /\ vouched' \subseteq Connections
      /\ \A c \in vouched : hub'[c] # "none" => c \in vouched'
      /\ \A q \in Pages : page'[q].conn \in vouched => page'[q].conn \in vouched'
  BY <1>1, Forgets DEF DisplayInv
<1>4. Fits(pg, fetch[p], <<>>, vouched, Now)
  <2>1. page[p].loaded
    BY <1>1, PageOf DEF Fits
  <2> QED
    BY <1>2, <2>1, PageOf DEF Fits
<1>5. PageTypes' /\ PagesFit'
  <2>1. <<>> \in Seq(Snapshots)
    OBVIOUS
  <2> QED
    BY <1>1, <1>2, <1>3, <1>4, <2>1, PageOf, PageStep
<1>6. HubFits'
  <2>1. \A c \in Connections : hub'[c] = "ready" => hub[c] = "ready" /\ (c \in vouched => c \in vouched')
    BY <1>1, <1>3
  <2>2. \A c \in display : hub'[c] = "ready"
    BY <1>1 DEF DisplayInv, HubFits
  <2> QED
    BY <1>1, <2>1, <2>2, HubStays DEF DisplayInv
<1>7. ServiceTypeOK' /\ HubTypes'
  BY <1>1, <1>3 DEF DisplayInv, ServiceTypeOK, HubTypes
<1>8. NoStepBack
  <2>1. page[p].snapshot.step \in Nat
    BY PageOf, PageFields
  <2>2. pg.snapshot.step >= page[p].snapshot.step
    BY <1>1, <1>2, <2>1
  <2> QED
    BY <1>1, <1>2, <2>2, StepsOn DEF DisplayInv
<1> QED
  BY <1>5, <1>6, <1>7, <1>8 DEF DisplayInv

LEMMA UnloadSafe ==
  ASSUME DisplayInv, NEW p \in Pages, Unload(p)
  PROVE  DisplayInv' /\ NoStepBack
<1>1. /\ page' = [page EXCEPT ![p] = Shut] /\ inbox' = [inbox EXCEPT ![p] = <<>>]
      /\ fetch' = [fetch EXCEPT ![p] = NoFetch]
      /\ UNCHANGED <<session, active, lease, agreed, hub, display>> /\ Forget
      /\ mishaps < MaxMishaps /\ mishaps' = mishaps + 1
  BY DEF Unload, Mishap, serviceVars
<1>2. /\ cut' \subseteq Connections /\ vouched' \subseteq Connections
      /\ \A c \in vouched : hub'[c] # "none" => c \in vouched'
      /\ \A q \in Pages : page'[q].conn \in vouched => page'[q].conn \in vouched'
  BY <1>1, Forgets DEF DisplayInv
<1>3. Fits(Shut, NoFetch, <<>>, vouched, Now)
  <2>1. Now.step \in Nat
    BY PageOf, RecordFields
  <2> QED
    BY <2>1, SnapshotTypes DEF Fits, NotAhead
<1>4. PageTypes' /\ PagesFit'
  <2>1. <<>> \in Seq(Snapshots)
    OBVIOUS
  <2> QED
    BY <1>1, <1>2, <1>3, <2>1, SnapshotTypes, PageStep
<1>5. HubFits'
  <2>1. \A c \in Connections : hub'[c] = "ready" => hub[c] = "ready" /\ (c \in vouched => c \in vouched')
    BY <1>1, <1>2
  <2>2. \A c \in display : hub'[c] = "ready"
    BY <1>1 DEF DisplayInv, HubFits
  <2> QED
    BY <1>1, <2>1, <2>2, HubStays DEF DisplayInv
<1>6. ServiceTypeOK' /\ HubTypes'
  BY <1>1, <1>2, MishapAssumption DEF DisplayInv, ServiceTypeOK, HubTypes
<1>7. NoStepBack
  BY <1>1, SnapshotTypes, StepsOn DEF DisplayInv
<1> QED
  BY <1>4, <1>5, <1>6, <1>7 DEF DisplayInv

-----------------------------------------------------------------------------
(* The steps of the hub.                                                   *)

LEMMA AcceptDisplaySafe ==
  ASSUME DisplayInv, NEW c \in Connections, AcceptDisplay(c)
  PROVE  DisplayInv' /\ NoStepBack
<1> DEFINE m == PublicSnapshot(Now')
<1>1. /\ hub[c] = "open" /\ Exists(Session) /\ display \subseteq {c} /\ GetDisplay(Session)
      /\ display' = display \union {c} /\ hub' = [hub EXCEPT ![c] = "ready"]
      /\ inbox' = [p \in Pages |-> IF page[p].conn = c THEN <<m>> ELSE inbox[p]]
      /\ UNCHANGED <<page, fetch, cut, mishaps, vouched>>
  BY DEF AcceptDisplay, MayBeDisplay, Now
<1>2. session \in [Sessions -> Records] /\ Session \in Sessions
      /\ \A d \in display : hub[d] = "ready"
  BY SessionAssumption DEF DisplayInv, ServiceTypeOK, HubFits
<1>3. display = {}
  BY <1>1, <1>2
<1>4. /\ session' \in [Sessions -> Records]
      /\ Now'.step = Now.step /\ Now'.ended = Now.ended /\ Now'.failing = Now.failing
      /\ Now'.attended /\ ShownPhase(Now') = ShownPhase(Now)
      /\ UNCHANGED <<active, lease, agreed>>
  BY <1>1, <1>2, DisplayGets DEF Now
<1>5. Now \in Records /\ Now' \in Records /\ Now.ended # "deleted" /\ ~ShowsRun(Now)
      /\ Now.step \in Nat
  <2>1. Now \in Records /\ Now' \in Records
    BY <1>2, <1>4 DEF Now
  <2>2. Now.ended # "deleted"
    BY <1>1, <2>1 DEF Exists, PhaseOf, Now, DisplayInv, HubFits
  <2>3. ~ShowsRun(Now)
    BY <1>3 DEF DisplayInv, HubFits
  <2> QED
    BY <2>1, <2>2, <2>3, RecordFields
<1>6. m \in Snapshots /\ m.step = Now.step /\ m.phase \notin RunPhases
  BY <1>4, <1>5, SnapshotTypes DEF ShowsRun
<1> HIDE DEF m
<1>7. ASSUME NEW p \in Pages
      PROVE  inbox'[p] \in Seq(Snapshots) /\ Fits(page[p], fetch[p], inbox'[p], vouched, Now')
  <2>1. page[p] \in PageStates /\ fetch[p] \in Fetches /\ inbox[p] \in Seq(Snapshots)
        /\ Fits(page[p], fetch[p], inbox[p], vouched, Now)
    BY PageOf
  <2>2. Now.step <= Now'.step
    BY <1>4, <1>5
  <2>3. Fits(page[p], fetch[p], inbox[p], vouched, Now')
    BY <1>4, <1>5, <2>1, <2>2, FitsLater
  <2>4. CASE page[p].conn = c
    <3>1. inbox'[p] = <<m>> /\ c # 0
      BY <1>1, <2>4, ConnectionAssumption
    <3>2. <<m>> \in Seq(Snapshots) /\ Len(<<m>>) = 1 /\ <<m>>[1] = m
      BY <1>6
    <3>3. page[p].snapshot.step <= m.step /\ NotAhead(m, Now') /\ m.step <= m.step
      BY <1>4, <1>5, <1>6, <2>1 DEF Fits, NotAhead
    <3>4. \A i \in 1 .. Len(<<m>>) : <<m>>[i] = m
      BY <3>2
    <3> HIDE DEF m
    <3>5. Fits(page[p], fetch[p], <<m>>, vouched, Now')
      BY <1>6, <2>3, <2>4, <3>1, <3>3, <3>4 DEF Fits
    <3> QED
      BY <3>1, <3>2, <3>5
  <2>5. CASE page[p].conn # c
    BY <1>1, <2>1, <2>3, <2>5
  <2> QED
    BY <2>4, <2>5
<1>8. PageTypes'
  <2>1. inbox' = [p \in Pages |-> inbox'[p]]
    BY <1>1
  <2>2. inbox' \in [Pages -> Seq(Snapshots)]
    BY <1>7, <2>1
  <2> QED
    BY <1>1, <2>2 DEF DisplayInv, PageTypes
<1>9. PagesFit'
  BY <1>1, <1>7 DEF DisplayInv, PagesFit
<1>10. HubTypes' /\ hub'[c] = "ready" /\ \A d \in Connections \ {c} : hub'[d] = hub[d]
  BY <1>1 DEF DisplayInv, HubTypes
<1>11. HubFits'
  <2>1. display' = {c}
    BY <1>1, <1>3
  <2>2. ~ShowsRun(Now')
    BY <1>4, <1>5 DEF ShowsRun
  <2>3. \A d \in Connections : hub'[d] = "ready" => d = c
    BY <1>3, <1>5, <1>10 DEF DisplayInv, HubFits
  <2>4. Now'.step # 0 /\ (Now'.ended = "no" => active' = Session) /\ Now'.ended # "deleted"
    BY <1>4, <1>5 DEF DisplayInv, HubFits
  <2> QED
    BY <1>4, <1>10, <2>1, <2>2, <2>3, <2>4 DEF HubFits
<1>12. ServiceTypeOK'
  BY <1>4 DEF DisplayInv, ServiceTypeOK
<1>13. NoStepBack
  BY <1>1, StandsStill DEF DisplayInv
<1> QED
  BY <1>8, <1>9, <1>10, <1>11, <1>12, <1>13 DEF DisplayInv

(* A connection that is not the display is told to close.                  *)
LEMMA ClosesSafe ==
  ASSUME DisplayInv, NEW c \in Connections, c \notin display,
         hub' = [hub EXCEPT ![c] = "closing"],
         UNCHANGED <<serviceVars, screenVars, cut, mishaps, display, vouched>>
  PROVE  DisplayInv' /\ NoStepBack
<1>1. UNCHANGED <<session, active, lease, agreed, page, fetch, inbox, cut, mishaps, display, vouched>>
  BY DEF serviceVars, screenVars
<1>2. PageTypes' /\ PagesFit'
  BY <1>1, SamePages
<1>3. HubTypes' /\ hub'[c] = "closing" /\ \A d \in Connections \ {c} : hub'[d] = hub[d]
  BY <1>1 DEF DisplayInv, HubTypes
<1>4. \A d \in display : d \in Connections /\ hub[d] = "ready"
  BY DEF DisplayInv, HubFits, HubTypes
<1>5. HubFits'
  BY <1>1, <1>3, <1>4, HubStays DEF DisplayInv
<1>6. ServiceTypeOK' /\ NoStepBack
  BY <1>1, StandsStill DEF DisplayInv, ServiceTypeOK
<1> QED
  BY <1>2, <1>3, <1>5, <1>6 DEF DisplayInv

LEMMA RefuseDisplaySafe ==
  ASSUME DisplayInv, NEW c \in Connections, RefuseDisplay(c)
  PROVE  DisplayInv' /\ NoStepBack
<1>1. c \notin display
  BY DEF RefuseDisplay, DisplayInv, HubFits
<1> QED
  BY <1>1, ClosesSafe DEF RefuseDisplay

LEMMA BeatInVainSafe ==
  ASSUME DisplayInv, NEW p \in Pages, BeatInVain(p)
  PROVE  DisplayInv' /\ NoStepBack
<1>1. page[p].conn \in Connections
  BY PageOf, PageFields DEF BeatInVain, Fits
<1> QED
  BY <1>1, ClosesSafe DEF BeatInVain

LEMMA FullscreenSafe ==
  ASSUME DisplayInv, NEW p \in Pages, Fullscreen(p)
  PROVE  DisplayInv' /\ NoStepBack
<1>1. /\ Broadcast /\ display # {}
      /\ UNCHANGED <<session, active, lease, agreed, page, fetch, hub, cut, mishaps, display, vouched>>
  BY DEF Fullscreen, linkVars
<1>2. Now' = Now /\ Now \in Records /\ Now.step <= Now.step /\ Now.ended # "deleted"
  <2>1. Now' = Now
    BY <1>1 DEF Now
  <2>2. Now.step \in Nat /\ Now.step <= Now.step
    BY PageOf, RecordFields
  <2> QED
    BY <1>1, <2>1, <2>2, PageOf DEF DisplayInv, HubFits
<1>3. PageTypes' /\ PagesFit'
  <2>1. session' \in [Sessions -> Records]
    BY <1>1 DEF DisplayInv, ServiceTypeOK
  <2>2. ShowsRun(Now') => \A c \in Connections : hub[c] = "ready" => c \in vouched'
    BY <1>1, <1>2 DEF DisplayInv, HubFits
  <2> QED
    BY <1>1, <1>2, <2>1, <2>2, Broadcasts
<1>4. HubFits'
  BY <1>1 DEF DisplayInv, HubFits, Now
<1>5. ServiceTypeOK' /\ HubTypes' /\ NoStepBack
  BY <1>1, StandsStill DEF DisplayInv, ServiceTypeOK, HubTypes
<1> QED
  BY <1>3, <1>4, <1>5 DEF DisplayInv

LEMMA CutSafe ==
  ASSUME DisplayInv, NEW c \in Connections, Cut(c)
  PROVE  DisplayInv' /\ NoStepBack
<1>1. /\ cut' = cut \union {c} /\ mishaps < MaxMishaps /\ mishaps' = mishaps + 1
      /\ UNCHANGED <<session, active, lease, agreed, page, fetch, inbox, hub, display, vouched>>
  BY DEF Cut, Mishap, serviceVars, screenVars
<1>2. PageTypes' /\ PagesFit'
  BY <1>1, SamePages
<1>3. HubFits'
  BY <1>1 DEF DisplayInv, HubFits, Now
<1>4. ServiceTypeOK' /\ HubTypes' /\ NoStepBack
  BY <1>1, StandsStill, MishapAssumption DEF DisplayInv, ServiceTypeOK, HubTypes
<1> QED
  BY <1>2, <1>3, <1>4 DEF DisplayInv

(* When the display itself goes, so does what it was shown.                *)
LEMMA RemoveClientSafe ==
  ASSUME DisplayInv, NEW c \in Connections, RemoveClient(c)
  PROVE  DisplayInv' /\ NoStepBack
<1>1. /\ hub' = [hub EXCEPT ![c] = "none"] /\ display' = display \ {c}
      /\ UNCHANGED <<page, fetch, inbox, mishaps>> /\ Forget
  BY DEF RemoveClient, screenVars
<1>2. /\ cut' \subseteq Connections /\ vouched' \subseteq Connections
      /\ \A d \in vouched : hub'[d] # "none" => d \in vouched'
      /\ \A q \in Pages : page'[q].conn \in vouched => page'[q].conn \in vouched'
  BY <1>1, Forgets DEF DisplayInv
<1>3. HubTypes' /\ hub'[c] = "none" /\ \A d \in Connections \ {c} : hub'[d] = hub[d]
  BY <1>1, <1>2 DEF DisplayInv, HubTypes
<1>4. NoStepBack
  BY <1>1, StandsStill DEF DisplayInv
<1>5. Session \in Sessions /\ session \in [Sessions -> Records]
  BY SessionAssumption DEF DisplayInv, ServiceTypeOK
<1>6. CASE c \in display
  <2>1. display' = {}
    BY <1>1, <1>6 DEF DisplayInv, HubFits
  <2>2. LoseDisplay(Session) /\ Now.attended
    BY <1>6, <2>1 DEF RemoveClient, DisplayInv, HubFits, Now
  <2>3. /\ session' \in [Sessions -> Records]
        /\ Now'.step = Now.step /\ Now'.ended = Now.ended
        /\ Now'.failing => Now.failing \/ active = Session
        /\ ~Now'.attended
        /\ ShowsRun(Now') => active # Session
        /\ UNCHANGED <<active, lease, agreed>>
    BY <1>5, <2>2, DisplayLost DEF Now
  <2>4. Now' \in Records /\ Now \in Records /\ Now.step \in Nat /\ Now.step <= Now'.step
    BY <1>5, <2>3, RecordFields DEF Now
  <2>5. Now.ended # "deleted"
    BY <2>2 DEF DisplayInv, HubFits
  <2>6. ~ShowsRun(Now')
    <3>1. CASE Now.ended = "no"
      BY <2>3, <3>1 DEF DisplayInv, HubFits
    <3>2. CASE Now.ended # "no"
      BY <2>3, <2>4, <3>2, StepPhases DEF ShowsRun
    <3> QED
      BY <3>1, <3>2
  <2>7. PageTypes' /\ PagesFit'
    <3>1. ASSUME NEW q \in Pages
          PROVE  Fits(page[q], fetch[q], inbox[q], vouched', Now')
      BY <1>1, <1>2, <2>3, <2>4, PageOf, FitsLater
    <3> QED
      BY <1>1, <3>1 DEF DisplayInv, PagesFit, PageTypes
  <2>8. \A d \in Connections : hub'[d] # "ready"
    BY <1>3, <2>1, <2>5, <1>6 DEF DisplayInv, HubFits
  <2>9. HubFits'
    BY <2>1, <2>3, <2>4, <2>5, <2>6, <2>8 DEF DisplayInv, HubFits
  <2>10. ServiceTypeOK'
    BY <2>3 DEF DisplayInv, ServiceTypeOK
  <2> QED
    BY <1>3, <1>4, <2>7, <2>9, <2>10 DEF DisplayInv
<1>7. CASE c \notin display
  <2>1. UNCHANGED <<session, active, lease, agreed, display>>
    BY <1>1, <1>7 DEF RemoveClient, serviceVars
  <2>2. PageTypes' /\ PagesFit'
    BY <1>1, <1>2, <2>1, SamePages
  <2>3. \A d \in display : d \in Connections /\ hub'[d] = "ready"
    BY <1>3, <1>7 DEF DisplayInv, HubFits, HubTypes
  <2>4. \A d \in Connections : hub'[d] = "ready" => hub[d] = "ready" /\ (d \in vouched => d \in vouched')
    BY <1>2, <1>3
  <2>5. HubFits'
    BY <2>1, <2>3, <2>4, HubStays DEF DisplayInv
  <2>6. ServiceTypeOK'
    BY <2>1 DEF DisplayInv, ServiceTypeOK
  <2> QED
    BY <1>3, <1>4, <2>2, <2>5, <2>6 DEF DisplayInv
<1> QED
  BY <1>6, <1>7

-----------------------------------------------------------------------------
(* The session goes on.                                                    *)

LEMMA OnwardKeeps ==
  ASSUME DisplayInv, Onward(Session), Broadcast, UNCHANGED <<page, fetch, hub, cut, mishaps, display>>,
         Now.ended # "deleted", vouched \subseteq vouched', vouched' \subseteq Connections,
         ShowsRun(Now') => /\ Now.attended
                           /\ \A c \in Connections : hub[c] = "ready" => c \in vouched'
  PROVE  DisplayInv' /\ NoStepBack
<1>1. /\ session' \in [Sessions -> Records] /\ Moves(Now, Now')
      /\ UNCHANGED <<active, lease, agreed>>
  BY DEF Onward, Now
<1>2. Now \in Records /\ Now' \in Records /\ Now.step \in Nat /\ Now'.step \in Nat
  BY <1>1, SessionAssumption, PageOf, RecordFields DEF DisplayInv, ServiceTypeOK, Now
<1>3. /\ Now.step <= Now'.step /\ Now'.ended # "deleted" /\ Now'.attended = Now.attended
      /\ Now'.ended = "no" => Now.ended = "no"
  BY <1>1 DEF Moves
<1>4. PageTypes' /\ PagesFit'
  BY <1>1, <1>3, Broadcasts
<1>5. HubFits'
  <2>1. Now'.step # 0
    BY <1>2, <1>3 DEF DisplayInv, HubFits
  <2> QED
    BY <1>1, <1>3, <2>1 DEF DisplayInv, HubFits
<1>6. ServiceTypeOK' /\ HubTypes' /\ NoStepBack
  BY <1>1, StandsStill DEF DisplayInv, ServiceTypeOK, HubTypes
<1> QED
  BY <1>4, <1>5, <1>6 DEF DisplayInv

LEMMA ConfirmedSafe ==
  ASSUME DisplayInv, Confirmed
  PROVE  DisplayInv' /\ NoStepBack
<1>1. /\ GoAhead /\ Broadcast /\ vouched' = vouched \union display
      /\ UNCHANGED <<page, fetch, hub, cut, mishaps, display>>
  BY DEF Confirmed
<1>2. Onward(Session) /\ Now.attended /\ active = Session
  BY <1>1, SessionAssumption, StaffMoves DEF GoAhead, DisplayInv, ServiceTypeOK, Now
<1>3. Now.ended # "deleted"
  BY <1>2 DEF DisplayInv, HubFits
<1>4. \A c \in Connections : hub[c] = "ready" => c \in vouched'
  BY <1>1, <1>3 DEF DisplayInv, HubFits
<1>5. vouched \subseteq vouched' /\ vouched' \subseteq Connections
  BY <1>1 DEF DisplayInv, HubTypes
<1> QED
  BY <1>1, <1>2, <1>3, <1>4, <1>5, OnwardKeeps

LEMMA GoesOnSafe ==
  ASSUME DisplayInv, GoesOn
  PROVE  DisplayInv' /\ NoStepBack
<1>1. /\ \/ Timer(Session) \/ Checkpoint(Session) \/ Handoff(Session)
         \/ Abort(Session) \/ Fail(Session) \/ FailureEnds(Session)
      /\ Broadcast
      /\ UNCHANGED <<page, fetch, hub, cut, mishaps, display, vouched>>
  BY DEF GoesOn, linkVars
<1>2. session \in [Sessions -> Records] /\ Session \in Sessions
  BY SessionAssumption DEF DisplayInv, ServiceTypeOK
<1>3. /\ Onward(Session)
      /\ ShowsRun(Now') => ShowsRun(Now)
      /\ active = Session \/ Now.failing
  <2>1. CASE Timer(Session) \/ Checkpoint(Session)
    BY <1>2, <2>1, RunProceeds DEF Now, Timer, Checkpoint, Proceeds
  <2>2. CASE Handoff(Session)
    BY <1>2, <2>2, HandoffMoves DEF Now, Handoff
  <2>3. CASE Abort(Session)
    BY <1>2, <2>3, AbortMoves DEF Now, Abort
  <2>4. CASE Fail(Session)
    BY <1>2, <2>4, FailMoves DEF Now, Fail
  <2>5. CASE FailureEnds(Session)
    BY <1>2, <2>5, FailureEndsMoves DEF Now
  <2> QED
    BY <1>1, <2>1, <2>2, <2>3, <2>4, <2>5
<1>4. Now.ended # "deleted"
  BY <1>3 DEF DisplayInv, HubFits
<1>5. ShowsRun(Now') => /\ Now.attended
                        /\ \A c \in Connections : hub[c] = "ready" => c \in vouched'
  BY <1>1, <1>3 DEF DisplayInv, HubFits
<1>6. vouched \subseteq vouched' /\ vouched' \subseteq Connections
  BY <1>1 DEF DisplayInv, HubTypes
<1> QED
  BY <1>1, <1>3, <1>4, <1>5, <1>6, OnwardKeeps

LEMMA ReleasedSafe ==
  ASSUME DisplayInv, Released
  PROVE  DisplayInv' /\ NoStepBack
<1>1. /\ Over(Session) /\ UNCHANGED <<session, lease, page, fetch, inbox, hub, cut, mishaps, display, vouched>>
      /\ active' \in {None, active} /\ agreed' \in BOOLEAN
  BY DEF Released, Release, screenVars, linkVars
<1>2. Now.ended \in {"completed", "aborted"} /\ Now' = Now
  BY <1>1 DEF Over, Now
<1>3. PageTypes' /\ PagesFit'
  BY <1>1, SamePages
<1>4. HubFits'
  BY <1>1, <1>2 DEF DisplayInv, HubFits
<1>5. ServiceTypeOK' /\ HubTypes' /\ NoStepBack
  BY <1>1, StandsStill DEF DisplayInv, ServiceTypeOK, HubTypes
<1> QED
  BY <1>3, <1>4, <1>5 DEF DisplayInv

LEMMA DeletedSafe ==
  ASSUME DisplayInv, Deleted
  PROVE  DisplayInv' /\ NoStepBack
<1>1. /\ Delete(Session) /\ display' = {}
      /\ UNCHANGED <<page, fetch, inbox, hub, cut, mishaps, vouched>>
  BY DEF Deleted, screenVars
<1>2. session \in [Sessions -> Records] /\ Session \in Sessions
  BY SessionAssumption DEF DisplayInv, ServiceTypeOK
<1>3. /\ session' \in [Sessions -> Records] /\ Now'.step = 1 /\ Now'.ended = "deleted"
      /\ ~Now'.failing /\ ~Now'.attended /\ ~ShowsRun(Now')
  BY <1>1, <1>2, Deletes DEF Now
<1>4. /\ active' = IF active = Session THEN None ELSE active
      /\ lease' = lease /\ agreed' = FALSE
  BY <1>1 DEF Delete
<1>5. active' # Session
  BY <1>2, <1>4, NoneAssumption
<1>6. Now \in Records /\ Now' \in Records
  BY <1>2, <1>3 DEF Now
<1>7. PageTypes' /\ PagesFit'
  <2>1. ASSUME NEW q \in Pages
        PROVE  Fits(page[q], fetch[q], inbox[q], vouched, Now')
    BY <1>3, <1>6, PageOf, FitsLater
  <2> QED
    BY <1>1, <2>1 DEF DisplayInv, PagesFit, PageTypes
<1>8. HubFits'
  BY <1>1, <1>3, <1>5 DEF DisplayInv, HubFits
<1>9. ServiceTypeOK' /\ HubTypes' /\ NoStepBack
  BY <1>1, <1>3, <1>4, StandsStill DEF DisplayInv, ServiceTypeOK, HubTypes
<1> QED
  BY <1>7, <1>8, <1>9 DEF DisplayInv

LEMMA DisplaySafe ==
  ASSUME DisplayInv, DisplayNext
  PROVE  DisplayInv' /\ NoStepBack
<1>1. ASSUME NEW p \in Pages, BrowserStep(p) PROVE DisplayInv' /\ NoStepBack
  BY <1>1, LoadSafe, FetchedSafe, FetchFailsSafe, ConnectSafe, SocketOpensSafe, ReceiveSafe,
     SocketClosesSafe, UnloadSafe DEF BrowserStep
<1>2. CASE HubStep
  BY <1>2, ServeDisplaySafe, FullscreenSafe, BeatInVainSafe, AcceptDisplaySafe,
     RefuseDisplaySafe, RemoveClientSafe, CutSafe DEF HubStep
<1> QED
  BY <1>1, <1>2, ConfirmedSafe, GoesOnSafe, ReleasedSafe, DeletedSafe DEF DisplayNext

(* What no page sees.                                                      *)
LEMMA DisplayShowsConfirmed ==
  ASSUME PageTypes, PagesFit
  PROVE  RunShownOnlyConfirmed
<1> SUFFICES ASSUME NEW p \in Pages, Content(p) \in RunContent
             PROVE  page[p].conn \in vouched
  BY DEF RunShownOnlyConfirmed
<1>1. VisiblePhase(p) \in RunPhases
  BY DEF Content, RunContent, RunPhases
<1>2. page[p].socket = "open" /\ page[p].synchronized /\ page[p].snapshot.phase \in RunPhases
  BY <1>1 DEF VisiblePhase, RunPhases
<1>3. Fits(page[p], fetch[p], inbox[p], vouched, Now)
  BY DEF PagesFit
<1> QED
  BY <1>2, <1>3 DEF Fits

-----------------------------------------------------------------------------
(* The staff's console.                                                    *)

\* A session that was begun and did not end is the active one.
AliveIsActive ==
  \A s \in Sessions : session[s].ended = "no" /\ session[s].step # 0 => active = s

\* What the operations do to the sessions: none comes back, and none falls back.
ServiceSafe ==
  /\ ServiceTypeOK'
  /\ AliveIsActive'
  /\ \A s \in Sessions : session'[s].ended = "no" =>
       session[s].ended = "no" /\ session[s].step <= session'[s].step

LEMMA SessionFields ==
  ASSUME ServiceTypeOK, NEW s \in Sessions
  PROVE  session[s] \in Records /\ session[s].step \in Nat /\ session[s].step <= session[s].step
<1>1. session[s] \in Records
  BY DEF ServiceTypeOK
<1> QED
  BY <1>1, RecordFields

LEMMA OnwardSafe ==
  ASSUME ServiceTypeOK, AliveIsActive, NEW s \in Sessions, Onward(s)
  PROVE  ServiceSafe
<1>1. /\ session' \in [Sessions -> Records]
      /\ \A t \in Sessions \ {s} : session'[t] = session[t]
      /\ Moves(session[s], session'[s])
      /\ session'[s].step = session[s].step \/ active = s
      /\ UNCHANGED <<active, lease, agreed>>
  BY DEF Onward
<1>2. ServiceTypeOK'
  BY <1>1 DEF ServiceTypeOK
<1>3. AliveIsActive'
  BY <1>1 DEF AliveIsActive, Moves
<1>4. \A t \in Sessions : session[t].step <= session[t].step
  BY SessionFields
<1> QED
  BY <1>1, <1>2, <1>3, <1>4 DEF ServiceSafe, Moves

LEMMA StillSafe ==
  ASSUME ServiceTypeOK, AliveIsActive, session' \in [Sessions -> Records],
         \A s \in Sessions : session'[s].step = session[s].step /\ session'[s].ended = session[s].ended,
         \/ active' = active
         \/ active' = None /\ \A s \in Sessions : active = s => session[s].ended # "no",
         lease' \in BOOLEAN, agreed' \in BOOLEAN
  PROVE  ServiceSafe
<1>1. ServiceTypeOK'
  BY DEF ServiceTypeOK
<1>2. AliveIsActive'
  BY DEF AliveIsActive
<1>3. \A t \in Sessions : session[t].step <= session[t].step
  BY SessionFields
<1> QED
  BY <1>1, <1>2, <1>3 DEF ServiceSafe

LEMMA SameSafe ==
  ASSUME ServiceTypeOK, AliveIsActive, UNCHANGED serviceVars
  PROVE  ServiceSafe
BY StillSafe DEF serviceVars, ServiceTypeOK

LEMMA ReleaseSafe ==
  ASSUME ServiceTypeOK, AliveIsActive, NEW s, Release(s)
  PROVE  ServiceSafe
<1>1. session' = session /\ lease' = lease /\ agreed' \in BOOLEAN
      /\ active' = IF Releasable(s) THEN None ELSE active
  BY DEF Release, ServiceTypeOK
<1>2. Releasable(s) => active = s /\ session[s].ended # "no"
  BY DEF Releasable, Over
<1> QED
  BY <1>1, <1>2, StillSafe DEF ServiceTypeOK

LEMMA DeleteSafe ==
  ASSUME ServiceTypeOK, AliveIsActive, NEW s \in Sessions, Delete(s)
  PROVE  ServiceSafe
<1>1. /\ session' \in [Sessions -> Records] /\ session'[s].ended = "deleted"
      /\ \A t \in Sessions \ {s} : session'[t] = session[t]
  BY Deletes DEF ServiceTypeOK
<1>2. active' = (IF active = s THEN None ELSE active) /\ agreed' = FALSE /\ lease' = lease
  BY DEF Delete
<1>3. ServiceTypeOK'
  BY <1>1, <1>2 DEF ServiceTypeOK
<1>4. AliveIsActive'
  BY <1>1, <1>2 DEF AliveIsActive
<1>5. \A t \in Sessions : session[t].step <= session[t].step
  BY SessionFields
<1> QED
  BY <1>1, <1>3, <1>4, <1>5 DEF ServiceSafe

LEMMA CreateSafe ==
  ASSUME ServiceTypeOK, AliveIsActive, NEW s \in Sessions, Create(s)
  PROVE  ServiceSafe
<1>1. session' = [session EXCEPT ![s] = Created] /\ active = None /\ active' = s
      /\ session[s] = Unborn /\ UNCHANGED <<lease, agreed>>
  BY DEF Create
<1>2. /\ session' \in [Sessions -> Records] /\ session'[s] = Created
      /\ \A t \in Sessions \ {s} : session'[t] = session[t]
  BY <1>1, UnbornIs, Replaced DEF ServiceTypeOK
<1>3. ServiceTypeOK'
  BY <1>1, <1>2 DEF ServiceTypeOK
<1>4. AliveIsActive'
  BY <1>1, <1>2, NoneAssumption DEF AliveIsActive
<1>5. \A t \in Sessions : session[t].step <= session[t].step
  BY SessionFields
<1>6. Unborn.ended = "no" /\ Unborn.step = 0 /\ Created.step = 1
  BY UnbornIs
<1> QED
  BY <1>1, <1>2, <1>3, <1>4, <1>5, <1>6 DEF ServiceSafe

LEMMA UnaskedSafe ==
  ASSUME ServiceTypeOK, AliveIsActive, NEW s \in Sessions,
         Timer(s) \/ FailureEnds(s) \/ GetDisplay(s) \/ Fail(s) \/ LoseDisplay(s)
  PROVE  ServiceSafe
<1>1. session \in [Sessions -> Records] /\ lease \in BOOLEAN /\ agreed \in BOOLEAN
  BY DEF ServiceTypeOK
<1>2. CASE Timer(s) \/ FailureEnds(s) \/ Fail(s)
  BY <1>1, <1>2, RunProceeds, FailureEndsMoves, FailMoves, OnwardSafe
<1>3. CASE GetDisplay(s)
  <2>1. /\ session' \in [Sessions -> Records]
        /\ \A t \in Sessions : session'[t].step = session[t].step /\ session'[t].ended = session[t].ended
        /\ UNCHANGED <<active, lease, agreed>>
    BY <1>1, <1>3, DisplayGets
  <2> QED
    BY <1>1, <2>1, StillSafe
<1>4. CASE LoseDisplay(s)
  <2>1. /\ session' \in [Sessions -> Records]
        /\ \A t \in Sessions : session'[t].step = session[t].step /\ session'[t].ended = session[t].ended
        /\ UNCHANGED <<active, lease, agreed>>
    BY <1>1, <1>4, DisplayLost
  <2> QED
    BY <1>1, <2>1, StillSafe
<1> QED
  BY <1>2, <1>3, <1>4

LEMMA LeaseLostSafe ==
  ASSUME ServiceTypeOK, AliveIsActive, LoseLease
  PROVE  ServiceSafe
<1>1. /\ session' \in [Sessions -> Records]
      /\ \A s \in Sessions : session'[s].step = session[s].step /\ session'[s].ended = session[s].ended
      /\ active' = active /\ lease' \in BOOLEAN /\ agreed' \in BOOLEAN
  BY LeaseLost DEF ServiceTypeOK
<1> QED
  BY <1>1, StillSafe

-----------------------------------------------------------------------------
(* What the page may hold and ask for.                                     *)

\* A view of no session shows no phase.
Shown == {v \in Views : v.id = None => v.phase = "none"}

\* Only the emergency slot stops, and what is asked of a session names one.
Asking(slot, r) ==
  /\ r \in Requests /\ r.view \in Shown
  /\ r.stage = "sent" =>
       /\ slot = "emergency" <=> r.op = "stop"
       /\ r.op \notin {"stop", "create", "confirm"} => r.id # None

ConsoleFits ==
  /\ console \in ConsoleStates /\ console.view \in Shown
  /\ request \in [Slots -> Requests] /\ \A slot \in Slots : Asking(slot, request[slot])
  /\ events \in Seq(Shown)
  /\ troubles \in 0 .. MaxTroubles
  /\ work \subseteq Works /\ \A w \in work : w.op = "delete" => w.id # None
  /\ pressed \in Sessions \union {None}

\* The run that was going on when the button was pressed is still the one that
\* the request stops, and once it has begun it is over for good.
StopKept ==
  pressed # None =>
    /\ session[pressed].ended = "no" => session[pressed].step >= 2
    /\ request["emergency"].stage = "sent" => request["emergency"].id \in {None, pressed}
    /\ request["emergency"].stage \in {"begun", "answered"} => session[pressed].ended # "no"

ConsoleInv == ServiceTypeOK /\ AliveIsActive /\ ConsoleFits /\ StopKept

LEMMA ConsoleTypes ==
  ASSUME ConsoleFits PROVE ConsoleTypeOK
<1>1. events \in Seq(Views)
  <2>1. events \in Seq(Shown) /\ Shown \subseteq Views
    BY DEF ConsoleFits, Shown
  <2> HIDE DEF Shown
  <2> QED
    BY <2>1
<1> QED
  BY <1>1 DEF ConsoleFits, ConsoleTypeOK

LEMMA ViewTypes ==
  /\ NoView \in Shown
  /\ \A s \in Sessions : \A x \in Records : OperatorSnapshot(s, x) \in Shown
<1>1. NoView \in Shown
  BY DEF NoView, Shown, Views, Phases
<1>2. ASSUME NEW s \in Sessions, NEW x \in Records
      PROVE  OperatorSnapshot(s, x) \in Shown
  <2>1. ShownPhase(x) \in Phases /\ x.attended \in BOOLEAN
    BY RecordFields, StepPhases
  <2> QED
    BY <2>1, NoneAssumption DEF OperatorSnapshot, Shown, Views
<1> QED
  BY <1>1, <1>2

LEMMA IdleTypes ==
  /\ Idle \in Requests /\ Idle.view = NoView /\ Idle.stage = "idle"
  /\ \A slot : Asking(slot, Idle)
<1>1. NoView \in Shown /\ NoView \in Views
  BY ViewTypes DEF Shown
<1>2. Idle \in Requests /\ Idle.view = NoView /\ Idle.stage = "idle"
  BY <1>1 DEF Idle, Requests
<1> QED
  BY <1>1, <1>2 DEF Asking

LEMMA SentTypes ==
  ASSUME NEW op \in Operations \union {"stop"}, NEW id \in Sessions \union {None}
  PROVE  /\ Sent(op, id) \in Requests /\ Sent(op, id).view = NoView
         /\ Sent(op, id).stage = "sent" /\ Sent(op, id).op = op /\ Sent(op, id).id = id
BY IdleTypes DEF Sent, Requests

LEMMA SeenTypes ==
  ASSUME ServiceTypeOK
  PROVE  /\ \A slot : Asking(slot, SeenConfirmation)
         /\ SeenConfirmation.stage = "answered"
         /\ \A s \in Sessions : \A slot : Asking(slot, SeenSession(s))
<1>1. /\ SeenConfirmation \in Requests /\ SeenConfirmation.view = NoView
      /\ SeenConfirmation.stage = "answered"
  BY IdleTypes DEF SeenConfirmation, Requests, ServiceTypeOK
<1>2. ASSUME NEW s \in Sessions
      PROVE  /\ SeenSession(s) \in Requests /\ SeenSession(s).view \in Shown
             /\ SeenSession(s).stage \in {"answered", "failed"}
  <2>1. OperatorSnapshot(s, session[s]) \in Shown
    BY ViewTypes DEF ServiceTypeOK
  <2>2. OperatorSnapshot(s, session[s]) \in Views /\ NoView \in Shown
    BY <2>1, ViewTypes DEF Shown
  <2>3. CASE Exists(s)
    <3>1. SeenSession(s) = [Idle EXCEPT !.op = "get", !.id = s, !.stage = "answered",
                                        !.view = OperatorSnapshot(s, session[s])]
      BY <2>3 DEF SeenSession
    <3> QED
      BY <2>1, <2>2, <3>1, IdleTypes DEF Requests
  <2>4. CASE ~Exists(s)
    <3>1. SeenSession(s) = [Idle EXCEPT !.op = "get", !.id = s, !.stage = "failed"]
      BY <2>4 DEF SeenSession
    <3> QED
      BY <2>2, <3>1, IdleTypes DEF Requests
  <2> QED
    BY <2>3, <2>4
<1>3. NoView \in Shown
  BY ViewTypes
<1> QED
  BY <1>1, <1>2, <1>3 DEF Asking

LEMMA RequestStep ==
  ASSUME ConsoleFits, NEW slot \in Slots, NEW r, Asking(slot, r),
         request' = [request EXCEPT ![slot] = r]
  PROVE  /\ request' \in [Slots -> Requests] /\ \A q \in Slots : Asking(q, request'[q])
         /\ request'[slot] = r
         /\ \A q \in Slots \ {slot} : request'[q] = request[q]
BY DEF ConsoleFits, Asking

LEMMA StopStep ==
  ASSUME StopKept, ServiceTypeOK, ServiceSafe, pressed \in Sessions \union {None},
         pressed' \in {None, pressed},
         pressed' # None =>
           /\ request'["emergency"].stage = "sent" =>
                request["emergency"].stage = "sent" /\ request'["emergency"].id = request["emergency"].id
           /\ request'["emergency"].stage \in {"begun", "answered"} =>
                request["emergency"].stage \in {"begun", "answered"}
  PROVE  StopKept'
<1> SUFFICES ASSUME pressed' # None PROVE StopKept'
  BY DEF StopKept
<1>1. pressed' = pressed /\ pressed \in Sessions
  OBVIOUS
<1>2. session[pressed].step \in Nat
  BY <1>1, SessionFields
<1>3. session'[pressed].step \in Nat
  BY <1>1, RecordFields DEF ServiceSafe, ServiceTypeOK
<1>4. session'[pressed].ended = "no" =>
        session[pressed].ended = "no" /\ session'[pressed].step >= 2
  BY <1>1, <1>2, <1>3 DEF StopKept, ServiceSafe
<1> QED
  BY <1>1, <1>4 DEF StopKept

-----------------------------------------------------------------------------
(* The steps of the page.                                                  *)

LEMMA PressSafe ==
  ASSUME ConsoleInv, NEW op \in Operations, Press(op)
  PROVE  ConsoleInv'
<1> DEFINE id == console.view.id
           r == Sent(op, id)
<1>1. /\ Offers(op) /\ request' = [request EXCEPT !["busy"] = r]
      /\ UNCHANGED <<serviceVars, console, events, troubles, work, pressed>>
  BY DEF Press
<1>2. console.view \in Shown /\ id \in Sessions \union {None}
      /\ (id = None => console.view.phase = "none")
  BY DEF ConsoleInv, ConsoleFits, ConsoleStates, Shown, Views
<1>3. op \notin {"create", "confirm"} => id # None
  BY <1>1, <1>2 DEF Offers, Operations
<1>4. r \in Requests /\ r.view = NoView /\ r.stage = "sent" /\ r.op = op /\ r.id = id
  BY <1>2, SentTypes
<1> HIDE DEF r
<1>5. "busy" \in Slots /\ "emergency" \in Slots
  BY DEF Slots
<1>6. Asking("busy", r)
  BY <1>3, <1>4, ViewTypes DEF Asking, Operations
<1>7. /\ request' \in [Slots -> Requests] /\ \A q \in Slots : Asking(q, request'[q])
      /\ request'["emergency"] = request["emergency"]
  BY <1>1, <1>5, <1>6, RequestStep DEF ConsoleInv
<1>8. ServiceSafe
  BY <1>1, SameSafe DEF ConsoleInv
<1>9. StopKept'
  BY <1>1, <1>7, <1>8, StopStep DEF ConsoleInv, ConsoleFits
<1>10. ConsoleFits'
  BY <1>1, <1>7 DEF ConsoleInv, ConsoleFits
<1> QED
  BY <1>8, <1>9, <1>10 DEF ConsoleInv, ServiceSafe

LEMMA RunGoingOnIs ==
  ASSUME ServiceTypeOK
  PROVE  /\ RunGoingOn \in Sessions \union {None}
         /\ RunGoingOn # None =>
              RunGoingOn = active /\ session[active].ended = "no" /\ session[active].step >= 2
<1> SUFFICES ASSUME active # None, Running(active)
             PROVE  /\ active \in Sessions /\ session[active].ended = "no"
                    /\ session[active].step >= 2
  BY DEF RunGoingOn, ServiceTypeOK
<1>1. active \in Sessions /\ session[active] \in Records
  BY DEF ServiceTypeOK
<1>2. session[active].ended = "no" /\ session[active].step # 0
  BY <1>1, StepPhases DEF Running, RunPhases
<1>3. session[active].step # 1
  BY <1>2, CourseSteps DEF Running, PhaseOf
<1> QED
  BY <1>1, <1>2, <1>3, RecordFields

(* A stop is sent for the run going on, or for no run.                     *)
LEMMA StopPressed ==
  ASSUME ConsoleInv, NEW id \in Sessions \union {None},
         request' = [request EXCEPT !["emergency"] = Sent("stop", id)],
         \/ pressed' = None
         \/ pressed' = RunGoingOn /\ id \in {None, active},
         UNCHANGED <<serviceVars, console, events, troubles, work>>
  PROVE  ConsoleInv'
<1> DEFINE r == Sent("stop", id)
<1>1. r \in Requests /\ r.view = NoView /\ r.stage = "sent" /\ r.op = "stop" /\ r.id = id
  BY SentTypes
<1> HIDE DEF r
<1>2. Asking("emergency", r)
  BY <1>1, ViewTypes DEF Asking
<1>3. /\ request' \in [Slots -> Requests] /\ \A q \in Slots : Asking(q, request'[q])
      /\ request'["emergency"] = r
  BY <1>2, RequestStep DEF ConsoleInv, Slots, r
<1>4. ServiceSafe
  BY SameSafe DEF ConsoleInv
<1>5. pressed' \in Sessions \union {None}
  BY RunGoingOnIs DEF ConsoleInv
<1>6. StopKept'
  <2> SUFFICES ASSUME pressed' # None PROVE StopKept'
    BY DEF StopKept
  <2>1. /\ pressed' = active /\ id \in {None, active} /\ session[active].step >= 2
        /\ session' = session
    BY RunGoingOnIs DEF ConsoleInv, serviceVars
  <2> QED
    BY <1>1, <1>3, <2>1 DEF StopKept
<1>7. ConsoleFits'
  BY <1>3, <1>5 DEF ConsoleInv, ConsoleFits
<1> QED
  BY <1>4, <1>6, <1>7 DEF ConsoleInv, ServiceSafe

LEMMA StopsSafe ==
  ASSUME ConsoleInv, PressEmergency \/ PressTestStop
  PROVE  ConsoleInv'
<1>1. CASE PressEmergency
  <2>1. console.view.id \in Sessions \union {None}
    BY DEF ConsoleInv, ConsoleFits, ConsoleStates, Views
  <2> QED
    BY <1>1, <2>1, StopPressed DEF PressEmergency
<1>2. CASE PressTestStop
  BY <1>2, StopPressed DEF PressTestStop
<1> QED
  BY <1>1, <1>2

LEMMA SocketOpenedSafe ==
  ASSUME ConsoleInv, SocketOpened
  PROVE  ConsoleInv'
<1> DEFINE m == OperatorSnapshot(active, session[active])
<1>1. /\ console' = [console EXCEPT !.socket = "open"]
      /\ events' = (IF active = None THEN <<>> ELSE <<m>>)
      /\ request' = [request EXCEPT !["gate"] = SeenConfirmation]
      /\ UNCHANGED <<serviceVars, troubles, work, pressed>>
  BY DEF SocketOpened
<1>2. active # None => m \in Shown
  BY ViewTypes DEF ConsoleInv, ServiceTypeOK
<1> HIDE DEF m
<1>3. events' \in Seq(Shown)
  BY <1>1, <1>2
<1>4. console' \in ConsoleStates /\ console'.view = console.view
  BY <1>1 DEF ConsoleInv, ConsoleFits, ConsoleStates
<1>5. Asking("gate", SeenConfirmation)
  BY SeenTypes DEF ConsoleInv
<1>6. /\ request' \in [Slots -> Requests] /\ \A q \in Slots : Asking(q, request'[q])
      /\ request'["emergency"] = request["emergency"]
  BY <1>1, <1>5, RequestStep DEF ConsoleInv, Slots
<1>7. ServiceSafe
  BY <1>1, SameSafe DEF ConsoleInv
<1>8. StopKept'
  BY <1>1, <1>6, <1>7, StopStep DEF ConsoleInv, ConsoleFits
<1>9. ConsoleFits'
  BY <1>1, <1>3, <1>4, <1>6 DEF ConsoleInv, ConsoleFits
<1> QED
  BY <1>7, <1>8, <1>9 DEF ConsoleInv, ServiceSafe

LEMMA AnswerChallengeSafe ==
  ASSUME ConsoleInv, AnswerChallenge
  PROVE  ConsoleInv'
<1>1. /\ session' = session /\ active' = active /\ agreed' = agreed /\ lease' = TRUE
      /\ UNCHANGED <<console, request, events, troubles, work, pressed>>
  BY DEF AnswerChallenge, GetLease
<1>2. ServiceSafe
  BY <1>1, StillSafe DEF ConsoleInv, ServiceTypeOK
<1>3. StopKept'
  BY <1>1, <1>2, StopStep DEF ConsoleInv, ConsoleFits
<1>4. ConsoleFits'
  BY <1>1 DEF ConsoleInv, ConsoleFits
<1> QED
  BY <1>2, <1>3, <1>4 DEF ConsoleInv, ServiceSafe

LEMMA ReceiveEventSafe ==
  ASSUME ConsoleInv, ReceiveEvent
  PROVE  ConsoleInv'
<1>1. /\ console' = [console EXCEPT !.view = Head(events)] /\ events' = Tail(events)
      /\ events # <<>>
      /\ UNCHANGED <<serviceVars, request, troubles, work, pressed>>
  BY DEF ReceiveEvent
<1>2. events \in Seq(Shown) /\ console \in ConsoleStates
  BY DEF ConsoleInv, ConsoleFits
<1>3. Head(events) \in Shown /\ Tail(events) \in Seq(Shown)
  BY <1>1, <1>2
<1>4. Head(events) \in Views
  BY <1>3 DEF Shown
<1>5. console' \in ConsoleStates /\ console'.view = Head(events)
  BY <1>1, <1>2, <1>4 DEF ConsoleStates
<1>6. ServiceSafe
  BY <1>1, SameSafe DEF ConsoleInv
<1>7. StopKept'
  BY <1>1, <1>6, StopStep DEF ConsoleInv, ConsoleFits
<1>8. ConsoleFits'
  BY <1>1, <1>3, <1>5 DEF ConsoleInv, ConsoleFits
<1> QED
  BY <1>6, <1>7, <1>8 DEF ConsoleInv, ServiceSafe

(* An answer replaces no more than the view, what is stored and the gate.  *)
LEMMA AppliedTypes ==
  ASSUME ConsoleFits, NEW r \in Requests, r.view \in Shown
  PROVE  Applied(r) \in ConsoleStates /\ Applied(r).view \in Shown
<1>1. console \in ConsoleStates /\ console.view \in Shown /\ NoView \in Shown
      /\ NoView \in Views /\ r.view \in Views /\ r.id \in Sessions \union {None}
  BY ViewTypes DEF ConsoleFits, Shown, Requests
<1>2. CASE r.op = "confirm"
  <2>1. Applied(r) = [console EXCEPT !.confirmed = TRUE]
    BY <1>2 DEF Applied
  <2> QED
    BY <1>1, <2>1 DEF ConsoleStates
<1>3. CASE r.op = "create"
  <2>1. Applied(r) = [console EXCEPT !.view = r.view, !.stored = r.id]
    BY <1>3 DEF Applied
  <2> QED
    BY <1>1, <2>1 DEF ConsoleStates
<1>4. CASE r.op = "delete"
  <2>1. Applied(r) = [console EXCEPT !.view = NoView, !.stored = None, !.confirmed = FALSE,
                                     !.loaded = TRUE]
    BY <1>4 DEF Applied
  <2> QED
    BY <1>1, <2>1 DEF ConsoleStates
<1>5. CASE r.op \notin {"confirm", "create", "delete"}
  <2>1. Applied(r) = [console EXCEPT !.view = r.view]
    BY <1>5 DEF Applied
  <2> QED
    BY <1>1, <2>1 DEF ConsoleStates
<1> QED
  BY <1>2, <1>3, <1>4, <1>5

LEMMA ReceiveAnswerSafe ==
  ASSUME ConsoleInv, NEW slot \in Slots, ReceiveAnswer(slot)
  PROVE  ConsoleInv'
<1> DEFINE r == request[slot]
<1>1. r \in Requests /\ r.view \in Shown /\ console \in ConsoleStates /\ console.view \in Shown
  BY DEF ConsoleInv, ConsoleFits, Asking
<1>2. console' \in {Applied(r), [console EXCEPT !.view = r.view], [console EXCEPT !.stored = None],
                   [console EXCEPT !.confirmed = r.confirmed, !.loaded = TRUE], console}
  BY DEF ReceiveAnswer
<1>3. request' = [request EXCEPT ![slot] = Idle]
      /\ pressed' = (IF slot = "emergency" THEN None ELSE pressed)
      /\ UNCHANGED <<serviceVars, events, troubles, work>>
  BY DEF ReceiveAnswer
<1>4. Applied(r) \in ConsoleStates /\ Applied(r).view \in Shown
  BY <1>1, AppliedTypes DEF ConsoleInv
<1>5. r.view \in Views /\ r.confirmed \in BOOLEAN
  BY <1>1 DEF Requests, Shown
<1> HIDE DEF r
<1>6. console' \in ConsoleStates /\ console'.view \in Shown
  <2>1. CASE console' = [console EXCEPT !.view = r.view]
    BY <1>1, <1>5, <2>1 DEF ConsoleStates
  <2>2. CASE console' = [console EXCEPT !.stored = None]
    BY <1>1, <2>2 DEF ConsoleStates
  <2>3. CASE console' = [console EXCEPT !.confirmed = r.confirmed, !.loaded = TRUE]
    BY <1>1, <1>5, <2>3 DEF ConsoleStates
  <2> QED
    BY <1>1, <1>2, <1>4, <2>1, <2>2, <2>3
<1>7. /\ request' \in [Slots -> Requests] /\ \A q \in Slots : Asking(q, request'[q])
      /\ \A q \in Slots \ {slot} : request'[q] = request[q]
  BY <1>3, IdleTypes, RequestStep DEF ConsoleInv
<1>8. ServiceSafe
  BY <1>3, SameSafe DEF ConsoleInv
<1>9. StopKept'
  <2>1. CASE slot = "emergency"
    BY <1>3, <2>1 DEF StopKept
  <2>2. CASE slot # "emergency"
    <3>1. request'["emergency"] = request["emergency"]
      BY <1>7, <2>2 DEF Slots
    <3> QED
      BY <1>3, <1>8, <2>2, <3>1, StopStep DEF ConsoleInv, ConsoleFits
  <2> QED
    BY <2>1, <2>2
<1>10. ConsoleFits'
  BY <1>3, <1>6, <1>7 DEF ConsoleInv, ConsoleFits
<1> QED
  BY <1>8, <1>9, <1>10 DEF ConsoleInv, ServiceSafe

(* A request that fails before it has begun anything.                      *)
LEMMA FailedSafe ==
  ASSUME ConsoleInv, NEW slot \in Slots, troubles' \in 0 .. MaxTroubles,
         request' = [request EXCEPT ![slot].stage = "failed"],
         UNCHANGED <<serviceVars, console, events, work, pressed>>
  PROVE  ConsoleInv'
<1> DEFINE r == [request[slot] EXCEPT !.stage = "failed"]
<1>1. request[slot] \in Requests /\ request[slot].view \in Shown
  BY DEF ConsoleInv, ConsoleFits, Asking
<1>2. r \in Requests /\ r.view \in Shown /\ r.stage = "failed"
  BY <1>1 DEF Requests
<1>3. request' = [request EXCEPT ![slot] = r]
  OBVIOUS
<1> HIDE DEF r
<1>4. Asking(slot, r)
  BY <1>2 DEF Asking
<1>5. /\ request' \in [Slots -> Requests] /\ \A q \in Slots : Asking(q, request'[q])
      /\ request'[slot] = r
      /\ \A q \in Slots \ {slot} : request'[q] = request[q]
  BY <1>3, <1>4, RequestStep DEF ConsoleInv
<1>6. ServiceSafe
  BY SameSafe DEF ConsoleInv
<1>7. request'["emergency"] = request["emergency"] \/ request'["emergency"].stage = "failed"
  BY <1>2, <1>5 DEF Slots
<1>8. StopKept'
  BY <1>6, <1>7, StopStep DEF ConsoleInv, ConsoleFits
<1>9. ConsoleFits'
  BY <1>5 DEF ConsoleInv, ConsoleFits
<1> QED
  BY <1>6, <1>8, <1>9 DEF ConsoleInv, ServiceSafe

LEMMA TroubleStays ==
  ASSUME ConsoleFits, troubles' = troubles \/ Trouble
  PROVE  troubles' \in 0 .. MaxTroubles
BY TroubleAssumption DEF ConsoleFits, Trouble

LEMMA RefusedSafe ==
  ASSUME ConsoleInv, NEW slot \in Slots, RequestFails(slot) \/ Refuse(slot)
  PROVE  ConsoleInv'
<1>1. troubles' \in 0 .. MaxTroubles
  BY TroubleStays DEF RequestFails, Refuse, ConsoleInv
<1> QED
  BY <1>1, FailedSafe DEF RequestFails, Refuse

LEMMA SocketLostSafe ==
  ASSUME ConsoleInv, SocketLost
  PROVE  ConsoleInv'
<1>1. /\ console' = [console EXCEPT !.socket = "closed"] /\ events' = <<>> /\ LoseLease
      /\ Trouble /\ UNCHANGED <<request, work, pressed>>
  BY DEF SocketLost
<1>2. console' \in ConsoleStates /\ console'.view = console.view
  BY <1>1 DEF ConsoleInv, ConsoleFits, ConsoleStates
<1>3. troubles' \in 0 .. MaxTroubles
  BY <1>1, TroubleStays DEF ConsoleInv
<1>4. ServiceSafe
  BY <1>1, LeaseLostSafe DEF ConsoleInv
<1>5. StopKept'
  BY <1>1, <1>4, StopStep DEF ConsoleInv, ConsoleFits
<1>6. events' \in Seq(Shown)
  BY <1>1
<1>7. ConsoleFits'
  BY <1>1, <1>2, <1>3, <1>6 DEF ConsoleInv, ConsoleFits
<1> QED
  BY <1>4, <1>5, <1>7 DEF ConsoleInv, ServiceSafe

LEMMA OpenedTypes ==
  ASSUME NEW s \in Sessions \union {None}
  PROVE  Opened(s) \in ConsoleStates /\ Opened(s).view = NoView
<1>1. NoView \in Views
  BY ViewTypes DEF Shown
<1> QED
  BY <1>1 DEF Opened, ConsoleStates

LEMMA ReloadSafe ==
  ASSUME ConsoleInv, Reload
  PROVE  ConsoleInv'
<1>1. /\ console' = Opened(console.stored) /\ events' = <<>> /\ LoseLease
      /\ request' = [r \in Slots |->
           IF r = "restore" /\ console.stored # None THEN SeenSession(console.stored) ELSE Idle]
      /\ pressed' = None /\ work' \subseteq work
      /\ Trouble
  BY DEF Reload
<1>2. console.stored \in Sessions \union {None}
  BY DEF ConsoleInv, ConsoleFits, ConsoleStates
<1>3. console' \in ConsoleStates /\ console'.view \in Shown
  BY <1>1, <1>2, OpenedTypes, ViewTypes
<1>4. \A q \in Slots : Asking(q, request'[q])
  BY <1>1, <1>2, SeenTypes, IdleTypes DEF ConsoleInv
<1>5. request' \in [Slots -> Requests]
  <2>1. request' = [q \in Slots |-> request'[q]]
    BY <1>1
  <2> QED
    BY <1>4, <2>1 DEF Asking
<1>6. troubles' \in 0 .. MaxTroubles
  BY <1>1, TroubleStays DEF ConsoleInv
<1>7. ServiceSafe
  BY <1>1, LeaseLostSafe DEF ConsoleInv
<1>8. StopKept'
  BY <1>1 DEF StopKept
<1>9. events' \in Seq(Shown)
  BY <1>1
<1>10. ConsoleFits'
  BY <1>1, <1>3, <1>4, <1>5, <1>6, <1>9 DEF ConsoleInv, ConsoleFits
<1> QED
  BY <1>7, <1>8, <1>10 DEF ConsoleInv, ServiceSafe

-----------------------------------------------------------------------------
(* The steps of the server.                                                *)

LEMMA Announces ==
  ASSUME ConsoleFits, NEW s \in Sessions, session' \in [Sessions -> Records],
         Announce(s) \/ Silent
  PROVE  events' \in Seq(Shown)
<1> DEFINE m == OperatorSnapshot(s, session'[s])
<1>1. m \in Shown /\ events \in Seq(Shown)
  BY ViewTypes DEF ConsoleFits
<1>2. events' \in {events, Append(events, m)}
  BY DEF Announce, Silent
<1> HIDE DEF m
<1> QED
  BY <1>1, <1>2

LEMMA OperateSafe ==
  ASSUME ConsoleInv, NEW op, NEW s, s \in Sessions \/ op = "confirm", Operate(op, s)
  PROVE  ServiceSafe /\ events' \in Seq(Shown)
<1>1. ServiceTypeOK /\ AliveIsActive /\ ConsoleFits /\ session \in [Sessions -> Records]
      /\ events \in Seq(Shown)
  BY DEF ConsoleInv, ServiceTypeOK, ConsoleFits
<1>2. CASE op = "confirm"
  <2>1. Agree /\ Silent
    BY <1>2 DEF Operate
  <2>2. ServiceSafe
    BY <1>1, <2>1, StillSafe DEF Agree, ServiceTypeOK
  <2> QED
    BY <1>1, <2>1, <2>2 DEF Silent
<1>3. CASE op # "confirm"
  <2>1. s \in Sessions
    BY <1>3
  <2>2. ServiceSafe /\ (Announce(s) \/ Silent)
    <3>1. CASE Create(s) /\ Announce(s)
      BY <1>1, <2>1, <3>1, CreateSafe
    <3>2. CASE (Prepare(s) \/ Start(s) \/ Resume(s)) /\ Announce(s)
      BY <1>1, <2>1, <3>2, StaffMoves, OnwardSafe
    <3>3. CASE Checkpoint(s) /\ Announce(s)
      BY <1>1, <2>1, <3>3, RunProceeds, OnwardSafe
    <3>4. CASE Handoff(s) /\ Announce(s)
      BY <1>1, <2>1, <3>4, HandoffMoves, OnwardSafe
    <3>5. CASE Abort(s) /\ Announce(s)
      BY <1>1, <2>1, <3>5, AbortMoves, OnwardSafe
    <3>6. CASE UNCHANGED serviceVars /\ Silent
      BY <1>1, <3>6, SameSafe
    <3> QED
      BY <1>3, <3>1, <3>2, <3>3, <3>4, <3>5, <3>6 DEF Operate
  <2> QED
    BY <1>1, <2>1, <2>2, Announces DEF ServiceSafe, ServiceTypeOK
<1> QED
  BY <1>2, <1>3

LEMMA BeginStopSafe ==
  ASSUME ConsoleInv, NEW id \in Sessions \union {None}, BeginStop(id)
  PROVE  ServiceSafe /\ events' \in Seq(Shown)
<1>1. ServiceTypeOK /\ AliveIsActive /\ ConsoleFits /\ session \in [Sessions -> Records]
      /\ events \in Seq(Shown) /\ active \in Sessions \union {None}
  BY DEF ConsoleInv, ServiceTypeOK, ConsoleFits
<1>2. Stopped(id) \in Sessions \union {None}
  BY <1>1 DEF Stopped
<1>3. \/ Stopped(id) # None /\ Abort(Stopped(id)) /\ Announce(Stopped(id))
      \/ UNCHANGED serviceVars /\ Silent
  BY DEF BeginStop
<1>4. CASE Stopped(id) # None /\ Abort(Stopped(id)) /\ Announce(Stopped(id))
  <2>1. ServiceSafe
    BY <1>1, <1>2, <1>4, AbortMoves, OnwardSafe
  <2> QED
    BY <1>1, <1>2, <1>4, <2>1, Announces DEF ServiceSafe, ServiceTypeOK
<1>5. CASE UNCHANGED serviceVars /\ Silent
  BY <1>1, <1>5, SameSafe DEF Silent
<1> QED
  BY <1>3, <1>4, <1>5

(* The stop ends the run that was going on when the button was pressed, or *)
(* finds it over: it is active until it ends.                              *)
LEMMA BeginStopStops ==
  ASSUME ConsoleInv, pressed # None, NEW id \in {None, pressed}, BeginStop(id)
  PROVE  session'[pressed].ended # "no"
<1>1. pressed \in Sessions /\ session \in [Sessions -> Records] /\ session[pressed] \in Records
  BY DEF ConsoleInv, ConsoleFits, ServiceTypeOK
<1>2. CASE session[pressed].ended # "no"
  <2>1. ServiceSafe
    BY <1>1, BeginStopSafe
  <2> QED
    BY <1>1, <1>2, <2>1 DEF ServiceSafe
<1>3. CASE session[pressed].ended = "no"
  <2>1. session[pressed].step >= 2
    BY <1>3 DEF ConsoleInv, StopKept
  <2>2. active = pressed
    BY <1>1, <1>3, <2>1, RecordFields DEF ConsoleInv, AliveIsActive
  <2>3. PhaseOf(session[pressed]) \in {"intro"} \union RunPhases
    BY <1>1, <1>3, <2>1, StepPhases
  <2>4. Running(pressed) /\ ~Over(pressed)
    BY <1>3, <2>3 DEF Running, RunPhases, Over
  <2>5. Stopped(id) = pressed
    BY <2>2, <2>4 DEF Stopped
  <2>6. Abort(pressed)
    BY <2>2, <2>4, <2>5 DEF BeginStop
  <2>7. session'[pressed].ended = "aborted"
    BY <1>1, <2>6, AbortMoves
  <2> QED
    BY <2>7
<1> QED
  BY <1>2, <1>3

LEMMA BegunFits ==
  ASSUME ConsoleInv, NEW slot \in Slots, request[slot].stage = "sent",
         NEW s \in Sessions \union {None}, NEW target \in Sessions \union {None},
         request[slot].op = "delete" => s # None,
         request[slot].op \in Operations \union {"stop"},
         Begun(slot, s, target)
  PROVE  /\ request' \in [Slots -> Requests] /\ \A q \in Slots : Asking(q, request'[q])
         /\ request'[slot].stage = "begun"
         /\ \A q \in Slots \ {slot} : request'[q] = request[q]
         /\ work' \subseteq Works /\ \A w \in work' : w.op = "delete" => w.id # None
<1> DEFINE r == [request[slot] EXCEPT !.stage = "begun", !.id = s]
           v == [slot |-> slot, op |-> request[slot].op, id |-> s, target |-> target]
<1>1. request[slot] \in Requests /\ request[slot].view \in Shown
      /\ request \in [Slots -> Requests]
  BY DEF ConsoleInv, ConsoleFits, Asking
<1>2. r \in Requests /\ r.view \in Shown /\ r.stage = "begun"
  BY <1>1 DEF Requests
<1>3. request' = [request EXCEPT ![slot] = r] /\ work' = work \union {v}
  BY <1>1 DEF Begun
<1>4. v \in Works /\ (v.op = "delete" => v.id # None)
  BY DEF Works
<1> HIDE DEF r, v
<1>5. Asking(slot, r)
  BY <1>2 DEF Asking
<1>6. work' \subseteq Works /\ \A w \in work' : w.op = "delete" => w.id # None
  BY <1>3, <1>4 DEF ConsoleInv, ConsoleFits
<1> QED
  BY <1>2, <1>3, <1>5, <1>6, RequestStep DEF ConsoleInv

LEMMA BeginSafe ==
  ASSUME ConsoleInv, NEW slot \in Slots, Begin(slot)
  PROVE  ConsoleInv'
<1> DEFINE r == request[slot]
<1>1. /\ r \in Requests /\ r.stage = "sent" /\ r.id \in Sessions \union {None}
      /\ slot = "emergency" <=> r.op = "stop"
      /\ r.op \notin {"stop", "create", "confirm"} => r.id # None
      /\ UNCHANGED <<console, troubles, pressed>>
  BY DEF Begin, ConsoleInv, ConsoleFits, Asking, Requests
<1>2. active \in Sessions \union {None}
  BY DEF ConsoleInv, ServiceTypeOK
<1>3. SUFFICES ASSUME ServiceSafe, events' \in Seq(Shown),
                      NEW s \in Sessions \union {None}, NEW target \in Sessions \union {None},
                      r.op = "delete" => s # None, r.op \in Operations \union {"stop"},
                      Begun(slot, s, target),
                      r.op = "stop" => BeginStop(r.id)
               PROVE  ConsoleInv'
  <2>1. CASE r.op = "stop"
    <3>1. BeginStop(r.id) /\ Begun(slot, r.id, Stopped(r.id))
      BY <2>1 DEF Begin
    <3>2. Stopped(r.id) \in Sessions \union {None}
      BY <1>1, <1>2 DEF Stopped
    <3>3. ServiceSafe /\ events' \in Seq(Shown)
      BY <1>1, <3>1, BeginStopSafe
    <3> QED
      BY <1>1, <1>3, <2>1, <3>1, <3>2, <3>3
  <2>2. CASE r.op = "create"
    <3> DEFINE s == CHOOSE t \in Fresh : TRUE
    <3>1. Fresh # {} /\ Operate("create", s) /\ Begun(slot, s, s)
      BY <2>2 DEF Begin
    <3>2. s \in Sessions
      BY <3>1 DEF Fresh
    <3> HIDE DEF s
    <3>3. ServiceSafe /\ events' \in Seq(Shown)
      BY <3>1, <3>2, OperateSafe
    <3>4. "create" \in Operations
      BY DEF Operations
    <3> QED
      BY <1>3, <2>2, <3>1, <3>2, <3>3, <3>4
  <2>3. CASE r.op \notin {"stop", "create"}
    <3>1. Operate(r.op, r.id) /\ Begun(slot, r.id, r.id)
      BY <2>3 DEF Begin
    <3>2. r.id \in Sessions \/ r.op = "confirm"
      BY <1>1, <2>3
    <3>3. ServiceSafe /\ events' \in Seq(Shown)
      BY <3>1, <3>2, OperateSafe
    <3>4. r.op \in Operations
      BY <3>1 DEF Operate, Operations
    <3> QED
      BY <1>1, <1>3, <2>3, <3>1, <3>3, <3>4
  <2> QED
    BY <2>1, <2>2, <2>3
<1>4. /\ request' \in [Slots -> Requests] /\ \A q \in Slots : Asking(q, request'[q])
      /\ request'[slot].stage = "begun"
      /\ \A q \in Slots \ {slot} : request'[q] = request[q]
      /\ work' \subseteq Works /\ \A w \in work' : w.op = "delete" => w.id # None
  BY <1>1, <1>3, BegunFits
<1>5. ConsoleFits'
  BY <1>1, <1>3, <1>4 DEF ConsoleInv, ConsoleFits
<1>6. StopKept'
  <2>1. CASE slot # "emergency"
    <3>1. request'["emergency"] = request["emergency"]
      BY <1>4, <2>1 DEF Slots
    <3> QED
      BY <1>1, <1>3, <3>1, StopStep DEF ConsoleInv, ConsoleFits
  <2>2. CASE slot = "emergency" /\ pressed # None
    <3>1. BeginStop(r.id) /\ r.id \in {None, pressed}
      BY <1>1, <1>3, <2>2 DEF ConsoleInv, StopKept
    <3>2. session'[pressed].ended # "no"
      BY <2>2, <3>1, BeginStopStops
    <3> QED
      BY <1>1, <1>4, <2>2, <3>2 DEF StopKept
  <2>3. CASE pressed = None
    BY <1>1, <2>3 DEF StopKept
  <2> QED
    BY <2>1, <2>2, <2>3
<1> QED
  BY <1>3, <1>5, <1>6 DEF ConsoleInv, ServiceSafe

LEMMA AnsweredFits ==
  ASSUME ConsoleInv, ServiceSafe, NEW w \in Works, NEW ok \in BOOLEAN, Answered(w, ok)
  PROVE  /\ request' \in [Slots -> Requests] /\ \A q \in Slots : Asking(q, request'[q])
         /\ request'["emergency"] = request["emergency"]
              \/ /\ request["emergency"].stage = "begun"
                 /\ request'["emergency"].stage \in {"answered", "failed"}
<1> DEFINE m == IF w.id = None THEN NoView ELSE OperatorSnapshot(w.id, session'[w.id])
           yes(q) == [request[q] EXCEPT !.stage = "answered", !.view = m]
           no(q) == [request[q] EXCEPT !.stage = "failed"]
<1>1. m \in Shown
  BY ViewTypes DEF Works, ServiceSafe, ServiceTypeOK
<1>2. m \in Views
  BY <1>1 DEF Shown
<1>3. request' = [q \in Slots |-> IF ~Awaits(q, w) THEN request[q] ELSE IF ok THEN yes(q) ELSE no(q)]
  BY DEF Answered
<1> HIDE DEF m
<1>4. ASSUME NEW q \in Slots
      PROVE  /\ Asking(q, request'[q])
             /\ request'[q] = request[q]
                  \/ /\ request[q].stage = "begun"
                     /\ request'[q].stage \in {"answered", "failed"}
  <2>1. request[q] \in Requests /\ request[q].view \in Shown /\ Asking(q, request[q])
    BY DEF ConsoleInv, ConsoleFits, Asking
  <2>2. yes(q) \in Requests /\ yes(q).view \in Shown /\ yes(q).stage = "answered"
    BY <1>1, <1>2, <2>1 DEF Requests
  <2>3. no(q) \in Requests /\ no(q).view \in Shown /\ no(q).stage = "failed"
    BY <2>1 DEF Requests
  <2>4. Asking(q, yes(q)) /\ Asking(q, no(q))
    BY <2>2, <2>3 DEF Asking
  <2> HIDE DEF yes, no
  <2>5. request'[q] = IF ~Awaits(q, w) THEN request[q] ELSE IF ok THEN yes(q) ELSE no(q)
    BY <1>3
  <2>6. CASE ~Awaits(q, w)
    BY <2>1, <2>5, <2>6
  <2>7. CASE Awaits(q, w)
    <3>1. request[q].stage = "begun"
      BY <2>7 DEF Awaits
    <3> QED
      BY <2>2, <2>3, <2>4, <2>5, <2>7, <3>1
  <2> QED
    BY <2>6, <2>7
<1> HIDE DEF yes, no
<1>5. request' \in [Slots -> Requests]
  <2>1. request' = [q \in Slots |-> request'[q]]
    BY <1>3
  <2> QED
    BY <1>4, <2>1 DEF Asking
<1> QED
  BY <1>4, <1>5 DEF Slots

LEMMA FinishSafe ==
  ASSUME ConsoleInv, NEW w \in work, Finish(w)
  PROVE  ConsoleInv'
<1>1. w \in Works /\ (w.op = "delete" => w.id \in Sessions)
  BY DEF ConsoleInv, ConsoleFits, Works
<1>2. work' = work \ {w} /\ UNCHANGED <<console, events, troubles, pressed>>
  BY DEF Finish
<1>3. ServiceSafe /\ (Answered(w, TRUE) \/ Answered(w, FALSE))
  <2>1. CASE w.op = "delete" /\ Delete(w.id) /\ Answered(w, TRUE)
    BY <1>1, <2>1, DeleteSafe DEF ConsoleInv
  <2>2. CASE Release(w.target) /\ Answered(w, TRUE)
    BY <2>2, ReleaseSafe DEF ConsoleInv
  <2>3. CASE UNCHANGED serviceVars /\ (Answered(w, TRUE) \/ Answered(w, FALSE))
    BY <2>3, SameSafe DEF ConsoleInv
  <2> QED
    BY <2>1, <2>2, <2>3 DEF Finish
<1>4. /\ request' \in [Slots -> Requests] /\ \A q \in Slots : Asking(q, request'[q])
      /\ request'["emergency"] = request["emergency"]
           \/ /\ request["emergency"].stage = "begun"
              /\ request'["emergency"].stage \in {"answered", "failed"}
  BY <1>1, <1>3, AnsweredFits
<1>5. ConsoleFits'
  BY <1>2, <1>4 DEF ConsoleInv, ConsoleFits
<1>6. StopKept'
  BY <1>2, <1>3, <1>4, StopStep DEF ConsoleInv, ConsoleFits
<1> QED
  BY <1>3, <1>5, <1>6 DEF ConsoleInv, ServiceSafe

LEMMA UnaskedKeeps ==
  ASSUME ConsoleInv, NEW s \in Sessions, Unasked(s)
  PROVE  ConsoleInv'
<1>1. /\ Timer(s) \/ FailureEnds(s) \/ GetDisplay(s) \/ Fail(s) \/ LoseDisplay(s)
      /\ Announce(s) /\ UNCHANGED <<console, request, work, pressed>>
      /\ troubles' = troubles \/ Trouble
  BY DEF Unasked
<1>2. ServiceSafe
  BY <1>1, UnaskedSafe DEF ConsoleInv
<1>3. events' \in Seq(Shown)
  BY <1>1, <1>2, Announces DEF ConsoleInv, ServiceSafe, ServiceTypeOK
<1>4. troubles' \in 0 .. MaxTroubles
  BY <1>1, TroubleStays DEF ConsoleInv
<1>5. ConsoleFits'
  BY <1>1, <1>3, <1>4 DEF ConsoleInv, ConsoleFits
<1>6. StopKept'
  BY <1>1, <1>2, StopStep DEF ConsoleInv, ConsoleFits
<1> QED
  BY <1>2, <1>5, <1>6 DEF ConsoleInv, ServiceSafe

LEMMA ConsoleSafe ==
  ASSUME ConsoleInv, ConsoleNext
  PROVE  ConsoleInv'
<1>1. ASSUME NEW slot \in Slots,
             ReceiveAnswer(slot) \/ RequestFails(slot) \/ Begin(slot) \/ Refuse(slot)
      PROVE  ConsoleInv'
  BY <1>1, ReceiveAnswerSafe, RefusedSafe, BeginSafe
<1> QED
  BY <1>1, PressSafe, StopsSafe, SocketOpenedSafe, AnswerChallengeSafe, ReceiveEventSafe,
     SocketLostSafe, ReloadSafe, FinishSafe, UnaskedKeeps DEF ConsoleNext

LEMMA StopKeptAnswers ==
  ASSUME ServiceTypeOK, ConsoleFits, StopKept
  PROVE  AnsweredStopStopped
<1> SUFFICES ASSUME request["emergency"].stage = "answered", pressed # None
             PROVE  ~Running(pressed)
  BY DEF AnsweredStopStopped
<1>1. session[pressed] \in Records /\ session[pressed].ended # "no"
  BY DEF ServiceTypeOK, ConsoleFits, StopKept
<1> QED
  BY <1>1, StepPhases DEF Running, RunPhases

-----------------------------------------------------------------------------
(* Both screens.                                                           *)

Inv ==
  /\ scene \in {"display", "console"}
  /\ scene = "display" => DisplayInv /\ ConsoleUnopened
  /\ scene = "console" => ConsoleInv /\ DisplayUnopened

LEMMA UnopenedFits ==
  /\ DisplayUnopened => PageTypes /\ HubTypes /\ RunShownOnlyConfirmed
  /\ ConsoleUnopened => ConsoleFits /\ AnsweredStopStopped
<1>1. ASSUME DisplayUnopened PROVE PageTypes /\ HubTypes /\ RunShownOnlyConfirmed
  <2>1. /\ page = [p \in Pages |-> Shut] /\ fetch = [p \in Pages |-> NoFetch]
        /\ inbox = [p \in Pages |-> <<>>] /\ hub = [c \in Connections |-> "none"]
        /\ cut = {} /\ mishaps = 0 /\ display = {} /\ vouched = {}
    BY <1>1 DEF DisplayUnopened
  <2>2. PageTypes
    BY <2>1, SnapshotTypes DEF PageTypes
  <2>3. HubTypes
    BY <2>1, MishapAssumption DEF HubTypes
  <2>4. ASSUME NEW p \in Pages PROVE VisiblePhase(p) = "recovery"
    BY <2>1, SnapshotTypes DEF VisiblePhase
  <2>5. RunShownOnlyConfirmed
    BY <2>4 DEF RunShownOnlyConfirmed, Content, RunContent
  <2> QED
    BY <2>2, <2>3, <2>5
<1>2. ASSUME ConsoleUnopened PROVE ConsoleFits /\ AnsweredStopStopped
  <2>1. /\ console = Opened(None) /\ request = [r \in Slots |-> Idle] /\ events = <<>>
        /\ troubles = 0 /\ work = {} /\ pressed = None
    BY <1>2 DEF ConsoleUnopened
  <2>2. Opened(None) \in ConsoleStates /\ Opened(None).view \in Shown
    BY OpenedTypes, ViewTypes
  <2>3. \A slot \in Slots : request[slot] = Idle /\ Asking(slot, request[slot])
    BY <2>1, IdleTypes
  <2>4. request \in [Slots -> Requests]
    BY <2>1, IdleTypes
  <2>5. events \in Seq(Shown) /\ troubles \in 0 .. MaxTroubles
    BY <2>1, TroubleAssumption
  <2>6. ConsoleFits
    BY <2>1, <2>2, <2>3, <2>4, <2>5 DEF ConsoleFits
  <2> QED
    BY <2>1, <2>6 DEF AnsweredStopStopped
<1> QED
  BY <1>1, <1>2

LEMMA InitInv ==
  ASSUME Init PROVE Inv
<1>1. ASSUME DisplayInit PROVE DisplayInv
  <2>1. /\ session = [s \in Sessions |-> IF s = Session THEN Created ELSE Unborn]
        /\ active = Session /\ lease = TRUE /\ agreed = TRUE /\ DisplayUnopened
    BY <1>1 DEF DisplayInit
  <2>2. ServiceTypeOK
    BY <2>1, UnbornIs, SessionAssumption DEF ServiceTypeOK
  <2>3. Now = Created
    BY <2>1, SessionAssumption DEF Now
  <2>4. /\ \A p \in Pages : page[p] = Shut /\ fetch[p] = NoFetch /\ inbox[p] = <<>>
        /\ \A c \in Connections : hub[c] = "none"
        /\ display = {}
    BY <2>1 DEF DisplayUnopened
  <2>5. Fits(Shut, NoFetch, <<>>, vouched, Now)
    BY <2>3, UnbornIs, SnapshotTypes DEF Fits, NotAhead
  <2>6. PagesFit
    BY <2>4, <2>5, SnapshotTypes DEF PagesFit
  <2>7. HubFits
    BY <2>1, <2>3, <2>4, UnbornIs DEF HubFits
  <2> QED
    BY <2>1, <2>2, <2>6, <2>7, UnopenedFits DEF DisplayInv
<1>2. ASSUME ConsoleInit PROVE ConsoleInv
  <2>1. /\ session = [s \in Sessions |-> IF s \in Earlier THEN CompletedEarlier ELSE Unborn]
        /\ active = None /\ lease = FALSE /\ agreed = FALSE /\ ConsoleUnopened
    BY <1>2 DEF ConsoleInit
  <2>2. CompletedEarlier \in Records /\ CompletedEarlier.ended = "completed"
    <3>1. Len(Course) \in 0 .. Len(Course) /\ Created \in Records
      BY CourseSteps, UnbornIs
    <3> QED
      BY <3>1 DEF CompletedEarlier, Records, Endings
  <2>3. ServiceTypeOK
    BY <2>1, <2>2, UnbornIs DEF ServiceTypeOK
  <2>4. AliveIsActive
    BY <2>1, <2>2, UnbornIs DEF AliveIsActive
  <2>5. StopKept
    BY <2>1 DEF ConsoleUnopened, StopKept
  <2> QED
    BY <2>1, <2>3, <2>4, <2>5, UnopenedFits DEF ConsoleInv
<1> QED
  BY <1>1, <1>2 DEF Init, Inv

LEMMA NextInv ==
  ASSUME Inv, [Next]_vars
  PROVE  Inv' /\ [NoStepBack]_displayVars
<1>1. CASE Next /\ scene = "display"
  <2>1. scene' = "display" /\ DisplayNext /\ UNCHANGED consoleOnly
    BY <1>1 DEF Next
  <2>2. DisplayInv' /\ NoStepBack
    BY <1>1, <2>1, DisplaySafe DEF Inv
  <2>3. ConsoleUnopened'
    BY <1>1, <2>1 DEF Inv, ConsoleUnopened, consoleOnly
  <2> QED
    BY <2>1, <2>2, <2>3 DEF Inv
<1>2. CASE Next /\ scene = "console"
  <2>1. scene' = "console" /\ ConsoleNext /\ UNCHANGED <<screenVars, linkVars>>
    BY <1>2 DEF Next
  <2>2. ConsoleInv'
    BY <1>2, <2>1, ConsoleSafe DEF Inv
  <2>3. DisplayUnopened'
    BY <1>2, <2>1 DEF Inv, DisplayUnopened, screenVars, linkVars
  <2>4. NoStepBack
    BY <1>2, <2>1, UnopenedFits, StandsStill DEF Inv, screenVars
  <2> QED
    BY <2>1, <2>2, <2>3, <2>4 DEF Inv
<1>3. CASE UNCHANGED vars
  <2>1. UNCHANGED <<session, active, lease, agreed, page, fetch, inbox, hub, cut, mishaps, display,
                    vouched, console, request, events, troubles, work, pressed, scene>>
    BY <1>3 DEF vars, displayVars, consoleVars, serviceVars, screenVars, linkVars
  <2>2. UNCHANGED displayVars
    BY <1>3 DEF vars
  <2>3. (DisplayInv => DisplayInv') /\ (ConsoleUnopened => ConsoleUnopened')
    BY <2>1 DEF DisplayInv, ServiceTypeOK, PageTypes, HubTypes, PagesFit, HubFits, Now,
                ConsoleUnopened
  <2>4. (ConsoleInv => ConsoleInv') /\ (DisplayUnopened => DisplayUnopened')
    BY <2>1 DEF ConsoleInv, ServiceTypeOK, AliveIsActive, ConsoleFits, StopKept, DisplayUnopened
  <2> QED
    BY <2>1, <2>2, <2>3, <2>4 DEF Inv
<1> QED
  BY <1>1, <1>2, <1>3 DEF Inv, Next

LEMMA InvImplies ==
  ASSUME Inv
  PROVE  TypeOK /\ RunShownOnlyConfirmed /\ AnsweredStopStopped
<1>1. CASE scene = "display"
  BY <1>1, UnopenedFits, ConsoleTypes, DisplayShowsConfirmed
  DEF Inv, DisplayInv, TypeOK, DisplayTypeOK, PageTypes, HubTypes
<1>2. CASE scene = "console"
  BY <1>2, UnopenedFits, ConsoleTypes, StopKeptAnswers
  DEF Inv, ConsoleInv, TypeOK, DisplayTypeOK, PageTypes, HubTypes
<1> QED
  BY <1>1, <1>2 DEF Inv

LEMMA SpecInv == Spec => []Inv
<1>1. Init => Inv
  BY InitInv
<1>2. Inv /\ [Next]_vars => Inv'
  BY NextInv
<1> QED
  BY <1>1, <1>2, PTL DEF Spec

\* The screens and the server keep the values their modules give them.
THEOREM ScreenTypes == Spec => []TypeOK
<1>1. Inv => TypeOK
  BY InvImplies
<1> QED
  BY <1>1, SpecInv, PTL

\* No page shows a run over a connection that was not the display when the staff
\* prepared, started or resumed it.
THEOREM RunsShownOnlyConfirmed == Spec => []RunShownOnlyConfirmed
<1>1. Inv => RunShownOnlyConfirmed
  BY InvImplies
<1> QED
  BY <1>1, SpecInv, PTL

\* The run that was going on when the stop was pressed is over once the stop is
\* answered.
THEOREM StopsAnswered == Spec => []AnsweredStopStopped
<1>1. Inv => AnsweredStopStopped
  BY InvImplies
<1> QED
  BY <1>1, SpecInv, PTL

\* No page goes back in the run.
THEOREM PagesNeverGoBack == Spec => NeverGoesBack
<1>1. Inv /\ [Next]_vars => [NoStepBack]_displayVars
  BY NextInv
<1>2. Inv /\ [Next]_vars =>
        [\A p \in Pages :
           Open(p) /\ Open(p)' =>
             page'[p].snapshot.step >= page[p].snapshot.step]_displayVars
  BY <1>1 DEF NoStepBack
<1> QED
  BY <1>2, SpecInv, PTL DEF Spec, NeverGoesBack

=============================================================================
