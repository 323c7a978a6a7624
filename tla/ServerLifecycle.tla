-------------------------- MODULE ServerLifecycle --------------------------
(***************************************************************************)
(* The life of a server process: start, failed start, service, orderly     *)
(* shutdown, forced exit (src/server/index.ts, production-runtime.ts,      *)
(* screen-pilot-runtime.ts and their command line entries).  Servers on    *)
(* one data directory compete for its lock, which RuntimeLock models call  *)
(* by call and which is one step here.                                     *)
(*                                                                         *)
(* What a runtime does is a sequence of steps, one await of the code each; *)
(* requests that were accepted before a shutdown go on between any two.    *)
(***************************************************************************)
EXTENDS Naturals, Sequences, FiniteSets

CONSTANTS
  Servers,      \* the lives of server processes
  Mode,         \* which runtime each one is; "manual": a development or test
                \* server, whose device is connected on request
  MaxRequests,  \* bound: device requests queued at a time
  MaxFailures,  \* bound: steps of one process that fail
  Mishaps,      \* "step": a step may fail; "crash": a process may die;
                \* "unplug": the link may go
  None

ASSUME ServerAssumption == None \notin Servers
ASSUME ModeAssumption ==
  Mode \in [Servers -> {"manual", "rehearsal", "production", "pilot"}]
ASSUME BoundAssumption == MaxRequests \in Nat /\ MaxFailures \in Nat
ASSUME MishapAssumption == Mishaps \subseteq {"step", "crash", "unplug"}

VARIABLES
  lock,      \* the process named by the lock file
  at,        \* where each process is
  todo,      \* the steps that remain to it
  failed,    \* the steps that failed (startupError, shutdownErrors)
  wanted,    \* pendingExitCode: "none", "stop" (0) or "fail" (1)
  link,      \* the process has its puffer's link up
  level,     \* what that puffer shows
  run,       \* its session: none, in setup, running, or with its end unrecorded
  creating,  \* a creation is being recorded
  queue,     \* deviceOperationTail: the device requests under way
  late       \* what the shutdown had settled was undone: a request took effect
             \* after the device was let go, or inflated it again and the link went

control == <<at, todo, failed, wanted>>
work == <<link, level, run, creating, queue, late>>
vars == <<lock, control, work>>

StartSteps == {"admit", "lock", "summaries", "application", "connect", "listen"}
StopSteps == {"drop", "stop", "confirm", "device", "close", "http", "release"}
Steps == StartSteps \union StopSteps
Alive == {"starting", "clearing", "serving", "closing"}
Over == {"ended", "dead"}

TypeOK ==
  /\ lock \in Servers \union {None}
  /\ at \in [Servers -> {"off"} \union Alive \union Over]
  /\ todo \in [Servers -> Seq(Steps)]
  /\ failed \in [Servers -> SUBSET Steps]
  /\ wanted \in [Servers -> {"none", "stop", "fail"}]
  /\ link \in [Servers -> BOOLEAN]
  /\ level \in [Servers -> {"flat", "up"}]
  /\ run \in [Servers -> {"none", "setup", "running", "lost"}]
  /\ creating \in [Servers -> BOOLEAN]
  /\ queue \in [Servers -> Seq({"connect", "inflate"})]
  /\ late \in [Servers -> BOOLEAN]

Init ==
  /\ lock = None
  /\ at = [p \in Servers |-> "off"]
  /\ todo = [p \in Servers |-> <<>>]
  /\ failed = [p \in Servers |-> {}]
  /\ wanted = [p \in Servers |-> "none"]
  /\ link = [p \in Servers |-> FALSE]
  /\ level = [p \in Servers |-> "flat"]
  /\ run = [p \in Servers |-> "none"]
  /\ creating = [p \in Servers |-> FALSE]
  /\ queue = [p \in Servers |-> <<>>]
  /\ late = [p \in Servers |-> FALSE]

-----------------------------------------------------------------------------
(* The programs of the runtimes.                                           *)

\* startServerInternal; only a rehearsal or a screen device is connected.
ServerStart(p) ==
  <<"admit", "lock", "summaries", "application">>
    \o (IF Mode[p] = "rehearsal" THEN <<"connect">> ELSE <<>>) \o <<"listen">>

ProductionStart ==
  <<"admit", "lock", "summaries", "application", "connect", "listen">>

PilotStart ==
  <<"admit", "lock", "summaries", "application", "connect", "listen">>

StartOf(p) ==
  CASE Mode[p] = "production" -> ProductionStart
    [] Mode[p] = "pilot" -> PilotStart
    [] OTHER -> ServerStart(p)

\* What is undone when the connection or the listener fails, and the lock.
ServerCleanup(p) ==
  <<"drop">> \o (IF Mode[p] = "rehearsal" THEN <<"device">> ELSE <<>>)
    \o <<"close", "release">>

ProductionCleanup == <<"drop", "device", "close", "release">>

PilotCleanup == <<"drop", "device", "close", "release">>

CleanupOf(p) ==
  CASE Mode[p] = "production" -> ProductionCleanup
    [] Mode[p] = "pilot" -> PilotCleanup
    [] OTHER -> ServerCleanup(p)

\* Mutant: the lock is let go before the device.
ServerStopUnlocksFirst ==
  <<"drop", "stop", "confirm", "release", "device", "close", "http">>

\* closeServer; "stop" and "confirm" are controller.shutdown.
ServerStop ==
  <<"drop", "stop", "confirm", "device", "close", "http", "release">>

ProductionStop ==
  <<"drop", "stop", "confirm", "device", "close", "http", "release">>

PilotStop ==
  <<"drop", "stop", "confirm", "device", "close", "http", "release">>

StopOf(p) ==
  CASE Mode[p] = "production" -> ProductionStop
    [] Mode[p] = "pilot" -> PilotStop
    [] OTHER -> ServerStop

-----------------------------------------------------------------------------

Doing(p, step) == todo[p] # <<>> /\ Head(todo[p]) = step

Go(p, place, steps) ==
  /\ at' = [at EXCEPT ![p] = place]
  /\ todo' = [todo EXCEPT ![p] = steps]

\* The next step; with none left the process exits.
Advance(p) ==
  /\ Go(p, IF Tail(todo[p]) = <<>> THEN "ended" ELSE at[p], Tail(todo[p]))
  /\ UNCHANGED <<failed, wanted>>

\* The error is noted and the rest is done all the same.
AdvanceFailed(p) ==
  /\ Go(p, IF Tail(todo[p]) = <<>> THEN "ended" ELSE at[p], Tail(todo[p]))
  /\ failed' = [failed EXCEPT ![p] = @ \union {Head(todo[p])}]
  /\ UNCHANGED wanted

\* The start fails at this step.
FailStart(p, place, steps) ==
  /\ Go(p, place, steps)
  /\ failed' = [failed EXCEPT ![p] = @ \union {Head(todo[p])}]
  /\ UNCHANGED wanted

MayFail(p) == "step" \in Mishaps /\ Cardinality(failed[p]) < MaxFailures

\* The process is gone, and what it had in memory.
Die(p) ==
  /\ Go(p, "dead", <<>>)
  /\ failed' = [failed EXCEPT ![p] = {}]
  /\ link' = [link EXCEPT ![p] = FALSE]
  /\ level' = [level EXCEPT ![p] = "flat"]
  /\ run' = [run EXCEPT ![p] = "none"]
  /\ creating' = [creating EXCEPT ![p] = FALSE]
  /\ queue' = [queue EXCEPT ![p] = <<>>]
  /\ late' = [late EXCEPT ![p] = FALSE]
  /\ UNCHANGED <<lock, wanted>>

\* The process starts on the data directory.
Begin(p) ==
  /\ at[p] = "off"
  /\ Go(p, "starting", StartOf(p))
  /\ UNCHANGED <<lock, failed, wanted, work>>

-----------------------------------------------------------------------------
(* Start.                                                                  *)

\* The configuration of the mode is refused, or accepted and the directories made.
Admit(p) ==
  /\ at[p] = "starting" /\ Doing(p, "admit")
  /\ \/ Advance(p)
     \/ MayFail(p) /\ FailStart(p, "ended", <<>>)
  /\ UNCHANGED <<lock, work>>

\* acquireExperimentServerLock; the lock of a dead process is recovered.
Acquire(p) ==
  /\ at[p] = "starting" /\ Doing(p, "lock")
  /\ IF lock = None \/ (lock # None /\ at[lock] \in Over)
     THEN Advance(p) /\ lock' = p
     ELSE FailStart(p, "ended", <<>>) /\ UNCHANGED lock
  /\ UNCHANGED work

\* Mutant: the outer try does not cover the log and the client files.
AssembleUnguarded(p) ==
  /\ at[p] = "starting" /\ (Doing(p, "summaries") \/ Doing(p, "application"))
  /\ \/ Advance(p)
     \/ MayFail(p) /\ FailStart(p, "ended", <<>>)
  /\ UNCHANGED <<lock, work>>

\* The logs are read, the controller and the application made.
Assemble(p) ==
  /\ at[p] = "starting" /\ (Doing(p, "summaries") \/ Doing(p, "application"))
  /\ \/ Advance(p)
     \/ MayFail(p) /\ FailStart(p, "clearing", <<"release">>)
  /\ UNCHANGED <<lock, work>>

\* connectDevice, and the status it must report; the link may be up all the
\* same when that status is refused.
Connect(p) ==
  /\ at[p] = "starting" /\ Doing(p, "connect")
  /\ \/ Advance(p) /\ link' = [link EXCEPT ![p] = TRUE]
     \/ /\ MayFail(p) /\ FailStart(p, "clearing", CleanupOf(p))
        /\ link' \in {link, [link EXCEPT ![p] = TRUE]}
  /\ UNCHANGED <<lock, level, run, creating, queue, late>>

\* The listener is open: a pilot that was told to stop in the meantime does so.
Listen(p) ==
  /\ at[p] = "starting" /\ Doing(p, "listen")
  /\ \/ /\ IF Mode[p] = "pilot" /\ wanted[p] # "none"
           THEN Go(p, "closing", StopOf(p)) ELSE Go(p, "serving", <<>>)
        /\ UNCHANGED <<failed, wanted>>
     \/ MayFail(p) /\ FailStart(p, "clearing", CleanupOf(p))
  /\ UNCHANGED <<lock, work>>

-----------------------------------------------------------------------------
(* Service: what of the other components a shutdown must deal with.        *)

Serving(p) == at[p] = "serving"

\* A creation and its record.
CreateBegins(p) ==
  /\ Serving(p) /\ run[p] = "none" /\ ~creating[p]
  /\ creating' = [creating EXCEPT ![p] = TRUE]
  /\ UNCHANGED <<lock, control, link, level, run, queue, late>>

\* The device step of a shutdown has been taken.
LetGo(p) == at[p] = "closing" /\ \A i \in DOMAIN todo[p] : todo[p][i] # "device"

CreateEnds(p) ==
  /\ at[p] \in {"serving", "closing"} /\ creating[p]
  /\ creating' = [creating EXCEPT ![p] = FALSE]
  /\ run' = [run EXCEPT ![p] = "setup"]
  /\ late' = [late EXCEPT ![p] = @ \/ LetGo(p)]
  /\ UNCHANGED <<lock, control, link, level, queue>>

\* prepare, which needs the device safely deflated, and what follows it.
RunBegins(p) ==
  /\ Serving(p) /\ run[p] = "setup" /\ link[p] /\ level[p] = "flat"
  /\ run' = [run EXCEPT ![p] = "running"]
  /\ UNCHANGED <<lock, control, link, level, creating, queue, late>>

\* A puffer condition.
RunInflates(p) ==
  /\ Serving(p) /\ run[p] = "running" /\ link[p]
  /\ level' = [level EXCEPT ![p] = "up"]
  /\ UNCHANGED <<lock, control, link, run, creating, queue, late>>

\* The run is over and its end recorded, the puffer flat again.
RunEnds(p) ==
  /\ Serving(p) /\ run[p] = "running" /\ link[p]
  /\ run' = [run EXCEPT ![p] = "none"]
  /\ level' = [level EXCEPT ![p] = "flat"]
  /\ UNCHANGED <<lock, control, link, creating, queue, late>>

\* A device test is asked for: allowed outside a run, queued behind the others.
Request(p, kind) ==
  /\ Serving(p) /\ run[p] # "running"
  /\ Len(queue[p]) < MaxRequests
  /\ queue' = [queue EXCEPT ![p] = Append(@, kind)]
  /\ UNCHANGED <<lock, control, link, level, run, creating, late>>

\* Its turn comes, in a shutdown too; what is not allowed any more is refused.
RequestRuns(p) ==
  /\ at[p] \in {"serving", "closing"} /\ queue[p] # <<>>
  /\ \E answered \in BOOLEAN :
     LET allowed(kind) == answered /\ run[p] # "running" /\ Head(queue[p]) = kind
         connects == allowed("connect") /\ ~link[p]
         inflates == allowed("inflate") /\ link[p] /\ level[p] = "flat"
     IN /\ link' = [link EXCEPT ![p] = @ \/ connects]
        /\ level' = [level EXCEPT ![p] = IF inflates THEN "up" ELSE @]
        /\ late' = [late EXCEPT ![p] = @ \/ (LetGo(p) /\ (connects \/ inflates))]
  /\ queue' = [queue EXCEPT ![p] = Tail(@)]
  /\ UNCHANGED <<lock, control, run, creating>>

\* A device test's deflation.
Deflates(p) ==
  /\ Serving(p) /\ run[p] # "running" /\ link[p]
  /\ level' = [level EXCEPT ![p] = "flat"]
  /\ UNCHANGED <<lock, control, link, run, creating, queue, late>>

\* The session's shutdown is behind it.
Settled(p) == at[p] = "closing" /\ \A i \in DOMAIN todo[p] : todo[p][i] # "confirm"

\* The link of a device connected by hand is lost (the simulation's fault for
\* it, injectUnexpectedMockDisconnect), which keeps what it shows.
Unplug(p) ==
  /\ "unplug" \in Mishaps /\ Mode[p] = "manual"
  /\ at[p] \in {"serving", "closing"} /\ link[p]
  /\ link' = [link EXCEPT ![p] = FALSE]
  /\ late' = [late EXCEPT ![p] = @ \/ (Settled(p) /\ level[p] = "up")]
  /\ UNCHANGED <<lock, control, level, run, creating, queue>>

-----------------------------------------------------------------------------
(* Shutdown.                                                               *)

Worse(p, exit) == IF wanted[p] = "fail" THEN "fail" ELSE exit

\* runServerCli, and the entry of a release: handlers exist once the server
\* listens; until then a signal kills the process.
Signal(p) ==
  /\ Mode[p] # "pilot" /\ at[p] \in {"starting", "clearing", "serving"}
  /\ \E exit \in {"stop", "fail"} :
       IF Serving(p)
       THEN /\ Go(p, "closing", StopOf(p))
            /\ wanted' = [wanted EXCEPT ![p] = exit]
            /\ UNCHANGED <<lock, failed, work>>
       ELSE Die(p)

\* shutdown of the pilot's entry: kept until the server listens.
PilotToldTo(p, exit) ==
  /\ wanted' = [wanted EXCEPT ![p] = Worse(p, exit)]
  /\ IF Serving(p) THEN Go(p, "closing", StopOf(p)) ELSE UNCHANGED <<at, todo>>
  /\ UNCHANGED <<lock, failed, work>>

\* A signal, or the launcher's message for one.
PilotSignal(p) ==
  /\ Mode[p] = "pilot" /\ at[p] \in Alive
  /\ \E exit \in {"stop", "fail"} : PilotToldTo(p, exit)

\* The launcher is gone and its channel with it.
ParentGone(p) ==
  /\ Mode[p] = "pilot" /\ at[p] \in Alive
  /\ PilotToldTo(p, "fail")

\* The listener, the hub and all connections are closed: no new requests.
Drop(p) ==
  /\ at[p] \in {"clearing", "closing"} /\ Doing(p, "drop")
  /\ Advance(p)
  /\ UNCHANGED <<lock, work>>

\* controller.shutdown: a run is ended beside STOP; its record may fail.
StopSession(p) ==
  /\ at[p] = "closing" /\ Doing(p, "stop")
  /\ \/ /\ Advance(p)
        /\ run' = [run EXCEPT ![p] = IF @ = "lost" THEN @ ELSE "none"]
     \/ /\ MayFail(p) /\ AdvanceFailed(p)
        /\ run' = [run EXCEPT ![p] = IF @ = "running" THEN "lost" ELSE @]
  /\ UNCHANGED <<lock, link, level, creating, queue, late>>

\* Mutant: a device that does not answer is taken to be safe.
ConfirmTrusts(p) ==
  /\ at[p] = "closing" /\ Doing(p, "confirm")
  /\ level' = [level EXCEPT ![p] = IF link[p] THEN "flat" ELSE @]
  /\ Advance(p)
  /\ UNCHANGED <<lock, link, run, creating, queue, late>>

\* DEFLATE and the confirmation, or a device that went away deflated.
ConfirmSafe(p) ==
  /\ at[p] = "closing" /\ Doing(p, "confirm")
  /\ \/ /\ link[p] \/ level[p] = "flat"
        /\ level' = [level EXCEPT ![p] = "flat"]
        /\ Advance(p)
     \/ /\ MayFail(p) \/ (~link[p] /\ level[p] = "up")
        /\ AdvanceFailed(p)
        /\ UNCHANGED level
  /\ UNCHANGED <<lock, link, run, creating, queue, late>>

\* The adapter's own STOP, DEFLATE and close, whatever became of the session's.
DisconnectDevice(p) ==
  /\ at[p] \in {"clearing", "closing"} /\ Doing(p, "device")
  /\ link' = [link EXCEPT ![p] = FALSE]
  /\ \/ /\ Advance(p)
        /\ level' = [level EXCEPT ![p] = IF link[p] THEN "flat" ELSE @]
     \/ MayFail(p) /\ AdvanceFailed(p) /\ UNCHANGED level
  /\ UNCHANGED <<lock, run, creating, queue, late>>

\* The application and the connections: two seconds each at the most.
CloseRest(p) ==
  /\ at[p] \in {"clearing", "closing"} /\ (Doing(p, "close") \/ Doing(p, "http"))
  /\ \/ Advance(p)
     \/ MayFail(p) /\ Doing(p, "close") /\ AdvanceFailed(p)
  /\ UNCHANGED <<lock, work>>

Release(p) ==
  /\ at[p] \in {"clearing", "closing"} /\ Doing(p, "release")
  /\ \/ Advance(p) /\ lock' = (IF lock = p THEN None ELSE lock)
     \/ MayFail(p) /\ AdvanceFailed(p) /\ UNCHANGED lock
  /\ UNCHANGED work

\* Mutant: the timer is disarmed as soon as the session has been stopped.
ForceExitEarlyOnly(p) ==
  /\ at[p] = "closing" /\ (Doing(p, "drop") \/ Doing(p, "stop"))
  /\ Die(p)

\* forceExit: shutdownDeadlineMs has passed.
ForceExit(p) ==
  /\ at[p] = "closing"
  /\ Die(p)

Crash(p) ==
  /\ "crash" \in Mishaps /\ at[p] \in Alive
  /\ Die(p)

-----------------------------------------------------------------------------

StartStep(p) == Admit(p) \/ Acquire(p) \/ Assemble(p) \/ Connect(p) \/ Listen(p)

ClearStep(p) ==
  Drop(p) \/ StopSession(p) \/ ConfirmSafe(p) \/ DisconnectDevice(p)
    \/ CloseRest(p) \/ Release(p)

Service(p) ==
  \/ CreateBegins(p) \/ CreateEnds(p)
  \/ RunBegins(p) \/ RunInflates(p) \/ RunEnds(p)
  \/ RequestRuns(p) \/ Deflates(p) \/ Unplug(p)
  \/ \E kind \in {"connect", "inflate"} : Request(p, kind)

Told(p) == Signal(p) \/ PilotSignal(p) \/ ParentGone(p)

\* All servers have ended.
Finished == (\A p \in Servers : at[p] \in Over) /\ UNCHANGED vars

Next ==
  \/ \E p \in Servers :
       \/ Begin(p) \/ StartStep(p) \/ Service(p) \/ Told(p) \/ ClearStep(p)
       \/ ForceExit(p) \/ Crash(p)
  \/ Finished

Spec == Init /\ [][Next]_vars

\* A start settles, and so does what a failed start undoes; the steps of a
\* shutdown may hang, its timer does not.
Fairness ==
  \A p \in Servers :
    /\ WF_vars(StartStep(p))
    /\ WF_vars(at[p] = "clearing" /\ ClearStep(p))
    /\ WF_vars(ForceExit(p))

FairSpec == Spec /\ Fairness

-----------------------------------------------------------------------------
(* Properties.                                                             *)

ExitCode(p) == IF failed[p] = {} /\ wanted[p] = "stop" THEN 0 ELSE 1

AtWork(p) == at[p] \in Alive /\ (link[p] \/ creating[p] \/ run[p] # "none") /\ ~late[p]

\* Never are two servers at work on the data directory, with a device
\* linked, a session open or one being recorded: a server lets its device go
\* before the lock.  What a request that was accepted before the shutdown does
\* after that is excepted.
OneServerAtWork == \A p, q \in Servers : AtWork(p) /\ AtWork(q) => p = q

\* A server that ends with code 0 leaves its puffer flat and no run whose end
\* is not in the log, whatever failed before and whatever was under way when
\* it was told to stop.
CleanExitIsSafe ==
  \A p \in Servers :
    at[p] = "ended" /\ ExitCode(p) = 0 /\ ~late[p] =>
      level[p] = "flat" /\ run[p] \notin {"running", "lost"}

\* A server that ended by itself, having failed to start or been shut down,
\* has neither the lock, unless releasing it was what failed, nor a link.
EndsEmptyHanded ==
  \A p \in Servers :
    at[p] = "ended" =>
      /\ lock = p => "release" \in failed[p]
      /\ link[p] => late[p]

\* Whether a server waits for the directory, is inside, or is gone.
Turn(p) ==
  CASE at[p] \in Alive /\ lock = p -> "inside"
    [] at[p] \in {"off", "starting"} /\ lock # p -> "waiting"
    [] OTHER -> "gone"

Turns == INSTANCE DirectoryTurns
  WITH Processes <- Servers, turn <- [p \in Servers |-> Turn(p)]

\* The one variable that stands for the lock here gives the servers the turns
\* that the calls of runtime-lock.ts give them (RuntimeLock, ImplementsTurns).
ImplementsTurns == Turns!Spec

\* A server that was told to stop is gone after a while: before it listens,
\* with steps that fail or hang, or without its launcher.
ShutdownEnds ==
  \A p \in Servers : wanted[p] # "none" ~> at[p] \in Over
=============================================================================
