# A TLA+ model of the experiment server

The program runs a comparative experiment: a participant sits in front of a
display and of a device that can be inflated (the "puffer"), an operator drives
four presentations from another screen, and a single Node process decides what
is shown and when, writes an audit log, and makes the device safe when anything
goes wrong. This directory models that controller, the devices it drives, the
data it stores, the hub that tells it who is there, the screens at both ends, the
life of the server process and the lock that keeps a second one away, the
policies that decide which configuration may serve, and the jobs that build what
is served. TLC model-checks small instances; TLAPS proves the safety properties of all
of it for every size.

## Inventory

| Component | Source (under `src/src/`) | State | Operations | Modelled by |
|---|---|---|---|---|
| Session controller | `server/sessions/session-controller.ts` | sessions, active session, phase timer, failure task, emergency lock, lease and confirmation flags, audit health, device queue | create, prepare, start, resume, abort, emergencyStop, confirmations, delete, display and lease callbacks, device tests | `SessionController`; its storing in `DataStore`, its `shutdown` in `ServerLifecycle` |
| Protocol phases | `shared/experiment-machine.ts` | none (table and pure functions) | transitions | `ExperimentProtocol` |
| Devices | `server/devices/*.ts` | link, pending commands, motion, fault | connect, disconnect, inflate, deflate, stop, status, events | `PufferDevice`, `SerialPuffer`, `ScreenPuffer`, `MockPuffer` |
| WebSocket hub | `server/websocket/websocket-hub.ts` | clients, leases, nonces, display claim | connection, message, expiry, broadcast | `WebSocketHub`; its broadcasts in `DisplayScreen`, `OperatorConsole` |
| Experiment log | `server/logging/experiment-log.ts` | append chains, files | append, list, export | `DataStore` |
| Research id registry | `server/logging/research-id-registry.ts` | anchor, directory, reservation files | initialise, look up, reserve | `DataStore` |
| Data lifecycle | `server/logging/data-lifecycle.ts` | none (reads files) | plan for an id, retention report | `DataStore` |
| Order allocation | `shared/conditions.ts` | none | count, allocate | `DataStore` |
| Runtime lock | `server/runtime-lock.ts` | lock file | acquire, take over, release | `RuntimeLock` |
| Start and shutdown | `server/index.ts`, `production-runtime.ts`, `screen-pilot-runtime.ts`, `production-entry.ts`, `screen-pilot.ts` | what a process has acquired, signals, deadlines | start, failed start, signal, close, forced exit | `ServerLifecycle` |
| Configuration and policy | `shared/schemas.ts`, `config-loader.ts`, `production-policy.ts`, `formal-production-config.ts` | none | load, accept | `StartPolicy` |
| HTTP API | `server/api/*.ts` | none | routes | `OperatorConsole`, `DisplayScreen` |
| Realtime client | `client/shared/realtime.ts` | socket, retry timer, heartbeat | connect, open, message, close | `DisplayScreen`, `OperatorConsole` |
| Screens | `client/participant`, `client/operator`, `client/device-test` | snapshot, session, requests under way | buttons, answers, events | `DisplayScreen`, `OperatorConsole` |
| Builds, releases, pilots | `scripts/build-*.mjs`, `scripts/create-release.ts`, `scripts/screen-pilot-launcher.ts`, `server/screen-pilot-provenance.ts` | build lock, outputs, git | build, seal, launch | `Workspace` |
| Other scripts, demo | `scripts/`, `client/public-demo` | none | checks of files | not modelled |

What is hard here is not data but time. Node interleaves handlers at every
`await`; the controller's operations wait for the device (seconds), for the log
and for each other's failure handling, and meanwhile timers fire, displays and
operators come and go, and the device reports faults. What makes each component
correct:

- *Controller*: the participant sees exactly the protocol; the device is
  inflated only where the protocol shows it; every failure, lost lease and
  emergency stop ends the run after STOP and DEFLATE; one run at a time.
- *Devices*: STOP overtakes everything, a superseded or timed-out command never
  has a later effect on another one, a disconnected device is flat.
- *Hub*: the controller has a lease exactly while some operator has answered a
  recent challenge; one display per session.
- *Log and registry*: appends are stored in order or reported lost; an id is
  reserved once, whatever crashes or gets lost; orders stay balanced.
- *Runtime lock*: at most one server owns the data directory.
- *Server*: two servers are never at work on one directory; a process that ends
  orderly leaves a flat device and a recorded end; every shutdown ends.
- *Screens*: the participant sees the run only where the staff expects it, never
  backwards, and the screen comes back by itself; a stop that is answered with
  success has stopped the run.
- *Builds*: what is sealed or served is of the commit it reports.

`PROJECT.json` lists the hazards line by line with the properties that cover
them.

## Modules

| Module | What it is |
|---|---|
| `SessionController` | the controller: state, one action per piece of a handler between two awaits, properties, mutants |
| `ExperimentProtocol` | the abstract specification: what one participant is promised |
| `MCSessionController` | constants and symmetry for TLC |
| `SessionControllerProofs` | theorems about one session: `TypeCorrect`, `ProtocolKept` (the refinement), `TimerNeverStopsUnasked`, `HaltedStimulusIsFinal`; and about sessions, requests, device and failures together: `PufferAlwaysSafe`, `NoTestMeetsRun`, `ConfirmedStopKept`, `OneRunUnlessOvertaken`, `OneRunWithOneRequest`, `RunsSupervised`, `LoneSessionSupervised` |
| `WebSocketHub` | the hub: connections, challenges, expiry, and what the controller is told |
| `MCWebSocketHub` | the sessions of the displays and symmetry for TLC |
| `WebSocketHubProofs` | theorems: `HubAgrees`, `DisplaysHeld`, `HubKeepsPresent` |
| `DirectoryTurns` | the abstract specification of the lock: servers have the data directory in turns |
| `RuntimeLock` | the lock file, one action per file system call |
| `MCRuntimeLock` | symmetry for TLC |
| `RuntimeLockProofs` | theorems: `LockExcludes` (mutual exclusion), `LockTakesTurns` (the refinement) |
| `PufferDevice` | what every device has: the status, the two kinds of callers, and what an answer lets a caller rely on (`promise`) |
| `SerialPuffer`, `ScreenPuffer`, `MockPuffer` | the three drivers; `SerialPuffer` with the line and the puffer at its other end |
| `PufferDevices`, `MCPufferDevices` | the three behind one interface, one to an instance, and their properties |
| `PufferDevicesProofs` | theorems: `DeviceTypes`, `StopsHold`, `ConfirmationsAreTrue`, `NoFalseAlarms`, `FaultsAreStopped` |
| `DataStore`, `MCDataStore` | logs, registry, allocation and lifecycle plan, with a server that crashes |
| `ResearchIds` | the abstract specification of the registry: an id belongs to its first session |
| `DataStoreProofs` | theorems: `StoreTypeCorrect`, `PlansAreExact`, `StoreImplementsIds` (the refinement), `LogsAreInOrder`, `EndsRecorded`, `OrdersStayBalanced` |
| `ServerLifecycle`, `MCServerLifecycle` | start, service, shutdown and forced exit of competing servers |
| `StartPolicy` | which configuration may serve in which mode, as operators |
| `ServerProofs` | theorems about the life cycle (`ServerTypeCorrect`, `OneServerOnly`, `CleanExitsAreSafe`, `ServersEndEmptyHanded`, and the refinement `ServersTakeTurns`) and the policies (`SealedConfigStarts`, `StartedConfigIsSealable`, `SerialIsOutOfUse`, `PilotGatesAreOne`, `PracticeIsKeptApart`) |
| `Workspace`, `MCWorkspace` | builds, releases and pilots in one checkout |
| `WorkspaceProofs` | theorems: `WorkTypes`, `SealedReleases`, `ServedPilots`, `ReleasesUndisturbed` |
| `SessionService` | the server's sessions as the screens can tell them |
| `DisplayScreen` | the participant's page, its connections and the hub's side of them |
| `OperatorConsole` | the staff's console, its requests and the events it gets |
| `Screens` | both screens side by side, and their `TypeOK` |
| `ScreenProofs` | theorems: `ScreenTypes`, `RunsShownOnlyConfirmed`, `StopsAnswered`, `PagesNeverGoBack` |

### How `SessionController` corresponds to the code

*State.* `phase`, `position`, `display`, `recovery` are fields of
`RuntimeSession` (`phase`, `sequenceIndex + 1`, `displayConnected`,
`recoveryRequired`); `hasRemaining` says that `pausedRemainingMs` holds a
positive time. `active`, `timer`, `emergencyLocked`, `auditHealthy`, `lease`,
`confirmed`, `safetyFailed` are the controller's own fields. `"unborn"` and
`"deleted"` are the two ways of not being in the `sessions` map.

*Waiting.* A handler that awaits is a flow: `flow[c]` is the HTTP request `c`
pending at the moment and the point at which it waits, and
`flow[FailureTask]` is `failureTask`. What a handler does between two awaits is
one action, with all the guards it reads there. `resetChecks` and `commands`
are the promises that the timer callbacks leave behind (the device status at
the end of a reset, the acknowledgement of INFLATE or DEFLATE); they are sets,
because any number may be under way, late ones of earlier phases included.

*safeStopAndDeflate* runs in four different flows, so its steps
(`StopSettles` ... `DeflationReported`, `SafetyResult`) are written once and
take the flow as a parameter; what follows it is the caller's
(`FailureRecorded`, `StopReturns`, `DeleteContinues`).

*The device* is what the controller can know of it: `puffer` and `link`. Each
command may be lost or take effect, and its promise may reject in both cases. A
device test waits in `deviceOperationTail`, which becomes mutual exclusion
(`QueueBusy`). STOP rejects pending status queries, as the serial driver does
(`StopPending`); the simulated devices answer a query at once.

*Audits.* An audit that the code awaits on a path that matters (creation,
deletion, the end of a session, the confirmed deflation) succeeds or fails in
the action that follows it. All others are `AuditFails`, which can happen at
any moment while a session exists.

### How `WebSocketHub` corresponds to the code

`Member(c)` is being in the map `clients`; a socket that `socket.close` was
called on stays there until its close event, and messages on their way are still
handled. `challenge` is `challengeNonce`; since a new nonce is drawn only when
there is none, an answer in flight is always to the outstanding one, and a wrong
nonce changes nothing. `accepted` is `leaseConfirmed` or `ready`. Time is counted
in heartbeat checks: the timer runs every second, so a heartbeat is older than
`heartbeatTimeoutMs` (5 s) at the sixth check after it, and `age + 1 > Timeout`
with `Timeout = 5`. `away` is not known to the hub: the page is closed, the
browser hangs or the network is cut, and a close event may come or not.
`lease`, `connections` and `displayConnected` are the controller's; in
`SessionController` the same four callbacks are `LeaseGranted`, `LeaseLost`,
`DisplayReady` and `DisplayLost`, which may happen there at any moment, so every
behaviour of the hub is covered. A connection that is made again is another
client. After `terminate` the WebSocket library delivers no message; that is
assumed of it.

### How `RuntimeLock` corresponds to the code

`file` is what lies at the path: who created it, whether its payload can be
parsed, whether it is older than the grace period. `at` is the call a process
makes next. The payload is written through the handle, so a file that has been
moved aside meanwhile is not touched by it. A restarted server is another
process: its process id is new, and a dead id is taken not to be in use again.
`Turn` is what a process has of the directory: it waits until `acquire` has
returned, is inside until its file is unlinked, and is gone afterwards.

### Abstractions

- `participantMode` is `"enabled"` and lease supervision is on, as in
  production.
- Real time is left out: a due timer may fire at any moment after it was armed,
  and a STOP / DEFLATE sequence may take as long as it likes. Timer generations
  disappear because a cancelled timer is `None`.
- `phaseEndsMonotonicMs` is null exactly when recovery is required in a timed
  phase, so it is not a variable.
- An emergency stop that names a deleted session is answered with 404 while its
  STOP and DEFLATE go on; the model keeps the request pending for so long.
- What happens to the display of a session that is over is left out
  (`Watched`), and so are display connection ids, the full-screen flag,
  snapshots, `ping`, `getDeviceStatus` and the contents of audits.
- `shutdown()` and `dispose()` are in `ServerLifecycle` (`StopSession`,
  `ConfirmSafe`).

### How the device modules correspond to the code

`call[c]` is the call that has not returned of each of two callers: `Queue`, the
device operations the controller makes wait for one another
(`deviceOperationTail`), and `Direct`, the phases, safety sequences and stops,
which do not wait. `promise` is the yardstick of the properties: after an
acknowledged STOP callers may rely on a puffer at rest, after a status that
`isConfirmedDeflatedStatus` accepts, or an orderly `disconnect`, on a flat one,
until somebody commands otherwise; a call that was disturbed by another one
promises nothing it could not know.

`SerialPuffer` has the port with its events, the pending requests with their
timers, the five steps of `disconnect`, and as an external part the line and a
puffer that executes commands in order and answers each at most once. Request
ids appear as what the driver knows of them: pending, ignored (overtaken,
rejected or timed out) or unknown. `ScreenPuffer` has the motion, its generation
(a scheduled tick is `live` or not) and both timing modes; `MockPuffer` adds the
injected delays, timeouts, disconnections and faults. Levels are 0 to `Full`;
ramp times are left out, so a tick may come at any moment.

### How `DataStore` corresponds to the code

Each step is one file system call, or several between which nothing else could
tell the difference. A log is a sequence of events, of which the model keeps
what later readers ask (whether anything was shown, the result); a crash while
an append is written leaves `Part`, a line that was cut. `awaiting` is what a
reader of the logs waits for: the appends that were queued when it began
(`listSessionSummaries` waits for each log's chain). The controller appears with
what it stores and waits for (`auditAndConfirm`, the end of a run, deletion in
setup) and is otherwise free. While no server runs, the logs or the registry may
be lost; that both are is excluded, since nothing could remember an id then.

### How `ServerLifecycle` corresponds to the code

`ServerStart`, `ProductionStart`, `PilotStart` and their cleanups and shutdowns
are the sequences of awaits of the runtimes; `at` and `todo` say where a process
is in them. Every step may fail (`MayFail`), and the code collects the failures
and goes on (`failed`); a shutdown step may hang, and the deadline of the entry
point then ends the process (`ForceExit`). `wanted` is `pendingExitCode`, and
signals, the message of a launcher and its disconnection set it at any moment,
during the start as well. The lock is one variable here, `RuntimeLock` has its
calls; that both implement `DirectoryTurns` says that they agree. `late` remembers that a device request accepted before the shutdown had
its effect after the device was let go: the shutdown of the code does not wait
for such requests, and the properties except what they do.

### How `StartPolicy` corresponds to the code

A configuration is a record with one value for each constant the gates compare
with, and "other". Each gate is an operator with the comparisons of the code, in
the two forms in which the repository has them: `LoadsForProduction` and
`Seals` for `create-release`, `FormalLoads` and `EntryStarts` for the sealed
server. Values that are passed through are left out.

### How `Workspace` corresponds to the code

A job is a sequence of steps on the two outputs `dist` and `dist-server`, under
`.build.lock`. A source tree is the number of the edit that made it, and an
output is known by the tree it was built from: what the code knows by a hash.
`verifyScreenPilotSource` is one step; preflight, scans and verifiers are steps
that may fail. An edit that is made and undone between two looks at git leaves
no trace (`undone`), and the properties except it, as the comment in
`screen-pilot-provenance.ts` does. A lock that was left is removed by hand, once
no process is at work.

### How the screens correspond to the code

`SessionService` has the sessions as a client can tell them: the course of the
phases with handling and processing, and result and reset, taken together, and
each operation of the controller as one step, a failure as two. What goes on
between two awaits of the controller is `SessionController`'s.

In `DisplayScreen`, `page` is the state of `ParticipantScreen` and of
`useRealtime`, `fetch` its one request, `inbox` what is on the way or was not
handled yet, `hub` and `display` the hub's client and the controller's
`readyDisplayConnections`. A connection may be cut: nothing comes through, and
each side notices by itself. The hub is taken to notice a cut connection that
was not ready yet, too, which it does by the operating system's time-out only.

In `OperatorConsole`, a request is sent, begun, answered or failed, in four
slots, as the page keeps four kinds apart: one button at a time, the emergency
stop beside it, and the look-ups when the page is loaded and when its socket
opens. Look-ups are answered when they are sent; every answer arrives whenever it
likes. `work` is what the server does for a request that was begun, which goes
on when the page is gone. The hub sees a lost connection of the console at once
(`WebSocketHub` has the delay), and buttons wait for the look-up of the stored
session. `pressed` remembers the run that was going on when the stop was
pressed.

## Runs

The instances of the controller show a puffer presentation first and a label
after it, so both kinds are met. `Mishaps` chooses what may happen unasked.

| Run | Instance | States | Shows |
|---|---|---|---|
| `core` | 1 session, 1 request, 2 presentations, all mishaps | 0.2 M | `TypeOK`, `LeaseSupervised`, `StimulusFailureIsFinal`, `TimerStopsForCause`, `ImplementsProtocol`, `LostLeaseEndsRun`, `TimedPhaseEnds`, `EmergencyStopEndsRun` |
| `races` | 1 session, 2 requests, 1 presentation, no mishaps | 1.6 M | `NoDeviceTestDuringRun`, `ConfirmedStopHolds` |
| `succession` | 2 sessions, 1 request, 1 presentation, no mishaps, `SuccessionOpen` | 1.1 M | `OneRunAtATime`, `PufferOnlyInPufferPresentation` |
| `saved_time` | as `core`, 1 presentation, unsaved audits | | violates `SavedTimeKept` |
| `failed_run` | as `saved_time` | | violates `FailedRunNeverCompletes` |
| `hub` | 2 operators, 2 displays, 1 session, timeout 2, lag 1 | 0.11 M | `LeaseIsHeld`, `DisplayIsHeld`, `PresentClientsKept`, `LeaseLapses` |
| `lock` | 3 servers, crashes, failing writes | 19 k | `ImplementsTurns`, `LoneStarterOwns` |
| `device` | each device, 2 callers, 3 levels, 1 mishap on the line | 0.39 M | `StopHolds`, `ConfirmedIsFlat`, `NoFalseAlarm`, `FaultIsStopped`, `CallsReturn` |
| `store` | 2 ids, 2 sessions, 2 orders, 4 events to a log, 1 mishap | 2.0 M | `LogInOrder`, `OrdersBalanced`, `PlanIsExact`, `ImplementsIds`, `EndsAreRecorded` |
| `server` | 2 servers (a manual one and a pilot), 1 failure each, crashes | 0.74 M | `OneServerAtWork`, `CleanExitIsSafe`, `EndsEmptyHanded`, `ShutdownEnds` |
| `release` | a build, a release, a pilot, 1 edit, 1 mishap | 0.52 M | `SealedIsOfItsCommit`, `PilotIsOfItsLauncher`, `ReleaseIsUndisturbed`, `JobsEnd` |
| `screens` | 1 page with 2 connections and 2 mishaps; a console, 2 sessions, 1 trouble | 1.2 M | `RunShownOnlyConfirmed`, `NeverGoesBack`, `ScreenComesBack`, `AnsweredStopStopped` |

The modules that have a `TypeOK` and no row for it had it checked on the same
instances; all of them are proved.

*Why the bounds are enough.* Two presentations of different kinds meet every
transition between presentations, including from the puffer to a label and the
last one. Two requests are what one handler's await and its rival need: no
handler of the controller waits for more than one other (the failure task is a
flow of its own). Two sessions are what a late promise, timer or stale view
needs. `succession` follows only the states in which a second session can still
begin (`SuccessionOpen`): the store is healthy, the link is up, and at most one
promise of a timer callback is left behind. A command's acknowledgement times
out after a second, before the next phase of any published timing, so there is
never more than one to a session in the program. Device
faults and lost audits do nothing but start the failure task, which lost leases
and displays start in every run as well; `core` has them all.
The requests of `races` are interchangeable, and so are the sessions of
`succession`; their properties mention none by name, so the symmetry is sound.

In the hub, two operators are what one that keeps the lease and one that loses
it need, two displays what a session and its rival need; the theorems hold for
any number. Timeout 2 with lag 1 has a client that answers at the last moment
and one that answers too late, as 5 with 4 has. In the lock, `MaxAttempts` is 3
instead of 10: recovering a stale lock takes two attempts, and losing one to a
rival the third. Three servers are one that crashes, one that crashes while it
recovers, and one that is left.

The two callers of a device are what the controller can have at a time: one
device operation and one direct command. Level 1 of 0 to 2 is between flat and
full. One mishap on the line is followed by every order of answers, time-outs
and further calls; `MaxLine` bounds what is queued behind a puffer that is slow,
except STOP. In the store, two sessions under one id or two are what a
reservation and its rival need, two orders what a balance needs, and a log of
four events has a beginning, something shown, an end and a late device event.
In the life cycle, `Rivals` are the two runtimes that differ; the release's takes
the steps of a pilot and the signals of a manual server, which an assumption of
`MCServerLifecycle` checks. In the workspace, one job of each kind and one edit
give every order of build, edit, commit and restore between any two steps.

On the display, one page with two connections has the new connection beside the
one the hub still holds, and, since a tab that was closed may be opened again,
every order of old and new pages; two mishaps are a cut connection and another
one, or a failed request, on its return. With two pages at a time and one mishap
the properties hold as well. `Room` bounds the snapshots that wait. On the
console, an earlier session that was completed and not deleted is there from the
start, one trouble is a reload, a lost connection, a lost request, a lost
display or a failure, and one event may be on its way; the device test page's
stop takes the console's slot.

*Fairness in the controller.* Timers fire, the promises the controller waits for
settle (the drivers time out), and the flows continue: weak fairness of
`TimerDue`, `FailureContinues`, `ResetCheckSettles`, `SafetyContinues`,
`CallerContinues`.
Each is enabled until it is taken or the thing it waits for is cancelled.
Nothing is asked of operators, displays, leases or the device; in particular
the device need not ever deflate, and `LostLeaseEndsRun` holds all the same
because the confirmation has a deadline.

*Fairness in the hub.* The interval timer runs, and browsers that are there
answer challenges and send heartbeats, which is what they do on a timer of their
own. No close event is promised, and nothing of a connection that is away.

*Fairness in the lock.* Calls of the file system return. Nothing is asked of
the grace period or of other servers: `LoneStarterOwns` starts from a lock that
can be recovered.

*Fairness of the devices.* Promises that are settled continue (weak), and timers
and the port call back even if other callers come between again and again
(strong: a deadline is not put off by a later call). The puffer at the other end
owes nothing, and neither do the moving ticks.

*Fairness of the server.* Steps of a start settle, and so do those that undo a
failed one; shutdown steps may hang, but the timer of the entry point does not.
*Of the workspace:* a job goes on as long as it can. *Of the display:* the
browser delivers events and runs its retry timer, the hub handles messages and
drops what is dead; nobody loads, closes or cuts anything by necessity. The
store and the console have no liveness property and no fairness.

### What the runs show

`ImplementsProtocol` is a refinement: under the mapping `Shown`, every behaviour
of the controller, with all its pending requests, timers, late promises and
failures, is one of `ExperimentProtocol`, so no presentation is shown twice,
skipped, or after the end. `StimulusFailureIsFinal` is about the window of
several seconds in which a failing stimulus phase is still "result" or "reset".
`TimerStopsForCause` says that joining a failure in flight does not stop the
timer of the phase on show. `ConfirmedStopHolds` is about the window between a
confirmed flat device and the release of the session.

Two properties are violated, disagreements between the documents and the code:
the saved time is overwritten by a second loss of the display, and a run whose
failure is being handled can be resumed and completed. `PROJECT.json` quotes the
lines.

Four more behaviours came up that no run states, since they need no search to be
seen: a session that begins while its deletion waits for STOP is deleted all the
same (line 586 of the controller); an emergency stop that names an earlier
session stops the device and leaves the active run in its phase (line 517), and
the console does name it when an event of an earlier session has switched it
there (`OperatorScreen.tsx:682`); a server that has found a stale lock moves
whatever lies at the path, which may be the new lock of one that recovered
faster (the assumption of `LockExcludes`); and after a crash in the middle of an
append no server starts until the log has been repaired by hand
(`server/index.ts:444`).

The devices: `StopHolds` and `ConfirmedIsFlat` relate what callers were told to
what the puffer does, across overtaken commands, late answers, ticks of dead
motions and injected delays that end after a disconnection. `FaultIsStopped`
says that whenever the serial driver shows a fault on an open line, STOP is
already behind every move that the puffer may still execute.

The store: `ImplementsIds` is a refinement of `ResearchIds`, under crashes
between any two steps of a reservation and with either half of the memory lost.
`OrdersBalanced` and `PlanIsExact` relate logs that were cut short to what is
counted and listed later. `EndsAreRecorded` says that a session gives way to the
next one only with its end in the log.

The lock: `ImplementsTurns` is a refinement of `DirectoryTurns`. Beyond mutual
exclusion (`Exclusion`, which it implies) it says that a server gets in only when
the one before is out or dead, and that who has given up or left never comes
back, whichever of its calls is still under way.

The life cycle: `OneServerAtWork` goes beyond the lock's exclusion, since it is
about the order in which a shutdown gives up the device and the lock.
`CleanExitIsSafe` is what code 0 is worth. The workspace: an output is compared
at the right moments for a concurrent edit, build or dead release not to be
sealed or served under the wrong commit.

The screens: `RunShownOnlyConfirmed` joins the page's retry, the hub's one
display per session and the controller's recovery: whichever tab connects after
a loss, it shows no run before the staff has prepared, started or resumed with
it as the display. `AnsweredStopStopped` is about a stop racing other requests,
failures, reloads and lost answers.

`LeaseSupervised` is checked with one session only. With two, the failure task
of a session that has been aborted may still be waiting for its audit when the
next session loses its lease, and the new failure joins it and is forgotten.
`OneRunAtATime` is checked with one request at a time only. With two, a session
that begins while its deletion waits for STOP is let go of as the active one
(line 586) before it is deleted, and another one may begin. `RunsSupervised` and
`OneRunUnlessOvertaken` prove of each that there is no other way to it.

## Proofs

Every theorem holds for every value of the constants that the named assumptions
of its modules allow: any number of sessions, requests, presentations, clients,
servers, jobs, ids and mishaps. Each stands on an inductive invariant.

### The controller

`TypeCorrect`: `TypeOK` is inductive by itself. Its proof has a lemma for each
helper (what it does to the type of what it changes) and one for each group of
actions.

`ProtocolKept == Spec => ImplementsProtocol` is the refinement, step by step.
`PhaseMoves` is a summary of what any of the controller's steps does to the
phases: it leaves them, gives birth to one session, ends one, or moves the active
one to the next phase. Each of these is a step of `ExperimentProtocol` or a
stutter, as long as a phase that shows a presentation has a position within the
order (`PositionInv`).

`TimerNeverStopsUnasked == Spec => TimerStopsForCause` needs no invariant beyond
the types: `TimerCalm` is shown of every action. `HaltedStimulusIsFinal ==
Spec => StimulusFailureIsFinal` needs `SavedInv`: a run halted in result or reset
has no time saved, which is what a `resume` would go on with.

`PufferAlwaysSafe == Spec => [](PufferOnlyInPufferPresentation /\ NoDeviceTestDuringRun)`.
Neither conjunct is inductive alone: a device test that has passed its guards
would inflate the device of a run, and only `NoDeviceTestDuringRun` excludes
that a run has begun meanwhile, because `prepare` queues behind the test. Their
conjunction, with `TypeOK`, is. Most steps are *calm*: they do not make the
device less flat, start a test, or put a run in a new phase, and one lemma
(`CalmStep`) settles them all. What is left are the device tests, the entries
into phases, and `FlatEntry`: a run enters an introduction, a label or a
response only when the device has just reported to be flat.

The other theorems rest on `FlowInv`: what a handler that waits (`safeStopAndDeflate`,
an audit, the device queue) may still rely on when it goes on. `FlowMoves`
says what a step does to the flow that takes it and that it leaves the others
alone. On it stand

- `ConfirmedStopKept` (`StopInv`): from the confirmation that the device is flat
  to the release of its session nothing inflates, since everything that could is
  of a run, of a test, or of a phase that has been left;
- `OneRunUnlessOvertaken == Spec /\ [][~DeletionOvertaken]_vars => []OneRunAtATime`
  (`RunsActive`: a run is the active session's). `LetsGo` lists how the active
  session is let go of, and all but one do it to a session that is over: a
  deletion that waited for STOP and DEFLATE does it to whatever the session has
  become. So the property is false with two requests at a time, and this is the
  only way to break it; `OneRunWithOneRequest` has it without condition where
  requests do not overlap;
- `RunsSupervised == Spec /\ []FailureIsOwn => []LeaseSupervised`
  (`SupervisionInv`). `FailureIsOwn` says that the failure being handled during a
  run is that run's. It is false with two sessions, as described above, and
  `LoneSessionSupervised` has the property without condition with one.

### The hub and the lock

`HubAgrees == Spec => [](LeaseIsHeld /\ DisplayIsHeld)`. With `TypeOK` and
`Newcomers` (nobody is accepted before connecting) it is inductive. Clients
leave through `Remove` only, one at a time or several at a check, and
`RemoveAgrees` settles it for any set of them; `QuietAgrees` settles the steps
that change neither membership nor acceptance. `HubKeepsPresent` adds `Asked`:
an operator on an open connection has just answered or has been asked, so its
age is at most the lag when it is checked.

`LockExcludes == ASSUME Orderly PROVE Spec => [](Exclusion /\ HolderOwnsFile)`.
The core of the invariant is `CreatedOwns` (whoever has created the file and not
given up finds its own file at the path); exclusion follows, since the file has
one creator. It is kept because a file is only ever moved when its creator is
gone (`RenamesStale`), and that takes the assumption: `Orderly` says that no
process stalls for the grace period in one step, and that no two servers are
acquiring at a moment when the lock is stale (`Contended`); servers may start
together and crash otherwise as they like. Without the second there is a
counterexample: three servers, one dead with its lock, two that find it.
`LockTakesTurns == ASSUME Orderly PROVE Spec => ImplementsTurns` takes each call
of the file system to a step of `DirectoryTurns` or a stutter: the last one of
`acquire` enters, and by the exclusion, which holds after it as well, nobody else
is inside.

### The devices

`DevicesInv` is inductive for each of the three. Of the simulated ones it says
what their pending timers may still do. Of the serial driver:

- `SerialBase`: whom each command and answer on the line is for, and who waits
  for it; from it follow the types and `NoFalseAlarms`: an answer to a request
  that was overtaken, rejected or timed out is known as one to ignore;
- `Stops`: behind an acknowledged STOP no command that moves the puffer is on the
  line, and no answer that shows it moving is on its way before the answer to
  it (`StopsHold`);
- `Asks`: between a status request and the answer that confirms the deflation
  nothing inflates (`ConfirmationsAreTrue`);
- `Halted`: every move the driver has lost sight of is followed on the line by
  its own emergency STOP, unless writing that has failed (`FaultsAreStopped`).

These are statements about the order of two queues, the line and the answers. A
step takes things off the line, puts one at its end, or lets the puffer execute
the first; what it leaves is in its old order (`Fewer`, `FewerHeard`), and every
part of the invariant survives that (`FewerRests`).

### The store

`IdsInv` relates the reservations, the creation in progress, the records listed
by readers and the plan of an audit: an id is not given twice because whatever
one of them may still act on, the others bear out. `PlansAreExact` and
`StoreImplementsIds`, the refinement of `ResearchIds`, follow from it.
`LogsAreInOrder` rests on `EventsInOrder`: what is in the file, what waits in the
queue of appends, and what the server remembers of its session are one story,
also where a crash has cut the file. `EndsRecorded` needs that an end that was
saved is in the file (`EndIsSaved`). `OrdersStayBalanced` rests on `Balance`: the
order being drawn was among the fewest when the logs were counted, and until the
next count nothing is settled that would change this.

### The life cycle and the policies

`LifeInv`: every process is at a place of its three programs (`InPlace`), holds
the lock from the step of the start that takes it to the last of its end
(`LockKept`), has its link up only where the steps that remain close it
(`LinkKept`), and keeps what each shutdown step has settled (`Secured`). A failed
step leaves a rest of a program, a failed start another program, and a forced
exit none, so the invariant is about the steps that remain. `OneServerOnly`,
`CleanExitsAreSafe` and `ServersEndEmptyHanded` follow.

`ServersTakeTurns == Spec => ImplementsTurns /\ [](\A p : AtWork(p) => Turn(p) = "inside")`
joins the two models of the lock. The one variable of the life cycle and the
file of `RuntimeLock` implement the same `DirectoryTurns`, each under its own
mapping; and no step of a start or of a shutdown is at work on the directory
outside its server's turn (`WorkersHold`).

`StartPolicy` is about operators, not behaviours. `SealedConfigStarts` and
`StartedConfigIsSealable`: the production policy is written down twice, and
neither copy is the weaker one. `PracticeIsKeptApart`: development, rehearsal and
pilot never log into one another's directories, whatever `DATA_DIRECTORY` says;
production is not among them, since its policy does not fix the directory.
`SerialIsOutOfUse`: no mode admits the serial device, so in this release
`SerialPuffer` is the driver of a device that is not in use.
`PilotGatesAreOne`: the pilot's own gate admits nothing that the common one
refuses. They hold for every configuration of `Configs`; their leaves are case
analyses over the comparisons.

### The workspace

`WorkInv`: every job is at a place of its program (`Placed`; a build that outlived
its process goes up to the last step of the build), and there it may rely on
what `BuildFits`, `ReleaseFits` and `PilotFits` say, most of it only while the
sources are those of the commit it recorded (`AtCommit`). Only the owner of the
lock touches an output, so nobody disturbs a release (`ReleasesUndisturbed`).
A pilot does not keep the lock. What it relies on is that, as long as its
commit is in place, any client that is there or being built is of that commit
(`ClientIs`), and that a bundle with its name in it is its own (`LaunchKept`).
Once the sources have moved on they do not come back, unless an edit is undone,
and the last look at git tells. `SealedReleases` and `ServedPilots` follow.

### The screens

Both parts rest on summaries of what an operation of the server does to a
session (`Onward` for the page, `ServiceSafe` for the console): its step does not
fall, what has ended does not come back, and only the active session goes on.

*The page.* `PagesFit` is about what is on its way. The snapshots of a connection
come in the order of their steps, none is behind what the page shows, and none
is ahead of the session, as long as that is not deleted. The answer to the page's
first request is out of the way before there is a connection, so that it takes
no page back either, with queues of any length (`PagesNeverGoBack`). Over a
connection that was not the display when the staff let the run go on, no run is
shown or on its way. That needs `HubFits`: whatever connection the hub would send
to while the run is shown is one of those the staff has looked at, since losing
the display ends the run or makes it wait. `RunsShownOnlyConfirmed` follows.

*The console.* `AliveIsActive`: a session that was begun and is not over is the
active one. `ConsoleFits`: only the emergency slot stops. `StopKept`: as long as the
request for the stop is on its way, it names the run the button was pressed on,
or no session, which stops the active one; once the server has begun it, that
run is over. `StopsAnswered` follows, whatever reloads, lost answers, other
buttons and failures come in between.

### Assumptions

Named in the modules, and evaluated by TLC on the instances. Most say that the
values standing for "none" are no member of the sets they stand beside
(`SessionAssumption`, `StoreValues`, `NoMotion`, `NoneAssumption` and their like),
that bounds are natural numbers, that a log has room for an event, and that
`Modes`, `Kind` and the other choices are from the lists of the code. None
restricts behaviours. Only `LockExcludes` and `LockTakesTurns` have a hypothesis
on the environment (`Orderly`), and the theorems of the controller that say so one on the
behaviour.

### What stays with TLC

- Liveness, which needs fairness and ENABLED: `LostLeaseEndsRun`,
  `TimedPhaseEnds`, `EmergencyStopEndsRun`, `LeaseLapses`, `LoneStarterOwns`,
  `CallsReturn`, `ShutdownEnds`, `JobsEnd`, `ScreenComesBack`.
- `OneRunAtATime` and `LeaseSupervised` without the conditions above, where they
  are false.

Bounds that are guards of actions (`MaxLine`, `MaxLog`, `MaxEdits`, the numbers of
mishaps) are constants of the theorems too: these hold for each value of them.

## Plan

Modelled in this order: the controller and its protocol, the hub, the lock; the
devices, the store, the life cycle, the workspace, the screens. Proved: the
safety properties of all. What is left:

1. A run for the failure that joins the task of an ended session, and one for the
   deletion that lets go of a run, when a release of the code handles them.
2. The pure transition functions of `experiment-machine.ts`, which the server
   does not call.

## Not modelled

Preflight, the verifiers of releases, the scans of bundles, health checks and
form audits: functions of files that keep no state; they appear as steps that
may fail. Rendering, form fields, the countdown and the public demo. Tokens,
origins, headers and body validation of the HTTP API, and the device routes but
the stop, whose operations are in `SessionController`. The parsing of values in
schemas; the CSV export. The order design that operators choose by hand, for
which the code promises nothing.
