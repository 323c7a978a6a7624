----------------------------- MODULE DataStore -----------------------------
(***************************************************************************)
(* The data of the experiment: the session logs                            *)
(* (src/server/logging/experiment-log.ts), the registry of research ids    *)
(* (research-id-registry.ts), the order allocation that reads the logs     *)
(* (src/shared/conditions.ts) and the lifecycle tool that lists the logs   *)
(* of an id (data-lifecycle.ts).  The session controller appears with what *)
(* it stores and what it waits for.  The server may die between any two    *)
(* steps; while it is down logs or parts of the registry may get lost.     *)
(***************************************************************************)
EXTENDS Naturals, Sequences, FiniteSets

CONSTANTS
  Ids, Sessions, Orders,
  Nobody, Torn,     \* of a record: there is none, it has no content
  Part,             \* of a log: a line that was cut off
  None,
  MaxMishaps,       \* crashes and failing writes
  MaxLog            \* the events of a session

ASSUME StoreAssumption ==
  /\ {Nobody, Torn, None} \intersect Sessions = {} /\ Nobody # Torn
  /\ IsFiniteSet(Orders) /\ Orders # {}
  /\ MaxMishaps \in Nat /\ MaxLog \in Nat \ {0}

VARIABLES
  \* The disk.
  anchor, registry,   \* the anchor file and the directory of the registry
  record,             \* the reservation of each id
  log,                \* the log of each session
  \* The server.
  server, healthy,    \* healthy: auditStorageHealthy
  known,              \* the ids of the sessions it knows
  creation,           \* the creation under way
  awaiting,           \* the writes the reader of the logs waits for
  active, run,        \* the active session and how far it is
  queue,              \* the events that are being appended to each log
  \* The lifecycle tool, and what has been.
  plan,
  drawn,              \* the id and the order of each session
  created,            \* the sessions whose creation was ever logged
  lost,               \* what has been lost
  mishaps

disk == <<anchor, registry, record, log>>
memory == <<server, healthy, known, creation, awaiting, active, run, queue>>
past == <<drawn, created, lost, mishaps>>
vars == <<disk, memory, plan, past>>

Results == {"none", "ok", "aborted", "error"}
\* What an event says of its session.
Events == [shown : BOOLEAN, result : Results]

\* What is not there is never mistaken for what is.
ASSUME StoreValues == Part \notin Events /\ None \notin [id : Ids, order : Orders]

Scans == {"scan", "rescan", "allocate"}
Steps == Scans \union {"none", "lookup", "recheck", "anchor", "fill", "mkdir", "record",
                       "content", "append"}

NoRun == [shown |-> FALSE, result |-> "none", waits |-> 0]
NoCreation == [step |-> "none", id |-> Nobody, order |-> None]

TypeOK ==
  /\ anchor \in {"none", "torn", "whole"} /\ registry \in BOOLEAN
  /\ record \in [Ids -> Sessions \union {Nobody, Torn}]
  /\ \A s \in Sessions : \A i \in DOMAIN log[s] : log[s][i] \in Events \union {Part}
  /\ server \in {"down", "up"} /\ healthy \in BOOLEAN
  /\ known \subseteq Ids
  /\ creation \in [step : Steps, id : Ids \union {Nobody}, order : Orders \union {None}]
  /\ awaiting \in [Sessions -> 0 .. MaxLog]
  /\ active \in Sessions \union {None}
  /\ run \in [shown : BOOLEAN, result : Results, waits : 0 .. MaxLog]
  /\ \A s \in Sessions : \A i \in DOMAIN queue[s] : queue[s][i] \in Events
  /\ \A s \in Sessions : Len(log[s]) + Len(queue[s]) <= MaxLog
  /\ plan = None \/ plan \in [id : Ids, left : SUBSET Sessions, found : SUBSET Sessions,
                              all : SUBSET Sessions]
  /\ drawn \in [Sessions -> [id : Ids, order : Orders] \union {None}]
  /\ created \subseteq Sessions
  /\ lost \in {"nothing", "logs", "registry"}
  /\ mishaps \in 0 .. MaxMishaps

Init ==
  /\ anchor = "none" /\ registry = FALSE
  /\ record = [i \in Ids |-> Nobody]
  /\ log = [s \in Sessions |-> <<>>]
  /\ server = "down" /\ healthy = TRUE /\ known = {}
  /\ creation = NoCreation
  /\ awaiting = [s \in Sessions |-> 0]
  /\ active = None /\ run = NoRun
  /\ queue = [s \in Sessions |-> <<>>]
  /\ plan = None
  /\ drawn = [s \in Sessions |-> None]
  /\ created = {} /\ lost = "nothing" /\ mishaps = 0

-----------------------------------------------------------------------------
(* What is read from the disk.                                             *)

Lines(s) == {log[s][i] : i \in DOMAIN log[s]}
Logged == {s \in Sessions : log[s] # <<>>}

\* parseLogEvent fails on a line that was cut off.
Readable(s) == Part \notin Lines(s)

\* resolveInitializedRegistry throws: the anchor is not what it should be, or
\* only one of anchor and registry exists.
Incomplete == anchor = "torn" \/ ((anchor = "whole") # registry)

\* listSessionSummaries: what the last event with a result says.
ResultOf(s) ==
  LET told == {i \in DOMAIN log[s] : log[s][i] # Part /\ log[s][i].result # "none"}
  IN IF told = {} THEN "none"
     ELSE log[s][CHOOSE i \in told : \A j \in told : j <= i].result

Started(s) == \E e \in Lines(s) : e # Part /\ e.shown

\* Mutant: a session without a result is still under way, and is not counted.
CountsWhenEnded(s) == ResultOf(s) = "ok" \/ (ResultOf(s) = "aborted" /\ Started(s))

\* countOrderUsage, where aborted sessions count.
CountsAsUsed(s) == ResultOf(s) = "ok" \/ (ResultOf(s) \in {"aborted", "none"} /\ Started(s))

Usage(o) == Cardinality({s \in Logged : drawn[s].order = o /\ CountsAsUsed(s)})

\* allocateOrder.  The orders that operators choose by hand, for which nothing is
\* promised, are left out.
Candidates == {o \in Orders : \A p \in Orders : Usage(o) <= Usage(p)}

\* Mutant: the registry alone is asked.
NeverInLogs(i) == FALSE

\* What a session that was read says of its id.
UsedInLogs(i) == \E s \in Logged : drawn[s].id = i

-----------------------------------------------------------------------------
(* The creation of a session.                                              *)

To(step) == creation' = [creation EXCEPT !.step = step]
CreationEnds == creation' = NoCreation

\* The logs are read once the writes under way have ended.
ToScan(step) ==
  /\ To(step)
  /\ awaiting' = [s \in Sessions |-> Len(queue[s])]

CreateBegin(i) ==
  /\ server = "up" /\ healthy
  /\ active = None /\ creation = NoCreation
  /\ i \notin known
  /\ creation' = [NoCreation EXCEPT !.step = "lookup", !.id = i]
  /\ UNCHANGED <<disk, server, healthy, known, awaiting, active, run, queue, plan, past>>

\* hasReservedResearchId, in create and again in reserveResearchId.
Lookup ==
  /\ creation.step \in {"lookup", "recheck"}
  /\ IF Incomplete \/ record[creation.id] # Nobody
     THEN CreationEnds /\ UNCHANGED awaiting
     ELSE ToScan(IF creation.step = "lookup" THEN "scan" ELSE "rescan")
  /\ UNCHANGED <<disk, server, healthy, known, active, run, queue, plan, past>>

\* listEvents fails on a line it cannot parse, and when a log changes under it.
ScanFails ==
  /\ creation.step \in Scans
  /\ (\E s \in Logged : ~Readable(s)) \/ (\E s \in Sessions : queue[s] # <<>>)
  /\ CreationEnds
  /\ UNCHANGED <<disk, server, healthy, known, awaiting, active, run, queue, plan, past>>

Scanned == (\A s \in Sessions : awaiting[s] = 0) /\ (\A s \in Logged : Readable(s))

\* hasResearchId: no event of the id, either.  The order is allocated next, or the
\* registry is turned to.
ScanForId ==
  /\ creation.step \in {"scan", "rescan"} /\ Scanned
  /\ \/ UsedInLogs(creation.id) /\ CreationEnds /\ UNCHANGED awaiting
     \/ /\ ~UsedInLogs(creation.id) /\ creation.step = "scan"
        /\ ToScan("allocate")
     \/ /\ ~UsedInLogs(creation.id) /\ creation.step = "rescan"
        /\ To("anchor")
        /\ UNCHANGED awaiting
  /\ UNCHANGED <<disk, server, healthy, known, active, run, queue, plan, past>>

Allocate ==
  /\ creation.step = "allocate" /\ Scanned
  /\ \E o \in Candidates : creation' = [creation EXCEPT !.step = "recheck", !.order = o]
  /\ UNCHANGED <<disk, server, healthy, known, awaiting, active, run, queue, plan, past>>

\* ensureInitializedRegistry: the anchor is created exclusively, then written,
\* then the directory is made.
Initialize ==
  /\ \/ /\ creation.step = "anchor"
        /\ CASE Incomplete -> CreationEnds /\ UNCHANGED <<anchor, registry>>
             [] ~Incomplete /\ registry -> To("record") /\ UNCHANGED <<anchor, registry>>
             [] OTHER -> anchor' = "torn" /\ To("fill") /\ UNCHANGED registry
     \/ creation.step = "fill" /\ anchor' = "whole" /\ To("mkdir") /\ UNCHANGED registry
     \/ creation.step = "mkdir" /\ registry' = TRUE /\ To("record") /\ UNCHANGED anchor
  /\ UNCHANGED <<record, log, server, healthy, known, awaiting, active, run, queue, plan, past>>

\* writeExclusiveStableFile, of the reservation: the file is created ...
CreateRecord ==
  /\ creation.step = "record"
  /\ IF record[creation.id] # Nobody
     THEN CreationEnds /\ UNCHANGED record
     ELSE record' = [record EXCEPT ![creation.id] = Torn] /\ To("content")
  /\ UNCHANGED <<anchor, registry, log, server, healthy, known, awaiting, active, run,
                 queue, plan, past>>

\* ... and written; the session becomes the active one, and its creation is
\* appended to its log.
WriteRecord(s) ==
  /\ creation.step = "content"
  /\ drawn[s] = None
  /\ drawn' = [drawn EXCEPT ![s] = [id |-> creation.id, order |-> creation.order]]
  /\ record' = [record EXCEPT ![creation.id] = s]
  /\ known' = known \union {creation.id}
  /\ active' = s /\ run' = NoRun
  /\ queue' = [queue EXCEPT ![s] = <<[shown |-> FALSE, result |-> "none"]>>]
  /\ To("append")
  /\ UNCHANGED <<anchor, registry, log, server, healthy, awaiting, plan, created, lost, mishaps>>

\* A file of the registry cannot be written.
RegistryWriteFails ==
  /\ creation.step \in {"fill", "mkdir", "content"}
  /\ mishaps < MaxMishaps /\ mishaps' = mishaps + 1
  /\ CreationEnds
  /\ UNCHANGED <<disk, server, healthy, known, awaiting, active, run, queue, plan, drawn,
                 created, lost>>

-----------------------------------------------------------------------------
(* The active session.                                                     *)

\* audit: the state of the session is appended to what is being written.
Audit(shown, result) ==
  /\ Len(log[active]) + Len(queue[active]) < MaxLog
  /\ queue' = [queue EXCEPT ![active] = Append(@, [shown |-> shown, result |-> result])]

AuditOnly ==
  UNCHANGED <<disk, server, healthy, known, creation, awaiting, active, plan, past>>

\* The first presentation begins.
Show ==
  /\ active # None /\ creation = NoCreation
  /\ run.result = "none" /\ ~run.shown
  /\ Audit(TRUE, "none")
  /\ run' = [run EXCEPT !.shown = TRUE]
  /\ AuditOnly

\* The run ends: handed off, aborted, or failed, after which it is aborted.
End(result) ==
  /\ active # None
  /\ \/ result = "ok" /\ run.result = "none" /\ run.shown
     \/ result = "aborted" /\ run.result \in {"none", "error"}
     \/ result = "error" /\ run.result = "none"
  /\ Audit(run.shown, result)
  /\ run' = [run EXCEPT !.result = result, !.waits = Len(queue[active]) + 1]
  /\ AuditOnly

\* An event of the device.
Note ==
  /\ active # None
  /\ Audit(run.shown, run.result)
  /\ UNCHANGED run
  /\ AuditOnly

\* Mutant: whether the audit was saved is not looked at.
LetGoUnsaved ==
  /\ active # None /\ creation = NoCreation
  /\ run.result \in {"ok", "aborted"} /\ run.waits = 0
  /\ active' = None /\ run' = NoRun
  /\ UNCHANGED <<disk, server, healthy, known, creation, awaiting, queue, plan, past>>

\* The session is let go once its end has been saved: requireAuditStorageHealthy
\* after the audit has settled.
LetGo ==
  /\ active # None /\ creation = NoCreation
  /\ run.result \in {"ok", "aborted"} /\ run.waits = 0
  /\ healthy
  /\ active' = None /\ run' = NoRun
  /\ UNCHANGED <<disk, server, healthy, known, creation, awaiting, queue, plan, past>>

\* A session in setup is deleted; its log and its reservation stay.
DeleteSetup ==
  /\ active # None /\ creation = NoCreation
  /\ run.result = "none" /\ ~run.shown
  /\ Audit(FALSE, "none")
  /\ known' = known \ {drawn[active].id}
  /\ active' = None /\ run' = NoRun
  /\ UNCHANGED <<disk, server, healthy, creation, awaiting, plan, past>>

-----------------------------------------------------------------------------
(* The writes.                                                             *)

Less(n) == IF n = 0 THEN 0 ELSE n - 1

\* ensureEventReservation: the session must own its reservation.
OwnsReservation(s) == ~Incomplete /\ record[drawn[s].id] = s

\* openSecureLogFile: a new file, or the end of the one there is.
Appended(s, e) == [log EXCEPT ![s] = Append(@, e)]

\* Mutant: they do not wait for one another.
AnyToWrite(s) == DOMAIN queue[s]

\* Which of the events of a log is written next: each waits for the one before.
NextToWrite(s) == {1}

\* append.
Write(s) ==
  /\ queue[s] # <<>>
  /\ OwnsReservation(s)
  /\ \E i \in NextToWrite(s) :
       /\ log' = Appended(s, queue[s][i])
       /\ queue' = [queue EXCEPT ![s] = SubSeq(@, 1, i - 1) \o SubSeq(@, i + 1, Len(@))]
  /\ created' = created \union {s}
  /\ awaiting' = [awaiting EXCEPT ![s] = Less(@)]
  /\ run' = IF s = active THEN [run EXCEPT !.waits = Less(@)] ELSE run
  /\ IF s = active /\ creation.step = "append" THEN CreationEnds ELSE UNCHANGED creation
  /\ UNCHANGED <<anchor, registry, record, server, healthy, known, active, plan, drawn, lost, mishaps>>

\* A write fails, with part of its line on the disk or nothing.  The events
\* behind it are rejected with it, a reader that waits for it fails, and so does
\* the creation of the session.
WriteFails(s, left) ==
  LET undone == s = active /\ creation.step = "append"
      reading == creation.step \in Scans /\ awaiting[s] # 0
  IN
  /\ queue[s] # <<>>
  /\ mishaps < MaxMishaps /\ mishaps' = mishaps + 1
  /\ log' = [log EXCEPT ![s] = @ \o left]
  /\ queue' = [queue EXCEPT ![s] = <<>>]
  /\ healthy' = FALSE
  /\ awaiting' = [awaiting EXCEPT ![s] = 0]
  /\ IF undone \/ reading THEN CreationEnds ELSE UNCHANGED creation
  /\ IF undone
     THEN active' = None /\ run' = NoRun /\ known' = known \ {drawn[s].id}
     ELSE /\ run' = IF s = active THEN [run EXCEPT !.waits = 0] ELSE run
          /\ UNCHANGED <<active, known>>
  /\ UNCHANGED <<anchor, registry, record, server, plan, drawn, created, lost>>

-----------------------------------------------------------------------------
(* Starts, crashes and losses.                                             *)

\* A server starts only if it can read every log.
StartServer ==
  /\ server = "down"
  /\ \A s \in Logged : Readable(s)
  /\ server' = "up"
  /\ UNCHANGED <<disk, healthy, known, creation, awaiting, active, run, queue, plan, past>>

\* It dies, and may leave a line or part of one that it was writing.
Crash ==
  /\ server = "up"
  /\ mishaps < MaxMishaps /\ mishaps' = mishaps + 1
  /\ server' = "down"
  /\ \/ UNCHANGED <<log, created>>
     \/ \E s \in Sessions :
          /\ queue[s] # <<>>
          /\ \/ log' = Appended(s, Part) /\ UNCHANGED created
             \/ /\ log' = Appended(s, Head(queue[s]))
                /\ created' = created \union {s}
  /\ healthy' = TRUE /\ known' = {} /\ creation' = NoCreation
  /\ awaiting' = [s \in Sessions |-> 0]
  /\ active' = None /\ run' = NoRun
  /\ queue' = [s \in Sessions |-> <<>>]
  /\ UNCHANGED <<anchor, registry, record, plan, drawn, lost>>

\* Logs are moved away, or the registry or parts of it get lost.
Lose(what) ==
  /\ server = "down"
  /\ lost \in {"nothing", what} /\ lost' = what
  /\ \/ /\ what = "logs"
        /\ \E s \in Logged : log' = [log EXCEPT ![s] = <<>>]
        /\ UNCHANGED <<anchor, registry, record>>
     \/ /\ what = "registry"
        /\ \/ \E i \in Ids : record' = [record EXCEPT ![i] = Nobody]
              /\ UNCHANGED <<anchor, registry>>
           \/ anchor' = "none" /\ UNCHANGED <<registry, record>>
           \/ registry' = FALSE /\ record' = [i \in Ids |-> Nobody] /\ UNCHANGED anchor
           \/ anchor' = "none" /\ registry' = FALSE /\ record' = [i \in Ids |-> Nobody]
        /\ UNCHANGED log
  /\ UNCHANGED <<memory, plan, drawn, created, mishaps>>

-----------------------------------------------------------------------------
(* The lifecycle tool lists the logs of an id, file by file.               *)

PlanBegin(i) ==
  /\ plan = None
  /\ plan' = [id |-> i, left |-> Logged, found |-> {},
              all |-> {s \in Logged : drawn[s].id = i}]
  /\ UNCHANGED <<disk, memory, past>>

\* Mutant: a file that cannot be inspected is left out.
InspectReadable(s) ==
  /\ plan # None /\ s \in plan.left
  /\ plan' = [plan EXCEPT !.left = @ \ {s},
                          !.found = @ \union IF drawn[s].id = plan.id /\ Readable(s)
                                             THEN {s} ELSE {}]
  /\ UNCHANGED <<disk, memory, past>>

\* inspectLog.
Inspect(s) ==
  /\ plan # None /\ s \in plan.left
  /\ Readable(s) /\ log[s] # <<>>
  /\ plan' = [plan EXCEPT !.left = @ \ {s},
                          !.found = @ \union IF drawn[s].id = plan.id THEN {s} ELSE {}]
  /\ UNCHANGED <<disk, memory, past>>

\* It cannot be parsed, has gone, or changes under the tool: there is no plan.
PlanRefused ==
  /\ plan # None
  /\ \E s \in plan.left : ~Readable(s) \/ log[s] = <<>> \/ queue[s] # <<>>
  /\ plan' = None
  /\ UNCHANGED <<disk, memory, past>>

PlanShown ==
  /\ plan # None /\ plan.left = {}
  /\ plan' = None
  /\ UNCHANGED <<disk, memory, past>>

-----------------------------------------------------------------------------

Create ==
  \/ \E i \in Ids : CreateBegin(i)
  \/ Lookup \/ ScanFails \/ ScanForId \/ Allocate \/ Initialize \/ CreateRecord
  \/ \E s \in Sessions : WriteRecord(s)
  \/ RegistryWriteFails

Next ==
  \/ Create
  \/ Show \/ Note \/ LetGo \/ DeleteSetup
  \/ \E result \in Results : End(result)
  \/ \E s \in Sessions : Write(s) \/ \E left \in {<<>>, <<Part>>} : WriteFails(s, left)
  \/ StartServer \/ Crash
  \/ \E what \in {"logs", "registry"} : Lose(what)
  \/ \E i \in Ids : PlanBegin(i)
  \/ \E s \in Sessions : Inspect(s)
  \/ PlanRefused \/ PlanShown

Spec == Init /\ [][Next]_vars

-----------------------------------------------------------------------------
(* Correctness.                                                            *)

\* A research id belongs for ever to the first session that was created under
\* it, through crashes and when either the logs or the registry get lost.
Owned == INSTANCE ResearchIds WITH
  Nobody <- {}, Sessions <- {{s} : s \in Sessions},
  owner <- [i \in Ids |-> {s \in created : drawn[s].id = i}]
ImplementsIds == Owned!Spec

\* What a log tells of its session never goes back: its events are in the order
\* in which they happened, whatever else was being written at the time.
LogInOrder ==
  \A s \in Sessions : \A i, j \in DOMAIN log[s] :
    i < j /\ log[s][i] # Part /\ log[s][j] # Part =>
      /\ log[s][i].shown => log[s][j].shown
      /\ log[s][i].result \in {"ok", "aborted"} => log[s][j].result = log[s][i].result
      /\ log[s][i].result = "error" => log[s][j].result \in {"error", "aborted"}

\* When a session that has ended gives way to the next one, its end is in its log.
EndsAreRecorded ==
  [][active # None /\ active' = None /\ server' = "up" /\ run.result # "none"
       /\ creation.step # "append"
     => ResultOf(active) = run.result]_vars

\* Automatic allocation keeps the orders balanced: with no log taken away, the
\* numbers of runs that have shown anything and have not failed differ by one at
\* most, whichever of them crashes have cut short.
OrdersBalanced ==
  LET Runs(o) == {s \in Logged : drawn[s].order = o /\ Started(s) /\ ResultOf(s) # "error"}
  IN lost # "logs" =>
       \A o, p \in Orders : Cardinality(Runs(o)) <= Cardinality(Runs(p)) + 1

\* A plan for an id lists every log that was there under it, of one session.
PlanIsExact ==
  plan # None /\ plan.left = {} => plan.found = plan.all /\ Cardinality(plan.found) <= 1

=============================================================================
