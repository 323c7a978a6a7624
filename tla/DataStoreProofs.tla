-------------------------- MODULE DataStoreProofs --------------------------
(***************************************************************************)
(* The data of the experiment, for every set of ids, sessions and orders,  *)
(* every length of the logs and any number of mishaps.  What the runs      *)
(* check is not inductive by itself: an id is not given twice because of   *)
(* what the reservations, the creation in progress, the listed records and *)
(* the plan of the audit say of it together (IdsInv); a log is in order    *)
(* because what is written, what waits in its queue and what the server    *)
(* remembers of its session are one story (EventsInOrder); the orders stay *)
(* balanced because the one being drawn was among the fewest when the      *)
(* audit counted them (Balance).                                           *)
(***************************************************************************)
EXTENDS DataStore, SequenceTheorems, FiniteSetTheorems, TLAPS

-----------------------------------------------------------------------------
(* Types.                                                                  *)

DiskTypes ==
  /\ anchor \in {"none", "torn", "whole"} /\ registry \in BOOLEAN
  /\ record \in [Ids -> Sessions \union {Nobody, Torn}]

CreationTypes ==
  /\ server \in {"down", "up"} /\ healthy \in BOOLEAN /\ known \subseteq Ids
  /\ creation \in [step : Steps, id : Ids \union {Nobody}, order : Orders \union {None}]
  /\ creation.step # "none" => creation.id \in Ids
  /\ creation.step \notin Scans \union {"none", "lookup"} => creation.order \in Orders
  /\ creation.step = "rescan" => creation.order \in Orders

\* How far a session is.
Runs == [shown : BOOLEAN, result : Results, waits : Nat]

LogTypes ==
  /\ log \in [Sessions -> Seq(Events \union {Part})]
  /\ queue \in [Sessions -> Seq(Events)]
  /\ awaiting \in [Sessions -> Nat]
  /\ active \in Sessions \union {None}
  /\ run \in Runs

PastTypes ==
  /\ plan = None \/ plan \in [id : Ids, left : SUBSET Sessions, found : SUBSET Sessions,
                              all : SUBSET Sessions]
  /\ drawn \in [Sessions -> [id : Ids, order : Orders] \union {None}]
  /\ created \subseteq Sessions
  /\ lost \in {"nothing", "logs", "registry"}
  /\ mishaps \in 0 .. MaxMishaps

\* The bounds of the model hold of what is counted.
Bounded ==
  /\ \A s \in Sessions : Len(log[s]) + Len(queue[s]) <= MaxLog /\ awaiting[s] <= MaxLog
  /\ run.waits <= MaxLog

StoreTypes == DiskTypes /\ CreationTypes /\ LogTypes /\ PastTypes

-----------------------------------------------------------------------------
(* The first event of a queue goes to the end of the log.                  *)

\* What is left of a queue after its first event.
LEMMA RestOfQueue ==
  ASSUME NEW T, NEW q \in Seq(T), q # <<>>
  PROVE  /\ SubSeq(q, 1, 1 - 1) \o SubSeq(q, 1 + 1, Len(q)) = Tail(q)
         /\ Tail(q) \in Seq(T) /\ Len(Tail(q)) = Len(q) - 1
         /\ \A i \in DOMAIN Tail(q) : i + 1 \in DOMAIN q /\ Tail(q)[i] = q[i + 1]
         /\ 1 \in DOMAIN q /\ q[1] \in T /\ Head(q) = q[1]
<1>1. SubSeq(q, 1, 0) = <<>>
  BY SubSeqEmpty, LenProperties
<1>2. Tail(q) \in Seq(T) /\ Len(Tail(q)) = Len(q) - 1
  BY HeadTailProperties
<1>3. SubSeq(q, 2, Len(q)) = Tail(q)
  BY TailIsSubSeq
<1>4. <<>> \o Tail(q) = Tail(q)
  BY <1>2, ConcatEmptySeq
<1>5. \A i \in DOMAIN Tail(q) : i + 1 \in DOMAIN q /\ Tail(q)[i] = q[i + 1]
  BY <1>2, HeadTailProperties, LenProperties
<1>6. 1 \in DOMAIN q /\ q[1] \in T /\ Head(q) = q[1]
  BY LenProperties, HeadTailProperties, EmptySeq, ElementOfSeq
<1> QED
  BY <1>1, <1>2, <1>3, <1>4, <1>5, <1>6

\* A log with one line more.
LEMMA LineAdded ==
  ASSUME NEW T, NEW q \in Seq(T), NEW e \in T
  PROVE  /\ Append(q, e) \in Seq(T) /\ Len(Append(q, e)) = Len(q) + 1
         /\ DOMAIN Append(q, e) = DOMAIN q \union {Len(q) + 1}
         /\ DOMAIN q = 1 .. Len(q) /\ Len(q) \in Nat
         /\ \A i \in DOMAIN q : Append(q, e)[i] = q[i]
         /\ Append(q, e)[Len(q) + 1] = e
  BY AppendProperties, LenProperties

\* What a failing write leaves of its line.
LEMMA LineLeft ==
  ASSUME NEW T, NEW q \in Seq(T), NEW e \in T, NEW left \in {<<>>, <<e>>}
  PROVE  (q \o left = q) \/ (q \o left = Append(q, e))
  BY ConcatEmptySeq, AppendIsConcat

-----------------------------------------------------------------------------
(* The steps that touch neither a log nor a session.                       *)

Asking ==
  \/ \E i \in Ids : CreateBegin(i)
  \/ Lookup \/ ScanFails \/ ScanForId \/ Allocate \/ Initialize \/ CreateRecord
  \/ RegistryWriteFails

Planning ==
  \/ \E i \in Ids : PlanBegin(i)
  \/ \E s \in Sessions : Inspect(s)
  \/ PlanRefused \/ PlanShown

sessions == <<log, queue, active, run, drawn, created, lost>>

LEMMA AskingIsQuiet == Asking => UNCHANGED <<sessions, server, healthy, known, plan>>
  BY DEF Asking, CreateBegin, Lookup, ScanFails, ScanForId, Allocate, Initialize, CreateRecord,
         RegistryWriteFails, sessions, disk, past

LEMMA PlanningIsQuiet == Planning => UNCHANGED <<disk, memory, past>>
  BY DEF Planning, PlanBegin, Inspect, PlanRefused, PlanShown

\* The steps that do.
LEMMA StepsOfStore ==
  ASSUME Next
  PROVE  \/ Asking \/ Planning \/ StartServer
         \/ \E s \in Sessions : WriteRecord(s)
         \/ Show \/ Note \/ LetGo \/ DeleteSetup
         \/ \E result \in Results : End(result)
         \/ \E s \in Sessions : Write(s)
         \/ \E s \in Sessions, left \in {<<>>, <<Part>>} : WriteFails(s, left)
         \/ Crash
         \/ \E what \in {"logs", "registry"} : Lose(what)
  BY DEF Next, Create, Asking, Planning

-----------------------------------------------------------------------------
(* The types are kept.                                                     *)

LEMMA RunsTyped ==
  /\ NoRun \in Runs
  /\ \A r \in Runs : /\ [r EXCEPT !.shown = TRUE] \in Runs
                     /\ \A n \in Nat : [r EXCEPT !.waits = n] \in Runs
  BY DEF NoRun, Results, Runs

LEMMA TypesAtFirst == Init => StoreTypes /\ Bounded
<1> SUFFICES ASSUME Init PROVE StoreTypes /\ Bounded
  OBVIOUS
<1> USE DEF Init
<1>1. DiskTypes
  BY DEF DiskTypes
<1>2. CreationTypes
  BY DEF CreationTypes, NoCreation, Steps, Scans
<1>3. LogTypes
  <2>1. \A T : <<>> \in Seq(T)
    BY EmptySeq
  <2> QED
    BY <2>1, RunsTyped DEF LogTypes
<1>4. PastTypes
  BY StoreAssumption DEF PastTypes
<1>5. Bounded
  BY StoreAssumption, EmptySeq DEF Bounded, NoRun
<1> QED
  BY <1>1, <1>2, <1>3, <1>4, <1>5 DEF StoreTypes

LEMMA DiskTypesKept == ASSUME StoreTypes, Next PROVE DiskTypes'
<1> USE DEF StoreTypes, DiskTypes
<1>1. CASE Asking
  BY <1>1 DEF Asking, CreateBegin, Lookup, ScanFails, ScanForId, Allocate, Initialize,
              CreateRecord, RegistryWriteFails, disk
<1>2. CASE Planning \/ StartServer \/ Show \/ Note \/ LetGo \/ DeleteSetup
  BY <1>2, PlanningIsQuiet DEF StartServer, Show, Note, LetGo, DeleteSetup, AuditOnly, disk
<1>3. ASSUME NEW s \in Sessions, WriteRecord(s) PROVE DiskTypes'
  BY <1>3 DEF WriteRecord
<1>4. ASSUME NEW result \in Results, End(result) PROVE DiskTypes'
  BY <1>4 DEF End, AuditOnly, disk
<1>5. ASSUME NEW s \in Sessions, Write(s) PROVE DiskTypes'
  BY <1>5 DEF Write
<1>6. ASSUME NEW s \in Sessions, NEW left \in {<<>>, <<Part>>}, WriteFails(s, left) PROVE DiskTypes'
  BY <1>6 DEF WriteFails
<1>7. CASE Crash
  BY <1>7 DEF Crash
<1>8. ASSUME NEW what \in {"logs", "registry"}, Lose(what) PROVE DiskTypes'
  BY <1>8 DEF Lose
<1> QED
  BY <1>1, <1>2, <1>3, <1>4, <1>5, <1>6, <1>7, <1>8, StepsOfStore

LEMMA PastTypesKept == ASSUME StoreTypes, Next PROVE PastTypes'
<1> USE StoreAssumption DEF StoreTypes, PastTypes
<1>1. CASE Asking
  <2>1. mishaps' = mishaps \/ (mishaps < MaxMishaps /\ mishaps' = mishaps + 1)
    BY <1>1 DEF Asking, CreateBegin, Lookup, ScanFails, ScanForId, Allocate, Initialize,
                CreateRecord, RegistryWriteFails, past
  <2>2. UNCHANGED <<plan, drawn, created, lost>>
    BY <1>1, AskingIsQuiet DEF sessions
  <2> QED
    BY <2>1, <2>2
<1>2. CASE Planning
  <2>1. UNCHANGED past
    BY <1>2, PlanningIsQuiet
  <2>2. plan' = None \/ plan' \in [id : Ids, left : SUBSET Sessions, found : SUBSET Sessions,
                                   all : SUBSET Sessions]
    <3>1. ASSUME NEW i \in Ids, PlanBegin(i)
          PROVE  plan' \in [id : Ids, left : SUBSET Sessions, found : SUBSET Sessions,
                            all : SUBSET Sessions]
      BY <3>1 DEF PlanBegin, Logged
    <3>2. ASSUME NEW s \in Sessions, Inspect(s)
          PROVE  plan' \in [id : Ids, left : SUBSET Sessions, found : SUBSET Sessions,
                            all : SUBSET Sessions]
      BY <3>2 DEF Inspect
    <3> QED
      BY <1>2, <3>1, <3>2 DEF Planning, PlanRefused, PlanShown
  <2> QED
    BY <2>1, <2>2 DEF past
<1>3. CASE StartServer \/ Show \/ Note \/ LetGo \/ DeleteSetup
  BY <1>3 DEF StartServer, Show, Note, LetGo, DeleteSetup, AuditOnly, past
<1>4. ASSUME NEW s \in Sessions, WriteRecord(s) PROVE PastTypes'
  <2>1. creation.id \in Ids /\ creation.order \in Orders
    BY <1>4 DEF WriteRecord, CreationTypes, Scans
  <2> QED
    BY <1>4, <2>1 DEF WriteRecord
<1>5. ASSUME NEW result \in Results, End(result) PROVE PastTypes'
  BY <1>5 DEF End, AuditOnly, past
<1>6. ASSUME NEW s \in Sessions, Write(s) PROVE PastTypes'
  BY <1>6 DEF Write
<1>7. ASSUME NEW s \in Sessions, NEW left \in {<<>>, <<Part>>}, WriteFails(s, left) PROVE PastTypes'
  BY <1>7 DEF WriteFails
<1>8. CASE Crash
  BY <1>8 DEF Crash
<1>9. ASSUME NEW what \in {"logs", "registry"}, Lose(what) PROVE PastTypes'
  BY <1>9 DEF Lose
<1> QED
  BY <1>1, <1>2, <1>3, <1>4, <1>5, <1>6, <1>7, <1>8, <1>9, StepsOfStore

LEMMA CreationTypesKept == ASSUME StoreTypes, Next PROVE CreationTypes'
<1> USE DEF StoreTypes, CreationTypes, NoCreation, Scans, Steps, To, CreationEnds, ToScan
<1>1. CASE Asking
  <2>1. UNCHANGED <<server, healthy, known>>
    BY <1>1, AskingIsQuiet
  <2>2. ASSUME NEW i \in Ids, CreateBegin(i) PROVE CreationTypes'
    BY <2>1, <2>2 DEF CreateBegin
  <2>3. CASE Lookup \/ ScanFails \/ ScanForId
    BY <2>1, <2>3 DEF Lookup, ScanFails, ScanForId
  <2>4. CASE Allocate
    BY <2>1, <2>4 DEF Allocate, Candidates
  <2>5. CASE Initialize \/ CreateRecord \/ RegistryWriteFails
    BY <2>1, <2>5 DEF Initialize, CreateRecord, RegistryWriteFails
  <2> QED
    BY <1>1, <2>2, <2>3, <2>4, <2>5 DEF Asking
<1>2. CASE Planning \/ StartServer \/ Show \/ Note \/ LetGo \/ DeleteSetup
  BY <1>2, PlanningIsQuiet DEF StartServer, Show, Note, LetGo, DeleteSetup, AuditOnly, memory
<1>3. ASSUME NEW s \in Sessions, WriteRecord(s) PROVE CreationTypes'
  BY <1>3 DEF WriteRecord
<1>4. ASSUME NEW result \in Results, End(result) PROVE CreationTypes'
  BY <1>4 DEF End, AuditOnly
<1>5. ASSUME NEW s \in Sessions, Write(s) PROVE CreationTypes'
  BY <1>5 DEF Write
<1>6. ASSUME NEW s \in Sessions, NEW left \in {<<>>, <<Part>>}, WriteFails(s, left)
      PROVE  CreationTypes'
  <2>1. creation' = creation \/ creation' = NoCreation
    BY <1>6 DEF WriteFails
  <2>2. known' \subseteq known /\ healthy' = FALSE /\ server' = server
    BY <1>6 DEF WriteFails
  <2>3. /\ NoCreation.step = "none"
        /\ NoCreation \in [step : Steps, id : Ids \union {Nobody}, order : Orders \union {None}]
    OBVIOUS
  <2>4. /\ healthy' \in BOOLEAN /\ server' \in {"down", "up"} /\ known' \subseteq Ids
    BY <2>2
  <2> HIDE DEF NoCreation
  <2> QED
    BY <2>1, <2>3, <2>4
<1>7. CASE Crash
  BY <1>7 DEF Crash
<1>8. ASSUME NEW what \in {"logs", "registry"}, Lose(what) PROVE CreationTypes'
  BY <1>8 DEF Lose, memory
<1> QED
  BY <1>1, <1>2, <1>3, <1>4, <1>5, <1>6, <1>7, <1>8, StepsOfStore

-----------------------------------------------------------------------------
(* What the steps of a session do to its log and its queue.                *)

\* An audit adds one event to the queue of the active session.
LEMMA AuditAdds ==
  ASSUME StoreTypes, active # None, NEW shown \in BOOLEAN, NEW result \in Results,
         Audit(shown, result)
  PROVE  LET e == [shown |-> shown, result |-> result] IN
         /\ active \in Sessions /\ e \in Events
         /\ queue' \in [Sessions -> Seq(Events)]
         /\ queue'[active] = Append(queue[active], e)
         /\ \A t \in Sessions : t # active => queue'[t] = queue[t]
         /\ Len(log[active]) + Len(queue[active]) < MaxLog
<1> DEFINE e == [shown |-> shown, result |-> result]
<1>1. active \in Sessions /\ e \in Events
  BY DEF StoreTypes, LogTypes, Events
<1>2. queue[active] \in Seq(Events)
  BY <1>1 DEF StoreTypes, LogTypes
<1> HIDE DEF e
<1>3. Append(queue[active], e) \in Seq(Events)
  BY <1>1, <1>2, LineAdded
<1>4. /\ queue' = [queue EXCEPT ![active] = Append(queue[active], e)]
      /\ Len(log[active]) + Len(queue[active]) < MaxLog
  BY DEF Audit, e
<1>5. queue \in [Sessions -> Seq(Events)]
  BY DEF StoreTypes, LogTypes
<1> QED
  BY <1>1, <1>3, <1>4, <1>5 DEF e

\* A write moves the first event of a queue to the end of the log.
LEMMA WriteMoves ==
  ASSUME StoreTypes, NEW s \in Sessions, Write(s)
  PROVE  LET e == queue[s][1] IN
         /\ queue[s] # <<>> /\ 1 \in DOMAIN queue[s] /\ e \in Events /\ e \in Events \union {Part}
         /\ log' \in [Sessions -> Seq(Events \union {Part})]
         /\ queue' \in [Sessions -> Seq(Events)]
         /\ log'[s] = Append(log[s], e)
         /\ queue'[s] = Tail(queue[s])
         /\ Len(log'[s]) = Len(log[s]) + 1 /\ Len(queue'[s]) = Len(queue[s]) - 1
         /\ \A t \in Sessions : t # s => queue'[t] = queue[t] /\ log'[t] = log[t]
<1> DEFINE e == queue[s][1]
<1>1. log \in [Sessions -> Seq(Events \union {Part})] /\ queue \in [Sessions -> Seq(Events)]
  BY DEF StoreTypes, LogTypes
<1>2. log[s] \in Seq(Events \union {Part}) /\ queue[s] \in Seq(Events) /\ queue[s] # <<>>
  BY <1>1 DEF Write
<1>3. 1 \in DOMAIN queue[s] /\ e \in Events
  BY <1>2, RestOfQueue
<1>4. log' = [log EXCEPT ![s] = Append(log[s], e)]
  BY DEF Write, NextToWrite, Appended
<1>5. queue' = [queue EXCEPT ![s] = SubSeq(queue[s], 1, 1 - 1) \o
                                    SubSeq(queue[s], 1 + 1, Len(queue[s]))]
  BY DEF Write, NextToWrite
<1>6. queue' = [queue EXCEPT ![s] = Tail(queue[s])]
  BY <1>2, <1>5, RestOfQueue
<1>7. Tail(queue[s]) \in Seq(Events) /\ Len(Tail(queue[s])) = Len(queue[s]) - 1
  BY <1>2, RestOfQueue
<1> HIDE DEF e
<1>8. /\ Append(log[s], e) \in Seq(Events \union {Part})
      /\ Len(Append(log[s], e)) = Len(log[s]) + 1
  BY <1>2, <1>3, LineAdded
<1> QED
  BY <1>1, <1>2, <1>3, <1>4, <1>6, <1>7, <1>8 DEF e

\* A write that fails empties the queue and may leave part of a line.
LEMMA FailureLeaves ==
  ASSUME StoreTypes, NEW s \in Sessions, NEW left \in {<<>>, <<Part>>}, WriteFails(s, left)
  PROVE  /\ queue[s] # <<>>
         /\ log' \in [Sessions -> Seq(Events \union {Part})]
         /\ queue' \in [Sessions -> Seq(Events)]
         /\ log'[s] = log[s] \/ log'[s] = Append(log[s], Part)
         /\ queue'[s] = <<>>
         /\ \A t \in Sessions : t # s => queue'[t] = queue[t] /\ log'[t] = log[t]
<1>1. log \in [Sessions -> Seq(Events \union {Part})] /\ queue \in [Sessions -> Seq(Events)]
  BY DEF StoreTypes, LogTypes
<1>2. log[s] \in Seq(Events \union {Part}) /\ Part \in Events \union {Part}
  BY <1>1
<1>3. log[s] \o left = log[s] \/ log[s] \o left = Append(log[s], Part)
  BY <1>2, LineLeft
<1>4. Append(log[s], Part) \in Seq(Events \union {Part})
  BY <1>2, LineAdded
<1>5. /\ log' = [log EXCEPT ![s] = log[s] \o left]
      /\ queue' = [queue EXCEPT ![s] = <<>>]
      /\ queue[s] # <<>>
  BY DEF WriteFails
<1>6. <<>> \in Seq(Events)
  BY EmptySeq
<1> QED
  BY <1>1, <1>2, <1>3, <1>4, <1>5, <1>6

\* A crash empties the queues and may leave a line or part of one.
LEMMA CrashLeaves ==
  ASSUME StoreTypes, Crash
  PROVE  /\ log' \in [Sessions -> Seq(Events \union {Part})]
         /\ queue' \in [Sessions -> Seq(Events)] /\ \A t \in Sessions : queue'[t] = <<>>
         /\ \/ log' = log /\ created' = created
            \/ \E s \in Sessions :
                 /\ queue[s] # <<>> /\ 1 \in DOMAIN queue[s] /\ queue[s][1] \in Events
                 /\ \A t \in Sessions : t # s => log'[t] = log[t]
                 /\ \/ log'[s] = Append(log[s], Part) /\ created' = created
                    \/ log'[s] = Append(log[s], queue[s][1]) /\ created' = created \union {s}
<1>1. log \in [Sessions -> Seq(Events \union {Part})] /\ queue \in [Sessions -> Seq(Events)]
  BY DEF StoreTypes, LogTypes
<1>2. queue' \in [Sessions -> Seq(Events)] /\ \A t \in Sessions : queue'[t] = <<>>
  <2>1. queue' = [t \in Sessions |-> <<>>]
    BY DEF Crash
  <2>2. <<>> \in Seq(Events)
    BY EmptySeq
  <2> QED
    BY <2>1, <2>2
<1>3. CASE log' = log /\ created' = created
  BY <1>1, <1>2, <1>3
<1>4. ASSUME NEW s \in Sessions, queue[s] # <<>>,
             \/ log' = Appended(s, Part) /\ created' = created
             \/ log' = Appended(s, Head(queue[s])) /\ created' = created \union {s}
      PROVE  /\ log' \in [Sessions -> Seq(Events \union {Part})]
             /\ 1 \in DOMAIN queue[s] /\ queue[s][1] \in Events
             /\ \A t \in Sessions : t # s => log'[t] = log[t]
             /\ \/ log'[s] = Append(log[s], Part) /\ created' = created
                \/ log'[s] = Append(log[s], queue[s][1]) /\ created' = created \union {s}
  <2>1. log[s] \in Seq(Events \union {Part}) /\ queue[s] \in Seq(Events)
    BY <1>1
  <2>2. 1 \in DOMAIN queue[s] /\ queue[s][1] \in Events /\ Head(queue[s]) = queue[s][1]
    BY <2>1, <1>4, RestOfQueue
  <2>3. /\ Append(log[s], Part) \in Seq(Events \union {Part})
        /\ Append(log[s], queue[s][1]) \in Seq(Events \union {Part})
    BY <2>1, <2>2, LineAdded
  <2>4. CASE log' = [log EXCEPT ![s] = Append(log[s], Part)] /\ created' = created
    BY <1>1, <2>2, <2>3, <2>4
  <2>5. CASE log' = [log EXCEPT ![s] = Append(log[s], Head(queue[s]))] /\ created' = created \union {s}
    BY <1>1, <2>2, <2>3, <2>5
  <2> QED
    BY <1>4, <2>4, <2>5 DEF Appended
<1> QED
  BY <1>2, <1>3, <1>4 DEF Crash

LEMMA LogTypesKept == ASSUME StoreTypes, Next PROVE LogTypes'
<1>1. LogTypes
  BY DEF StoreTypes
<1>2. CASE Asking \/ Planning \/ StartServer
  <2>1. UNCHANGED <<log, queue, active, run>>
    BY <1>2, AskingIsQuiet, PlanningIsQuiet DEF sessions, StartServer, disk, memory, past
  <2>2. CASE awaiting' = awaiting
    BY <1>1, <2>1, <2>2 DEF LogTypes
  <2>3. CASE awaiting' = [s \in Sessions |-> Len(queue[s])]
    <3>1. awaiting' \in [Sessions -> Nat]
      BY <1>1, <2>3, LenProperties DEF LogTypes
    <3> QED
      BY <1>1, <2>1, <3>1 DEF LogTypes
  <2> QED
    BY <1>2, <2>2, <2>3, PlanningIsQuiet
    DEF Asking, CreateBegin, Lookup, ScanFails, ScanForId, Allocate, Initialize, CreateRecord,
        RegistryWriteFails, ToScan, StartServer, memory
<1>3. ASSUME NEW s \in Sessions, WriteRecord(s) PROVE LogTypes'
  <2>1. <<[shown |-> FALSE, result |-> "none"]>> \in Seq(Events)
    BY DEF Events, Results
  <2>2. NoRun \in Runs
    BY RunsTyped
  <2> DEFINE q == <<[shown |-> FALSE, result |-> "none"]>>
  <2>3. queue' = [queue EXCEPT ![s] = q]
    BY <1>3 DEF WriteRecord
  <2>4. q \in Seq(Events)
    BY <2>1
  <2> HIDE DEF q
  <2> QED
    BY <1>1, <1>3, <2>2, <2>3, <2>4 DEF LogTypes, WriteRecord
<1>4. ASSUME NEW shown \in BOOLEAN, NEW result \in Results, active # None, Audit(shown, result),
             \/ run' = run \/ run' = NoRun \/ run' = [run EXCEPT !.shown = TRUE]
             \/ run' = [run EXCEPT !.result = result, !.waits = Len(queue[active]) + 1],
             active' \in {active, None}, log' = log, awaiting' = awaiting
      PROVE  LogTypes'
  <2>1. active \in Sessions /\ queue' \in [Sessions -> Seq(Events)]
    BY <1>4, AuditAdds
  <2>2. Len(queue[active]) \in Nat
    BY <1>1, <2>1, LenProperties DEF LogTypes
  <2>3. run \in Runs
    BY <1>1 DEF LogTypes
  <2>4. [run EXCEPT !.shown = TRUE] \in Runs
    BY <2>3 DEF Runs
  <2>6. PICK n \in Nat : n = Len(queue[active]) + 1
    BY <2>2
  <2>7. [run EXCEPT !.result = result, !.waits = n] \in Runs
    BY <2>3 DEF Runs
  <2>5. run' \in Runs
    BY <1>4, <2>3, <2>4, <2>6, <2>7, RunsTyped
  <2> QED
    BY <1>1, <1>4, <2>1, <2>5 DEF LogTypes
<1>5. CASE Show \/ Note \/ DeleteSetup
  <2>1. run.shown \in BOOLEAN /\ run.result \in Results /\ "none" \in Results
    BY <1>1 DEF LogTypes, Runs, Results
  <2>2. CASE Show
    BY <1>4, <2>1, <2>2 DEF Show, AuditOnly, disk
  <2>3. CASE Note
    BY <1>4, <2>1, <2>3 DEF Note, AuditOnly, disk
  <2>4. CASE DeleteSetup
    BY <1>4, <2>1, <2>4 DEF DeleteSetup, disk
  <2> QED
    BY <1>5, <2>2, <2>3, <2>4
<1>6. ASSUME NEW result \in Results, End(result) PROVE LogTypes'
  <2>1. run.shown \in BOOLEAN
    BY <1>1 DEF LogTypes, Runs
  <2> QED
    BY <1>4, <1>6, <2>1 DEF End, AuditOnly, disk
<1>7. CASE LetGo
  BY <1>1, <1>7, RunsTyped DEF LetGo, LogTypes, disk
<1>8. ASSUME NEW s \in Sessions, Write(s) PROVE LogTypes'
  <2>1. log' \in [Sessions -> Seq(Events \union {Part})] /\ queue' \in [Sessions -> Seq(Events)]
    BY <1>8, WriteMoves
  <2>2. awaiting' \in [Sessions -> Nat] /\ active' = active
    BY <1>1, <1>8 DEF Write, Less, LogTypes
  <2>3. run.waits \in Nat
    BY <1>1 DEF LogTypes, Runs
  <2>5. Less(run.waits) \in Nat
    BY <2>3 DEF Less
  <2>4. run' \in Runs
    BY <1>1, <1>8, <2>5, RunsTyped DEF Write, LogTypes
  <2> QED
    BY <1>1, <2>1, <2>2, <2>4 DEF LogTypes
<1>9. ASSUME NEW s \in Sessions, NEW left \in {<<>>, <<Part>>}, WriteFails(s, left) PROVE LogTypes'
  <2>1. log' \in [Sessions -> Seq(Events \union {Part})] /\ queue' \in [Sessions -> Seq(Events)]
    BY <1>9, FailureLeaves
  <2>2. awaiting' \in [Sessions -> Nat]
    BY <1>1, <1>9 DEF WriteFails, LogTypes
  <2>3. run' = run \/ run' = NoRun \/ run' = [run EXCEPT !.waits = 0]
    BY <1>9 DEF WriteFails
  <2>4. active' \in Sessions \union {None}
    BY <1>1, <1>9 DEF WriteFails, LogTypes
  <2> QED
    BY <1>1, <2>1, <2>2, <2>3, <2>4, RunsTyped DEF LogTypes
<1>10. CASE Crash
  <2>1. log' \in [Sessions -> Seq(Events \union {Part})] /\ queue' \in [Sessions -> Seq(Events)]
    BY <1>10, CrashLeaves
  <2> QED
    BY <1>1, <1>10, <2>1, RunsTyped DEF LogTypes, Crash
<1>11. ASSUME NEW what \in {"logs", "registry"}, Lose(what) PROVE LogTypes'
  <2>1. \A s \in Sessions : [log EXCEPT ![s] = <<>>] \in [Sessions -> Seq(Events \union {Part})]
    BY <1>1, EmptySeq DEF LogTypes
  <2>2. log' \in [Sessions -> Seq(Events \union {Part})]
    BY <1>1, <1>11, <2>1 DEF Lose, Logged, LogTypes
  <2> QED
    BY <1>1, <1>11, <2>2 DEF LogTypes, Lose, memory
<1> QED
  BY <1>2, <1>3, <1>5, <1>6, <1>7, <1>8, <1>9, <1>10, <1>11, StepsOfStore

\* How long logs and queues are.
Size(q) == Len(q)
Room(s) == Size(log[s]) + Size(queue[s]) <= MaxLog

LEMMA Lengths ==
  ASSUME StoreTypes, NEW s \in Sessions
  PROVE  /\ log[s] \in Seq(Events \union {Part}) /\ queue[s] \in Seq(Events)
         /\ Len(log[s]) \in Nat /\ Len(queue[s]) \in Nat /\ awaiting[s] \in Nat
         /\ DOMAIN log[s] = 1 .. Len(log[s]) /\ DOMAIN queue[s] = 1 .. Len(queue[s])
         /\ queue[s] # <<>> => Len(queue[s]) > 0
         /\ Len(<<>>) = 0
  BY LenProperties, EmptySeq DEF StoreTypes, LogTypes

\* The audit leaves room, and so does every other step.
LEMMA RoomKept ==
  ASSUME StoreTypes, \A s \in Sessions : Room(s), \A s \in Sessions : drawn[s] = None => log[s] = <<>>,
         Next, NEW t \in Sessions
  PROVE  Room(t)'
<1>1. MaxLog \in Nat /\ MaxLog >= 1 /\ Size(<<>>) = 0
  BY StoreAssumption, Lengths DEF Size
<1>0. ASSUME NEW s \in Sessions
      PROVE  /\ Size(log[s]) \in Nat /\ Size(queue[s]) \in Nat
             /\ Size(log[s]) + Size(queue[s]) <= MaxLog
             /\ queue[s] # <<>> => Size(queue[s]) > 0
  BY Lengths DEF Room, Size
<1>2. CASE Asking \/ Planning \/ StartServer \/ LetGo
  BY <1>2, AskingIsQuiet, PlanningIsQuiet
  DEF Room, sessions, disk, memory, StartServer, LetGo
<1>3. ASSUME NEW s \in Sessions, WriteRecord(s) PROVE Room(t)'
  <2>1. log' = log /\ log[s] = <<>>
    BY <1>3 DEF WriteRecord
  <2>2. /\ queue'[s] = <<[shown |-> FALSE, result |-> "none"]>>
        /\ t # s => queue'[t] = queue[t]
    BY <1>3 DEF WriteRecord, StoreTypes, LogTypes
  <2>3. Size(queue'[s]) = 1
    BY <2>2 DEF Size
  <2>4. Size(log'[s]) = 0 /\ Size(log[s]) = 0
    BY <1>1, <2>1
  <2>5. CASE t = s
    BY <1>1, <2>3, <2>4, <2>5 DEF Room
  <2>6. CASE t # s
    BY <2>1, <2>2, <2>6 DEF Room
  <2> QED
    BY <2>5, <2>6
<1>4. ASSUME NEW shown \in BOOLEAN, NEW result \in Results, active # None, Audit(shown, result),
             log' = log
      PROVE  Room(t)'
  <2>1. /\ active \in Sessions /\ Len(log[active]) + Len(queue[active]) < MaxLog
        /\ queue'[active] = Append(queue[active], [shown |-> shown, result |-> result])
        /\ t # active => queue'[t] = queue[t]
        /\ [shown |-> shown, result |-> result] \in Events
    BY <1>4, AuditAdds
  <2>2. Size(queue'[active]) = Size(queue[active]) + 1
    <3>1. queue[active] \in Seq(Events)
      BY <2>1, Lengths
    <3> QED
      BY <2>1, <3>1, LineAdded DEF Size
  <2>3. /\ Size(log[active]) + Size(queue[active]) < MaxLog
        /\ Size(log[active]) \in Nat /\ Size(queue[active]) \in Nat
    BY <1>0, <2>1 DEF Size
  <2>4. CASE t = active
    BY <1>1, <1>4, <2>2, <2>3, <2>4 DEF Room
  <2>5. CASE t # active
    BY <1>4, <2>1, <2>5 DEF Room
  <2> QED
    BY <2>4, <2>5
<1>5. CASE Show \/ Note \/ DeleteSetup \/ \E result \in Results : End(result)
  <2>1. run.shown \in BOOLEAN /\ run.result \in Results /\ "none" \in Results
    BY DEF StoreTypes, LogTypes, Runs, Results
  <2>2. CASE Show
    BY <1>4, <2>1, <2>2 DEF Show, AuditOnly, disk
  <2>3. CASE Note
    BY <1>4, <2>1, <2>3 DEF Note, AuditOnly, disk
  <2>4. CASE DeleteSetup
    BY <1>4, <2>1, <2>4 DEF DeleteSetup, disk
  <2>5. ASSUME NEW result \in Results, End(result) PROVE Room(t)'
    BY <1>4, <2>1, <2>5 DEF End, AuditOnly, disk
  <2> QED
    BY <1>5, <2>2, <2>3, <2>4, <2>5
<1>6. ASSUME NEW s \in Sessions, Write(s) PROVE Room(t)'
  <2>1. /\ Size(log'[s]) = Size(log[s]) + 1 /\ Size(queue'[s]) = Size(queue[s]) - 1
        /\ t # s => queue'[t] = queue[t] /\ log'[t] = log[t]
    BY <1>6, WriteMoves DEF Size
  <2> QED
    BY <1>0, <1>1, <2>1 DEF Room
<1>7. ASSUME NEW s \in Sessions, queue[s] # <<>>, queue'[s] = <<>>,
             NEW e \in Events \union {Part}, log'[s] = log[s] \/ log'[s] = Append(log[s], e)
      PROVE  Room(s)'
  <2>1. Size(Append(log[s], e)) = Size(log[s]) + 1
    BY Lengths, LineAdded DEF Size
  <2>2. /\ Size(log[s]) \in Nat /\ Size(queue[s]) \in Nat /\ Size(queue[s]) > 0
        /\ Size(log[s]) + Size(queue[s]) <= MaxLog
    BY <1>0, <1>7
  <2>3. Size(log'[s]) = Size(log[s]) \/ Size(log'[s]) = Size(log[s]) + 1
    BY <1>7, <2>1, Zenon
  <2>4. Size(queue'[s]) = 0
    BY <1>1, <1>7
  <2> QED
    BY <1>1, <2>2, <2>3, <2>4 DEF Room
<1>8. ASSUME queue'[t] = <<>>, log'[t] = log[t] PROVE Room(t)'
  BY <1>0, <1>1, <1>8 DEF Room
<1>9. ASSUME NEW s \in Sessions, NEW left \in {<<>>, <<Part>>}, WriteFails(s, left) PROVE Room(t)'
  <2>1. /\ queue[s] # <<>> /\ queue'[s] = <<>>
        /\ log'[s] = log[s] \/ log'[s] = Append(log[s], Part)
        /\ t # s => queue'[t] = queue[t] /\ log'[t] = log[t]
    BY <1>9, FailureLeaves
  <2> QED
    BY <1>7, <2>1 DEF Room
<1>10. CASE Crash
  <2>1. queue'[t] = <<>>
    BY <1>10, CrashLeaves
  <2>2. CASE log' = log
    BY <1>8, <2>1, <2>2
  <2>3. ASSUME NEW s \in Sessions, queue[s] # <<>>, queue[s][1] \in Events,
               t # s => log'[t] = log[t],
               log'[s] = Append(log[s], Part) \/ log'[s] = Append(log[s], queue[s][1])
        PROVE  Room(t)'
    <3>1. queue'[s] = <<>>
      BY <1>10, CrashLeaves
    <3> QED
      BY <1>7, <1>8, <2>1, <2>3, <3>1
  <2> QED
    BY <1>10, <2>2, <2>3, CrashLeaves
<1>11. ASSUME NEW what \in {"logs", "registry"}, Lose(what) PROVE Room(t)'
  <2>1. queue' = queue /\ (log'[t] = log[t] \/ log'[t] = <<>>)
    BY <1>11 DEF Lose, memory, Logged, StoreTypes, LogTypes
  <2> QED
    BY <1>0, <1>1, <2>1 DEF Room
<1> QED
  BY <1>2, <1>3, <1>5, <1>6, <1>9, <1>10, <1>11, StepsOfStore

LEMMA BoundedKept ==
  ASSUME StoreTypes, Bounded, \A s \in Sessions : drawn[s] = None => log[s] = <<>>, Next
  PROVE  Bounded'
<1>1. \A s \in Sessions : Room(s)
  BY DEF Bounded, Room, Size
<1>2. \A s \in Sessions : Len(log'[s]) + Len(queue'[s]) <= MaxLog
  BY <1>1, RoomKept DEF Room, Size
<1>3. MaxLog \in Nat
  BY StoreAssumption
<1>4. /\ \A s \in Sessions : awaiting[s] \in 0 .. MaxLog
      /\ \A s \in Sessions : Size(queue[s]) \in 0 .. MaxLog /\ Size(log[s]) \in Nat
      /\ run.waits \in 0 .. MaxLog
  <2>1. ASSUME NEW s \in Sessions PROVE awaiting[s] \in 0 .. MaxLog
    BY <1>3 DEF Bounded, StoreTypes, LogTypes
  <2>2. ASSUME NEW s \in Sessions PROVE Size(queue[s]) \in 0 .. MaxLog /\ Size(log[s]) \in Nat
    <3>1. Size(queue[s]) \in Nat /\ Size(log[s]) \in Nat
      BY Lengths DEF Size
    <3> QED
      BY <1>1, <1>3, <3>1 DEF Room
  <2>3. run.waits \in 0 .. MaxLog
    BY <1>3 DEF Bounded, StoreTypes, LogTypes, Runs
  <2> QED
    BY <2>1, <2>2, <2>3
<1>5. \A s \in Sessions : awaiting'[s] <= MaxLog
  <2>1. \/ awaiting' = awaiting
        \/ awaiting' = [s \in Sessions |-> Size(queue[s])]
        \/ awaiting' = [s \in Sessions |-> 0]
        \/ \E s \in Sessions : awaiting' = [awaiting EXCEPT ![s] = Less(@)]
        \/ \E s \in Sessions : awaiting' = [awaiting EXCEPT ![s] = 0]
    <3>1. CASE Asking
      BY <3>1 DEF Asking, CreateBegin, Lookup, ScanFails, ScanForId, Allocate, Initialize,
                  CreateRecord, RegistryWriteFails, ToScan, Size
    <3>2. CASE Planning \/ StartServer \/ Show \/ Note \/ LetGo \/ DeleteSetup
               \/ \E result \in Results : End(result)
      BY <3>2, PlanningIsQuiet
      DEF StartServer, Show, Note, LetGo, DeleteSetup, End, AuditOnly, memory
    <3>3. CASE \/ \E s \in Sessions : WriteRecord(s) \/ Write(s)
               \/ \E s \in Sessions, left \in {<<>>, <<Part>>} : WriteFails(s, left)
      BY <3>3 DEF WriteRecord, Write, WriteFails
    <3>4. CASE Crash \/ \E what \in {"logs", "registry"} : Lose(what)
      BY <3>4 DEF Crash, Lose, memory
    <3> QED
      BY <3>1, <3>2, <3>3, <3>4, StepsOfStore
  <2>2. /\ awaiting \in [Sessions -> Nat] /\ MaxLog \in Nat
        /\ \A s \in Sessions : awaiting[s] <= MaxLog /\ Size(queue[s]) <= MaxLog
    BY <1>3, <1>4 DEF StoreTypes, LogTypes
  <2>3. CASE awaiting' = awaiting
    BY <2>2, <2>3
  <2>4. CASE awaiting' = [s \in Sessions |-> Size(queue[s])]
    BY <2>2, <2>4
  <2>5. CASE awaiting' = [s \in Sessions |-> 0]
    BY <2>2, <2>5
  <2>6. CASE \/ \E s \in Sessions : awaiting' = [awaiting EXCEPT ![s] = Less(@)]
             \/ \E s \in Sessions : awaiting' = [awaiting EXCEPT ![s] = 0]
    BY <2>2, <2>6 DEF Less
  <2> QED
    BY <2>1, <2>3, <2>4, <2>5, <2>6
<1>6. run'.waits <= MaxLog
  <2>1. \/ run' = run \/ run' = NoRun \/ run' = [run EXCEPT !.shown = TRUE]
        \/ \E result \in Results : End(result)
        \/ run' = [run EXCEPT !.waits = Less(@)] \/ run' = [run EXCEPT !.waits = 0]
    <3>1. CASE Asking \/ Planning \/ StartServer
      BY <3>1, AskingIsQuiet, PlanningIsQuiet DEF sessions, memory, StartServer
    <3>2. CASE Show \/ Note \/ LetGo \/ DeleteSetup
      BY <3>2 DEF Show, Note, LetGo, DeleteSetup
    <3>3. CASE \/ \E s \in Sessions : WriteRecord(s) \/ Write(s)
               \/ \E s \in Sessions, left \in {<<>>, <<Part>>} : WriteFails(s, left)
      BY <3>3 DEF WriteRecord, Write, WriteFails
    <3>4. CASE Crash \/ \E what \in {"logs", "registry"} : Lose(what)
      BY <3>4 DEF Crash, Lose, memory
    <3> QED
      BY <3>1, <3>2, <3>3, <3>4, StepsOfStore
  <2>2. ASSUME NEW result \in Results, End(result) PROVE run'.waits <= MaxLog
    <3>1. active \in Sessions /\ run \in Runs
      BY <2>2 DEF End, StoreTypes, LogTypes
    <3>2. Size(log[active]) + Size(queue[active]) < MaxLog
      BY <2>2 DEF End, Audit, Size
    <3>3. run'.waits = Size(queue[active]) + 1
      BY <2>2, <3>1 DEF End, Size, Runs
    <3>4. Size(log[active]) \in Nat /\ Size(queue[active]) \in Nat
      BY <1>4, <3>1
    <3> QED
      BY <1>3, <3>2, <3>3, <3>4
  <2>3. run \in Runs
    BY DEF StoreTypes, LogTypes
  <2> QED
    BY <1>3, <1>4, <2>1, <2>2, <2>3 DEF Less, NoRun, Runs
<1> QED
  BY <1>2, <1>5, <1>6 DEF Bounded

-----------------------------------------------------------------------------
(* Sessions that were never drawn.                                         *)

\* A session without an id has no log, writes nothing and is not the active one.
Unused(s) == log[s] = <<>> /\ queue[s] = <<>> /\ active # s /\ s \notin created
UndrawnIsUnused == \A s \in Sessions : drawn[s] = None => Unused(s)

LEMMA UndrawnKept ==
  ASSUME StoreTypes, UndrawnIsUnused, Next
  PROVE  UndrawnIsUnused'
<1> SUFFICES ASSUME NEW t \in Sessions, drawn'[t] = None PROVE Unused(t)'
  BY DEF UndrawnIsUnused
<1>1. CASE drawn[t] = None
  <2>1. Unused(t) /\ t # None
    BY <1>1, StoreAssumption DEF UndrawnIsUnused
  <2> USE DEF Unused
  <2>2. CASE Asking \/ Planning \/ StartServer \/ LetGo
    BY <2>1, <2>2, AskingIsQuiet, PlanningIsQuiet
    DEF sessions, disk, memory, past, StartServer, LetGo
  <2>3. ASSUME NEW s \in Sessions, WriteRecord(s) PROVE Unused(t)'
    <3>1. drawn'[s] = [id |-> creation.id, order |-> creation.order]
          /\ creation.id \in Ids /\ creation.order \in Orders
      BY <2>3 DEF WriteRecord, StoreTypes, PastTypes, CreationTypes, Scans
    <3>2. s # t
      BY <3>1, StoreValues
    <3> QED
      BY <2>1, <2>3, <3>2 DEF WriteRecord, StoreTypes, LogTypes
  <2>4. ASSUME active # None, queue' = [queue EXCEPT ![active] = queue'[active]], log' = log,
               active' \in {active, None}, created' = created
        PROVE  Unused(t)'
    BY <2>1, <2>4 DEF StoreTypes, LogTypes
  <2>5. CASE Show \/ Note \/ DeleteSetup \/ \E result \in Results : End(result)
    BY <2>4, <2>5 DEF Show, Note, DeleteSetup, End, Audit, AuditOnly, disk, past, StoreTypes, LogTypes
  <2>6. ASSUME NEW s \in Sessions, Write(s) PROVE Unused(t)'
    <3>1. s # t
      BY <2>1, <2>6 DEF Write
    <3> QED
      BY <2>1, <2>6, <3>1, WriteMoves DEF Write
  <2>7. ASSUME NEW s \in Sessions, NEW left \in {<<>>, <<Part>>}, WriteFails(s, left)
        PROVE  Unused(t)'
    <3>1. s # t
      BY <2>1, <2>7 DEF WriteFails
    <3>2. /\ queue'[t] = queue[t] /\ log'[t] = log[t] /\ created' = created
          /\ active' \in {active, None}
      BY <2>7, <3>1, FailureLeaves DEF WriteFails
    <3> QED
      BY <2>1, <3>2
  <2>8. CASE Crash
    BY <2>1, <2>8, CrashLeaves DEF Crash
  <2>9. ASSUME NEW what \in {"logs", "registry"}, Lose(what) PROVE Unused(t)'
    BY <2>1, <2>9 DEF Lose, memory, Logged, StoreTypes, LogTypes
  <2> QED
    BY <2>2, <2>3, <2>5, <2>6, <2>7, <2>8, <2>9, StepsOfStore
<1>2. CASE drawn[t] # None
  <2>1. ASSUME NEW s \in Sessions, WriteRecord(s) PROVE FALSE
    BY <1>2, <2>1 DEF WriteRecord, StoreTypes, PastTypes
  <2>2. drawn' = drawn
    BY <2>1, StepsOfStore, AskingIsQuiet, PlanningIsQuiet
    DEF sessions, past, StartServer, Show, Note, LetGo, DeleteSetup, End, AuditOnly, Write,
        WriteFails, Crash, Lose
  <2> QED
    BY <1>2, <2>2
<1> QED
  BY <1>1, <1>2

-----------------------------------------------------------------------------
(* Research ids and their owners.                                          *)

Holds(s) == queue[s] # <<>> \/ active = s

\* A session that is written for, or is the active one, owns its reservation; one
\* that was created keeps either its reservation or its log.
Reserved(s) ==
  /\ Holds(s) => server = "up" /\ record[drawn[s].id] = s
  /\ drawn[s] # None /\ lost # "registry" => record[drawn[s].id] = s
  /\ s \in created /\ lost # "logs" => log[s] # <<>>

Reservations == \A s \in Sessions : Reserved(s)

\* A creation has found that its id is nobody's, in the registry and in the logs.
Reserving == {"anchor", "fill", "mkdir", "record", "content"}
CreationIsSound ==
  /\ creation.step # "none" => server = "up"
  /\ creation.step \in {"rescan", "anchor", "fill", "mkdir", "record"} =>
       record[creation.id] = Nobody
  /\ creation.step = "content" => record[creation.id] = Torn
  /\ creation.step \in Reserving => ~UsedInLogs(creation.id)
  /\ creation.step \notin {"none", "append"} => active = None

\* No two sessions of an id are logged, or about to be.
OneOwner ==
  \A s, t \in Sessions :
    log[t] # <<>> /\ (log[s] # <<>> \/ Holds(s)) /\ drawn[s].id = drawn[t].id => s = t

LEMMA DrawnTyped ==
  ASSUME StoreTypes, NEW s \in Sessions, drawn[s] # None
  PROVE  drawn[s].id \in Ids /\ drawn[s].order \in Orders
  BY DEF StoreTypes, PastTypes

\* The draw of a session is for ever.
LEMMA DrawnStays ==
  ASSUME StoreTypes, Next
  PROVE  /\ \A s \in Sessions : drawn[s] # None => drawn'[s] = drawn[s]
         /\ (~ \E s \in Sessions : WriteRecord(s)) => drawn' = drawn
<1>1. ASSUME NEW s \in Sessions, WriteRecord(s)
      PROVE  \A t \in Sessions : drawn[t] # None => drawn'[t] = drawn[t]
  BY <1>1 DEF WriteRecord, StoreTypes, PastTypes
<1>2. (~ \E s \in Sessions : WriteRecord(s)) => drawn' = drawn
  BY StepsOfStore, AskingIsQuiet, PlanningIsQuiet
  DEF sessions, past, StartServer, Show, Note, LetGo, DeleteSetup, End, AuditOnly, Write,
      WriteFails, Crash, Lose
<1> QED
  BY <1>1, <1>2

\* A line is added to a log only for a session that is being written for.
LEMMA LogsGrow ==
  ASSUME StoreTypes, Next, NEW t \in Sessions
  PROVE  /\ log'[t] # <<>> => log[t] # <<>> \/ queue[t] # <<>>
         /\ log[t] # <<>> => log'[t] # <<>> \/ (server = "down" /\ lost' = "logs")
         /\ t \in created' /\ t \notin created => queue[t] # <<>> /\ log'[t] # <<>>
<1>1. ASSUME NEW T, NEW q \in Seq(T), NEW e \in T PROVE Append(q, e) # <<>>
  BY LineAdded, LenProperties, EmptySeq
<1>2. log[t] \in Seq(Events \union {Part}) /\ Part \in Events \union {Part}
  BY DEF StoreTypes, LogTypes
<1>3. CASE Asking \/ Planning \/ StartServer \/ LetGo \/ Show \/ Note \/ DeleteSetup
           \/ (\E s \in Sessions : WriteRecord(s)) \/ \E result \in Results : End(result)
  BY <1>3, AskingIsQuiet, PlanningIsQuiet
  DEF sessions, disk, past, StartServer, LetGo, Show, Note, DeleteSetup, WriteRecord, End, AuditOnly
<1>4. ASSUME NEW e \in Events \union {Part}, log'[t] = Append(log[t], e) PROVE log'[t] # <<>>
  BY <1>1, <1>2, <1>4
<1>5. ASSUME NEW s \in Sessions, Write(s)
      PROVE  IF s = t THEN queue[t] # <<>> /\ log'[t] # <<>>
             ELSE log'[t] = log[t] /\ (t \in created' <=> t \in created)
  <2>1. created' = created \union {s}
    BY <1>5 DEF Write
  <2> QED
    BY <1>4, <1>5, <2>1, WriteMoves
<1>6. ASSUME NEW s \in Sessions, NEW left \in {<<>>, <<Part>>}, WriteFails(s, left)
      PROVE  /\ created' = created
             /\ log'[t] = log[t] \/ (queue[t] # <<>> /\ log'[t] # <<>>)
  <2>1. created' = created
    BY <1>6 DEF WriteFails
  <2> QED
    BY <1>2, <1>4, <1>6, <2>1, FailureLeaves
<1>7. CASE Crash
  <2>1. CASE log' = log /\ created' = created
    BY <2>1
  <2>2. ASSUME NEW s \in Sessions, queue[s] # <<>>, queue[s][1] \in Events,
               \A r \in Sessions : r # s => log'[r] = log[r],
               \/ log'[s] = Append(log[s], Part) /\ created' = created
               \/ log'[s] = Append(log[s], queue[s][1]) /\ created' = created \union {s}
        PROVE  IF s = t THEN queue[t] # <<>> /\ log'[t] # <<>>
               ELSE log'[t] = log[t] /\ (t \in created' <=> t \in created)
    BY <1>2, <1>4, <2>2
  <2> QED
    BY <1>7, <2>1, <2>2, CrashLeaves
<1>8. ASSUME NEW what \in {"logs", "registry"}, Lose(what)
      PROVE  /\ created' = created
             /\ log'[t] = log[t] \/ (server = "down" /\ lost' = "logs" /\ log'[t] = <<>>)
  BY <1>8 DEF Lose, Logged, StoreTypes, LogTypes
<1> QED
  BY <1>3, <1>5, <1>6, <1>7, <1>8, StepsOfStore

\* It is written for a session from its creation on.
LEMMA HoldsGrow ==
  ASSUME StoreTypes, Next, NEW t \in Sessions, Holds(t)'
  PROVE  /\ Holds(t) \/ WriteRecord(t)
         /\ server' = server \/ server' = "up"
<1>0. t # None
  BY StoreAssumption
<1> USE DEF Holds
<1>1. CASE Asking \/ Planning \/ LetGo \/ StartServer
  <2>1. CASE Asking
    BY <2>1, AskingIsQuiet DEF sessions
  <2>2. CASE Planning
    BY <2>2, PlanningIsQuiet DEF memory
  <2>3. CASE LetGo
    BY <1>0, <2>3 DEF LetGo
  <2>4. CASE StartServer
    BY <2>4 DEF StartServer
  <2> QED
    BY <1>1, <2>1, <2>2, <2>3, <2>4
<1>2. ASSUME NEW s \in Sessions, WriteRecord(s) PROVE (Holds(t) \/ WriteRecord(t)) /\ server' = server
  BY <1>2 DEF WriteRecord, StoreTypes, LogTypes
<1>3. ASSUME active # None, queue' = [queue EXCEPT ![active] = queue'[active]],
             active' \in {active, None}, server' = server
      PROVE  Holds(t) /\ server' = server
  BY <1>0, <1>3 DEF StoreTypes, LogTypes
<1>4. CASE Show \/ Note \/ DeleteSetup \/ \E result \in Results : End(result)
  BY <1>3, <1>4 DEF Show, Note, DeleteSetup, End, Audit, AuditOnly, StoreTypes, LogTypes
<1>5. ASSUME NEW s \in Sessions, Write(s) PROVE Holds(t) /\ server' = server
  <2>1. queue[s] # <<>> /\ (t # s => queue'[t] = queue[t])
    BY <1>5, WriteMoves
  <2> QED
    BY <1>5, <2>1 DEF Write
<1>6. ASSUME NEW s \in Sessions, NEW left \in {<<>>, <<Part>>}, WriteFails(s, left)
      PROVE  Holds(t) /\ server' = server
  <2>1. queue[s] # <<>> /\ (t # s => queue'[t] = queue[t])
    BY <1>6, FailureLeaves
  <2>2. active' \in {active, None} /\ server' = server
    BY <1>6 DEF WriteFails
  <2> QED
    BY <1>0, <2>1, <2>2
<1>7. CASE Crash
  BY <1>0, <1>7, CrashLeaves DEF Crash
<1>8. ASSUME NEW what \in {"logs", "registry"}, Lose(what) PROVE Holds(t) /\ server' = server
  BY <1>8 DEF Lose, memory
<1> QED
  BY <1>1, <1>2, <1>4, <1>5, <1>6, <1>7, <1>8, StepsOfStore

\* A record changes by a creation that was the first there, or when it gets lost.
LEMMA RecordsStay ==
  ASSUME StoreTypes, Next, NEW i \in Ids
  PROVE  \/ record'[i] = record[i]
         \/ record[i] = Nobody /\ creation.id = i /\ creation.step = "record"
              /\ CreateRecord /\ record'[i] = Torn
         \/ creation.id = i /\ creation.step = "content"
              /\ \E s \in Sessions : WriteRecord(s) /\ record'[i] = s
         \/ server = "down" /\ lost' = "registry" /\ \E what \in {"logs", "registry"} : Lose(what)
<1> USE DEF StoreTypes, DiskTypes, CreationTypes
<1>1. CASE Asking
  <2>1. CreateRecord \/ UNCHANGED record
    BY <1>1 DEF Asking, CreateBegin, Lookup, ScanFails, ScanForId, Allocate, Initialize,
                RegistryWriteFails, disk
  <2> QED
    BY <2>1 DEF CreateRecord
<1>2. CASE Planning \/ StartServer \/ Show \/ Note \/ LetGo \/ DeleteSetup
           \/ (\E result \in Results : End(result)) \/ (\E s \in Sessions : Write(s)) \/ Crash
           \/ \E s \in Sessions, left \in {<<>>, <<Part>>} : WriteFails(s, left)
  BY <1>2, PlanningIsQuiet DEF StartServer, Show, Note, LetGo, DeleteSetup, End, Write, Crash,
     WriteFails, AuditOnly, disk
<1>3. ASSUME NEW s \in Sessions, WriteRecord(s)
      PROVE  \/ record'[i] = record[i]
             \/ creation.id = i /\ creation.step = "content" /\ record'[i] = s
  BY <1>3 DEF WriteRecord
<1>4. ASSUME NEW what \in {"logs", "registry"}, Lose(what)
      PROVE  record'[i] = record[i] \/ (server = "down" /\ lost' = "registry")
  BY <1>4 DEF Lose
<1> QED
  BY <1>1, <1>2, <1>3, <1>4, StepsOfStore

LEMMA ReservationsKept ==
  ASSUME StoreTypes, UndrawnIsUnused, Reservations, CreationIsSound, Next
  PROVE  Reservations'
<1> SUFFICES ASSUME NEW t \in Sessions PROVE Reserved(t)'
  BY DEF Reservations
<1>1. Reserved(t) /\ t \notin {Nobody, Torn, None}
  BY StoreAssumption DEF Reservations
<1>2. Holds(t) => drawn[t] # None
  BY DEF UndrawnIsUnused, Unused, Holds
<1>3. ASSUME WriteRecord(t)
      PROVE  record'[drawn'[t].id] = t /\ server = "up" /\ drawn'[t].id = creation.id
  <2>1. /\ record' = [record EXCEPT ![creation.id] = t]
        /\ drawn' = [drawn EXCEPT ![t] = [id |-> creation.id, order |-> creation.order]]
        /\ creation.step = "content"
    BY <1>3 DEF WriteRecord
  <2>2. creation.id \in Ids
    BY <2>1 DEF StoreTypes, CreationTypes
  <2>3. server = "up"
    BY <2>1 DEF CreationIsSound
  <2> QED
    BY <2>1, <2>2, <2>3 DEF StoreTypes, DiskTypes, PastTypes
<1>4. ASSUME drawn[t] # None, record[drawn[t].id] = t, lost' # "registry" \/ server = "up"
      PROVE  record'[drawn'[t].id] = t
  <2>1. drawn[t].id \in Ids /\ drawn'[t] = drawn[t]
    BY <1>4, DrawnTyped, DrawnStays
  <2>2. record[drawn[t].id] \notin {Nobody, Torn}
    BY <1>1, <1>4
  <2>3. creation.step = "content" => record[creation.id] = Torn
    BY DEF CreationIsSound
  <2> QED
    BY <1>4, <2>1, <2>2, <2>3, RecordsStay
<1>5. lost # "registry" \/ lost' = "registry"
  BY StepsOfStore, AskingIsQuiet, PlanningIsQuiet
  DEF sessions, past, StartServer, Show, Note, LetGo, DeleteSetup, End, AuditOnly, Write,
      WriteFails, Crash, Lose, WriteRecord
<1>6. lost # "logs" \/ lost' = "logs"
  BY StepsOfStore, AskingIsQuiet, PlanningIsQuiet
  DEF sessions, past, StartServer, Show, Note, LetGo, DeleteSetup, End, AuditOnly, Write,
      WriteFails, Crash, Lose, WriteRecord
<1>7. ASSUME Holds(t)' PROVE server' = "up" /\ record'[drawn'[t].id] = t
  BY <1>1, <1>2, <1>3, <1>4, <1>7, HoldsGrow DEF Reserved, WriteRecord
<1>8. ASSUME drawn'[t] # None, lost' # "registry" PROVE record'[drawn'[t].id] = t
  <2>1. CASE drawn[t] # None
    BY <1>1, <1>4, <1>5, <1>8, <2>1 DEF Reserved
  <2>2. CASE drawn[t] = None
    <3>1. PICK s \in Sessions : WriteRecord(s)
      BY <1>8, <2>2, DrawnStays
    <3>2. s = t
      BY <1>8, <2>2, <3>1 DEF WriteRecord, StoreTypes, PastTypes
    <3> QED
      BY <1>3, <3>1, <3>2
  <2> QED
    BY <2>1, <2>2
<1>9. ASSUME t \in created', lost' # "logs" PROVE log'[t] # <<>>
  BY <1>1, <1>6, <1>9, LogsGrow DEF Reserved
<1> QED
  BY <1>7, <1>8, <1>9 DEF Reserved, Holds

\* While an id is being reserved no session of it comes to be logged.
LEMMA StaysUnused ==
  ASSUME StoreTypes, UndrawnIsUnused, Reservations, CreationIsSound, Next,
         creation.step \in Reserving,
         ~ \E s \in Sessions : WriteRecord(s)
  PROVE  \A s \in Sessions : log'[s] # <<>> => drawn'[s].id # creation.id
<1> SUFFICES ASSUME NEW s \in Sessions, log'[s] # <<>>, drawn'[s].id = creation.id
             PROVE  FALSE
  OBVIOUS
<1>1. drawn'[s] = drawn[s]
  BY DrawnStays
<1>2. log[s] # <<>> \/ queue[s] # <<>>
  BY LogsGrow
<1>3. CASE log[s] # <<>>
  BY <1>1, <1>3 DEF CreationIsSound, UsedInLogs, Logged
<1>4. CASE queue[s] # <<>>
  <2>1. record[creation.id] = s
    BY <1>1, <1>4 DEF Reservations, Reserved, Holds
  <2>2. record[creation.id] \in {Nobody, Torn}
    BY DEF CreationIsSound, Reserving
  <2> QED
    BY <2>1, <2>2, StoreAssumption
<1> QED
  BY <1>2, <1>3, <1>4

LEMMA CreationKept ==
  ASSUME StoreTypes, UndrawnIsUnused, Reservations, CreationIsSound, Next
  PROVE  CreationIsSound'
<1> USE DEF CreationIsSound, Reserving
<1>0. creation.step # "none" => creation.id \in Ids
  BY DEF StoreTypes, CreationTypes
\* A step that leaves the creation alone leaves alone what it relies on.
<1>1. ASSUME creation' = creation PROVE CreationIsSound'
  <2>1. ~CreateRecord /\ ~ \E s \in Sessions : WriteRecord(s)
    <3>1. ~CreateRecord
      BY <1>1 DEF CreateRecord, CreationEnds, NoCreation, To, StoreTypes, CreationTypes
    <3>2. ~ \E s \in Sessions : WriteRecord(s)
      BY <1>1 DEF WriteRecord, To, StoreTypes, CreationTypes
    <3> QED
      BY <3>1, <3>2
  <2>2. creation.step # "none" => record'[creation.id] = record[creation.id]
    BY <1>0, <2>1, RecordsStay
  <2>3. creation.step # "none" => server' = "up"
    <3>1. creation.step # "none" => ~Crash
      BY <1>1 DEF Crash, NoCreation
    <3> QED
      BY <3>1, StepsOfStore, AskingIsQuiet, PlanningIsQuiet
      DEF memory, StartServer, Show, Note, LetGo, DeleteSetup, End, AuditOnly, Write,
          WriteFails, Lose, WriteRecord
  <2>4. active = None => active' = None
    BY <2>1, StepsOfStore, AskingIsQuiet, PlanningIsQuiet
    DEF sessions, memory, StartServer, Show, Note, LetGo, DeleteSetup, End, AuditOnly, Write,
        WriteFails, Lose, Crash
  <2>5. creation.step \in Reserving => ~UsedInLogs(creation.id)'
    BY <1>1, <2>1, StaysUnused DEF UsedInLogs, Logged
  <2> QED
    BY <1>1, <2>2, <2>3, <2>4, <2>5
<1>2. ASSUME creation' = NoCreation PROVE CreationIsSound'
  BY <1>2 DEF NoCreation
<1>3. CASE Asking
  <2>1. UNCHANGED <<server, log, drawn, active>>
    BY <1>3, AskingIsQuiet DEF sessions
  <2>2. \A i : UsedInLogs(i)' <=> UsedInLogs(i)
    BY <2>1 DEF UsedInLogs, Logged
  <2> HIDE DEF UsedInLogs
  <2>3. ASSUME NEW i \in Ids, CreateBegin(i) PROVE CreationIsSound'
    BY <2>1, <2>3 DEF CreateBegin, NoCreation
  <2>4. CASE Lookup
    <3>1. CASE creation.step = "lookup" /\ creation'.step = "scan"
      BY <2>1, <2>4, <3>1
    <3>2. CASE creation.step = "recheck" /\ creation' = [creation EXCEPT !.step = "rescan"]
               /\ record[creation.id] = Nobody /\ record' = record
      BY <2>1, <3>2 DEF StoreTypes, CreationTypes
    <3> QED
      BY <2>4, <3>1, <3>2, <1>2
      DEF Lookup, To, ToScan, CreationEnds, disk, StoreTypes, CreationTypes
  <2>5. CASE ScanFails \/ RegistryWriteFails
    BY <1>2, <2>5 DEF ScanFails, RegistryWriteFails, CreationEnds
  <2>6. CASE ScanForId
    <3>1. CASE creation.step = "scan" /\ creation' = [creation EXCEPT !.step = "allocate"]
      BY <2>1, <3>1 DEF StoreTypes, CreationTypes
    <3>2. CASE creation.step = "rescan" /\ creation' = [creation EXCEPT !.step = "anchor"]
               /\ ~UsedInLogs(creation.id) /\ record' = record
      BY <2>1, <2>2, <3>2 DEF StoreTypes, CreationTypes
    <3> QED
      BY <2>6, <3>1, <3>2, <1>2 DEF ScanForId, To, ToScan, CreationEnds, disk
  <2>7. CASE Allocate
    BY <2>1, <2>7 DEF Allocate, StoreTypes, CreationTypes
  <2>8. CASE Initialize
    <3>1. CASE /\ creation.step \in {"anchor", "fill", "mkdir"} /\ record' = record
               /\ \/ creation' = [creation EXCEPT !.step = "fill"]
                  \/ creation' = [creation EXCEPT !.step = "mkdir"]
                  \/ creation' = [creation EXCEPT !.step = "record"]
      BY <2>1, <2>2, <3>1 DEF StoreTypes, CreationTypes
    <3> QED
      BY <2>8, <3>1, <1>2 DEF Initialize, To, CreationEnds
  <2>9. CASE CreateRecord
    <3>1. CASE /\ creation.step = "record" /\ creation' = [creation EXCEPT !.step = "content"]
               /\ record' = [record EXCEPT ![creation.id] = Torn]
      BY <1>0, <2>1, <2>2, <3>1 DEF StoreTypes, CreationTypes, DiskTypes
    <3> QED
      BY <2>9, <3>1, <1>2 DEF CreateRecord, To, CreationEnds
  <2> QED
    BY <1>3, <2>3, <2>4, <2>5, <2>6, <2>7, <2>8, <2>9 DEF Asking
<1>4. ASSUME NEW s \in Sessions, WriteRecord(s) PROVE CreationIsSound'
  <2>1. creation' = [creation EXCEPT !.step = "append"] /\ server' = server
        /\ creation.step = "content"
    BY <1>4 DEF WriteRecord, To
  <2> QED
    BY <2>1 DEF StoreTypes, CreationTypes
<1>5. creation' = creation \/ creation' = NoCreation \/ Asking \/ \E s \in Sessions : WriteRecord(s)
  BY StepsOfStore, PlanningIsQuiet
  DEF memory, StartServer, Show, Note, LetGo, DeleteSetup, End, AuditOnly, Write,
      WriteFails, Lose, Crash, CreationEnds
<1> QED
  BY <1>1, <1>2, <1>3, <1>4, <1>5

LEMMA OneOwnerKept ==
  ASSUME StoreTypes, UndrawnIsUnused, Reservations, CreationIsSound, OneOwner, Next
  PROVE  OneOwner'
<1> SUFFICES ASSUME NEW s \in Sessions, NEW t \in Sessions, log'[t] # <<>>,
                    log'[s] # <<>> \/ Holds(s)', drawn'[s].id = drawn'[t].id
             PROVE  s = t
  BY DEF OneOwner
<1>1. log[t] # <<>> \/ Holds(t)
  BY LogsGrow DEF Holds
<1>2. log[s] # <<>> \/ Holds(s) \/ WriteRecord(s)
  BY LogsGrow, HoldsGrow DEF Holds
<1>3. /\ drawn[t] # None /\ drawn'[t] = drawn[t]
      /\ log[s] # <<>> \/ Holds(s) => drawn'[s] = drawn[s]
  BY <1>1, DrawnStays DEF UndrawnIsUnused, Unused, Holds
<1>4. CASE WriteRecord(s)
  <2>1. log[t] # <<>> /\ creation.step = "content" /\ drawn'[s].id = creation.id
    BY <1>4 DEF WriteRecord, StoreTypes, PastTypes
  <2> QED
    BY <1>3, <2>1 DEF CreationIsSound, Reserving, UsedInLogs, Logged
<1>5. CASE log[s] # <<>> \/ Holds(s)
  <2>1. drawn[s].id = drawn[t].id
    BY <1>3, <1>5
  <2>2. CASE Holds(s) /\ Holds(t)
    BY <2>1, <2>2 DEF Reservations, Reserved
  <2> QED
    BY <1>1, <1>5, <2>1, <2>2 DEF OneOwner
<1> QED
  BY <1>2, <1>4, <1>5

-----------------------------------------------------------------------------
(* The plan of the lifecycle tool.                                         *)

\* What a plan is to list is what it has found and what it has not come to yet.
PlanFits ==
  plan # None =>
    /\ \A s \in plan.left : drawn[s] # None
    /\ plan.all = plan.found \union {s \in plan.left : drawn[s].id = plan.id}
    /\ \A s, t \in plan.all : s = t

LEMMA PlanFitsKept ==
  ASSUME StoreTypes, UndrawnIsUnused, OneOwner, PlanFits, Next
  PROVE  PlanFits'
<1> USE DEF PlanFits
<1>1. CASE plan' = plan
  <2>1. plan = None \/ \A s \in plan.left : s \in Sessions
    BY DEF StoreTypes, PastTypes
  <2> QED
    BY <1>1, <2>1, DrawnStays
<1>2. ASSUME NEW i \in Ids, PlanBegin(i) PROVE PlanFits'
  <2>1. drawn' = drawn
    BY <1>2 DEF PlanBegin, past
  <2>2. \A s \in Logged : drawn[s] # None
    BY DEF Logged, UndrawnIsUnused, Unused
  <2>3. \A s, t \in Logged : drawn[s].id = drawn[t].id => s = t
    BY DEF Logged, OneOwner
  <2>4. plan' = [id |-> i, left |-> Logged, found |-> {}, all |-> {s \in Logged : drawn[s].id = i}]
    BY <1>2 DEF PlanBegin
  <2> QED
    BY <2>1, <2>2, <2>3, <2>4
<1>3. ASSUME NEW r \in Sessions, Inspect(r) PROVE PlanFits'
  <2> DEFINE new == IF drawn[r].id = plan.id THEN {r} ELSE {}
  <2>1. /\ drawn' = drawn /\ plan # None /\ r \in plan.left
        /\ plan' = [plan EXCEPT !.left = @ \ {r}, !.found = @ \union new]
    BY <1>3 DEF Inspect, past
  <2>2. plan \in [id : Ids, left : SUBSET Sessions, found : SUBSET Sessions, all : SUBSET Sessions]
    BY <2>1 DEF StoreTypes, PastTypes
  <2> HIDE DEF new
  <2>3. /\ plan'.left = plan.left \ {r} /\ plan'.found = plan.found \union new
        /\ plan'.all = plan.all /\ plan'.id = plan.id
    BY <2>1, <2>2
  <2>4. new = {s \in {r} : drawn[s].id = plan.id}
    BY DEF new
  <2> QED
    BY <2>1, <2>3, <2>4
<1>4. ASSUME plan' = None PROVE PlanFits'
  BY <1>4
<1>5. plan' = plan \/ plan' = None \/ (\E i \in Ids : PlanBegin(i)) \/ \E s \in Sessions : Inspect(s)
  BY StepsOfStore, AskingIsQuiet
  DEF Planning, StartServer, LetGo, Show, Note, DeleteSetup, WriteRecord, End, AuditOnly,
      Write, WriteFails, Crash, Lose, PlanRefused, PlanShown
<1> QED
  BY <1>1, <1>2, <1>3, <1>4, <1>5

-----------------------------------------------------------------------------
(* The theorems of ids and plans.                                          *)

IdsInv ==
  /\ StoreTypes /\ Bounded /\ UndrawnIsUnused /\ Reservations /\ CreationIsSound
  /\ OneOwner /\ PlanFits

LEMMA IdsAtFirst == Init => IdsInv
<1> SUFFICES ASSUME Init PROVE IdsInv
  OBVIOUS
<1>1. StoreTypes /\ Bounded
  BY TypesAtFirst
<1>2. UndrawnIsUnused /\ Reservations /\ CreationIsSound /\ OneOwner /\ PlanFits
  BY StoreAssumption
  DEF Init, UndrawnIsUnused, Unused, Reservations, Reserved, Holds, CreationIsSound, Reserving,
      NoCreation, OneOwner, PlanFits
<1> QED
  BY <1>1, <1>2 DEF IdsInv

LEMMA IdsKept == IdsInv /\ [Next]_vars => IdsInv'
<1> SUFFICES ASSUME IdsInv, [Next]_vars PROVE IdsInv'
  OBVIOUS
<1> USE DEF IdsInv
<1>1. CASE Next
  <2>1. StoreTypes'
    BY <1>1, DiskTypesKept, CreationTypesKept, LogTypesKept, PastTypesKept DEF StoreTypes
  <2>2. Bounded'
    BY <1>1, BoundedKept DEF UndrawnIsUnused, Unused
  <2>3. UndrawnIsUnused' /\ Reservations' /\ CreationIsSound' /\ OneOwner' /\ PlanFits'
    BY <1>1, UndrawnKept, ReservationsKept, CreationKept, OneOwnerKept, PlanFitsKept
  <2> QED
    BY <2>1, <2>2, <2>3
<1>2. CASE UNCHANGED vars
  BY <1>2
  DEF vars, disk, memory, past, StoreTypes, DiskTypes, CreationTypes, LogTypes, PastTypes, Bounded,
      UndrawnIsUnused, Unused, Reservations, Reserved, Holds, CreationIsSound, UsedInLogs, Logged,
      OneOwner, PlanFits
<1> QED
  BY <1>1, <1>2

LEMMA IdsAlways == Spec => []IdsInv
  BY IdsAtFirst, IdsKept, PTL DEF Spec

\* Type correctness: every variable has its type within the bounds of the model.
THEOREM StoreTypeCorrect == Spec => []TypeOK
<1>1. IdsInv => TypeOK
  <2> SUFFICES ASSUME IdsInv PROVE TypeOK
    OBVIOUS
  <2> USE DEF IdsInv
  <2>1. MaxLog \in Nat
    BY StoreAssumption
  <2>2. ASSUME NEW s \in Sessions
        PROVE  /\ \A i \in DOMAIN log[s] : log[s][i] \in Events \union {Part}
               /\ \A i \in DOMAIN queue[s] : queue[s][i] \in Events
    BY Lengths, ElementOfSeq
  <2>3. awaiting \in [Sessions -> 0 .. MaxLog]
    BY <2>1 DEF StoreTypes, LogTypes, Bounded
  <2>4. run \in [shown : BOOLEAN, result : Results, waits : 0 .. MaxLog]
    BY <2>1 DEF StoreTypes, LogTypes, Runs, Bounded
  <2> QED
    BY <2>2, <2>3, <2>4
    DEF TypeOK, StoreTypes, DiskTypes, CreationTypes, LogTypes, PastTypes, Bounded
<1> QED
  BY <1>1, IdsAlways, PTL

\* A plan that data-lifecycle.ts shows lists every log that there was of its id,
\* and they are one session's.
THEOREM PlansAreExact == Spec => []PlanIsExact
<1>1. IdsInv => PlanIsExact
  <2> SUFFICES ASSUME IdsInv, plan # None, plan.left = {}
               PROVE  plan.found = plan.all /\ Cardinality(plan.found) <= 1
    BY DEF PlanIsExact
  <2>1. plan.found = plan.all /\ \A s, t \in plan.found : s = t
    BY DEF IdsInv, PlanFits
  <2>2. CASE plan.found = {}
    BY <2>1, <2>2, FS_EmptySet
  <2>3. CASE \E s : s \in plan.found
    <3>1. PICK s : s \in plan.found
      BY <2>3
    <3>2. plan.found = {s}
      BY <2>1, <3>1
    <3>3. Cardinality({s}) = 1
      BY FS_Singleton
    <3> QED
      BY <2>1, <3>2, <3>3
  <2> QED
    BY <2>2, <2>3
<1> QED
  BY <1>1, IdsAlways, PTL

Owners == [i \in Ids |-> {s \in created : drawn[s].id = i}]

\* An id belongs for ever to the first session created under it: whatever crashes
\* and losses do to the registry or to the logs, the store implements ResearchIds.
THEOREM StoreImplementsIds == Spec => ImplementsIds
<1>1. Init => Owned!Init
  BY DEF Init, Owned!Init
<1>2. IdsInv /\ [Next]_vars => [Owned!Next]_Owners
  <2> SUFFICES ASSUME IdsInv, [Next]_vars, Owners' # Owners PROVE Owned!Next
    BY DEF Owners
  <2>1. created \subseteq Sessions /\ \A s \in created : drawn[s] # None
    BY DEF IdsInv, StoreTypes, PastTypes, UndrawnIsUnused, Unused
  <2>2. \A s \in created : Next => drawn'[s] = drawn[s]
    BY <2>1, DrawnStays DEF IdsInv
  <2>3. Next /\ created' # created
    BY <2>2 DEF Owners, vars, past
  <2>4. PICK s \in Sessions : created' = created \union {s} /\ queue[s] # <<>>
    <3>1. ASSUME NEW s \in Sessions, Write(s) PROVE created' = created \union {s} /\ queue[s] # <<>>
      BY <3>1 DEF Write
    <3>2. CASE Crash
      BY <2>3, <3>2 DEF Crash
    <3>3. ~ (\E s \in Sessions : Write(s)) /\ ~Crash => created' = created
      BY <2>3, StepsOfStore, AskingIsQuiet, PlanningIsQuiet
      DEF sessions, past, StartServer, LetGo, Show, Note, DeleteSetup, WriteRecord, End, AuditOnly,
          WriteFails, Lose
    <3> QED
      BY <2>3, <3>1, <3>2, <3>3
  <2>5. s \notin created /\ Holds(s) /\ drawn[s] # None
    BY <2>3, <2>4 DEF Holds, IdsInv, UndrawnIsUnused, Unused
  <2> DEFINE i == drawn[s].id
  <2>6. i \in Ids /\ record[i] = s /\ drawn'[s] = drawn[s]
    BY <2>3, <2>5, DrawnTyped, DrawnStays DEF IdsInv, Reservations, Reserved
  <2>7. ASSUME NEW t \in created PROVE drawn[t].id # i
    <3>1. t # s /\ t \in Sessions /\ drawn[t] # None
      BY <2>1, <2>5, <2>7
    <3>2. CASE lost # "registry"
      BY <2>6, <2>7, <3>1, <3>2 DEF IdsInv, Reservations, Reserved
    <3>3. CASE lost = "registry"
      <4>1. log[t] # <<>>
        BY <2>7, <3>1, <3>3 DEF IdsInv, Reservations, Reserved
      <4> QED
        BY <2>5, <3>1, <4>1 DEF IdsInv, OneOwner
    <3> QED
      BY <3>2, <3>3
  <2>8. Owners[i] = {}
    BY <2>6, <2>7 DEF Owners
  <2>9. \A j \in Ids : Owners[j] # {s}
    BY <2>5 DEF Owners
  <2>10. Owners' = [Owners EXCEPT ![i] = {s}]
    <3>1. \A j \in Ids : {t \in created' : drawn'[t].id = j} =
                         IF j = i THEN {s} ELSE {t \in created : drawn[t].id = j}
      BY <2>1, <2>2, <2>3, <2>4, <2>6, <2>7
    <3> QED
      BY <3>1 DEF Owners
  <2> QED
    BY <2>6, <2>8, <2>9, <2>10 DEF Owned!Next, Owned!Take, Owners
<1> QED
  BY <1>1, <1>2, IdsAlways, PTL DEF Spec, ImplementsIds, Owned!Spec, Owners

-----------------------------------------------------------------------------
(* The order of the events.                                                *)

\* What an event says may be said after another one.
Follows(e, f) ==
  /\ e.shown => f.shown
  /\ e.result \in {"ok", "aborted"} => f.result = e.result
  /\ e.result = "error" => f.result \in {"error", "aborted"}

\* The lines of a log, the events that wait to be written, and the session as it
\* is now, if it still is.
InOrder(l, q, now, r) ==
  /\ \A i, j \in DOMAIN l : i < j /\ l[i] # Part /\ l[j] # Part => Follows(l[i], l[j])
  /\ \A i \in DOMAIN l, j \in DOMAIN q : l[i] # Part => Follows(l[i], q[j])
  /\ \A i, j \in DOMAIN q : i < j => Follows(q[i], q[j])
  /\ now => /\ \A i \in DOMAIN l : l[i] # Part => Follows(l[i], r)
            /\ \A i \in DOMAIN q : Follows(q[i], r)

EventsInOrder == \A s \in Sessions : InOrder(log[s], queue[s], active = s, run)

Logs == Seq(Events \union {Part})
Queues == Seq(Events)

LEMMA FollowsAfter ==
  ASSUME NEW e \in Events, NEW f, Follows(e, f), f.result \in Results, NEW g, Follows(f, g)
  PROVE  Follows(e, g)
  BY DEF Follows, Events, Results

LEMMA InOrderLater ==
  ASSUME NEW l \in Logs, NEW q \in Queues, NEW now, NEW r \in Runs, InOrder(l, q, now, r),
         NEW now2, NEW r2, now2 => now /\ Follows(r, r2)
  PROVE  InOrder(l, q, now2, r2)
<1>0. r.result \in Results
  BY DEF Runs
<1>1. ASSUME now2, NEW i \in DOMAIN l, l[i] # Part PROVE Follows(l[i], r2)
  <2>1. l[i] \in Events
    BY <1>1, ElementOfSeq DEF Logs
  <2> QED
    BY <1>0, <1>1, <2>1, FollowsAfter DEF InOrder
<1>2. ASSUME now2, NEW i \in DOMAIN q PROVE Follows(q[i], r2)
  <2>1. q[i] \in Events
    BY <1>2, ElementOfSeq DEF Queues
  <2> QED
    BY <1>0, <1>2, <2>1, FollowsAfter DEF InOrder
<1> QED
  BY <1>1, <1>2 DEF InOrder

LEMMA InOrderAudited ==
  ASSUME NEW l \in Logs, NEW q \in Queues, NEW r \in Runs, InOrder(l, q, TRUE, r),
         NEW e \in Events, Follows(r, e),
         NEW now2, NEW r2, now2 => Follows(e, r2)
  PROVE  InOrder(l, Append(q, e), now2, r2)
<1> DEFINE q2 == Append(q, e)
<1>0. r.result \in Results /\ e.result \in Results
  BY DEF Runs, Events
<1>1. /\ DOMAIN q2 = DOMAIN q \union {Len(q) + 1} /\ DOMAIN q = 1 .. Len(q) /\ Len(q) \in Nat
      /\ \A i \in DOMAIN q : q2[i] = q[i]
      /\ q2[Len(q) + 1] = e
  BY LineAdded DEF Queues
<1>2. ASSUME NEW i \in DOMAIN l, l[i] # Part
      PROVE  l[i] \in Events /\ Follows(l[i], r) /\ Follows(l[i], e)
  <2>1. l[i] \in Events /\ Follows(l[i], r)
    BY <1>2, ElementOfSeq DEF Logs, InOrder
  <2> QED
    BY <1>0, <2>1, FollowsAfter
<1>3. ASSUME NEW i \in DOMAIN q
      PROVE  q[i] \in Events /\ Follows(q[i], r) /\ Follows(q[i], e)
  <2>1. q[i] \in Events /\ Follows(q[i], r)
    BY <1>3, ElementOfSeq DEF Queues, InOrder
  <2> QED
    BY <1>0, <2>1, FollowsAfter
<1> HIDE DEF q2
<1>4. \A i \in DOMAIN l, j \in DOMAIN q2 : l[i] # Part => Follows(l[i], q2[j])
  BY <1>1, <1>2 DEF InOrder
<1>5. \A i, j \in DOMAIN q2 : i < j => Follows(q2[i], q2[j])
  BY <1>1, <1>3 DEF InOrder
<1>6. ASSUME now2 PROVE /\ \A i \in DOMAIN l : l[i] # Part => Follows(l[i], r2)
                        /\ \A i \in DOMAIN q2 : Follows(q2[i], r2)
  <2>1. \A i \in DOMAIN l : l[i] # Part => Follows(l[i], r2)
    BY <1>0, <1>2, <1>6, FollowsAfter
  <2>2. \A i \in DOMAIN q : Follows(q[i], r2)
    BY <1>0, <1>3, <1>6, FollowsAfter
  <2> QED
    BY <1>1, <1>6, <2>1, <2>2
<1>7. \A i, j \in DOMAIN l : i < j /\ l[i] # Part /\ l[j] # Part => Follows(l[i], l[j])
  BY DEF InOrder
<1> QED
  BY <1>4, <1>5, <1>6, <1>7 DEF InOrder, q2

LEMMA InOrderWritten ==
  ASSUME NEW l \in Logs, NEW q \in Queues, q # <<>>, NEW now, NEW r, InOrder(l, q, now, r)
  PROVE  InOrder(Append(l, q[1]), Tail(q), now, r)
<1> DEFINE l2 == Append(l, q[1])
           q2 == Tail(q)
<1>1. /\ 1 \in DOMAIN q /\ q[1] \in Events
      /\ \A i \in DOMAIN q2 : i + 1 \in DOMAIN q /\ q2[i] = q[i + 1]
      /\ q2 \in Queues /\ Len(q2) = Len(q) - 1
  BY RestOfQueue DEF Queues
<1>2. \A i \in DOMAIN q2 : i \in Nat /\ i >= 1
  BY <1>1, LenProperties DEF Queues
<1>3. /\ DOMAIN l2 = DOMAIN l \union {Len(l) + 1} /\ DOMAIN l = 1 .. Len(l) /\ Len(l) \in Nat
      /\ \A i \in DOMAIN l : l2[i] = l[i]
      /\ l2[Len(l) + 1] = q[1]
  BY <1>1, LineAdded DEF Logs
<1> HIDE DEF l2, q2
<1>4. \A i, j \in DOMAIN l2 : i < j /\ l2[i] # Part /\ l2[j] # Part => Follows(l2[i], l2[j])
  BY <1>1, <1>3 DEF InOrder
<1>5. ASSUME NEW i \in DOMAIN l2, NEW j \in DOMAIN q2, l2[i] # Part PROVE Follows(l2[i], q2[j])
  <2>1. q2[j] = q[j + 1] /\ j + 1 \in DOMAIN q /\ 1 < j + 1
    BY <1>1, <1>2
  <2>2. CASE i \in DOMAIN l
    BY <1>3, <1>5, <2>1, <2>2 DEF InOrder
  <2>3. CASE i = Len(l) + 1
    BY <1>1, <1>3, <2>1, <2>3 DEF InOrder
  <2> QED
    BY <1>3, <2>2, <2>3
<1>6. ASSUME NEW i \in DOMAIN q2, NEW j \in DOMAIN q2, i < j PROVE Follows(q2[i], q2[j])
  <2>1. q2[i] = q[i + 1] /\ i + 1 \in DOMAIN q /\ q2[j] = q[j + 1] /\ j + 1 \in DOMAIN q
    BY <1>1
  <2>2. i + 1 < j + 1
    BY <1>2, <1>6
  <2> QED
    BY <2>1, <2>2 DEF InOrder
<1>7. ASSUME now PROVE /\ \A i \in DOMAIN l2 : l2[i] # Part => Follows(l2[i], r)
                       /\ \A i \in DOMAIN q2 : Follows(q2[i], r)
  BY <1>1, <1>3, <1>7 DEF InOrder
<1> QED
  BY <1>4, <1>5, <1>6, <1>7 DEF InOrder, l2, q2

LEMMA InOrderCut ==
  ASSUME NEW l \in Logs, NEW q, NEW now, NEW r, InOrder(l, q, now, r)
  PROVE  /\ InOrder(l, <<>>, now, r)
         /\ InOrder(Append(l, Part), <<>>, now, r)
         /\ InOrder(<<>>, q, now, r)
<1>1. DOMAIN <<>> = {}
  OBVIOUS
<1>2. InOrder(l, <<>>, now, r) /\ InOrder(<<>>, q, now, r)
  BY <1>1 DEF InOrder
<1> DEFINE l2 == Append(l, Part)
<1>3. /\ DOMAIN l2 = DOMAIN l \union {Len(l) + 1}
      /\ \A i \in DOMAIN l : l2[i] = l[i]
      /\ l2[Len(l) + 1] = Part
  BY LineAdded DEF Logs
<1> HIDE DEF l2
<1>4. InOrder(l2, <<>>, now, r)
  BY <1>1, <1>3 DEF InOrder
<1> QED
  BY <1>2, <1>4 DEF l2

\* What an audit of the active session says follows what was said before; the
\* session is as it says, or in setup and let go.
AuditFollows(e) ==
  /\ active # None /\ e \in Events
  /\ queue' = [queue EXCEPT ![active] = Append(@, e)]
  /\ UNCHANGED <<log, drawn, created, lost, healthy, creation>>
  /\ Follows(run, e)
  /\ (run.result = "ok" => run.shown) => (e.result = "ok" => e.shown)
  /\ \/ /\ active' = active
        /\ run'.shown = e.shown /\ run'.result = e.result
        /\ run' = run \/ e.result = "none" \/ run'.waits = Len(queue[active]) + 1
     \/ /\ active' = None /\ run' = NoRun /\ creation = NoCreation
        /\ run.result = "none" /\ ~run.shown /\ e.result = "none" /\ ~e.shown

LEMMA AuditsFollow ==
  ASSUME StoreTypes, Show \/ Note \/ DeleteSetup \/ \E result \in Results : End(result)
  PROVE  \E e \in Events : AuditFollows(e)
<1>1. run \in Runs /\ run.shown \in BOOLEAN /\ run.result \in Results /\ "none" \in Results
  BY DEF StoreTypes, LogTypes, Runs, Results
<1>2. \A shown \in BOOLEAN, result \in Results : [shown |-> shown, result |-> result] \in Events
  BY DEF Events
<1>3. CASE Show
  <2> DEFINE e == [shown |-> TRUE, result |-> "none"]
  <2>1. e \in Events /\ Follows(run, e)
    BY <1>1, <1>2, <1>3 DEF Show, Follows
  <2>2. run'.shown = e.shown /\ run'.result = e.result /\ e.result = "none" /\ e.shown
    BY <1>1, <1>3 DEF Show, Runs
  <2>3. /\ active # None /\ queue' = [queue EXCEPT ![active] = Append(@, e)]
        /\ UNCHANGED <<log, drawn, created, lost, healthy, creation, active>>
    BY <1>3 DEF Show, Audit, AuditOnly, disk, past
  <2> HIDE DEF e
  <2> QED
    BY <2>1, <2>2, <2>3 DEF AuditFollows
<1>4. CASE Note
  <2> DEFINE e == [shown |-> run.shown, result |-> run.result]
  <2>1. e \in Events
    BY <1>1, <1>2
  <2>2. Follows(run, e) /\ run' = run /\ run'.shown = e.shown /\ run'.result = e.result
    BY <1>1, <1>4 DEF Note, Follows
  <2>3. /\ active # None /\ queue' = [queue EXCEPT ![active] = Append(@, e)]
        /\ UNCHANGED <<log, drawn, created, lost, healthy, creation, active>>
    BY <1>4 DEF Note, Audit, AuditOnly, disk, past
  <2> HIDE DEF e
  <2> QED
    BY <2>1, <2>2, <2>3 DEF AuditFollows
<1>5. CASE DeleteSetup
  <2> DEFINE e == [shown |-> FALSE, result |-> "none"]
  <2>1. e \in Events /\ Follows(run, e) /\ e.result = "none" /\ ~e.shown
    BY <1>1, <1>2, <1>5 DEF DeleteSetup, Follows
  <2>2. /\ active # None /\ queue' = [queue EXCEPT ![active] = Append(@, e)]
        /\ UNCHANGED <<log, drawn, created, lost, healthy, creation>>
        /\ active' = None /\ run' = NoRun /\ creation = NoCreation
        /\ run.result = "none" /\ ~run.shown
    BY <1>5 DEF DeleteSetup, Audit, disk, past
  <2> HIDE DEF e
  <2> QED
    BY <2>1, <2>2 DEF AuditFollows
<1>6. ASSUME NEW result \in Results, End(result) PROVE \E e \in Events : AuditFollows(e)
  <2> DEFINE e == [shown |-> run.shown, result |-> result]
  <2>1. e \in Events
    BY <1>1, <1>2
  <2>2. Follows(run, e)
    BY <1>1, <1>6 DEF End, Follows
  <2>3. run'.shown = e.shown /\ run'.result = e.result /\ run'.waits = Len(queue[active]) + 1
    BY <1>1, <1>6 DEF End, Runs
  <2>4. e.result = "ok" => e.shown
    BY <1>6 DEF End
  <2>5. /\ active # None /\ queue' = [queue EXCEPT ![active] = Append(@, e)]
        /\ UNCHANGED <<log, drawn, created, lost, healthy, creation, active>>
    BY <1>6 DEF End, Audit, AuditOnly, disk, past
  <2> HIDE DEF e
  <2> QED
    BY <2>1, <2>2, <2>3, <2>4, <2>5 DEF AuditFollows
<1> QED
  BY <1>3, <1>4, <1>5, <1>6

LEMMA EventsInOrderKept ==
  ASSUME StoreTypes, UndrawnIsUnused, EventsInOrder, Next
  PROVE  EventsInOrder'
<1> SUFFICES ASSUME NEW t \in Sessions PROVE InOrder(log'[t], queue'[t], active' = t, run')
  BY DEF EventsInOrder
<1>1. /\ log[t] \in Logs /\ queue[t] \in Queues /\ run \in Runs /\ t # None
      /\ InOrder(log[t], queue[t], active = t, run)
  BY StoreAssumption DEF StoreTypes, LogTypes, Logs, Queues, EventsInOrder
<1>2. ASSUME log'[t] = log[t], queue'[t] = queue[t], active' = t => active = t /\ Follows(run, run')
      PROVE  InOrder(log'[t], queue'[t], active' = t, run')
  BY <1>1, <1>2, InOrderLater
<1>3. Follows(run, run)
  BY DEF Follows
<1>4. CASE Asking \/ Planning \/ StartServer
  <2>1. UNCHANGED <<log, queue, active, run>>
    BY <1>4, AskingIsQuiet, PlanningIsQuiet DEF sessions, disk, memory, StartServer
  <2> QED
    BY <1>2, <1>3, <2>1
<1>5. CASE LetGo
  BY <1>1, <1>2, <1>5 DEF LetGo, disk
<1>6. ASSUME NEW s \in Sessions, WriteRecord(s)
      PROVE  InOrder(log'[t], queue'[t], active' = t, run')
  <2>1. CASE t = s
    <3>1. log'[t] = <<>> /\ queue'[t] = <<[shown |-> FALSE, result |-> "none"]>> /\ run' = NoRun
      BY <1>6, <2>1 DEF WriteRecord, UndrawnIsUnused, Unused, StoreTypes, LogTypes
    <3>2. DOMAIN log'[t] = {} /\ DOMAIN queue'[t] = {1} /\ ~queue'[t][1].shown
          /\ queue'[t][1].result = "none"
      BY <3>1
    <3>3. Follows(queue'[t][1], run')
      BY <3>2 DEF Follows
    <3>4. \A i, j \in DOMAIN queue'[t] : ~(i < j)
      BY <3>2
    <3> QED
      BY <3>2, <3>3, <3>4 DEF InOrder
  <2>2. CASE t # s
    BY <1>2, <1>6, <2>2 DEF WriteRecord
  <2> QED
    BY <2>1, <2>2
<1>7. ASSUME NEW e \in Events, AuditFollows(e)
      PROVE  InOrder(log'[t], queue'[t], active' = t, run')
  <2>1. CASE t = active
    <3>1. log'[t] = log[t] /\ queue'[t] = Append(queue[t], e)
      BY <1>7, <2>1 DEF AuditFollows, StoreTypes, LogTypes
    <3>2. Follows(run, e) /\ (active' = t => Follows(e, run'))
      BY <1>1, <1>7 DEF AuditFollows, Follows
    <3>3. InOrder(log[t], queue[t], TRUE, run)
      BY <1>1, <2>1 DEF InOrder
    <3> QED
      BY <1>1, <3>1, <3>2, <3>3, InOrderAudited
  <2>2. CASE t # active
    <3>1. log'[t] = log[t] /\ queue'[t] = queue[t] /\ active' # t
      BY <1>1, <1>7, <2>2 DEF AuditFollows, StoreTypes, LogTypes
    <3> QED
      BY <1>2, <3>1
  <2> QED
    BY <2>1, <2>2
<1>8. ASSUME NEW s \in Sessions, Write(s) PROVE InOrder(log'[t], queue'[t], active' = t, run')
  <2>1. active' = active /\ Follows(run, run')
    BY <1>1, <1>8 DEF Write, Follows, Runs
  <2>2. CASE t = s
    <3>1. queue[t] # <<>> /\ log'[t] = Append(log[t], queue[t][1]) /\ queue'[t] = Tail(queue[t])
          /\ queue'[t] \in Queues /\ log'[t] \in Logs
      BY <1>8, <2>2, WriteMoves DEF Queues, Logs
    <3>2. InOrder(log'[t], queue'[t], active = t, run)
      BY <1>1, <3>1, InOrderWritten
    <3> QED
      BY <1>1, <2>1, <3>1, <3>2, InOrderLater
  <2>3. CASE t # s
    BY <1>2, <1>8, <2>1, <2>3, WriteMoves
  <2> QED
    BY <2>2, <2>3
<1>9. ASSUME queue'[t] = <<>>,
             \/ log'[t] = log[t] \/ log'[t] = Append(log[t], Part)
             \/ queue[t] # <<>> /\ log'[t] = Append(log[t], queue[t][1]),
             log'[t] \in Logs,
             active' = t => active = t /\ Follows(run, run')
      PROVE  InOrder(log'[t], queue'[t], active' = t, run')
  <2>1. queue'[t] \in Queues
    BY <1>9, EmptySeq DEF Queues
  <2>2. CASE log'[t] = log[t] \/ log'[t] = Append(log[t], Part)
    <3>1. InOrder(log'[t], queue'[t], active = t, run)
      BY <1>1, <1>9, <2>2, InOrderCut
    <3> QED
      BY <1>1, <1>9, <2>1, <3>1, InOrderLater
  <2>3. CASE queue[t] # <<>> /\ log'[t] = Append(log[t], queue[t][1])
    <3>1. InOrder(log'[t], Tail(queue[t]), active = t, run)
      BY <1>1, <2>3, InOrderWritten
    <3>2. InOrder(log'[t], queue'[t], active = t, run)
      BY <1>9, <3>1, InOrderCut
    <3> QED
      BY <1>1, <1>9, <2>1, <3>2, InOrderLater
  <2> QED
    BY <1>9, <2>2, <2>3
<1>10. ASSUME NEW s \in Sessions, NEW left \in {<<>>, <<Part>>}, WriteFails(s, left)
       PROVE  InOrder(log'[t], queue'[t], active' = t, run')
  <2>1. active' = t => active = t /\ Follows(run, run')
    BY <1>1, <1>10 DEF WriteFails, Follows, Runs
  <2>2. CASE t = s
    BY <1>9, <1>10, <2>1, <2>2, FailureLeaves DEF Logs
  <2>3. CASE t # s
    BY <1>2, <1>10, <2>1, <2>3, FailureLeaves
  <2> QED
    BY <2>2, <2>3
<1>11. CASE Crash
  <2>1. active' # t /\ log'[t] \in Logs /\ queue'[t] = <<>>
    BY <1>1, <1>11, CrashLeaves DEF Crash, Logs
  <2>2. \/ log'[t] = log[t] \/ log'[t] = Append(log[t], Part)
        \/ queue[t] # <<>> /\ log'[t] = Append(log[t], queue[t][1])
    BY <1>11, CrashLeaves
  <2> QED
    BY <1>9, <2>1, <2>2
<1>12. ASSUME NEW what \in {"logs", "registry"}, Lose(what)
       PROVE  InOrder(log'[t], queue'[t], active' = t, run')
  <2>1. queue' = queue /\ active' = active /\ run' = run /\ (log'[t] = log[t] \/ log'[t] = <<>>)
    BY <1>12 DEF Lose, memory, Logged, StoreTypes, LogTypes
  <2> QED
    BY <1>1, <1>2, <1>3, <2>1, InOrderCut
<1> QED
  BY <1>4, <1>5, <1>6, <1>7, <1>8, <1>10, <1>11, <1>12, AuditsFollow, StepsOfStore

\* A log tells of its session in the order in which things happened.
THEOREM LogsAreInOrder == Spec => []LogInOrder
<1>1. Init => EventsInOrder
  BY DEF Init, EventsInOrder, InOrder
<1>2. IdsInv /\ EventsInOrder /\ [Next]_vars => EventsInOrder'
  <2>1. CASE UNCHANGED vars
    BY <2>1 DEF vars, disk, memory, EventsInOrder
  <2>2. IdsInv /\ EventsInOrder /\ Next => EventsInOrder'
    BY EventsInOrderKept DEF IdsInv
  <2> QED
    BY <2>1, <2>2
<1>3. EventsInOrder => LogInOrder
  BY DEF EventsInOrder, InOrder, Follows, LogInOrder
<1> QED
  BY <1>1, <1>2, <1>3, IdsAlways, PTL DEF Spec

-----------------------------------------------------------------------------
(* What a log says of its session.                                         *)

Told(l) == {i \in DOMAIN l : l[i] # Part /\ l[i].result # "none"}
ResultIn(l) ==
  IF Told(l) = {} THEN "none" ELSE l[CHOOSE i \in Told(l) : \A j \in Told(l) : j <= i].result
StartedIn(l) == \E i \in DOMAIN l : l[i] # Part /\ l[i].shown

\* Of the lines that tell a result there is a last one, and none is handed off
\* before anything was shown.
Sane(l) ==
  /\ Told(l) # {} => \E i \in Told(l) : \A j \in Told(l) : j <= i
  /\ \A i \in DOMAIN l : l[i] # Part /\ l[i].result = "ok" => l[i].shown

LEMMA LogSays ==
  ASSUME NEW s \in Sessions
  PROVE  ResultOf(s) = ResultIn(log[s]) /\ (Started(s) <=> StartedIn(log[s]))
<1>1. ResultOf(s) = ResultIn(log[s])
  BY DEF ResultOf, ResultIn, Told
<1>2. Started(s) <=> StartedIn(log[s])
  BY DEF Started, Lines, StartedIn
<1> QED
  BY <1>1, <1>2

LEMMA LogSaysNext ==
  ASSUME NEW s \in Sessions
  PROVE  ResultOf(s)' = ResultIn(log'[s]) /\ (Started(s)' <=> StartedIn(log'[s]))
<1>1. ResultOf(s)' = ResultIn(log'[s])
  BY DEF ResultOf, ResultIn, Told
<1>2. Started(s)' <=> StartedIn(log'[s])
  BY DEF Started, Lines, StartedIn
<1> QED
  BY <1>1, <1>2

LEMMA SaneSays ==
  ASSUME NEW l \in Logs, Sane(l)
  PROVE  ResultIn(l) \in Results /\ (ResultIn(l) = "ok" => StartedIn(l))
<1>1. CASE Told(l) = {}
  BY <1>1 DEF ResultIn, Results
<1>2. CASE Told(l) # {}
  <2> DEFINE last == CHOOSE i \in Told(l) : \A j \in Told(l) : j <= i
  <2>1. last \in Told(l)
    BY <1>2 DEF Sane
  <2> HIDE DEF last
  <2>2. l[last] \in Events
    BY <2>1, ElementOfSeq DEF Told, Logs
  <2>3. ResultIn(l) = l[last].result
    BY <1>2 DEF ResultIn, last
  <2> QED
    BY <2>1, <2>2, <2>3 DEF Sane, Told, StartedIn, Events
<1> QED
  BY <1>1, <1>2

\* What a line more says.
LEMMA LineSays ==
  ASSUME NEW l \in Logs, NEW e \in Events \union {Part}, Sane(l),
         e # Part /\ e.result = "ok" => e.shown
  PROVE  LET m == Append(l, e) IN
         /\ Sane(m)
         /\ ResultIn(m) = IF e # Part /\ e.result # "none" THEN e.result ELSE ResultIn(l)
         /\ StartedIn(m) <=> StartedIn(l) \/ (e # Part /\ e.shown)
<1> DEFINE m == Append(l, e)
           n == Len(l) + 1
           last(k) == CHOOSE i \in Told(k) : \A j \in Told(k) : j <= i
<1>1. /\ DOMAIN m = DOMAIN l \union {n} /\ DOMAIN l = 1 .. Len(l) /\ Len(l) \in Nat
      /\ \A i \in DOMAIN l : m[i] = l[i]
      /\ m[n] = e
  BY LineAdded DEF Logs
<1>2. n \in Nat /\ \A i \in DOMAIN l : i \in Nat /\ i < n
  BY <1>1
<1> HIDE DEF m, n
<1>3. StartedIn(m) <=> StartedIn(l) \/ (e # Part /\ e.shown)
  BY <1>1 DEF StartedIn
<1>4. CASE e # Part /\ e.result # "none"
  <2>1. n \in Told(m) /\ \A j \in Told(m) : j \in Nat /\ j <= n
    BY <1>1, <1>2, <1>4 DEF Told
  <2>2. last(m) \in Told(m) /\ \A j \in Told(m) : j <= last(m)
    BY <2>1
  <2> HIDE DEF last
  <2>3. last(m) = n
    <3>1. last(m) \in Nat /\ last(m) <= n /\ n <= last(m)
      BY <2>1, <2>2, Zenon
    <3> QED
      BY <1>2, <3>1
  <2>4. ResultIn(m) = m[last(m)].result
    BY <2>1 DEF ResultIn, last
  <2>5. Sane(m)
    BY <1>1, <2>1 DEF Sane
  <2> QED
    BY <1>1, <1>3, <1>4, <2>3, <2>4, <2>5 DEF m
<1>5. CASE ~(e # Part /\ e.result # "none")
  <2>1. Told(m) = Told(l) /\ Told(l) \subseteq DOMAIN l
    BY <1>1, <1>2, <1>5 DEF Told
  <2>2. Sane(m)
    BY <1>1, <1>5, <2>1 DEF Sane
  <2>3. ResultIn(m) = ResultIn(l)
    <3>1. CASE Told(l) = {}
      BY <2>1, <3>1 DEF ResultIn
    <3>2. CASE Told(l) # {}
      <4>1. last(m) = last(l) /\ last(l) \in Told(l)
        BY <2>1, <3>2 DEF Sane
      <4> HIDE DEF last
      <4>2. ResultIn(m) = m[last(m)].result /\ ResultIn(l) = l[last(l)].result
        BY <2>1, <3>2 DEF ResultIn, last
      <4> QED
        BY <1>1, <2>1, <4>1, <4>2
    <3> QED
      BY <3>1, <3>2
  <2> QED
    BY <1>3, <1>5, <2>2, <2>3 DEF m
<1> QED
  BY <1>4, <1>5 DEF m

\* Lines hand a session off only when something was shown.
SaneStore ==
  /\ \A s \in Sessions : /\ Sane(log[s])
                         /\ \A i \in DOMAIN queue[s] : queue[s][i].result = "ok" => queue[s][i].shown
  /\ run.result = "ok" => run.shown

\* When the active session has ended the events from the one it waits for on say
\* so; when it waits for none any more its log does.
EndIsSaved ==
  active # None /\ run.result # "none" /\ healthy =>
    /\ run.waits <= Len(queue[active])
    /\ \A i \in DOMAIN queue[active] : i >= run.waits =>
         queue[active][i].result = run.result /\ queue[active][i].shown = run.shown
    /\ run.waits = 0 => /\ ResultIn(log[active]) = run.result
                        /\ run.shown => StartedIn(log[active])

LEMMA EmptyIsSane == Sane(<<>>)
  BY DEF Sane, Told

LEMMA SaneStoreKept ==
  ASSUME StoreTypes, UndrawnIsUnused, SaneStore, Next
  PROVE  SaneStore'
<1> DEFINE SaneQueue(q) == \A i \in DOMAIN q : q[i].result = "ok" => q[i].shown
<1>1. ASSUME NEW t \in Sessions
      PROVE  /\ log[t] \in Logs /\ queue[t] \in Queues
             /\ Sane(log[t]) /\ SaneQueue(queue[t])
  BY <1>1 DEF StoreTypes, LogTypes, Logs, Queues, SaneStore
<1>2. ASSUME NEW t \in Sessions PROVE Sane(Append(log[t], Part))
  BY <1>1, LineSays
<1>3. ASSUME NEW t \in Sessions, queue[t] # <<>>
      PROVE  Sane(Append(log[t], queue[t][1])) /\ SaneQueue(Tail(queue[t]))
  <2>1. /\ 1 \in DOMAIN queue[t] /\ queue[t][1] \in Events
        /\ \A i \in DOMAIN Tail(queue[t]) : i + 1 \in DOMAIN queue[t] /\ Tail(queue[t])[i] = queue[t][i + 1]
    BY <1>1, <1>3, RestOfQueue DEF Queues
  <2>2. SaneQueue(Tail(queue[t]))
    BY <1>1, <2>1
  <2> QED
    BY <1>1, <2>1, <2>2, LineSays
<1>4. SaneQueue(<<>>)
  OBVIOUS
<1> HIDE DEF SaneQueue
<1>5. ASSUME \A t \in Sessions : Sane(log'[t]) /\ SaneQueue(queue'[t]), run'.result = "ok" => run'.shown
      PROVE  SaneStore'
  BY <1>5 DEF SaneStore, SaneQueue
<1>6. /\ \A t \in Sessions : Sane(log[t]) /\ SaneQueue(queue[t])
      /\ run.result = "ok" => run.shown
  BY <1>1 DEF SaneStore
<1>7. CASE Asking \/ Planning \/ StartServer
  <2>1. UNCHANGED <<log, queue, run>>
    BY <1>7, AskingIsQuiet, PlanningIsQuiet DEF sessions, disk, memory, StartServer
  <2> QED
    BY <1>5, <1>6, <2>1
<1>8. CASE LetGo
  BY <1>5, <1>6, <1>8 DEF LetGo, disk, NoRun
<1>9. ASSUME NEW s \in Sessions, WriteRecord(s) PROVE SaneStore'
  <2>1. log' = log /\ run' = NoRun /\ NoRun.result = "none"
        /\ queue' = [queue EXCEPT ![s] = <<[shown |-> FALSE, result |-> "none"]>>]
    BY <1>9 DEF WriteRecord, NoRun
  <2>2. SaneQueue(<<[shown |-> FALSE, result |-> "none"]>>)
    BY DEF SaneQueue
  <2>3. \A t \in Sessions : queue'[t] = IF t = s THEN <<[shown |-> FALSE, result |-> "none"]>> ELSE queue[t]
    BY <2>1 DEF StoreTypes, LogTypes
  <2> QED
    BY <1>5, <1>6, <2>1, <2>2, <2>3
<1>10. ASSUME NEW e \in Events, AuditFollows(e) PROVE SaneStore'
  <2>1. log' = log /\ active \in Sessions /\ (run'.result = "ok" => run'.shown) /\ (e.result = "ok" => e.shown)
    BY <1>6, <1>10 DEF AuditFollows, StoreTypes, LogTypes, NoRun
  <2>2. \A t \in Sessions : queue'[t] = IF t = active THEN Append(queue[t], e) ELSE queue[t]
    BY <1>10 DEF AuditFollows, StoreTypes, LogTypes
  <2>3. SaneQueue(Append(queue[active], e))
    <3> DEFINE q == queue[active]
               q2 == Append(q, e)
    <3>1. /\ DOMAIN q2 = DOMAIN q \union {Len(q) + 1} /\ \A i \in DOMAIN q : q2[i] = q[i]
          /\ q2[Len(q) + 1] = e
      BY <1>1, <2>1, LineAdded DEF Queues
    <3>2. SaneQueue(q)
      BY <1>6, <2>1
    <3> HIDE DEF q, q2
    <3>3. SaneQueue(q2)
      BY <2>1, <3>1, <3>2 DEF SaneQueue
    <3> QED
      BY <3>3 DEF q, q2
  <2> QED
    BY <1>5, <1>6, <2>1, <2>2, <2>3
<1>11. ASSUME NEW s \in Sessions, Write(s) PROVE SaneStore'
  <2>1. run'.result = "ok" => run'.shown
    BY <1>6, <1>11 DEF Write, StoreTypes, LogTypes, Runs
  <2>2. /\ queue[s] # <<>> /\ log'[s] = Append(log[s], queue[s][1]) /\ queue'[s] = Tail(queue[s])
        /\ \A t \in Sessions : t # s => queue'[t] = queue[t] /\ log'[t] = log[t]
    BY <1>11, WriteMoves
  <2> QED
    BY <1>3, <1>5, <1>6, <2>1, <2>2
<1>12. ASSUME NEW s \in Sessions, NEW left \in {<<>>, <<Part>>}, WriteFails(s, left) PROVE SaneStore'
  <2>1. run'.result = "ok" => run'.shown
    <3>1. run' = run \/ run' = NoRun \/ run' = [run EXCEPT !.waits = 0]
      BY <1>12 DEF WriteFails
    <3>2. run \in Runs /\ NoRun.result = "none"
      BY DEF StoreTypes, LogTypes, NoRun
    <3> QED
      BY <1>6, <3>1, <3>2 DEF Runs
  <2>2. /\ log'[s] = log[s] \/ log'[s] = Append(log[s], Part)
        /\ queue'[s] = <<>>
        /\ \A t \in Sessions : t # s => queue'[t] = queue[t] /\ log'[t] = log[t]
    BY <1>12, FailureLeaves
  <2> QED
    BY <1>2, <1>4, <1>5, <1>6, <2>1, <2>2
<1>13. CASE Crash
  <2>1. run'.result = "none"
    BY <1>13 DEF Crash, NoRun
  <2>2. \A t \in Sessions : queue'[t] = <<>>
    BY <1>13, CrashLeaves
  <2>3. ASSUME NEW t \in Sessions PROVE Sane(log'[t])
    <3>1. \/ log'[t] = log[t] \/ log'[t] = Append(log[t], Part)
          \/ queue[t] # <<>> /\ log'[t] = Append(log[t], queue[t][1])
      BY <1>13, CrashLeaves
    <3> QED
      BY <1>2, <1>3, <1>6, <3>1
  <2> QED
    BY <1>4, <1>5, <2>1, <2>2, <2>3
<1>14. ASSUME NEW what \in {"logs", "registry"}, Lose(what) PROVE SaneStore'
  <2>1. queue' = queue /\ run' = run /\ \A t \in Sessions : log'[t] = log[t] \/ log'[t] = <<>>
    BY <1>14 DEF Lose, memory, Logged, StoreTypes, LogTypes
  <2> QED
    BY <1>5, <1>6, <2>1, EmptyIsSane
<1> QED
  BY <1>7, <1>8, <1>9, <1>10, <1>11, <1>12, <1>13, <1>14, AuditsFollow, StepsOfStore

LEMMA EndIsSavedKept ==
  ASSUME StoreTypes, Reservations, SaneStore, EndIsSaved, Next
  PROVE  EndIsSaved'
<1>0. None \notin Sessions /\ run \in Runs
  BY StoreAssumption DEF StoreTypes, LogTypes
<1>1. ASSUME NEW t \in Sessions PROVE log[t] \in Logs /\ queue[t] \in Queues
  BY <1>1 DEF StoreTypes, LogTypes, Logs, Queues
<1>2. ASSUME active' = None \/ run'.result = "none" \/ ~healthy' PROVE EndIsSaved'
  BY <1>2 DEF EndIsSaved
<1>3. ASSUME UNCHANGED <<run, active, healthy>>,
             active # None => log'[active] = log[active] /\ queue'[active] = queue[active]
      PROVE  EndIsSaved'
  BY <1>3 DEF EndIsSaved
<1>4. CASE Asking \/ Planning
  BY <1>3, <1>4, AskingIsQuiet, PlanningIsQuiet DEF sessions, disk, memory
<1>5. CASE StartServer \/ \E what \in {"logs", "registry"} : Lose(what)
  <2>1. server = "down" /\ active' = active
    BY <1>5 DEF StartServer, Lose, memory
  <2>2. active = None
    BY <2>1 DEF Reservations, Reserved, Holds, StoreTypes, LogTypes
  <2> QED
    BY <1>2, <2>1, <2>2
<1>6. CASE LetGo \/ Crash
  BY <1>2, <1>6 DEF LetGo, Crash
<1>7. ASSUME NEW s \in Sessions, WriteRecord(s) \/ \E left \in {<<>>, <<Part>>} : WriteFails(s, left)
      PROVE  EndIsSaved'
  BY <1>2, <1>7 DEF WriteRecord, WriteFails, NoRun
<1>8. ASSUME NEW e \in Events, AuditFollows(e) PROVE EndIsSaved'
  <2> SUFFICES ASSUME active' = active, run'.result # "none", healthy PROVE EndIsSaved'
    <3>1. healthy' = healthy /\ (active' = active \/ active' = None)
      BY <1>8 DEF AuditFollows
    <3> QED
      BY <1>2, <3>1
  <2>1. active \in Sessions /\ log' = log /\ healthy' = healthy
        /\ run'.shown = e.shown /\ run'.result = e.result
        /\ (run' = run \/ run'.waits = Len(queue[active]) + 1)
    BY <1>8 DEF AuditFollows, NoRun, StoreTypes, LogTypes
  <2> DEFINE q == queue[active]
             q2 == queue'[active]
             n == Len(queue[active])
  <2>2. q2 = Append(q, e)
    BY <1>8, <2>1 DEF AuditFollows, StoreTypes, LogTypes
  <2>3. /\ DOMAIN q2 = DOMAIN q \union {n + 1} /\ DOMAIN q = 1 .. n /\ n \in Nat
        /\ \A i \in DOMAIN q : q2[i] = q[i]
        /\ q2[n + 1] = e /\ Len(q2) = n + 1
    BY <1>1, <2>1, <2>2, LineAdded DEF Queues
  <2> HIDE DEF q, q2, n
  <2>4. CASE run' = run
    <3>1. /\ run.waits <= n /\ run.waits \in Nat
          /\ \A i \in DOMAIN q : i >= run.waits => q[i].result = run.result /\ q[i].shown = run.shown
          /\ run.waits = 0 => ResultIn(log[active]) = run.result /\ (run.shown => StartedIn(log[active]))
      BY <1>0, <2>1, <2>4 DEF EndIsSaved, Runs, q, n
    <3>2. run.waits <= Len(q2)
      BY <2>3, <3>1
    <3>3. \A i \in DOMAIN q2 : i >= run.waits => q2[i].result = run.result /\ q2[i].shown = run.shown
      BY <2>1, <2>3, <2>4, <3>1
    <3> QED
      BY <2>1, <2>4, <3>1, <3>2, <3>3 DEF EndIsSaved, q2
  <2>5. CASE run'.waits = n + 1
    <3>1. run'.waits <= Len(q2) /\ run'.waits # 0
      BY <2>3, <2>5
    <3>2. \A i \in DOMAIN q2 : i >= run'.waits => i = n + 1
      BY <2>3, <2>5
    <3> QED
      BY <2>1, <2>3, <3>1, <3>2 DEF EndIsSaved, q2
  <2> QED
    BY <2>1, <2>4, <2>5 DEF n
<1>9. ASSUME NEW s \in Sessions, Write(s) PROVE EndIsSaved'
  <2>1. active' = active /\ healthy' = healthy
    BY <1>9 DEF Write
  <2>2. CASE s # active
    <3>1. run' = run
      BY <1>9, <2>2 DEF Write
    <3> QED
      BY <1>3, <1>9, <2>1, <2>2, <3>1, WriteMoves DEF StoreTypes, LogTypes
  <2>3. CASE s = active
    <3> SUFFICES ASSUME run'.result # "none", healthy PROVE EndIsSaved'
      BY <1>2, <2>1
    <3> DEFINE q == queue[s]
               q2 == queue'[s]
               w == run.waits
               w2 == run'.waits
    <3>1. /\ run' = [run EXCEPT !.waits = Less(@)] /\ s # None
          /\ run'.result = run.result /\ run'.shown = run.shown
          /\ w2 = Less(w) /\ w \in Nat
      BY <1>0, <1>9, <2>3 DEF Write, Runs
    <3>2. /\ w <= Len(q)
          /\ \A i \in DOMAIN q : i >= w => q[i].result = run.result /\ q[i].shown = run.shown
      BY <2>3, <3>1 DEF EndIsSaved
    <3>3. q \in Queues /\ q # <<>> /\ q2 = Tail(q) /\ log'[s] = Append(log[s], q[1])
          /\ log[s] \in Logs
      BY <1>1, <1>9, WriteMoves
    <3> HIDE DEF q, q2, w, w2
    <3>4. /\ Len(q2) = Len(q) - 1 /\ Len(q) \in Nat /\ q2 \in Queues
          /\ \A i \in DOMAIN q2 : i + 1 \in DOMAIN q /\ q2[i] = q[i + 1]
          /\ 1 \in DOMAIN q /\ q[1] \in Events
      BY <3>3, RestOfQueue, LenProperties DEF Queues
    <3>5. \A i \in DOMAIN q2 : i \in Nat
      BY <3>4, LenProperties DEF Queues
    <3>6. Len(q) > 0
      BY <3>3, Lengths DEF q
    <3>7. w2 <= Len(q2)
      BY <3>1, <3>2, <3>4, <3>6 DEF Less
    <3>8. ASSUME NEW i \in DOMAIN q2, i >= w2
          PROVE  q2[i].result = run.result /\ q2[i].shown = run.shown
      <4>1. i + 1 >= w
        BY <3>1, <3>5, <3>8 DEF Less
      <4> QED
        BY <3>2, <3>4, <4>1
    <3>9. ASSUME w2 = 0
          PROVE  ResultIn(log'[s]) = run.result /\ (run.shown => StartedIn(log'[s]))
      <4>1. 1 >= w
        BY <3>1, <3>9 DEF Less
      <4>2. q[1].result = run.result /\ q[1].shown = run.shown /\ q[1].result # "none"
        BY <3>1, <3>2, <3>4, <4>1
      <4>3. Sane(log[s]) /\ (q[1].result = "ok" => q[1].shown) /\ q[1] # Part
        BY <3>4, StoreValues DEF SaneStore, q
      <4> QED
        BY <3>3, <3>4, <4>2, <4>3, LineSays
    <3> QED
      BY <2>1, <2>3, <3>1, <3>7, <3>8, <3>9 DEF EndIsSaved, q2, w2
  <2> QED
    BY <2>2, <2>3
<1> QED
  BY <1>4, <1>5, <1>6, <1>7, <1>8, <1>9, AuditsFollow, StepsOfStore

LEMMA SavedAlways == Spec => [](SaneStore /\ EndIsSaved)
<1> DEFINE Inv == SaneStore /\ EndIsSaved
<1>1. Init => Inv
  BY EmptyIsSane, StoreAssumption DEF Init, SaneStore, EndIsSaved, NoRun
<1>2. IdsInv /\ Inv /\ [Next]_vars => Inv'
  <2>1. CASE UNCHANGED vars
    BY <2>1 DEF vars, disk, memory, SaneStore, EndIsSaved
  <2>2. IdsInv /\ Inv /\ Next => Inv'
    BY SaneStoreKept, EndIsSavedKept DEF IdsInv
  <2> QED
    BY <2>1, <2>2
<1> QED
  BY <1>1, <1>2, IdsAlways, PTL DEF Spec

\* When a session that has ended gives way to the next one its end is in its log:
\* complete() and abort() wait for the audit and look whether it was saved.
THEOREM EndsRecorded == Spec => EndsAreRecorded
<1> DEFINE Step == active # None /\ active' = None /\ server' = "up" /\ run.result # "none"
                     /\ creation.step # "append" => ResultOf(active) = run.result
<1>1. IdsInv /\ EndIsSaved /\ [Next]_vars => Step
  <2> SUFFICES ASSUME IdsInv, EndIsSaved, [Next]_vars,
                      active # None, active' = None, server' = "up", run.result # "none",
                      creation.step # "append"
               PROVE  ResultOf(active) = run.result
    OBVIOUS
  <2>1. active \in Sessions /\ StoreTypes
    BY DEF IdsInv, StoreTypes, LogTypes
  <2>2. Next
    BY DEF vars, memory
  <2>3. CASE LetGo
    BY <2>1, <2>3, LogSays DEF LetGo, EndIsSaved
  <2>4. ~DeleteSetup /\ ~Crash
    BY DEF DeleteSetup, Crash
  <2>5. ASSUME NEW s \in Sessions, NEW left \in {<<>>, <<Part>>}, WriteFails(s, left) PROVE FALSE
    BY <2>5 DEF WriteFails
  <2>6. ASSUME NEW s \in Sessions, WriteRecord(s) PROVE FALSE
    BY <2>6, StoreAssumption DEF WriteRecord
  <2>7. ~Asking /\ ~Planning /\ ~StartServer /\ ~Show /\ ~Note
    BY AskingIsQuiet, PlanningIsQuiet DEF sessions, memory, StartServer, Show, Note, AuditOnly
  <2>8. ASSUME NEW s \in Sessions, Write(s) PROVE FALSE
    BY <2>8 DEF Write
  <2>9. ASSUME NEW what \in {"logs", "registry"}, Lose(what) PROVE FALSE
    BY <2>9 DEF Lose, memory
  <2>10. ASSUME NEW result \in Results, End(result) PROVE FALSE
    BY <2>10 DEF End, AuditOnly
  <2> QED
    BY <2>2, <2>3, <2>4, <2>5, <2>6, <2>7, <2>8, <2>9, <2>10, StepsOfStore
<1>2. IdsInv /\ EndIsSaved /\ [Next]_vars => [Step]_vars
  BY <1>1
<1>3. Spec => [][Step]_vars
  BY <1>2, IdsAlways, SavedAlways, PTL DEF Spec
<1> QED
  BY <1>3 DEF EndsAreRecorded

-----------------------------------------------------------------------------
(* The balance of the orders.                                              *)

\* What the log of a session that is not the active one says, the events that
\* still wait to be written say too.
Settled(s) ==
  active # s =>
    \A i \in DOMAIN queue[s] :
      /\ queue[s][i].shown => StartedIn(log[s])
      /\ queue[s][i].result # "none" => queue[s][i].result = ResultIn(log[s])

AllSettled == \A s \in Sessions : Settled(s)

LEMMA AllSettledKept ==
  ASSUME StoreTypes, UndrawnIsUnused, Reservations, CreationIsSound, EventsInOrder, SaneStore,
         EndIsSaved, AllSettled, Next
  PROVE  AllSettled'
<1> SUFFICES ASSUME NEW t \in Sessions, active' # t PROVE Settled(t)'
  BY DEF AllSettled, Settled
<1>1. /\ log[t] \in Logs /\ queue[t] \in Queues /\ run \in Runs /\ t # None
      /\ active \in Sessions \union {None} /\ Settled(t)
  BY StoreAssumption DEF StoreTypes, LogTypes, Logs, Queues, AllSettled
<1>2. ASSUME active # t, queue'[t] = queue[t], log'[t] = log[t] PROVE Settled(t)'
  BY <1>1, <1>2 DEF Settled
<1>3. ASSUME queue'[t] = <<>> PROVE Settled(t)'
  <2>1. DOMAIN queue'[t] = {}
    BY <1>3
  <2> QED
    BY <2>1 DEF Settled
<1>4. CASE Asking \/ Planning \/ StartServer
  <2>1. UNCHANGED <<log, queue, active>>
    BY <1>4, AskingIsQuiet, PlanningIsQuiet DEF sessions, disk, memory, StartServer
  <2> QED
    BY <1>2, <2>1
<1>5. CASE LetGo
  <2>1. log' = log /\ queue' = queue
    BY <1>5 DEF LetGo, disk
  <2>2. CASE active = t
    <3>1. /\ run.waits = 0 /\ run.result # "none" /\ healthy
      BY <1>5 DEF LetGo
    <3>2. \A i \in DOMAIN queue[t] : i >= 0
      BY <1>1, LenProperties DEF Queues
    <3> QED
      BY <1>1, <2>1, <2>2, <3>1, <3>2 DEF EndIsSaved, Settled
  <2> QED
    BY <1>2, <2>1, <2>2
<1>6. ASSUME NEW s \in Sessions, WriteRecord(s) PROVE Settled(t)'
  <2>1. s # t /\ active = None
    BY <1>6 DEF WriteRecord, CreationIsSound
  <2> QED
    BY <1>1, <1>2, <1>6, <2>1 DEF WriteRecord
<1>7. ASSUME NEW e \in Events, AuditFollows(e) PROVE Settled(t)'
  <2>1. CASE active # t
    <3>1. queue'[t] = queue[t] /\ log'[t] = log[t]
      BY <1>7, <2>1 DEF AuditFollows, StoreTypes, LogTypes
    <3> QED
      BY <1>2, <2>1, <3>1
  <2>2. CASE active = t
    <3>1. /\ active' = None /\ run.result = "none" /\ ~run.shown /\ e.result = "none" /\ ~e.shown
          /\ log' = log /\ queue'[t] = Append(queue[t], e)
      BY <1>7, <2>2 DEF AuditFollows, StoreTypes, LogTypes
    <3> DEFINE q == queue[t]
               q2 == queue'[t]
    <3>2. /\ DOMAIN q2 = DOMAIN q \union {Len(q) + 1} /\ \A i \in DOMAIN q : q2[i] = q[i]
          /\ q2[Len(q) + 1] = e
      BY <1>1, <3>1, LineAdded DEF Queues
    <3>3. \A i \in DOMAIN q : q[i] \in Events /\ Follows(q[i], run)
      BY <1>1, <2>2, ElementOfSeq DEF EventsInOrder, InOrder, Queues
    <3> HIDE DEF q, q2
    <3>4. \A i \in DOMAIN q : q[i].result = "none" /\ ~q[i].shown
      BY <3>1, <3>3 DEF Follows, Events, Results
    <3>5. \A i \in DOMAIN q2 : q2[i].result = "none" /\ ~q2[i].shown
      BY <3>1, <3>2, <3>4
    <3> QED
      BY <3>5 DEF Settled, q2
  <2> QED
    BY <2>1, <2>2
<1>8. ASSUME NEW s \in Sessions, Write(s) PROVE Settled(t)'
  <2>1. active # t
    BY <1>8 DEF Write
  <2>2. CASE s # t
    BY <1>2, <1>8, <2>1, <2>2, WriteMoves
  <2>3. CASE s = t
    <3> DEFINE q == queue[t]
               q2 == queue'[t]
    <3>1. q # <<>> /\ q \in Queues /\ q2 = Tail(q) /\ log'[t] = Append(log[t], q[1])
      BY <1>1, <1>8, <2>3, WriteMoves
    <3> HIDE DEF q, q2
    <3>2. /\ \A i \in DOMAIN q2 : i + 1 \in DOMAIN q /\ q2[i] = q[i + 1]
          /\ 1 \in DOMAIN q /\ q[1] \in Events
      BY <3>1, RestOfQueue DEF Queues
    <3>3. \A i \in DOMAIN q : /\ q[i].shown => StartedIn(log[t])
                              /\ q[i].result # "none" => q[i].result = ResultIn(log[t])
      BY <1>1, <2>1 DEF Settled, q
    <3>4. Sane(log[t]) /\ (q[1].result = "ok" => q[1].shown) /\ q[1] # Part
      BY <3>2, StoreValues DEF SaneStore, q
    <3>5. ResultIn(log'[t]) = ResultIn(log[t]) /\ (StartedIn(log[t]) => StartedIn(log'[t]))
      BY <1>1, <3>1, <3>2, <3>3, <3>4, LineSays
    <3> QED
      BY <3>2, <3>3, <3>5 DEF Settled, q2
  <2> QED
    BY <2>2, <2>3
<1>9. ASSUME NEW s \in Sessions, NEW left \in {<<>>, <<Part>>}, WriteFails(s, left)
      PROVE  Settled(t)'
  <2>1. CASE s = t
    BY <1>3, <1>9, <2>1, FailureLeaves
  <2>2. CASE s # t
    <3>1. active # t
      BY <1>9, <2>2 DEF WriteFails
    <3> QED
      BY <1>2, <1>9, <2>2, <3>1, FailureLeaves
  <2> QED
    BY <2>1, <2>2
<1>10. CASE Crash
  BY <1>3, <1>10, CrashLeaves
<1>11. ASSUME NEW what \in {"logs", "registry"}, Lose(what) PROVE Settled(t)'
  <2>1. server = "down" /\ queue' = queue
    BY <1>11 DEF Lose, memory
  <2>2. queue[t] = <<>>
    BY <2>1 DEF Reservations, Reserved, Holds
  <2> QED
    BY <1>3, <2>1, <2>2
<1> QED
  BY <1>4, <1>5, <1>6, <1>7, <1>8, <1>9, <1>10, <1>11, AuditsFollow, StepsOfStore

\* A session counts as a run of its order once it has shown anything, unless it has
\* failed.  The active session is apart.
Counted(l) == StartedIn(l) /\ ResultIn(l) # "error"
Base(o) == {s \in Sessions : s # active /\ drawn[s].order = o /\ Counted(log[s])}
Fewest(o) == \A p \in Orders : Cardinality(Base(o)) <= Cardinality(Base(p))

DrawnOnes == {s \in Sessions : drawn[s] # None}
Drawing == {"recheck", "rescan"} \union Reserving

\* The order of the active session, or of the one to come, is one of which there
\* are fewest runs.
Balance ==
  /\ IsFiniteSet(DrawnOnes)
  /\ lost # "logs" =>
       /\ \A o, p \in Orders : Cardinality(Base(o)) <= Cardinality(Base(p)) + 1
       /\ active # None => Fewest(drawn[active].order)
       /\ creation.step \in Drawing => Fewest(creation.order)

LEMMA EmptyIsNotCounted == ~Counted(<<>>)
  BY DEF Counted, StartedIn

\* What is written for a session that is not the active one does not make it count
\* or stop counting.
LEMMA CountStays ==
  ASSUME StoreTypes, SaneStore, AllSettled, Next, lost' # "logs", NEW t \in Sessions, t # active
  PROVE  Counted(log'[t]) <=> Counted(log[t])
<1>1. /\ log[t] \in Logs /\ queue[t] \in Queues /\ Sane(log[t])
      /\ \A i \in DOMAIN queue[t] : /\ queue[t][i].result = "ok" => queue[t][i].shown
                                    /\ queue[t][i].shown => StartedIn(log[t])
                                    /\ queue[t][i].result # "none" => queue[t][i].result = ResultIn(log[t])
  BY DEF StoreTypes, LogTypes, Logs, Queues, SaneStore, AllSettled, Settled
<1>2. Counted(Append(log[t], Part)) <=> Counted(log[t])
  BY <1>1, LineSays DEF Counted
<1>3. ASSUME 1 \in DOMAIN queue[t], queue[t][1] \in Events
      PROVE  Counted(Append(log[t], queue[t][1])) <=> Counted(log[t])
  <2> DEFINE e == queue[t][1]
  <2>1. e # Part /\ e \in Events \union {Part}
    BY <1>3, StoreValues
  <2>2. /\ e.result = "ok" => e.shown
        /\ e.shown => StartedIn(log[t])
        /\ e.result # "none" => e.result = ResultIn(log[t])
    BY <1>1, <1>3
  <2> HIDE DEF e
  <2>3. /\ ResultIn(Append(log[t], e)) = ResultIn(log[t])
        /\ StartedIn(Append(log[t], e)) <=> StartedIn(log[t])
    BY <1>1, <2>1, <2>2, LineSays
  <2> QED
    BY <2>3 DEF Counted, e
<1> HIDE DEF Counted
<1>4. CASE Asking \/ Planning \/ StartServer \/ LetGo \/ \E s \in Sessions : WriteRecord(s)
  BY <1>4, AskingIsQuiet, PlanningIsQuiet DEF sessions, disk, StartServer, LetGo, WriteRecord
<1>5. ASSUME NEW e \in Events, AuditFollows(e) PROVE log' = log
  BY <1>5 DEF AuditFollows
<1>6. ASSUME NEW s \in Sessions, Write(s) PROVE Counted(log'[t]) <=> Counted(log[t])
  BY <1>3, <1>6, WriteMoves
<1>7. ASSUME NEW s \in Sessions, NEW left \in {<<>>, <<Part>>}, WriteFails(s, left)
      PROVE  Counted(log'[t]) <=> Counted(log[t])
  BY <1>2, <1>7, FailureLeaves
<1>8. CASE Crash
  BY <1>2, <1>3, <1>8, CrashLeaves
<1>9. ASSUME NEW what \in {"logs", "registry"}, Lose(what) PROVE log' = log
  BY <1>9 DEF Lose
<1> QED
  BY <1>4, <1>5, <1>6, <1>7, <1>8, <1>9, AuditsFollow, StepsOfStore

\* How the active session changes.
LEMMA ActiveSteps ==
  ASSUME StoreTypes, CreationIsSound, Next
  PROVE  \/ active' = active
         \/ active = None /\ \E s \in Sessions : WriteRecord(s)
         \/ active # None /\ active' = None /\ creation' = NoCreation
<1>1. ASSUME NEW s \in Sessions, WriteRecord(s) PROVE active = None
  BY <1>1 DEF WriteRecord, CreationIsSound
<1>2. CASE Asking \/ Planning \/ StartServer
  BY <1>2, AskingIsQuiet, PlanningIsQuiet DEF sessions, memory, StartServer
<1>3. ASSUME NEW e \in Events, AuditFollows(e)
      PROVE  active' = active \/ (active # None /\ active' = None /\ creation' = NoCreation)
  BY <1>3 DEF AuditFollows
<1>4. CASE LetGo \/ Crash
  BY <1>4 DEF LetGo, Crash
<1>5. ASSUME NEW s \in Sessions,
             Write(s) \/ \E left \in {<<>>, <<Part>>} : WriteFails(s, left)
      PROVE  active' = active \/ (active # None /\ active' = None /\ creation' = NoCreation)
  BY <1>5, StoreAssumption DEF Write, WriteFails, CreationEnds
<1>6. ASSUME NEW what \in {"logs", "registry"}, Lose(what) PROVE active' = active
  BY <1>6 DEF Lose, memory
<1> QED
  BY <1>1, <1>2, <1>3, <1>4, <1>5, <1>6, AuditsFollow, StepsOfStore

LEMMA BaseSteps ==
  ASSUME StoreTypes, UndrawnIsUnused, CreationIsSound, SaneStore, AllSettled, Next, lost' # "logs"
  PROVE  \/ /\ active' = active \/ \E s \in Sessions : WriteRecord(s)
            /\ \A o : Base(o)' = Base(o)
         \/ /\ active # None /\ active' = None /\ creation' = NoCreation
            /\ \A o : \/ Base(o)' = Base(o)
                      \/ o = drawn[active].order /\ Base(o)' = Base(o) \union {active}
<1>0. None \notin Sessions /\ active \in Sessions \union {None}
  BY StoreAssumption DEF StoreTypes, LogTypes
<1>1. ASSUME NEW t \in Sessions, t # active PROVE Counted(log'[t]) <=> Counted(log[t])
  BY <1>1, CountStays
<1>2. ASSUME NEW t \in Sessions, Counted(log[t]) \/ (Counted(log'[t]) /\ t = active)
      PROVE  drawn[t] # None /\ drawn'[t] = drawn[t]
  <2>1. drawn[t] # None
    BY <1>0, <1>2, EmptyIsNotCounted DEF UndrawnIsUnused, Unused
  <2> QED
    BY <2>1, DrawnStays
<1> HIDE DEF Counted
<1>3. CASE active' = active
  <2>1. \A o : Base(o)' = Base(o)
    BY <1>1, <1>2, <1>3 DEF Base
  <2> QED
    BY <1>3, <2>1
<1>4. ASSUME NEW s \in Sessions, WriteRecord(s), active = None
      PROVE  \A o : Base(o)' = Base(o)
  <2>1. active' = s /\ log[s] = <<>>
    BY <1>4 DEF WriteRecord, UndrawnIsUnused, Unused
  <2>2. ~Counted(log[s])
    BY <2>1, EmptyIsNotCounted
  <2> QED
    BY <1>0, <1>1, <1>2, <1>4, <2>1, <2>2 DEF Base
<1>5. ASSUME active # None, active' = None, NEW o
      PROVE  \/ Base(o)' = Base(o)
             \/ o = drawn[active].order /\ Base(o)' = Base(o) \union {active}
  <2>1. \A t \in Sessions : t # active => (t \in Base(o)' <=> t \in Base(o))
    BY <1>0, <1>1, <1>2, <1>5 DEF Base
  <2>2. active \in Base(o)' => o = drawn[active].order
    BY <1>0, <1>2, <1>5 DEF Base
  <2>3. active \notin Base(o) /\ Base(o)' \subseteq Sessions /\ Base(o) \subseteq Sessions
    BY DEF Base
  <2> HIDE DEF Base
  <2> QED
    BY <1>0, <1>5, <2>1, <2>2, <2>3
<1> QED
  BY <1>3, <1>4, <1>5, ActiveSteps

LEMMA BaseFinite ==
  ASSUME UndrawnIsUnused, IsFiniteSet(DrawnOnes), NEW o
  PROVE  IsFiniteSet(Base(o)) /\ Cardinality(Base(o)) \in Nat
<1>1. Base(o) \subseteq DrawnOnes
  BY EmptyIsNotCounted DEF Base, DrawnOnes, UndrawnIsUnused, Unused
<1> QED
  BY <1>1, FS_Subset, FS_CardinalityType

\* allocateOrder counts what the balance is about: without an active session the
\* use of an order is the number of its runs.
LEMMA UsageCounts ==
  ASSUME StoreTypes, SaneStore, active = None, NEW o \in Orders
  PROVE  Usage(o) = Cardinality(Base(o))
<1>1. ASSUME NEW s \in Sessions
      PROVE  s \in Logged /\ CountsAsUsed(s) <=> s # active /\ Counted(log[s])
  <2>1. /\ ResultOf(s) = ResultIn(log[s]) /\ (Started(s) <=> StartedIn(log[s]))
        /\ ResultIn(log[s]) \in Results
        /\ ResultIn(log[s]) = "ok" => StartedIn(log[s])
    BY LogSays, SaneSays DEF StoreTypes, LogTypes, Logs, SaneStore
  <2>2. s # None
    BY StoreAssumption
  <2>3. Counted(log[s]) => log[s] # <<>>
    BY EmptyIsNotCounted
  <2>4. CountsAsUsed(s) <=> Counted(log[s])
    BY <2>1 DEF CountsAsUsed, Counted, Results
  <2> QED
    BY <2>2, <2>3, <2>4 DEF Logged
<1>2. {s \in Logged : drawn[s].order = o /\ CountsAsUsed(s)} = Base(o)
  BY <1>1 DEF Base, Logged
<1> QED
  BY <1>2 DEF Usage

\* An order is drawn by allocateOrder and kept until the session is there.
LEMMA DrawingSteps ==
  ASSUME StoreTypes, CreationIsSound, Next, creation'.step \in Drawing
  PROVE  /\ ~ \E s \in Sessions : WriteRecord(s)
         /\ \/ creation.step \in Drawing /\ creation'.order = creation.order
            \/ Allocate
<1> USE DEF Drawing, Reserving
<1>1. ASSUME NEW s \in Sessions, WriteRecord(s) PROVE FALSE
  BY <1>1 DEF WriteRecord, To, StoreTypes, CreationTypes
<1>2. CASE creation' = creation
  BY <1>1, <1>2
<1>3. creation' # NoCreation
  BY DEF NoCreation
<1>4. CASE Asking
  BY <1>1, <1>3, <1>4
  DEF Asking, CreateBegin, Lookup, ScanFails, ScanForId, Initialize, CreateRecord, RegistryWriteFails,
      To, ToScan, CreationEnds, NoCreation, StoreTypes, CreationTypes
<1>5. creation' = creation \/ creation' = NoCreation \/ Asking \/ \E s \in Sessions : WriteRecord(s)
  BY StepsOfStore, PlanningIsQuiet
  DEF memory, StartServer, Show, Note, LetGo, DeleteSetup, End, AuditOnly, Write,
      WriteFails, Lose, Crash, CreationEnds
<1> QED
  BY <1>1, <1>2, <1>3, <1>4, <1>5

LEMMA LostLogsStay == ASSUME Next, lost = "logs" PROVE lost' = "logs"
  BY StepsOfStore, AskingIsQuiet, PlanningIsQuiet
  DEF sessions, past, StartServer, Show, Note, LetGo, DeleteSetup, End, AuditOnly, Write,
      WriteFails, Crash, Lose, WriteRecord

LEMMA BalanceKept ==
  ASSUME StoreTypes, UndrawnIsUnused, Reservations, CreationIsSound, SaneStore, AllSettled, Balance,
         Next
  PROVE  Balance'
<1>0. None \notin Sessions /\ active \in Sessions \union {None} /\ Drawing \subseteq Steps
      /\ "none" \notin Drawing /\ "append" \notin Drawing
  BY StoreAssumption DEF StoreTypes, LogTypes, Drawing, Reserving, Steps, Scans
<1>1. IsFiniteSet(DrawnOnes')
  <2>1. ASSUME NEW s \in Sessions, WriteRecord(s) PROVE DrawnOnes' \subseteq DrawnOnes \union {s}
    BY <2>1 DEF WriteRecord, DrawnOnes, StoreTypes, PastTypes
  <2>2. CASE \E s \in Sessions : WriteRecord(s)
    BY <2>1, <2>2, FS_AddElement, FS_Subset DEF Balance
  <2>3. CASE ~ \E s \in Sessions : WriteRecord(s)
    BY <2>3, DrawnStays DEF Balance, DrawnOnes
  <2> QED
    BY <2>2, <2>3
<1> SUFFICES ASSUME lost' # "logs"
             PROVE  /\ \A o, p \in Orders : Cardinality(Base(o)') <= Cardinality(Base(p)') + 1
                    /\ active' # None => Fewest(drawn[active].order)'
                    /\ creation'.step \in Drawing => Fewest(creation.order)'
  BY <1>1 DEF Balance
<1>2. /\ \A o, p \in Orders : Cardinality(Base(o)) <= Cardinality(Base(p)) + 1
      /\ active # None => Fewest(drawn[active].order)
      /\ creation.step \in Drawing => Fewest(creation.order)
  BY LostLogsStay DEF Balance
<1>3. \A o : IsFiniteSet(Base(o)) /\ Cardinality(Base(o)) \in Nat
  BY BaseFinite DEF Balance
\* The active session stays, or there is a new one, whose log is empty.
<1>4. CASE \A o : Base(o)' = Base(o)
  <2>1. CASE active' = active
    <3>1. active # None => drawn'[active] = drawn[active]
      BY <1>0, DrawnStays DEF UndrawnIsUnused, Unused
    <3>2. active' # None => Fewest(drawn[active].order)'
      BY <1>2, <1>4, <2>1, <3>1 DEF Fewest
    <3>3. ASSUME creation'.step \in Drawing PROVE Fewest(creation.order)'
      <4>1. CASE creation.step \in Drawing /\ creation'.order = creation.order
        BY <1>2, <1>4, <4>1 DEF Fewest
      <4>2. CASE Allocate
        <5>1. active = None
          BY <1>0, <4>2 DEF Allocate, CreationIsSound
        <5>2. \A o \in Orders : Usage(o) = Cardinality(Base(o))
          BY <5>1, UsageCounts
        <5>3. PICK o \in Candidates : creation' = [creation EXCEPT !.step = "recheck", !.order = o]
          BY <4>2 DEF Allocate
        <5>4. creation'.order = o /\ o \in Orders /\ \A p \in Orders : Usage(o) <= Usage(p)
          BY <5>3 DEF Candidates, StoreTypes, CreationTypes
        <5> QED
          BY <1>4, <5>2, <5>4 DEF Fewest
      <4> QED
        BY <3>3, <4>1, <4>2, DrawingSteps
    <3> QED
      BY <1>2, <1>4, <3>2, <3>3
  <2>2. CASE active' = None /\ creation' = NoCreation
    BY <1>0, <1>2, <1>4, <2>2 DEF NoCreation
  <2>3. ASSUME NEW s \in Sessions, WriteRecord(s)
        PROVE  active' # None => Fewest(drawn[active].order)'
    <3>1. active' = s /\ drawn'[s].order = creation.order /\ creation.step \in Drawing
      BY <2>3 DEF WriteRecord, StoreTypes, PastTypes, Drawing, Reserving
    <3> QED
      BY <1>2, <1>4, <3>1 DEF Fewest
  <2> QED
    BY <1>2, <1>4, <2>1, <2>2, <2>3, DrawingSteps, ActiveSteps
\* The active session ends, and is one run of its order at most.
<1>5. CASE /\ active # None /\ active' = None /\ creation' = NoCreation
           /\ \A o : \/ Base(o)' = Base(o)
                     \/ o = drawn[active].order /\ Base(o)' = Base(o) \union {active}
  <2>1. \A p \in Orders : Cardinality(Base(drawn[active].order)) <= Cardinality(Base(p))
    BY <1>2, <1>5 DEF Fewest
  <2>2. ASSUME NEW o
        PROVE  /\ Cardinality(Base(o)') \in Nat
               /\ Cardinality(Base(o)') >= Cardinality(Base(o))
               /\ Cardinality(Base(o)') <= Cardinality(Base(o)) + 1
               /\ o # drawn[active].order => Cardinality(Base(o)') = Cardinality(Base(o))
    <3>1. CASE Base(o)' = Base(o)
      BY <1>3, <3>1
    <3>2. CASE o = drawn[active].order /\ Base(o)' = Base(o) \union {active}
      <4>1. active \notin Base(o)
        BY DEF Base
      <4>2. Cardinality(Base(o) \union {active}) = Cardinality(Base(o)) + 1
        BY <1>3, <4>1, FS_AddElement
      <4> QED
        BY <1>3, <3>2, <4>2
    <3> QED
      BY <1>5, <3>1, <3>2
  <2>3. ASSUME NEW o \in Orders, NEW p \in Orders
        PROVE  Cardinality(Base(o)') <= Cardinality(Base(p)') + 1
    <3>1. /\ Cardinality(Base(o)') \in Nat /\ Cardinality(Base(p)') \in Nat
          /\ Cardinality(Base(o)) \in Nat /\ Cardinality(Base(p)) \in Nat
      BY <1>3, <2>2
    <3>2. CASE o = drawn[active].order
      BY <2>1, <2>2, <3>1, <3>2
    <3>3. CASE o # drawn[active].order
      BY <1>2, <2>2, <3>1, <3>3
    <3> QED
      BY <3>2, <3>3
  <2> QED
    BY <1>0, <1>5, <2>3 DEF NoCreation
<1> QED
  BY <1>4, <1>5, BaseSteps

\* Automatic allocation keeps the orders balanced, whichever sessions are deleted,
\* fail, or are cut short by a crash, as long as no log is taken away.
THEOREM OrdersStayBalanced == Spec => []OrdersBalanced
<1> DEFINE Inv == EventsInOrder /\ AllSettled /\ Balance
<1>1. Init => Inv
  <2> SUFFICES ASSUME Init PROVE Inv
    OBVIOUS
  <2>1. EventsInOrder /\ AllSettled
    BY DEF Init, EventsInOrder, InOrder, AllSettled, Settled
  <2>2. DrawnOnes = {} /\ \A o : Base(o) = {}
    BY EmptyIsNotCounted DEF Init, DrawnOnes, Base
  <2>3. \A o : Cardinality(Base(o)) = 0
    BY <2>2, FS_EmptySet
  <2>4. IsFiniteSet(DrawnOnes) /\ active = None /\ creation.step \notin Drawing
    BY <2>2, FS_EmptySet DEF Init, NoCreation, Drawing, Reserving
  <2>5. Balance
    BY <2>3, <2>4 DEF Balance
  <2> QED
    BY <2>1, <2>5
<1>2. IdsInv /\ SaneStore /\ EndIsSaved /\ Inv /\ [Next]_vars => Inv'
  <2>1. ASSUME Inv, UNCHANGED vars PROVE Inv'
    <3>1. UNCHANGED <<log, queue, active, run, drawn, lost, creation>>
      BY <2>1 DEF vars, disk, memory, past
    <3>2. EventsInOrder' /\ AllSettled'
      BY <2>1, <3>1 DEF EventsInOrder, AllSettled, Settled
    <3>3. DrawnOnes' = DrawnOnes /\ \A o : Base(o)' = Base(o)
      BY <3>1 DEF DrawnOnes, Base
    <3>4. Balance'
      BY <2>1, <3>1, <3>3 DEF Balance, Fewest
    <3> QED
      BY <3>2, <3>4
  <2>2. IdsInv /\ SaneStore /\ EndIsSaved /\ Inv /\ Next => Inv'
    BY EventsInOrderKept, AllSettledKept, BalanceKept DEF IdsInv
  <2> QED
    BY <2>1, <2>2
<1>3. IdsInv /\ Balance => OrdersBalanced
  <2> SUFFICES ASSUME IdsInv, Balance, lost # "logs", NEW o \in Orders, NEW p \in Orders
               PROVE  LET Runs_(q) == {s \in Logged : drawn[s].order = q /\ Started(s)
                                                        /\ ResultOf(s) # "error"}
                      IN Cardinality(Runs_(o)) <= Cardinality(Runs_(p)) + 1
    BY DEF OrdersBalanced
  <2> DEFINE R(q) == {s \in Logged : drawn[s].order = q /\ Started(s) /\ ResultOf(s) # "error"}
  <2>1. ASSUME NEW s \in Sessions
        PROVE  s \in Logged /\ Started(s) /\ ResultOf(s) # "error" <=> Counted(log[s])
    <3>1. Counted(log[s]) <=> Started(s) /\ ResultOf(s) # "error"
      BY LogSays DEF Counted
    <3>2. Counted(log[s]) => log[s] # <<>>
      BY EmptyIsNotCounted
    <3> QED
      BY <3>1, <3>2 DEF Logged
  <2>2. ASSUME NEW q
        PROVE  R(q) = Base(q) \/ (q = drawn[active].order /\ active # None /\ R(q) = Base(q) \union {active})
    <3>1. \A s \in Sessions : s \in R(q) <=> drawn[s].order = q /\ Counted(log[s])
      BY <2>1 DEF Logged
    <3>2. active \in Sessions \union {None} /\ None \notin Sessions /\ R(q) \subseteq Sessions
      BY StoreAssumption DEF IdsInv, StoreTypes, LogTypes, Logged
    <3> HIDE DEF R
    <3>3. \A s \in Sessions : s # active => (s \in R(q) <=> s \in Base(q))
      BY <3>1 DEF Base
    <3>4. active \in R(q) => q = drawn[active].order /\ active # None
      BY <3>1, <3>2
    <3>5. Base(q) \subseteq Sessions /\ active \notin Base(q)
      BY DEF Base
    <3> QED
      BY <3>2, <3>3, <3>4, <3>5
  <2> HIDE DEF R
  <2>3. ASSUME NEW q
        PROVE  /\ Cardinality(Base(q)) \in Nat /\ Cardinality(R(q)) \in Nat
               /\ Cardinality(Base(q)) <= Cardinality(R(q))
               /\ Cardinality(R(q)) <= Cardinality(Base(q)) + 1
               /\ R(q) = Base(q) \/ (active # None /\ q = drawn[active].order)
    <3>1. IsFiniteSet(Base(q)) /\ Cardinality(Base(q)) \in Nat
      BY BaseFinite DEF IdsInv, Balance
    <3>2. active \notin Base(q)
      BY DEF Base
    <3>3. Cardinality(Base(q) \union {active}) = Cardinality(Base(q)) + 1
      BY <3>1, <3>2, FS_AddElement
    <3>4. CASE R(q) = Base(q)
      BY <3>1, <3>4
    <3>5. CASE q = drawn[active].order /\ active # None /\ R(q) = Base(q) \union {active}
      BY <3>1, <3>3, <3>5
    <3> QED
      BY <2>2, <3>4, <3>5
  <2>4. Cardinality(R(o)) <= Cardinality(R(p)) + 1
    <3>1. /\ Cardinality(Base(o)) \in Nat /\ Cardinality(R(o)) \in Nat
          /\ Cardinality(Base(p)) \in Nat /\ Cardinality(R(p)) \in Nat
          /\ Cardinality(Base(p)) <= Cardinality(R(p))
      BY <2>3
    <3>2. Cardinality(R(o)) <= Cardinality(Base(p)) + 1
      <4>1. CASE R(o) = Base(o)
        BY <4>1 DEF Balance
      <4>2. CASE active # None /\ o = drawn[active].order
        <5>1. Cardinality(Base(o)) <= Cardinality(Base(p))
          BY <4>2 DEF Balance, Fewest
        <5>2. Cardinality(R(o)) <= Cardinality(Base(o)) + 1
          BY <2>3
        <5> QED
          BY <3>1, <5>1, <5>2
      <4> QED
        BY <2>3, <4>1, <4>2
    <3> QED
      BY <3>1, <3>2
  <2> QED
    BY <2>4 DEF R
<1> QED
  BY <1>1, <1>2, <1>3, IdsAlways, SavedAlways, PTL DEF Spec

=============================================================================
