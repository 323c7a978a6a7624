---------------------------- MODULE ServerProofs ----------------------------
(***************************************************************************)
(* The life of a server and its policies, for every number of servers and  *)
(* every configuration.                                                    *)
(*                                                                         *)
(* LifeInv is inductive: every process is at a place of its three programs *)
(* (InPlace), holds the lock from the step of its start that takes it to   *)
(* the last of its end (LockKept), has its link up only where the steps    *)
(* that remain close it (LinkKept), and keeps what each step of a shutdown *)
(* has settled (Secured).  A step is one process's (OthersKept).           *)
(***************************************************************************)
EXTENDS ServerLifecycle, StartPolicy, SequenceTheorems, TLAPS

Connects(p) == Mode[p] # "manual"

\* What remains of a start, of the undoing of one, and of a shutdown.
StartTails(p) ==
  IF Connects(p)
  THEN {<<"admit", "lock", "summaries", "application", "connect", "listen">>,
        <<"lock", "summaries", "application", "connect", "listen">>,
        <<"summaries", "application", "connect", "listen">>,
        <<"application", "connect", "listen">>,
        <<"connect", "listen">>, <<"listen">>}
  ELSE {<<"admit", "lock", "summaries", "application", "listen">>,
        <<"lock", "summaries", "application", "listen">>,
        <<"summaries", "application", "listen">>,
        <<"application", "listen">>, <<"listen">>}

CleanupTails(p) ==
  {<<"close", "release">>, <<"release">>} \union
  IF Connects(p)
  THEN {<<"drop", "device", "close", "release">>, <<"device", "close", "release">>}
  ELSE {<<"drop", "close", "release">>}

StopTails ==
  {<<"drop", "stop", "confirm", "device", "close", "http", "release">>,
   <<"stop", "confirm", "device", "close", "http", "release">>,
   <<"confirm", "device", "close", "http", "release">>,
   <<"device", "close", "http", "release">>,
   <<"close", "http", "release">>, <<"http", "release">>, <<"release">>}

StepsIn(s) == {s[i] : i \in DOMAIN s}
Left(p) == StepsIn(todo[p])

\* A process is at a place of its programs.
InPlace(p) ==
  todo[p] \in CASE at[p] = "starting" -> StartTails(p)
                [] at[p] = "clearing" -> CleanupTails(p)
                [] at[p] = "closing" -> StopTails
                [] OTHER -> {<<>>}

\* A link that is up will be closed, or was made by a request that came late.
LinkKept(p) ==
  link[p] =>
    CASE at[p] = "starting" -> Connects(p) /\ Left(p) = {"listen"}
      [] at[p] = "clearing" -> Connects(p) /\ "device" \in Left(p)
      [] at[p] = "closing" -> "device" \in Left(p) \/ late[p]
      [] OTHER -> at[p] = "serving" \/ (at[p] = "ended" /\ late[p])

\* There is work only where a server has been; what went wrong is noted.
WorkKept(p) ==
  /\ at[p] \notin {"serving", "closing", "ended"} =>
       ~creating[p] /\ run[p] = "none" /\ level[p] = "flat" /\ queue[p] = <<>>
  /\ run[p] = "lost" => "stop" \in failed[p]
  /\ at[p] = "clearing" => failed[p] # {}

\* What each step of a shutdown has settled stays so until the process ends.
Secured(p) ==
  /\ at[p] = "closing" /\ "stop" \notin Left(p) => run[p] # "running"
  /\ at[p] = "closing" /\ "confirm" \notin Left(p) /\ failed[p] = {} /\ ~late[p] =>
       level[p] = "flat" \/ (link[p] /\ "device" \in Left(p))
  /\ at[p] = "ended" /\ failed[p] = {} /\ ~late[p] =>
       level[p] = "flat" /\ run[p] \notin {"running", "lost"}

\* The lock is a process's own from its step of the start to the last of its end.
LockKept(p) ==
  /\ \/ at[p] \in {"clearing", "serving", "closing"}
     \/ at[p] = "starting" /\ "lock" \notin Left(p)
     => lock = p
  /\ at[p] = "off" \/ "lock" \in Left(p) => lock # p
  /\ at[p] = "ended" /\ lock = p => "release" \in failed[p]

Orderly(p) == InPlace(p) /\ LinkKept(p) /\ WorkKept(p) /\ Secured(p)

LifeInv == TypeOK /\ \A p \in Servers : Orderly(p) /\ LockKept(p)

-----------------------------------------------------------------------------
(* The programs.                                                           *)

\* What a start has left.
LEMMA StartMoves ==
  ASSUME NEW p \in Servers, NEW s \in StartTails(p)
  PROVE  /\ s # <<>> /\ s \in Seq(Steps) /\ Head(s) \in StepsIn(s)
         /\ Head(s) # "listen" => Tail(s) \in StartTails(p)
         /\ StepsIn(Tail(s)) = StepsIn(s) \ {Head(s)}
         /\ Head(s) \in {"admit", "lock"} <=> "lock" \in StepsIn(s)
         /\ Head(s) = "connect" => Connects(p) /\ StepsIn(s) = {"connect", "listen"}
<1> DEFINE s6 == <<"admit", "lock", "summaries", "application", "connect", "listen">>
           s5 == <<"lock", "summaries", "application", "connect", "listen">>
           s4 == <<"summaries", "application", "connect", "listen">>
           s3 == <<"application", "connect", "listen">>
           s2 == <<"connect", "listen">>
           s1 == <<"listen">>
           t5 == <<"admit", "lock", "summaries", "application", "listen">>
           t4 == <<"lock", "summaries", "application", "listen">>
           t3 == <<"summaries", "application", "listen">>
           t2 == <<"application", "listen">>
<1>1. /\ s6 # <<>> /\ s5 # <<>> /\ s4 # <<>> /\ s3 # <<>> /\ s2 # <<>> /\ s1 # <<>>
      /\ t5 # <<>> /\ t4 # <<>> /\ t3 # <<>> /\ t2 # <<>>
  OBVIOUS
<1>2. /\ Tail(s6) = s5
      /\ Tail(s5) = s4
      /\ Tail(s4) = s3
      /\ Tail(s3) = s2
      /\ Tail(s2) = s1
      /\ Tail(s1) = <<>>
      /\ Tail(t5) = t4
      /\ Tail(t4) = t3
      /\ Tail(t3) = t2
      /\ Tail(t2) = s1
  OBVIOUS
<1>3. /\ Head(s6) = "admit"
      /\ Head(s5) = "lock"
      /\ Head(s4) = "summaries"
      /\ Head(s3) = "application"
      /\ Head(s2) = "connect"
      /\ Head(s1) = "listen"
      /\ Head(t5) = "admit"
      /\ Head(t4) = "lock"
      /\ Head(t3) = "summaries"
      /\ Head(t2) = "application"
  OBVIOUS
<1>4. /\ StepsIn(s6) = {"admit", "lock", "summaries", "application", "connect", "listen"}
      /\ StepsIn(s5) = {"lock", "summaries", "application", "connect", "listen"}
      /\ StepsIn(s4) = {"summaries", "application", "connect", "listen"}
      /\ StepsIn(s3) = {"application", "connect", "listen"}
      /\ StepsIn(s2) = {"connect", "listen"}
      /\ StepsIn(s1) = {"listen"}
      /\ StepsIn(t5) = {"admit", "lock", "summaries", "application", "listen"}
      /\ StepsIn(t4) = {"lock", "summaries", "application", "listen"}
      /\ StepsIn(t3) = {"summaries", "application", "listen"}
      /\ StepsIn(t2) = {"application", "listen"}
      /\ StepsIn(<<>>) = {}
  BY DEF StepsIn
<1>5. /\ s6 \in Seq(Steps) /\ s5 \in Seq(Steps) /\ s4 \in Seq(Steps) /\ s3 \in Seq(Steps)
      /\ s2 \in Seq(Steps) /\ s1 \in Seq(Steps) /\ t5 \in Seq(Steps) /\ t4 \in Seq(Steps)
      /\ t3 \in Seq(Steps) /\ t2 \in Seq(Steps)
  BY DEF Steps, StartSteps, StopSteps
<1>6. StartTails(p) = IF Connects(p) THEN {s6, s5, s4, s3, s2, s1} ELSE {t5, t4, t3, t2, s1}
  BY DEF StartTails
<1> HIDE DEF s6, s5, s4, s3, s2, s1, t5, t4, t3, t2
<1>7. CASE Connects(p)
  <2>0. StartTails(p) = {s6, s5, s4, s3, s2, s1}
    BY <1>6, <1>7
  <2>1. CASE s = s6
    <3>1. /\ s # <<>> /\ s \in Seq(Steps) /\ Head(s) = "admit" /\ Tail(s) = s5
          /\ StepsIn(s) = {"admit", "lock", "summaries", "application", "connect", "listen"}
          /\ StepsIn(Tail(s)) = {"lock", "summaries", "application", "connect", "listen"}
      BY <1>1, <1>2, <1>3, <1>4, <1>5, <2>1
    <3>2. Head(s) # "listen" => Tail(s) \in StartTails(p)
      BY <2>0, <3>1
    <3> QED BY <3>1, <3>2, <1>7
  <2>2. CASE s = s5
    <3>1. /\ s # <<>> /\ s \in Seq(Steps) /\ Head(s) = "lock" /\ Tail(s) = s4
          /\ StepsIn(s) = {"lock", "summaries", "application", "connect", "listen"}
          /\ StepsIn(Tail(s)) = {"summaries", "application", "connect", "listen"}
      BY <1>1, <1>2, <1>3, <1>4, <1>5, <2>2
    <3>2. Head(s) # "listen" => Tail(s) \in StartTails(p)
      BY <2>0, <3>1
    <3> QED BY <3>1, <3>2, <1>7
  <2>3. CASE s = s4
    <3>1. /\ s # <<>> /\ s \in Seq(Steps) /\ Head(s) = "summaries" /\ Tail(s) = s3
          /\ StepsIn(s) = {"summaries", "application", "connect", "listen"}
          /\ StepsIn(Tail(s)) = {"application", "connect", "listen"}
      BY <1>1, <1>2, <1>3, <1>4, <1>5, <2>3
    <3>2. Head(s) # "listen" => Tail(s) \in StartTails(p)
      BY <2>0, <3>1
    <3> QED BY <3>1, <3>2, <1>7
  <2>4. CASE s = s3
    <3>1. /\ s # <<>> /\ s \in Seq(Steps) /\ Head(s) = "application" /\ Tail(s) = s2
          /\ StepsIn(s) = {"application", "connect", "listen"}
          /\ StepsIn(Tail(s)) = {"connect", "listen"}
      BY <1>1, <1>2, <1>3, <1>4, <1>5, <2>4
    <3>2. Head(s) # "listen" => Tail(s) \in StartTails(p)
      BY <2>0, <3>1
    <3> QED BY <3>1, <3>2, <1>7
  <2>5. CASE s = s2
    <3>1. /\ s # <<>> /\ s \in Seq(Steps) /\ Head(s) = "connect" /\ Tail(s) = s1
          /\ StepsIn(s) = {"connect", "listen"}
          /\ StepsIn(Tail(s)) = {"listen"}
      BY <1>1, <1>2, <1>3, <1>4, <1>5, <2>5
    <3>2. Head(s) # "listen" => Tail(s) \in StartTails(p)
      BY <2>0, <3>1
    <3> QED BY <3>1, <3>2, <1>7
  <2>6. CASE s = s1
    <3>1. /\ s # <<>> /\ s \in Seq(Steps) /\ Head(s) = "listen" /\ Tail(s) = <<>>
          /\ StepsIn(s) = {"listen"}
          /\ StepsIn(Tail(s)) = {}
      BY <1>1, <1>2, <1>3, <1>4, <1>5, <2>6
    <3>2. Head(s) # "listen" => Tail(s) \in StartTails(p)
      BY <2>0, <3>1
    <3> QED BY <3>1, <3>2, <1>7
  <2> QED BY <2>0, <2>1, <2>2, <2>3, <2>4, <2>5, <2>6
<1>8. CASE ~Connects(p)
  <2>0. StartTails(p) = {t5, t4, t3, t2, s1}
    BY <1>6, <1>8
  <2>1. CASE s = t5
    <3>1. /\ s # <<>> /\ s \in Seq(Steps) /\ Head(s) = "admit" /\ Tail(s) = t4
          /\ StepsIn(s) = {"admit", "lock", "summaries", "application", "listen"}
          /\ StepsIn(Tail(s)) = {"lock", "summaries", "application", "listen"}
      BY <1>1, <1>2, <1>3, <1>4, <1>5, <2>1
    <3>2. Head(s) # "listen" => Tail(s) \in StartTails(p)
      BY <2>0, <3>1
    <3> QED BY <3>1, <3>2, <1>8
  <2>2. CASE s = t4
    <3>1. /\ s # <<>> /\ s \in Seq(Steps) /\ Head(s) = "lock" /\ Tail(s) = t3
          /\ StepsIn(s) = {"lock", "summaries", "application", "listen"}
          /\ StepsIn(Tail(s)) = {"summaries", "application", "listen"}
      BY <1>1, <1>2, <1>3, <1>4, <1>5, <2>2
    <3>2. Head(s) # "listen" => Tail(s) \in StartTails(p)
      BY <2>0, <3>1
    <3> QED BY <3>1, <3>2, <1>8
  <2>3. CASE s = t3
    <3>1. /\ s # <<>> /\ s \in Seq(Steps) /\ Head(s) = "summaries" /\ Tail(s) = t2
          /\ StepsIn(s) = {"summaries", "application", "listen"}
          /\ StepsIn(Tail(s)) = {"application", "listen"}
      BY <1>1, <1>2, <1>3, <1>4, <1>5, <2>3
    <3>2. Head(s) # "listen" => Tail(s) \in StartTails(p)
      BY <2>0, <3>1
    <3> QED BY <3>1, <3>2, <1>8
  <2>4. CASE s = t2
    <3>1. /\ s # <<>> /\ s \in Seq(Steps) /\ Head(s) = "application" /\ Tail(s) = s1
          /\ StepsIn(s) = {"application", "listen"}
          /\ StepsIn(Tail(s)) = {"listen"}
      BY <1>1, <1>2, <1>3, <1>4, <1>5, <2>4
    <3>2. Head(s) # "listen" => Tail(s) \in StartTails(p)
      BY <2>0, <3>1
    <3> QED BY <3>1, <3>2, <1>8
  <2>5. CASE s = s1
    <3>1. /\ s # <<>> /\ s \in Seq(Steps) /\ Head(s) = "listen" /\ Tail(s) = <<>>
          /\ StepsIn(s) = {"listen"}
          /\ StepsIn(Tail(s)) = {}
      BY <1>1, <1>2, <1>3, <1>4, <1>5, <2>5
    <3>2. Head(s) # "listen" => Tail(s) \in StartTails(p)
      BY <2>0, <3>1
    <3> QED BY <3>1, <3>2, <1>8
  <2> QED BY <2>0, <2>1, <2>2, <2>3, <2>4, <2>5
<1> QED BY <1>7, <1>8

\* What the undoing of a start has left.
LEMMA CleanupMoves ==
  ASSUME NEW p \in Servers, NEW s \in CleanupTails(p)
  PROVE  /\ s # <<>> /\ s \in Seq(Steps) /\ Head(s) \in StepsIn(s)
         /\ Head(s) # "release" => Tail(s) \in CleanupTails(p) /\ Tail(s) # <<>>
         /\ Head(s) = "release" => Tail(s) = <<>> /\ StepsIn(s) = {"release"}
         /\ StepsIn(Tail(s)) = StepsIn(s) \ {Head(s)}
         /\ "release" \in StepsIn(s) /\ StepsIn(s) \intersect {"lock", "stop", "confirm"} = {}
         /\ Head(s) \in {"drop", "device", "close", "release"}
<1> DEFINE s4 == <<"drop", "device", "close", "release">>
           s3 == <<"device", "close", "release">>
           s2 == <<"close", "release">>
           s1 == <<"release">>
           t3 == <<"drop", "close", "release">>
<1>1. s4 # <<>> /\ s3 # <<>> /\ s2 # <<>> /\ s1 # <<>> /\ t3 # <<>>
  OBVIOUS
<1>2. /\ Tail(s4) = s3
      /\ Tail(s3) = s2
      /\ Tail(s2) = s1
      /\ Tail(s1) = <<>>
      /\ Tail(t3) = s2
  OBVIOUS
<1>3. /\ Head(s4) = "drop"
      /\ Head(s3) = "device"
      /\ Head(s2) = "close"
      /\ Head(s1) = "release"
      /\ Head(t3) = "drop"
  OBVIOUS
<1>4. /\ StepsIn(s4) = {"drop", "device", "close", "release"}
      /\ StepsIn(s3) = {"device", "close", "release"}
      /\ StepsIn(s2) = {"close", "release"}
      /\ StepsIn(s1) = {"release"}
      /\ StepsIn(t3) = {"drop", "close", "release"}
      /\ StepsIn(<<>>) = {}
  BY DEF StepsIn
<1>5. /\ s4 \in Seq(Steps) /\ s3 \in Seq(Steps) /\ s2 \in Seq(Steps) /\ s1 \in Seq(Steps)
      /\ t3 \in Seq(Steps)
  BY DEF Steps, StartSteps, StopSteps
<1>6. CleanupTails(p) = {s2, s1} \union IF Connects(p) THEN {s4, s3} ELSE {t3}
  BY DEF CleanupTails
<1> HIDE DEF s4, s3, s2, s1, t3
<1>11. CASE s = s4 BY <1>1, <1>2, <1>3, <1>4, <1>5, <1>6, <1>11
<1>12. CASE s = s3 BY <1>1, <1>2, <1>3, <1>4, <1>5, <1>6, <1>12
<1>13. CASE s = s2 BY <1>1, <1>2, <1>3, <1>4, <1>5, <1>6, <1>13
<1>14. CASE s = s1 BY <1>1, <1>2, <1>3, <1>4, <1>5, <1>6, <1>14
<1>15. CASE s = t3 BY <1>1, <1>2, <1>3, <1>4, <1>5, <1>6, <1>15
<1> QED BY <1>6, <1>11, <1>12, <1>13, <1>14, <1>15

\* What a shutdown has left: its steps in their order, the release last.
LEMMA StopMoves ==
  ASSUME NEW s \in StopTails
  PROVE  /\ s # <<>> /\ s \in Seq(Steps)
         /\ Tail(s) \in StopTails \union {<<>>}
         /\ Tail(s) = <<>> <=> Head(s) = "release"
         /\ StepsIn(Tail(s)) = StepsIn(s) \ {Head(s)}
         /\ Head(s) \in StepsIn(s) /\ "release" \in StepsIn(s) /\ "lock" \notin StepsIn(s)
         /\ Head(s) = "release" => StepsIn(s) = {"release"}
         /\ "stop" \in StepsIn(s) => "confirm" \in StepsIn(s)
         /\ "confirm" \in StepsIn(s) => "device" \in StepsIn(s)
         /\ Head(s) = "confirm" => "stop" \notin StepsIn(s)
         /\ Head(s) = "device" => "confirm" \notin StepsIn(s)
<1> DEFINE s7 == <<"drop", "stop", "confirm", "device", "close", "http", "release">>
           s6 == <<"stop", "confirm", "device", "close", "http", "release">>
           s5 == <<"confirm", "device", "close", "http", "release">>
           s4 == <<"device", "close", "http", "release">>
           s3 == <<"close", "http", "release">>
           s2 == <<"http", "release">>
           s1 == <<"release">>
<1>1. /\ s7 # <<>> /\ s6 # <<>> /\ s5 # <<>> /\ s4 # <<>> /\ s3 # <<>> /\ s2 # <<>> /\ s1 # <<>>
  OBVIOUS
<1>2. /\ Tail(s7) = s6 /\ Tail(s6) = s5 /\ Tail(s5) = s4 /\ Tail(s4) = s3 /\ Tail(s3) = s2
      /\ Tail(s2) = s1
      /\ Tail(s1) = <<>>
  OBVIOUS
<1>3. /\ Head(s7) = "drop" /\ Head(s6) = "stop" /\ Head(s5) = "confirm" /\ Head(s4) = "device"
      /\ Head(s3) = "close" /\ Head(s2) = "http" /\ Head(s1) = "release"
  OBVIOUS
<1>4. /\ StepsIn(s7) = {"drop", "stop", "confirm", "device", "close", "http", "release"}
      /\ StepsIn(s6) = {"stop", "confirm", "device", "close", "http", "release"}
      /\ StepsIn(s5) = {"confirm", "device", "close", "http", "release"}
      /\ StepsIn(s4) = {"device", "close", "http", "release"}
      /\ StepsIn(s3) = {"close", "http", "release"}
      /\ StepsIn(s2) = {"http", "release"}
      /\ StepsIn(s1) = {"release"}
      /\ StepsIn(<<>>) = {}
  BY DEF StepsIn
<1>5. /\ s7 \in Seq(Steps) /\ s6 \in Seq(Steps) /\ s5 \in Seq(Steps) /\ s4 \in Seq(Steps)
      /\ s3 \in Seq(Steps) /\ s2 \in Seq(Steps) /\ s1 \in Seq(Steps)
  BY DEF Steps, StartSteps, StopSteps
<1>6. StopTails = {s7, s6, s5, s4, s3, s2, s1}
  BY DEF StopTails
<1> HIDE DEF s7, s6, s5, s4, s3, s2, s1
<1>11. CASE s = s7 BY <1>1, <1>2, <1>3, <1>4, <1>5, <1>6, <1>11
<1>12. CASE s = s6 BY <1>1, <1>2, <1>3, <1>4, <1>5, <1>6, <1>12
<1>13. CASE s = s5 BY <1>1, <1>2, <1>3, <1>4, <1>5, <1>6, <1>13
<1>14. CASE s = s4 BY <1>1, <1>2, <1>3, <1>4, <1>5, <1>6, <1>14
<1>15. CASE s = s3 BY <1>1, <1>2, <1>3, <1>4, <1>5, <1>6, <1>15
<1>16. CASE s = s2 BY <1>1, <1>2, <1>3, <1>4, <1>5, <1>6, <1>16
<1>17. CASE s = s1 BY <1>1, <1>2, <1>3, <1>4, <1>5, <1>6, <1>17
<1> QED BY <1>6, <1>11, <1>12, <1>13, <1>14, <1>15, <1>16, <1>17

-----------------------------------------------------------------------------
(* One process moves, and the others stay as they are.                     *)

Same(q) ==
  /\ at'[q] = at[q] /\ todo'[q] = todo[q] /\ failed'[q] = failed[q]
  /\ link'[q] = link[q] /\ level'[q] = level[q] /\ run'[q] = run[q]
  /\ creating'[q] = creating[q] /\ queue'[q] = queue[q] /\ late'[q] = late[q]

\* The lock stays, or is taken by p from nobody alive, or given back by p.
LockMoves(p) ==
  \/ lock' = lock
  \/ lock' = p /\ (lock = None \/ at[lock] \in Over)
  \/ lock = p /\ lock' = None

StepOf(p) == LockMoves(p) /\ \A q \in Servers \ {p} : Same(q)

\* It is enough to look at the process that moves.
LEMMA OthersKept ==
  ASSUME LifeInv, NEW p \in Servers, StepOf(p), TypeOK', Orderly(p)', LockKept(p)'
  PROVE  LifeInv'
<1> SUFFICES ASSUME NEW q \in Servers \ {p} PROVE Orderly(q)' /\ LockKept(q)'
  BY DEF LifeInv
<1>1. Orderly(q) /\ LockKept(q) /\ Same(q)
  BY DEF LifeInv, StepOf
<1>2. Left(q)' = Left(q)
  BY <1>1 DEF Same, Left
<1>3. Orderly(q)'
  <2>1. InPlace(q)'
    BY <1>1 DEF Orderly, InPlace, Same, StartTails, CleanupTails, Connects
  <2>2. LinkKept(q)'
    BY <1>1, <1>2 DEF Orderly, LinkKept, Same, Connects
  <2>3. WorkKept(q)'
    BY <1>1 DEF Orderly, WorkKept, Same
  <2>4. Secured(q)'
    BY <1>1, <1>2 DEF Orderly, Secured, Same
  <2> QED BY <2>1, <2>2, <2>3, <2>4 DEF Orderly
<1>4. LockKept(q)'
  BY <1>1, <1>2, ServerAssumption DEF LockKept, Same, StepOf, LockMoves, Over
<1> QED BY <1>3, <1>4

\* How a process comes forward in undoing a start and in a shutdown.
LEMMA Progress ==
  ASSUME TypeOK, NEW p \in Servers, InPlace(p), at[p] \in {"clearing", "closing"},
         Advance(p) \/ AdvanceFailed(p)
  PROVE  /\ todo' \in [Servers -> Seq(Steps)]
         /\ at' \in [Servers -> {"off"} \union Alive \union Over]
         /\ failed' \in [Servers -> SUBSET Steps]
         /\ wanted' = wanted
         /\ InPlace(p)'
         /\ Left(p)' = Left(p) \ {Head(todo[p])}
         /\ "release" \in Left(p) /\ "lock" \notin Left(p)
         /\ Head(todo[p]) # "release" => at'[p] = at[p] /\ "release" \in Left(p)'
         /\ Head(todo[p]) = "release" => at'[p] = "ended" /\ Left(p)' = {}
         /\ \A q \in Servers \ {p} :
              at'[q] = at[q] /\ todo'[q] = todo[q] /\ failed'[q] = failed[q]
<1> DEFINE s == todo[p]
<1>0. /\ at' = [at EXCEPT ![p] = IF Tail(s) = <<>> THEN "ended" ELSE at[p]]
      /\ todo' = [todo EXCEPT ![p] = Tail(s)]
      /\ wanted' = wanted
  BY DEF Advance, AdvanceFailed, Go
<1>1. /\ at \in [Servers -> {"off"} \union Alive \union Over]
      /\ todo \in [Servers -> Seq(Steps)] /\ failed \in [Servers -> SUBSET Steps]
  BY DEF TypeOK
<1>2. /\ at'[p] = IF Tail(s) = <<>> THEN "ended" ELSE at[p]
      /\ todo'[p] = Tail(s)
      /\ \A q \in Servers \ {p} : at'[q] = at[q] /\ todo'[q] = todo[q]
  BY <1>0, <1>1
<1>3. /\ s # <<>> /\ s \in Seq(Steps) /\ Head(s) \in StepsIn(s)
      /\ StepsIn(Tail(s)) = StepsIn(s) \ {Head(s)}
      /\ "release" \in StepsIn(s) /\ "lock" \notin StepsIn(s)
      /\ Tail(s) = <<>> <=> Head(s) = "release"
      /\ Head(s) = "release" => StepsIn(Tail(s)) = {}
      /\ Head(s) # "release" => "release" \in StepsIn(Tail(s))
      /\ Tail(s) # <<>> => IF at[p] = "clearing" THEN Tail(s) \in CleanupTails(p)
                                                ELSE Tail(s) \in StopTails
  <2>1. CASE at[p] = "clearing"
    <3>1. s \in CleanupTails(p)
      BY <2>1 DEF InPlace
    <3> HIDE DEF s
    <3> QED BY <2>1, <3>1, CleanupMoves
  <2>2. CASE at[p] = "closing"
    <3>1. s \in StopTails
      BY <2>2 DEF InPlace
    <3> HIDE DEF s
    <3> QED BY <2>2, <3>1, StopMoves
  <2> QED BY <2>1, <2>2
<1>4. Left(p)' = StepsIn(Tail(s)) /\ Left(p) = StepsIn(s)
  BY <1>2 DEF Left
<1>5. InPlace(p)'
  <2>1. CASE Tail(s) = <<>>
    BY <1>2, <2>1 DEF InPlace
  <2>2. CASE Tail(s) # <<>>
    BY <1>2, <1>3, <2>2 DEF InPlace, CleanupTails, Connects
  <2> QED BY <2>1, <2>2
<1>6. /\ failed' \in [Servers -> SUBSET Steps]
      /\ \A q \in Servers \ {p} : failed'[q] = failed[q]
  <2>1. Head(s) \in Steps
    BY <1>3, <1>1 
  <2> QED BY <1>1, <2>1 DEF Advance, AdvanceFailed
<1>7. todo' \in [Servers -> Seq(Steps)]
  <2>1. Tail(s) \in Seq(Steps)
    BY <1>3
  <2> QED BY <2>1, <1>0, <1>1
<1>8. at' \in [Servers -> {"off"} \union Alive \union Over]
  BY <1>0, <1>1 DEF Over
<1> HIDE DEF s
<1>9. s = todo[p]
  BY DEF s
<1> QED BY <1>0, <1>2, <1>3, <1>4, <1>5, <1>6, <1>7, <1>8, <1>9

-----------------------------------------------------------------------------
(* Service.                                                                *)

\* A step of the work moves no process and no lock.
LEMMA AtRest ==
  ASSUME LifeInv, NEW p \in Servers, UNCHANGED <<lock, control>>
  PROVE  /\ InPlace(p)' /\ LockKept(p)' /\ LockMoves(p) /\ Left(p)' = Left(p)
         /\ at[p] \in {"serving", "closing", "ended", "off", "starting", "clearing", "dead"}
<1>1. InPlace(p) /\ LockKept(p) /\ TypeOK
  BY DEF LifeInv, Orderly
<1>2. Left(p)' = Left(p)
  BY DEF control, Left
<1>3. InPlace(p)'
  BY <1>1 DEF control, InPlace, StartTails, CleanupTails, Connects
<1>4. LockKept(p)'
  BY <1>1, <1>2 DEF control, LockKept
<1> QED BY <1>1, <1>2, <1>3, <1>4 DEF LockMoves, TypeOK, Alive, Over

\* What a shutdown has done, in terms of what it has left.
LEMMA LetGoIs ==
  ASSUME NEW p \in Servers
  PROVE  /\ LetGo(p) <=> at[p] = "closing" /\ "device" \notin Left(p)
         /\ Settled(p) <=> at[p] = "closing" /\ "confirm" \notin Left(p)
BY DEF LetGo, Settled, Left, StepsIn

\* Sessions and the device of a server come and go in good order, in a
\* shutdown too.
LEMMA WorkSteps ==
  ASSUME LifeInv, NEW p \in Servers, Service(p)
  PROVE  LifeInv'
<1>1. UNCHANGED <<lock, control>> /\ at[p] \in {"serving", "closing"}
  BY DEF Service, CreateBegins, CreateEnds, RunBegins, RunInflates, RunEnds, RequestRuns,
         Deflates, Unplug, Request, Serving
<1>2. /\ InPlace(p) /\ LinkKept(p) /\ WorkKept(p) /\ Secured(p) /\ LockKept(p)
  BY DEF LifeInv, Orderly
<1>3. InPlace(p)' /\ LockKept(p)' /\ LockMoves(p) /\ Left(p)' = Left(p)
  BY <1>1, AtRest
<1>4. /\ at'[p] = at[p] /\ failed'[p] = failed[p] /\ todo'[p] = todo[p]
      /\ \A q \in Servers : at'[q] = at[q] /\ failed'[q] = failed[q] /\ todo'[q] = todo[q]
      /\ lock' \in Servers \union {None}
      /\ at' \in [Servers -> {"off"} \union Alive \union Over]
      /\ todo' \in [Servers -> Seq(Steps)]
      /\ failed' \in [Servers -> SUBSET Steps]
      /\ wanted' \in [Servers -> {"none", "stop", "fail"}]
  BY <1>1 DEF control, LifeInv, TypeOK
<1>5. /\ link \in [Servers -> BOOLEAN] /\ level \in [Servers -> {"flat", "up"}]
      /\ run \in [Servers -> {"none", "setup", "running", "lost"}]
      /\ creating \in [Servers -> BOOLEAN] /\ late \in [Servers -> BOOLEAN]
      /\ queue \in [Servers -> Seq({"connect", "inflate"})]
  BY DEF LifeInv, TypeOK
<1> DEFINE Others == \A q \in Servers \ {p} :
              /\ link'[q] = link[q] /\ level'[q] = level[q] /\ run'[q] = run[q]
              /\ creating'[q] = creating[q] /\ queue'[q] = queue[q] /\ late'[q] = late[q]
           WorkType == /\ link' \in [Servers -> BOOLEAN] /\ level' \in [Servers -> {"flat", "up"}]
                       /\ run' \in [Servers -> {"none", "setup", "running", "lost"}]
                       /\ creating' \in [Servers -> BOOLEAN] /\ late' \in [Servers -> BOOLEAN]
                       /\ queue' \in [Servers -> Seq({"connect", "inflate"})]
<1>6. SUFFICES Others /\ WorkType /\ LinkKept(p)' /\ WorkKept(p)' /\ Secured(p)'
  <2>1. ASSUME Others, WorkType, LinkKept(p)', WorkKept(p)', Secured(p)' PROVE LifeInv'
    <3>1. StepOf(p)
      BY <1>3, <1>4, <2>1 DEF StepOf, Same
    <3>2. TypeOK'
      BY <1>4, <2>1 DEF TypeOK
    <3>3. Orderly(p)'
      BY <1>3, <2>1 DEF Orderly
    <3> QED BY <1>3, <3>1, <3>2, <3>3, OthersKept
  <2> QED BY <2>1
<1>7. /\ LetGo(p) <=> at[p] = "closing" /\ "device" \notin Left(p)
      /\ Settled(p) <=> at[p] = "closing" /\ "confirm" \notin Left(p)
  BY LetGoIs
<1> USE DEF Connects
<1>8. CASE CreateBegins(p)
  BY <1>1, <1>2, <1>3, <1>4, <1>5, <1>8 DEF CreateBegins, Serving, LinkKept, WorkKept, Secured
<1>9. CASE CreateEnds(p)
  BY <1>1, <1>2, <1>3, <1>4, <1>5, <1>7, <1>9 DEF CreateEnds, LinkKept, WorkKept, Secured
<1>10. CASE RunBegins(p)
  BY <1>1, <1>2, <1>3, <1>4, <1>5, <1>10 DEF RunBegins, Serving, LinkKept, WorkKept, Secured
<1>11. CASE RunInflates(p)
  BY <1>1, <1>2, <1>3, <1>4, <1>5, <1>11 DEF RunInflates, Serving, LinkKept, WorkKept, Secured
<1>12. CASE RunEnds(p)
  BY <1>1, <1>2, <1>3, <1>4, <1>5, <1>12 DEF RunEnds, Serving, LinkKept, WorkKept, Secured
<1>13. ASSUME NEW kind \in {"connect", "inflate"}, Request(p, kind)
       PROVE  Others /\ WorkType /\ LinkKept(p)' /\ WorkKept(p)' /\ Secured(p)'
  BY <1>1, <1>2, <1>3, <1>4, <1>5, <1>13 DEF Request, Serving, LinkKept, WorkKept, Secured
<1>14. CASE RequestRuns(p)
  <2>1. PICK answered \in BOOLEAN :
     LET allowed(kind) == answered /\ run[p] # "running" /\ Head(queue[p]) = kind
         connects == allowed("connect") /\ ~link[p]
         inflates == allowed("inflate") /\ link[p] /\ level[p] = "flat"
     IN /\ link' = [link EXCEPT ![p] = @ \/ connects]
        /\ level' = [level EXCEPT ![p] = IF inflates THEN "up" ELSE @]
        /\ late' = [late EXCEPT ![p] = @ \/ (LetGo(p) /\ (connects \/ inflates))]
    BY <1>14 DEF RequestRuns
  <2> DEFINE connects == answered /\ run[p] # "running" /\ Head(queue[p]) = "connect" /\ ~link[p]
             inflates == answered /\ run[p] # "running" /\ Head(queue[p]) = "inflate"
                           /\ link[p] /\ level[p] = "flat"
  <2>2. /\ link' = [link EXCEPT ![p] = link[p] \/ connects]
        /\ level' = [level EXCEPT ![p] = IF inflates THEN "up" ELSE level[p]]
        /\ late' = [late EXCEPT ![p] = late[p] \/ (LetGo(p) /\ (connects \/ inflates))]
    BY <2>1
  <2>3. inflates => link[p]
    OBVIOUS
  <2> HIDE DEF connects, inflates
  <2>4. /\ queue' = [queue EXCEPT ![p] = Tail(queue[p])] /\ queue[p] # <<>>
        /\ UNCHANGED <<lock, control, run, creating>>
    BY <1>14 DEF RequestRuns
  <2>5. Tail(queue[p]) \in Seq({"connect", "inflate"})
    BY <1>5, <2>4
  <2>6. Others /\ WorkType
    BY <1>5, <2>2, <2>4, <2>5
  <2>7. LinkKept(p)' /\ WorkKept(p)'
    BY <1>1, <1>2, <1>3, <1>4, <1>5, <1>7, <2>2, <2>4 DEF LinkKept, WorkKept
  <2>8. Secured(p)'
    BY <1>1, <1>2, <1>3, <1>4, <1>5, <1>7, <2>2, <2>3, <2>4 DEF Secured
  <2> QED BY <2>6, <2>7, <2>8
<1>15. CASE Deflates(p)
  BY <1>1, <1>2, <1>3, <1>4, <1>5, <1>15 DEF Deflates, Serving, LinkKept, WorkKept, Secured
<1>16. CASE Unplug(p)
  <2>1. Others /\ WorkType /\ LinkKept(p)' /\ WorkKept(p)'
    BY <1>1, <1>2, <1>3, <1>4, <1>5, <1>16 DEF Unplug, LinkKept, WorkKept
  <2>2. Secured(p)'
    BY <1>1, <1>2, <1>3, <1>4, <1>5, <1>7, <1>16 DEF Unplug, Secured
  <2> QED BY <2>1, <2>2
<1> QED
  BY <1>8, <1>9, <1>10, <1>11, <1>12, <1>13, <1>14, <1>15, <1>16 DEF Service

-----------------------------------------------------------------------------
(* Start, and the end of a process that dies.                              *)

\* A program put together is the one that has the steps of its parts.
LEMMA Joined ==
  ASSUME NEW s \in Seq(Steps), NEW t \in Seq(Steps), NEW u \in Seq(Steps),
         Len(u) = Len(s) + Len(t),
         \A i \in 1..Len(u) : u[i] = IF i <= Len(s) THEN s[i] ELSE t[i - Len(s)]
  PROVE  s \o t = u
<1>1. /\ s \o t \in Seq(Steps) /\ Len(s \o t) = Len(u)
      /\ \A i \in 1..Len(u) : (s \o t)[i] = u[i]
  BY ConcatProperties
<1> QED BY <1>1, SeqEqual

\* Where the programs begin.
LEMMA ProgramsBegin ==
  ASSUME NEW p \in Servers
  PROVE  /\ StartOf(p) \in StartTails(p) /\ "lock" \in StepsIn(StartOf(p))
         /\ StartOf(p) \in Seq(Steps)
         /\ CleanupOf(p) \in CleanupTails(p) /\ CleanupOf(p) \in Seq(Steps)
         /\ Connects(p) => "device" \in StepsIn(CleanupOf(p))
         /\ StopOf(p) \in StopTails /\ StopOf(p) \in Seq(Steps)
         /\ {"stop", "confirm", "device"} \subseteq StepsIn(StopOf(p))
<1> DEFINE long == <<"admit", "lock", "summaries", "application", "connect", "listen">>
           short == <<"admit", "lock", "summaries", "application", "listen">>
           full == <<"drop", "device", "close", "release">>
           brief == <<"drop", "close", "release">>
           stop == <<"drop", "stop", "confirm", "device", "close", "http", "release">>
<1>1. StartOf(p) = IF Connects(p) THEN long ELSE short
  <2> DEFINE four == <<"admit", "lock", "summaries", "application">>
             five == <<"admit", "lock", "summaries", "application", "connect">>
  <2>1. /\ four \in Seq(Steps) /\ five \in Seq(Steps) /\ long \in Seq(Steps) /\ short \in Seq(Steps)
        /\ <<"connect">> \in Seq(Steps) /\ <<"listen">> \in Seq(Steps) /\ <<>> \in Seq(Steps)
    BY DEF Steps, StartSteps
  <2>2. /\ Len(four) = 4 /\ Len(five) = 5 /\ Len(long) = 6 /\ Len(short) = 5
        /\ Len(<<"connect">>) = 1 /\ Len(<<"listen">>) = 1
    OBVIOUS
  <2>3. four \o <<"connect">> = five
    <3> DEFINE a == four
               b == <<"connect">>
               c == five
    <3>1. \A i \in 1..5 : c[i] = IF i <= 4 THEN a[i] ELSE b[i - 4]
      OBVIOUS
    <3>2. /\ a \in Seq(Steps) /\ b \in Seq(Steps) /\ c \in Seq(Steps)
          /\ Len(a) = 4 /\ Len(b) = 1 /\ Len(c) = 5
      BY <2>1, <2>2
    <3> HIDE DEF a, b, c
    <3>3. /\ Len(c) = Len(a) + Len(b)
          /\ \A i \in 1..Len(c) : c[i] = IF i <= Len(a) THEN a[i] ELSE b[i - Len(a)]
      BY <3>1, <3>2
    <3>4. a \o b = c
      BY <3>2, <3>3, Joined
    <3> QED BY <3>4 DEF a, b, c
  <2>4. five \o <<"listen">> = long
    <3> DEFINE a == five
               b == <<"listen">>
               c == long
    <3>1. \A i \in 1..6 : c[i] = IF i <= 5 THEN a[i] ELSE b[i - 5]
      OBVIOUS
    <3>2. /\ a \in Seq(Steps) /\ b \in Seq(Steps) /\ c \in Seq(Steps)
          /\ Len(a) = 5 /\ Len(b) = 1 /\ Len(c) = 6
      BY <2>1, <2>2
    <3> HIDE DEF a, b, c
    <3>3. /\ Len(c) = Len(a) + Len(b)
          /\ \A i \in 1..Len(c) : c[i] = IF i <= Len(a) THEN a[i] ELSE b[i - Len(a)]
      BY <3>1, <3>2
    <3>4. a \o b = c
      BY <3>2, <3>3, Joined
    <3> QED BY <3>4 DEF a, b, c
  <2>5. four \o <<"listen">> = short
    <3> DEFINE a == four
               b == <<"listen">>
               c == short
    <3>1. \A i \in 1..5 : c[i] = IF i <= 4 THEN a[i] ELSE b[i - 4]
      OBVIOUS
    <3>2. /\ a \in Seq(Steps) /\ b \in Seq(Steps) /\ c \in Seq(Steps)
          /\ Len(a) = 4 /\ Len(b) = 1 /\ Len(c) = 5
      BY <2>1, <2>2
    <3> HIDE DEF a, b, c
    <3>3. /\ Len(c) = Len(a) + Len(b)
          /\ \A i \in 1..Len(c) : c[i] = IF i <= Len(a) THEN a[i] ELSE b[i - Len(a)]
      BY <3>1, <3>2
    <3>4. a \o b = c
      BY <3>2, <3>3, Joined
    <3> QED BY <3>4 DEF a, b, c
  <2>6. four \o <<>> = four
    BY <2>1, ConcatEmptySeq
  <2>7. ServerStart(p) = (four \o (IF Mode[p] = "rehearsal" THEN <<"connect">> ELSE <<>>)) \o <<"listen">>
    BY DEF ServerStart
  <2>8. PilotStart = long /\ ProductionStart = long
    BY DEF PilotStart, ProductionStart
  <2> HIDE DEF four, five, long, short
  <2>9. Mode[p] \in {"manual", "rehearsal", "production", "pilot"}
    BY ModeAssumption
  <2>10. ServerStart(p) = IF Mode[p] = "rehearsal" THEN long ELSE short
    BY <2>3, <2>4, <2>5, <2>6, <2>7
  <2> QED BY <2>8, <2>9, <2>10 DEF StartOf, Connects
<1>2. CleanupOf(p) = IF Connects(p) THEN full ELSE brief
  <2>1. /\ <<"drop">> \in Seq(Steps) /\ <<"device">> \in Seq(Steps) /\ <<>> \in Seq(Steps)
        /\ <<"close", "release">> \in Seq(Steps) /\ <<"drop", "device">> \in Seq(Steps)
        /\ full \in Seq(Steps) /\ brief \in Seq(Steps)
    BY DEF Steps, StopSteps
  <2>2. /\ Len(<<"drop">>) = 1 /\ Len(<<"device">>) = 1 /\ Len(<<"close", "release">>) = 2
        /\ Len(<<"drop", "device">>) = 2 /\ Len(full) = 4 /\ Len(brief) = 3
    OBVIOUS
  <2>3. <<"drop">> \o <<"device">> = <<"drop", "device">>
    <3> DEFINE a == <<"drop">>
               b == <<"device">>
               c == <<"drop", "device">>
    <3>1. \A i \in 1..2 : c[i] = IF i <= 1 THEN a[i] ELSE b[i - 1]
      OBVIOUS
    <3>2. /\ a \in Seq(Steps) /\ b \in Seq(Steps) /\ c \in Seq(Steps)
          /\ Len(a) = 1 /\ Len(b) = 1 /\ Len(c) = 2
      BY <2>1, <2>2
    <3> HIDE DEF a, b, c
    <3>3. /\ Len(c) = Len(a) + Len(b)
          /\ \A i \in 1..Len(c) : c[i] = IF i <= Len(a) THEN a[i] ELSE b[i - Len(a)]
      BY <3>1, <3>2
    <3>4. a \o b = c
      BY <3>2, <3>3, Joined
    <3> QED BY <3>4 DEF a, b, c
  <2>4. <<"drop", "device">> \o <<"close", "release">> = full
    <3> DEFINE a == <<"drop", "device">>
               b == <<"close", "release">>
               c == full
    <3>1. \A i \in 1..4 : c[i] = IF i <= 2 THEN a[i] ELSE b[i - 2]
      OBVIOUS
    <3>2. /\ a \in Seq(Steps) /\ b \in Seq(Steps) /\ c \in Seq(Steps)
          /\ Len(a) = 2 /\ Len(b) = 2 /\ Len(c) = 4
      BY <2>1, <2>2
    <3> HIDE DEF a, b, c
    <3>3. /\ Len(c) = Len(a) + Len(b)
          /\ \A i \in 1..Len(c) : c[i] = IF i <= Len(a) THEN a[i] ELSE b[i - Len(a)]
      BY <3>1, <3>2
    <3>4. a \o b = c
      BY <3>2, <3>3, Joined
    <3> QED BY <3>4 DEF a, b, c
  <2>5. <<"drop">> \o <<"close", "release">> = brief
    <3> DEFINE a == <<"drop">>
               b == <<"close", "release">>
               c == brief
    <3>1. \A i \in 1..3 : c[i] = IF i <= 1 THEN a[i] ELSE b[i - 1]
      OBVIOUS
    <3>2. /\ a \in Seq(Steps) /\ b \in Seq(Steps) /\ c \in Seq(Steps)
          /\ Len(a) = 1 /\ Len(b) = 2 /\ Len(c) = 3
      BY <2>1, <2>2
    <3> HIDE DEF a, b, c
    <3>3. /\ Len(c) = Len(a) + Len(b)
          /\ \A i \in 1..Len(c) : c[i] = IF i <= Len(a) THEN a[i] ELSE b[i - Len(a)]
      BY <3>1, <3>2
    <3>4. a \o b = c
      BY <3>2, <3>3, Joined
    <3> QED BY <3>4 DEF a, b, c
  <2>6. <<"drop">> \o <<>> = <<"drop">>
    BY <2>1, ConcatEmptySeq
  <2>7. PilotCleanup = full /\ ProductionCleanup = full
    BY DEF PilotCleanup, ProductionCleanup
  <2>8. Mode[p] \in {"manual", "rehearsal", "production", "pilot"}
    BY ModeAssumption
  <2> HIDE DEF full, brief
  <2>9. ServerCleanup(p) = IF Mode[p] = "rehearsal" THEN full ELSE brief
    BY <2>3, <2>4, <2>5, <2>6 DEF ServerCleanup
  <2> QED BY <2>7, <2>8, <2>9 DEF CleanupOf, Connects
<1>3. StopOf(p) = stop
  BY DEF StopOf, ProductionStop, PilotStop, ServerStop
<1>4. /\ "lock" \in StepsIn(long) /\ "lock" \in StepsIn(short) /\ "device" \in StepsIn(full)
      /\ {"stop", "confirm", "device"} \subseteq StepsIn(stop)
  BY DEF StepsIn
<1>5. /\ Connects(p) => long \in StartTails(p) /\ full \in CleanupTails(p)
      /\ ~Connects(p) => short \in StartTails(p) /\ brief \in CleanupTails(p)
      /\ stop \in StopTails
  BY DEF StartTails, CleanupTails, StopTails
<1>6. /\ long \in Seq(Steps) /\ short \in Seq(Steps) /\ full \in Seq(Steps) /\ brief \in Seq(Steps)
      /\ stop \in Seq(Steps)
  BY DEF Steps, StartSteps, StopSteps
<1> HIDE DEF long, short, full, brief, stop
<1> QED BY <1>1, <1>2, <1>3, <1>4, <1>5, <1>6

\* A process that dies leaves what it had open, and its lock file, behind.
LEMMA Dies ==
  ASSUME LifeInv, NEW p \in Servers, at[p] \in Alive, Die(p)
  PROVE  LifeInv'
<1>1. StepOf(p)
  BY DEF Die, Go, StepOf, Same, LockMoves, LifeInv, TypeOK
<1>2. TypeOK'
  <2>1. <<>> \in Seq(Steps) /\ <<>> \in Seq({"connect", "inflate"})
    OBVIOUS
  <2> QED BY <2>1 DEF Die, Go, LifeInv, TypeOK, Over
<1>3. /\ at'[p] = "dead" /\ todo'[p] = <<>> /\ failed'[p] = {} /\ link'[p] = FALSE
      /\ level'[p] = "flat" /\ run'[p] = "none" /\ creating'[p] = FALSE /\ queue'[p] = <<>>
  BY DEF Die, Go, LifeInv, TypeOK
<1>4. Left(p)' = {}
  BY <1>3 DEF Left, StepsIn
<1>5. Orderly(p)'
  BY <1>3, <1>4 DEF Orderly, InPlace, LinkKept, WorkKept, Secured
<1>6. LockKept(p)'
  BY <1>3, <1>4 DEF LockKept
<1> QED BY <1>1, <1>2, <1>5, <1>6, OthersKept

\* A process that begins has the whole start before it.
LEMMA Begins ==
  ASSUME LifeInv, NEW p \in Servers, Begin(p)
  PROVE  LifeInv'
<1>1. /\ at[p] = "off" /\ at' = [at EXCEPT ![p] = "starting"]
      /\ todo' = [todo EXCEPT ![p] = StartOf(p)]
      /\ UNCHANGED <<lock, failed, wanted, link, level, run, creating, queue, late>>
  BY DEF Begin, Go, work
<1>2. TypeOK /\ InPlace(p) /\ LinkKept(p) /\ WorkKept(p) /\ Secured(p) /\ LockKept(p)
  BY DEF LifeInv, Orderly
<1>3. at'[p] = "starting" /\ todo'[p] = StartOf(p)
  BY <1>1, <1>2 DEF TypeOK
<1>4. StepOf(p)
  BY <1>1, <1>2 DEF StepOf, Same, LockMoves, TypeOK
<1>5. TypeOK'
  BY <1>1, <1>2, ProgramsBegin DEF TypeOK, Alive
<1>6. Left(p)' = StepsIn(StartOf(p)) /\ "lock" \in Left(p)'
  BY <1>3, ProgramsBegin DEF Left
<1>7. Orderly(p)'
  <2>1. InPlace(p)'
    BY <1>3, ProgramsBegin DEF InPlace, StartTails, Connects
  <2>2. LinkKept(p)' /\ WorkKept(p)' /\ Secured(p)'
    BY <1>1, <1>2, <1>3 DEF LinkKept, WorkKept, Secured
  <2> QED BY <2>1, <2>2 DEF Orderly
<1>8. LockKept(p)'
  BY <1>1, <1>2, <1>3, <1>6 DEF LockKept
<1> QED BY <1>4, <1>5, <1>7, <1>8, OthersKept

\* How a start comes forward, short of its last step.
LEMMA StartProgress ==
  ASSUME TypeOK, NEW p \in Servers, InPlace(p), at[p] = "starting",
         Head(todo[p]) # "listen", Advance(p)
  PROVE  /\ at'[p] = "starting" /\ todo'[p] = Tail(todo[p]) /\ InPlace(p)'
         /\ Left(p)' = Left(p) \ {Head(todo[p])}
         /\ todo' \in [Servers -> Seq(Steps)]
         /\ at' \in [Servers -> {"off"} \union Alive \union Over]
         /\ UNCHANGED <<failed, wanted>>
         /\ \A q \in Servers \ {p} : at'[q] = at[q] /\ todo'[q] = todo[q]
<1> DEFINE s == todo[p]
<1>1. s \in StartTails(p)
  BY DEF InPlace
<1>2. /\ at' = [at EXCEPT ![p] = IF Tail(s) = <<>> THEN "ended" ELSE at[p]]
      /\ todo' = [todo EXCEPT ![p] = Tail(s)]
      /\ UNCHANGED <<failed, wanted>>
  BY DEF Advance, Go
<1>3. Head(s) # "listen"
  OBVIOUS
<1> HIDE DEF s
<1>4. Tail(s) \in StartTails(p) /\ StepsIn(Tail(s)) = StepsIn(s) \ {Head(s)}
  BY <1>1, <1>3, StartMoves
<1>5. Tail(s) # <<>> /\ Tail(s) \in Seq(Steps)
  <2> DEFINE t == Tail(s)
  <2>1. t \in StartTails(p)
    BY <1>4
  <2> HIDE DEF t
  <2>2. t # <<>> /\ t \in Seq(Steps)
    BY <2>1, StartMoves
  <2> QED BY <2>2 DEF t
<1>6. /\ at'[p] = "starting" /\ todo'[p] = Tail(s)
      /\ todo' \in [Servers -> Seq(Steps)]
      /\ at' \in [Servers -> {"off"} \union Alive \union Over]
      /\ \A q \in Servers \ {p} : at'[q] = at[q] /\ todo'[q] = todo[q]
  BY <1>2, <1>5 DEF TypeOK
<1>7. Left(p)' = Left(p) \ {Head(s)}
  BY <1>4, <1>6 DEF Left, s
<1>8. InPlace(p)'
  BY <1>4, <1>6 DEF InPlace, StartTails, Connects
<1> QED BY <1>2, <1>6, <1>7, <1>8 DEF s

\* What the head of a start says of the rest.
LEMMA StartHead ==
  ASSUME NEW p \in Servers, InPlace(p), at[p] = "starting"
  PROVE  /\ todo[p] # <<>> /\ Head(todo[p]) \in Left(p)
         /\ Head(todo[p]) \in {"admit", "lock"} <=> "lock" \in Left(p)
         /\ Head(todo[p]) = "connect" => Connects(p) /\ Left(p) = {"connect", "listen"}
         /\ Head(todo[p]) \in Steps
<1>1. todo[p] \in StartTails(p)
  BY DEF InPlace
<1>2. todo[p] \in Seq(Steps) /\ todo[p] # <<>>
  BY <1>1, StartMoves
<1> QED BY <1>1, <1>2, StartMoves DEF Left

\* A start that fails has noted it.
LEMMA StartFails ==
  ASSUME TypeOK, NEW p \in Servers, InPlace(p), at[p] = "starting",
         NEW place \in {"ended", "clearing"}, NEW steps \in Seq(Steps),
         FailStart(p, place, steps)
  PROVE  /\ at'[p] = place /\ todo'[p] = steps /\ Left(p)' = StepsIn(steps)
         /\ failed'[p] # {} /\ failed[p] \subseteq failed'[p]
         /\ wanted' = wanted
         /\ todo' \in [Servers -> Seq(Steps)]
         /\ at' \in [Servers -> {"off"} \union Alive \union Over]
         /\ failed' \in [Servers -> SUBSET Steps]
         /\ \A q \in Servers \ {p} :
              at'[q] = at[q] /\ todo'[q] = todo[q] /\ failed'[q] = failed[q]
<1>1. Head(todo[p]) \in Steps
  BY StartHead
<1>2. /\ at' = [at EXCEPT ![p] = place] /\ todo' = [todo EXCEPT ![p] = steps]
      /\ failed' = [failed EXCEPT ![p] = @ \union {Head(todo[p])}]
      /\ wanted' = wanted
  BY DEF FailStart, Go
<1>3. at'[p] = place /\ todo'[p] = steps
  BY <1>2 DEF TypeOK
<1>4. failed'[p] # {} /\ failed[p] \subseteq failed'[p] /\ failed' \in [Servers -> SUBSET Steps]
  BY <1>1, <1>2 DEF TypeOK
<1>5. /\ todo' \in [Servers -> Seq(Steps)]
      /\ at' \in [Servers -> {"off"} \union Alive \union Over]
  BY <1>2 DEF TypeOK, Alive, Over
<1>6. \A q \in Servers \ {p} :
              at'[q] = at[q] /\ todo'[q] = todo[q] /\ failed'[q] = failed[q]
  BY <1>2 DEF TypeOK
<1> QED BY <1>2, <1>3, <1>4, <1>5, <1>6 DEF Left

\* A start comes forward or fails in good order.
LEMMA StartStepKept ==
  ASSUME LifeInv, NEW p \in Servers, StartStep(p)
  PROVE  LifeInv'
<1>1. at[p] = "starting" /\ todo[p] # <<>>
  BY DEF StartStep, Admit, Acquire, Assemble, Connect, Listen, Doing
<1>2. /\ TypeOK /\ InPlace(p) /\ LinkKept(p) /\ WorkKept(p) /\ Secured(p) /\ LockKept(p)
  BY DEF LifeInv, Orderly
<1>3. /\ ~creating[p] /\ run[p] = "none" /\ level[p] = "flat" /\ queue[p] = <<>>
  BY <1>1, <1>2 DEF WorkKept
<1>4. /\ Head(todo[p]) \in Left(p)
      /\ Head(todo[p]) \in {"admit", "lock"} <=> "lock" \in Left(p)
      /\ Head(todo[p]) = "connect" => Connects(p) /\ Left(p) = {"connect", "listen"}
      /\ Head(todo[p]) # "listen" => link[p] = FALSE
      /\ link[p] => Connects(p)
  BY <1>1, <1>2, StartHead DEF LinkKept, TypeOK
<1> DEFINE Untouched == UNCHANGED <<level, run, creating, queue, late>>
<1>5. ASSUME Head(todo[p]) # "listen", Advance(p), Untouched, link' \in [Servers -> BOOLEAN],
             \A q \in Servers \ {p} : link'[q] = link[q],
             link'[p] => Head(todo[p]) = "connect",
             lock' = IF Head(todo[p]) = "lock" THEN p ELSE lock,
             Head(todo[p]) = "lock" => lock = None \/ at[lock] \in Over
      PROVE  LifeInv'
  <2>1. /\ at'[p] = "starting" /\ InPlace(p)' /\ Left(p)' = Left(p) \ {Head(todo[p])}
        /\ todo' \in [Servers -> Seq(Steps)]
        /\ at' \in [Servers -> {"off"} \union Alive \union Over]
        /\ UNCHANGED <<failed, wanted>>
        /\ \A q \in Servers \ {p} : at'[q] = at[q] /\ todo'[q] = todo[q]
    BY <1>1, <1>2, <1>5, StartProgress
  <2>2. TypeOK'
    BY <1>2, <1>5, <2>1 DEF TypeOK
  <2>3. StepOf(p)
    BY <1>5, <2>1 DEF StepOf, LockMoves, Same
  <2>4. LinkKept(p)'
    BY <1>4, <1>5, <2>1 DEF LinkKept, Connects
  <2>5. WorkKept(p)' /\ Secured(p)'
    BY <1>2, <1>3, <1>5, <2>1 DEF WorkKept, Secured
  <2>6. LockKept(p)'
    BY <1>1, <1>2, <1>4, <1>5, <2>1 DEF LockKept
  <2> QED BY <2>1, <2>2, <2>3, <2>4, <2>5, <2>6, OthersKept DEF Orderly
<1>6. ASSUME NEW place \in {"ended", "clearing"}, NEW steps \in Seq(Steps),
             FailStart(p, place, steps), Untouched, UNCHANGED lock,
             link' \in [Servers -> BOOLEAN], \A q \in Servers \ {p} : link'[q] = link[q],
             place = "ended" => steps = <<>> /\ ~link'[p] /\ lock # p,
             place = "clearing" => /\ steps \in CleanupTails(p) /\ "lock" \notin Left(p)
                                   /\ link'[p] => Connects(p) /\ "device" \in StepsIn(steps)
      PROVE  LifeInv'
  <2>1. /\ at'[p] = place /\ todo'[p] = steps /\ Left(p)' = StepsIn(steps)
        /\ failed'[p] # {} /\ failed[p] \subseteq failed'[p]
        /\ wanted' = wanted
        /\ todo' \in [Servers -> Seq(Steps)]
        /\ at' \in [Servers -> {"off"} \union Alive \union Over]
        /\ failed' \in [Servers -> SUBSET Steps]
        /\ \A q \in Servers \ {p} :
              at'[q] = at[q] /\ todo'[q] = todo[q] /\ failed'[q] = failed[q]
    BY <1>1, <1>2, <1>6, StartFails
  <2>2. TypeOK'
    BY <1>2, <1>6, <2>1 DEF TypeOK
  <2>3. StepOf(p)
    BY <1>6, <2>1 DEF StepOf, LockMoves, Same
  <2>4. InPlace(p)'
    BY <1>6, <2>1 DEF InPlace, CleanupTails, Connects
  <2>5. LinkKept(p)'
    BY <1>6, <2>1 DEF LinkKept, Connects
  <2>6. WorkKept(p)' /\ Secured(p)'
    BY <1>2, <1>3, <1>6, <2>1 DEF WorkKept, Secured
  <2>7. StepsIn(<<>>) = {} /\ (place = "clearing" => "lock" \notin StepsIn(steps))
    BY <1>6, CleanupMoves DEF StepsIn
  <2>8. LockKept(p)'
    BY <1>1, <1>2, <1>6, <2>1, <2>7 DEF LockKept
  <2> QED BY <2>2, <2>3, <2>4, <2>5, <2>6, <2>8, OthersKept DEF Orderly
<1>7. <<>> \in Seq(Steps)
  OBVIOUS
<1>8. CASE Admit(p)
  <2>1. Head(todo[p]) = "admit" /\ UNCHANGED <<lock, work>> /\ lock # p
    BY <1>2, <1>4, <1>8 DEF Admit, Doing, LockKept
  <2>2. CASE Advance(p)
    BY <1>2, <1>4, <1>5, <2>1, <2>2 DEF work, TypeOK
  <2>3. CASE FailStart(p, "ended", <<>>)
    BY <1>2, <1>4, <1>6, <1>7, <2>1, <2>3 DEF work, TypeOK
  <2> QED BY <1>8, <2>2, <2>3 DEF Admit
<1>9. CASE Acquire(p)
  <2>1. Head(todo[p]) = "lock" /\ UNCHANGED work /\ lock # p
    BY <1>2, <1>4, <1>9 DEF Acquire, Doing, LockKept
  <2>2. CASE Advance(p) /\ lock' = p /\ (lock = None \/ at[lock] \in Over)
    BY <1>2, <1>4, <1>5, <2>1, <2>2 DEF work, TypeOK
  <2>3. CASE FailStart(p, "ended", <<>>) /\ UNCHANGED lock
    BY <1>2, <1>4, <1>6, <1>7, <2>1, <2>3 DEF work, TypeOK
  <2> QED BY <1>9, <2>2, <2>3 DEF Acquire
<1>10. CASE Assemble(p)
  <2>1. Head(todo[p]) \in {"summaries", "application"} /\ UNCHANGED <<lock, work>>
    BY <1>10 DEF Assemble, Doing
  <2>2. CASE Advance(p)
    BY <1>2, <1>4, <1>5, <2>1, <2>2 DEF work, TypeOK
  <2>3. CASE FailStart(p, "clearing", <<"release">>)
    <3>1. <<"release">> \in CleanupTails(p) /\ <<"release">> \in Seq(Steps)
      BY DEF CleanupTails, Steps, StopSteps
    <3> QED BY <1>2, <1>4, <1>6, <2>1, <2>3, <3>1 DEF work, TypeOK
  <2> QED BY <1>10, <2>2, <2>3 DEF Assemble
<1>11. CASE Connect(p)
  <2>1. Head(todo[p]) = "connect" /\ UNCHANGED <<lock, level, run, creating, queue, late>>
    BY <1>11 DEF Connect, Doing
  <2>2. CASE Advance(p) /\ link' = [link EXCEPT ![p] = TRUE]
    BY <1>2, <1>4, <1>5, <2>1, <2>2 DEF TypeOK
  <2>3. CASE FailStart(p, "clearing", CleanupOf(p)) /\ link' \in {link, [link EXCEPT ![p] = TRUE]}
    <3>1. link' \in [Servers -> BOOLEAN] /\ \A q \in Servers \ {p} : link'[q] = link[q]
      BY <1>2, <2>3 DEF TypeOK
    <3> QED BY <1>4, <1>6, <2>1, <2>3, <3>1, ProgramsBegin
  <2> QED BY <1>11, <2>2, <2>3 DEF Connect
<1>12. CASE Listen(p)
  <2>1. Head(todo[p]) = "listen" /\ UNCHANGED <<lock, work>>
    BY <1>12 DEF Listen, Doing
  <2>2. lock = p
    BY <1>1, <1>2, <1>4, <2>1 DEF LockKept
  <2>3. CASE FailStart(p, "clearing", CleanupOf(p))
    BY <1>2, <1>4, <1>6, <2>1, <2>3, ProgramsBegin DEF work, TypeOK
  <2>4. ASSUME NEW place \in {"closing", "serving"}, NEW steps, Go(p, place, steps),
               UNCHANGED <<failed, wanted>>,
               place = "closing" => steps = StopOf(p), place = "serving" => steps = <<>>
        PROVE  LifeInv'
    <3>1. /\ at' = [at EXCEPT ![p] = place] /\ todo' = [todo EXCEPT ![p] = steps]
          /\ UNCHANGED <<lock, failed, wanted, link, level, run, creating, queue, late>>
      BY <2>1, <2>4 DEF Go, work
    <3>2. at'[p] = place /\ todo'[p] = steps /\ Left(p)' = StepsIn(steps)
      BY <1>2, <3>1 DEF TypeOK, Left
    <3>3. steps \in Seq(Steps)
      BY <2>4, <1>7, ProgramsBegin
    <3>4. TypeOK'
      BY <1>2, <3>1, <3>3 DEF TypeOK, Alive
    <3>5. StepOf(p)
      BY <1>2, <3>1 DEF StepOf, LockMoves, Same, TypeOK
    <3>6. place = "closing" => {"stop", "confirm", "device"} \subseteq Left(p)'
      BY <2>4, <3>2, ProgramsBegin
    <3>7. "lock" \notin Left(p)'
      BY <2>4, <3>2, ProgramsBegin, StopMoves DEF StepsIn
    <3>8. InPlace(p)'
      BY <2>4, <3>2, ProgramsBegin DEF InPlace
    <3>9. LinkKept(p)'
      BY <3>1, <3>2, <3>6 DEF LinkKept
    <3>10. WorkKept(p)' /\ Secured(p)'
      BY <1>2, <1>3, <3>1, <3>2, <3>6 DEF WorkKept, Secured
    <3>11. LockKept(p)'
      BY <2>2, <3>1, <3>2, <3>7 DEF LockKept
    <3> QED BY <3>4, <3>5, <3>8, <3>9, <3>10, <3>11, OthersKept DEF Orderly
  <2>5. CASE Go(p, "closing", StopOf(p)) /\ UNCHANGED <<failed, wanted>>
    BY <2>4, <2>5
  <2>6. CASE Go(p, "serving", <<>>) /\ UNCHANGED <<failed, wanted>>
    BY <2>4, <2>6
  <2> QED BY <1>12, <2>3, <2>5, <2>6 DEF Listen
<1> QED BY <1>8, <1>9, <1>10, <1>11, <1>12 DEF StartStep

-----------------------------------------------------------------------------
(* Shutdown.                                                               *)

\* A server that is told to stop has the whole shutdown before it; one that
\* has no handlers yet dies, a pilot keeps the order.
LEMMA ToldKept ==
  ASSUME LifeInv, NEW p \in Servers, Told(p)
  PROVE  LifeInv'
<1>1. /\ TypeOK /\ InPlace(p) /\ LinkKept(p) /\ WorkKept(p) /\ Secured(p) /\ LockKept(p)
  BY DEF LifeInv, Orderly
<1>2. ASSUME at[p] = "serving", Go(p, "closing", StopOf(p)),
             UNCHANGED <<lock, failed, work>>,
             wanted' \in [Servers -> {"none", "stop", "fail"}]
      PROVE  LifeInv'
  <2>1. /\ at' = [at EXCEPT ![p] = "closing"] /\ todo' = [todo EXCEPT ![p] = StopOf(p)]
        /\ UNCHANGED <<lock, failed, link, level, run, creating, queue, late>>
    BY <1>2 DEF Go, work
  <2>2. at'[p] = "closing" /\ todo'[p] = StopOf(p) /\ Left(p)' = StepsIn(StopOf(p))
    BY <1>1, <2>1 DEF TypeOK, Left
  <2>3. TypeOK'
    BY <1>1, <1>2, <2>1, ProgramsBegin DEF TypeOK, Alive
  <2>4. StepOf(p)
    BY <1>1, <2>1 DEF StepOf, LockMoves, Same, TypeOK
  <2>5. {"stop", "confirm", "device"} \subseteq Left(p)' /\ "lock" \notin Left(p)'
    BY <2>2, ProgramsBegin, StopMoves
  <2>6. InPlace(p)'
    BY <2>2, ProgramsBegin DEF InPlace
  <2>7. LinkKept(p)' /\ WorkKept(p)' /\ Secured(p)'
    BY <1>1, <1>2, <2>1, <2>2, <2>5 DEF LinkKept, WorkKept, Secured
  <2>8. LockKept(p)'
    BY <1>1, <1>2, <2>1, <2>2, <2>5 DEF LockKept
  <2> QED BY <2>3, <2>4, <2>6, <2>7, <2>8, OthersKept DEF Orderly
<1>3. ASSUME UNCHANGED <<lock, failed, at, todo, work>>,
             wanted' \in [Servers -> {"none", "stop", "fail"}]
      PROVE  LifeInv'
  <2>1. \A q \in Servers : Left(q)' = Left(q)
    BY <1>3 DEF Left
  <2>2. TypeOK'
    BY <1>1, <1>3 DEF TypeOK, work
  <2>3. StepOf(p)
    BY <1>3 DEF StepOf, LockMoves, Same, work
  <2>4. InPlace(p)'
    BY <1>1, <1>3 DEF InPlace, StartTails, CleanupTails, Connects
  <2>5. LinkKept(p)' /\ WorkKept(p)' /\ Secured(p)' /\ LockKept(p)'
    BY <1>1, <1>3, <2>1 DEF LinkKept, WorkKept, Secured, LockKept, Connects, work
  <2> QED BY <2>2, <2>3, <2>4, <2>5, OthersKept DEF Orderly
<1>4. ASSUME NEW exit \in {"stop", "fail"}
      PROVE  [wanted EXCEPT ![p] = exit] \in [Servers -> {"none", "stop", "fail"}]
  BY <1>1 DEF TypeOK
<1>5. ASSUME NEW exit \in {"stop", "fail"}, PilotToldTo(p, exit)
      PROVE  LifeInv'
  <2>1. wanted' \in [Servers -> {"none", "stop", "fail"}]
    BY <1>4, <1>5 DEF PilotToldTo, Worse
  <2> QED BY <1>2, <1>3, <1>5, <2>1 DEF PilotToldTo, Serving
<1>6. CASE Signal(p)
  <2>1. PICK exit \in {"stop", "fail"} :
       IF Serving(p)
       THEN /\ Go(p, "closing", StopOf(p))
            /\ wanted' = [wanted EXCEPT ![p] = exit]
            /\ UNCHANGED <<lock, failed, work>>
       ELSE Die(p)
    BY <1>6 DEF Signal
  <2>2. CASE Serving(p)
    BY <1>2, <1>4, <2>1, <2>2 DEF Serving
  <2>3. CASE ~Serving(p)
    BY <1>6, <2>1, <2>3, Dies DEF Signal, Alive
  <2> QED BY <2>2, <2>3
<1> QED BY <1>5, <1>6 DEF Told, PilotSignal, ParentGone

\* The steps of a shutdown, and of what a failed start undoes, leave behind
\* what they are for.
LEMMA ClearStepKept ==
  ASSUME LifeInv, NEW p \in Servers, ClearStep(p)
  PROVE  LifeInv'
<1>1. /\ TypeOK /\ InPlace(p) /\ LinkKept(p) /\ WorkKept(p) /\ Secured(p) /\ LockKept(p)
  BY DEF LifeInv, Orderly
<1>2. /\ at[p] \in {"clearing", "closing"} /\ todo[p] # <<>>
      /\ Advance(p) \/ AdvanceFailed(p)
  BY DEF ClearStep, Drop, StopSession, ConfirmSafe, DisconnectDevice, CloseRest, Release, Doing
<1> DEFINE step == Head(todo[p])
<1>3. /\ todo' \in [Servers -> Seq(Steps)]
      /\ at' \in [Servers -> {"off"} \union Alive \union Over]
      /\ failed' \in [Servers -> SUBSET Steps]
      /\ wanted' = wanted
      /\ InPlace(p)'
      /\ Left(p)' = Left(p) \ {step}
      /\ "release" \in Left(p) /\ "lock" \notin Left(p)
      /\ step # "release" => at'[p] = at[p] /\ "release" \in Left(p)'
      /\ step = "release" => at'[p] = "ended" /\ Left(p)' = {}
      /\ \A q \in Servers \ {p} :
              at'[q] = at[q] /\ todo'[q] = todo[q] /\ failed'[q] = failed[q]
  BY <1>1, <1>2, Progress
<1>4. /\ Advance(p) => failed' = failed
      /\ AdvanceFailed(p) => failed'[p] = failed[p] \union {step}
      /\ failed[p] \subseteq failed'[p]
  BY <1>1, <1>2 DEF Advance, AdvanceFailed, TypeOK
<1>5. lock = p
  BY <1>1, <1>2 DEF LockKept
<1>6. /\ step \in Left(p)
      /\ at[p] = "closing" /\ step = "confirm" => "stop" \notin Left(p)
      /\ at[p] = "closing" /\ step = "device" => "confirm" \notin Left(p)
      /\ at[p] = "closing" /\ "stop" \in Left(p) => "confirm" \in Left(p)
      /\ at[p] = "closing" /\ "confirm" \in Left(p) => "device" \in Left(p)
      /\ step = "release" => Left(p) = {"release"}
  <2>1. CASE at[p] = "clearing"
    <3>1. todo[p] \in CleanupTails(p)
      BY <1>1, <2>1 DEF InPlace
    <3> QED BY <2>1, <3>1, CleanupMoves DEF Left
  <2>2. CASE at[p] = "closing"
    <3>1. todo[p] \in StopTails
      BY <1>1, <2>2 DEF InPlace
    <3> QED BY <2>2, <3>1, StopMoves DEF Left
  <2> QED BY <1>2, <2>1, <2>2
<1> HIDE DEF step
<1> DEFINE Others == \A q \in Servers \ {p} :
              /\ link'[q] = link[q] /\ level'[q] = level[q] /\ run'[q] = run[q]
           WorkType == /\ link' \in [Servers -> BOOLEAN] /\ level' \in [Servers -> {"flat", "up"}]
                       /\ run' \in [Servers -> {"none", "setup", "running", "lost"}]
<1>7. ASSUME Others, WorkType, UNCHANGED <<creating, queue, late>>, LinkKept(p)', WorkKept(p)',
             Secured(p)', LockKept(p)',
             lock' = lock \/ lock' = None
      PROVE  LifeInv'
  <2>1. StepOf(p)
    BY <1>3, <1>5, <1>7 DEF StepOf, LockMoves, Same
  <2>2. TypeOK'
    BY <1>1, <1>3, <1>7 DEF TypeOK
  <2> QED BY <1>3, <1>7, <2>1, <2>2, OthersKept DEF Orderly
<1>8. step # "release" /\ UNCHANGED lock => LockKept(p)'
  BY <1>2, <1>3, <1>5 DEF LockKept
<1>9. /\ link \in [Servers -> BOOLEAN] /\ level \in [Servers -> {"flat", "up"}]
      /\ run \in [Servers -> {"none", "setup", "running", "lost"}]
      /\ late \in [Servers -> BOOLEAN]
  BY <1>1 DEF TypeOK
<1>10. CASE Drop(p) \/ CloseRest(p)
  <2>1. step \in {"drop", "close", "http"} /\ UNCHANGED <<lock, work>>
    BY <1>10 DEF Drop, CloseRest, Doing, step
  <2>2. LinkKept(p)' /\ WorkKept(p)'
    BY <1>1, <1>2, <1>3, <1>4, <2>1 DEF LinkKept, WorkKept, work, Connects
  <2>3. Secured(p)'
    BY <1>1, <1>2, <1>3, <1>4, <2>1 DEF Secured, work
  <2> QED BY <1>7, <1>8, <1>9, <2>1, <2>2, <2>3 DEF work
<1>11. CASE StopSession(p)
  <2>1. /\ step = "stop" /\ at[p] = "closing"
        /\ UNCHANGED <<lock, link, level, creating, queue, late>>
        /\ \/ Advance(p) /\ run' = [run EXCEPT ![p] = IF @ = "lost" THEN @ ELSE "none"]
           \/ AdvanceFailed(p) /\ run' = [run EXCEPT ![p] = IF @ = "running" THEN "lost" ELSE @]
    BY <1>11 DEF StopSession, Doing, step
  <2>2. Others /\ WorkType
    BY <1>9, <2>1
  <2>3. LinkKept(p)' /\ WorkKept(p)'
    BY <1>1, <1>3, <1>4, <1>9, <2>1 DEF LinkKept, WorkKept
  <2>4. Secured(p)'
    BY <1>1, <1>3, <1>4, <1>6, <1>9, <2>1 DEF Secured
  <2> QED BY <1>7, <1>8, <2>1, <2>2, <2>3, <2>4
<1>12. CASE ConfirmSafe(p)
  <2>1. /\ step = "confirm" /\ at[p] = "closing"
        /\ UNCHANGED <<lock, link, run, creating, queue, late>>
        /\ \/ Advance(p) /\ level' = [level EXCEPT ![p] = "flat"]
           \/ AdvanceFailed(p) /\ level' = level
    BY <1>12 DEF ConfirmSafe, Doing, step
  <2>2. Others /\ WorkType
    BY <1>9, <2>1
  <2>3. LinkKept(p)' /\ WorkKept(p)'
    BY <1>1, <1>3, <1>4, <1>9, <2>1 DEF LinkKept, WorkKept
  <2>4. Secured(p)'
    BY <1>1, <1>3, <1>4, <1>6, <1>9, <2>1 DEF Secured
  <2> QED BY <1>7, <1>8, <2>1, <2>2, <2>3, <2>4
<1>13. CASE DisconnectDevice(p)
  <2>1. /\ step = "device" /\ link' = [link EXCEPT ![p] = FALSE]
        /\ UNCHANGED <<lock, run, creating, queue, late>>
        /\ \/ Advance(p) /\ level' = [level EXCEPT ![p] = IF link[p] THEN "flat" ELSE @]
           \/ AdvanceFailed(p) /\ level' = level
    BY <1>13 DEF DisconnectDevice, Doing, step
  <2>2. Others /\ WorkType
    BY <1>9, <2>1
  <2>3. LinkKept(p)' /\ WorkKept(p)'
    BY <1>1, <1>2, <1>3, <1>4, <1>9, <2>1 DEF LinkKept, WorkKept
  <2>4. Secured(p)'
    BY <1>1, <1>2, <1>3, <1>4, <1>6, <1>9, <2>1 DEF Secured
  <2> QED BY <1>7, <1>8, <2>1, <2>2, <2>3, <2>4
<1>14. CASE Release(p)
  <2>1. /\ step = "release" /\ UNCHANGED work
        /\ (Advance(p) /\ lock' = None) \/ (AdvanceFailed(p) /\ lock' = lock)
    BY <1>5, <1>14 DEF Release, Doing, step
  <2>2. Others /\ WorkType
    BY <1>9, <2>1 DEF work
  <2>3. LinkKept(p)' /\ WorkKept(p)'
    BY <1>1, <1>2, <1>3, <1>4, <1>6, <1>9, <2>1 DEF LinkKept, WorkKept, work
  <2>4. Secured(p)'
    BY <1>1, <1>2, <1>3, <1>4, <1>6, <1>9, <2>1 DEF Secured, WorkKept, work
  <2>5. LockKept(p)'
    BY <1>3, <1>4, <2>1, ServerAssumption DEF LockKept
  <2> QED BY <1>7, <2>1, <2>2, <2>3, <2>4, <2>5 DEF work
<1> QED BY <1>10, <1>11, <1>12, <1>13, <1>14 DEF ClearStep
-----------------------------------------------------------------------------
(* The invariant and what follows from it.                                 *)

\* No server has begun.
LEMMA LifeInit == Init => LifeInv
<1> SUFFICES ASSUME Init PROVE LifeInv
  OBVIOUS
<1>1. <<>> \in Seq(Steps) /\ <<>> \in Seq({"connect", "inflate"}) /\ StepsIn(<<>>) = {}
  BY DEF StepsIn
<1>2. TypeOK
  BY <1>1 DEF Init, TypeOK
<1>3. ASSUME NEW p \in Servers PROVE Orderly(p) /\ LockKept(p)
  BY <1>1, ServerAssumption
  DEF Init, Orderly, InPlace, LinkKept, WorkKept, Secured, LockKept, Left
<1> QED BY <1>2, <1>3 DEF LifeInv

\* Every step of a server keeps the invariant.
LEMMA LifeStep == LifeInv /\ [Next]_vars => LifeInv'
<1> SUFFICES ASSUME LifeInv, [Next]_vars PROVE LifeInv'
  OBVIOUS
<1>1. ASSUME NEW p \in Servers, ForceExit(p) \/ Crash(p) PROVE LifeInv'
  BY <1>1, Dies DEF ForceExit, Crash, Alive
<1>2. CASE UNCHANGED vars
  BY <1>2 DEF vars, control, work, LifeInv, TypeOK, Orderly, InPlace, LinkKept, WorkKept, Secured,
              LockKept, Left, StartTails, CleanupTails, Connects
<1> QED
  BY <1>1, <1>2, Begins, StartStepKept, WorkSteps, ToldKept, ClearStepKept DEF Next, Finished

\* The variables of the servers have their types (src/server/index.ts).
THEOREM ServerTypeCorrect == Spec => []TypeOK
<1>1. LifeInv => TypeOK BY DEF LifeInv
<1> QED BY LifeInit, LifeStep, <1>1, PTL DEF Spec

\* Whoever is at work has the lock.
LEMMA WorkersHold == ASSUME LifeInv, NEW p \in Servers, AtWork(p) PROVE lock = p
<1>1. TypeOK /\ LinkKept(p) /\ WorkKept(p) /\ LockKept(p) /\ InPlace(p)
  BY DEF LifeInv, Orderly
<1>2. CASE at[p] \in {"clearing", "serving", "closing"}
  BY <1>1, <1>2 DEF LockKept
<1>3. CASE at[p] = "starting"
  <2>1. link[p] /\ Left(p) = {"listen"}
    BY <1>1, <1>3 DEF AtWork, WorkKept, LinkKept
  <2> QED BY <1>1, <1>3, <2>1 DEF LockKept
<1> QED BY <1>2, <1>3 DEF AtWork, Alive

\* Two servers are never at work on one data directory, however they start,
\* fail to start, are told to stop, fail to stop and die: whoever has a device
\* linked, a session open or one being recorded has the lock, since both ends
\* of a server let the lock go last (src/server/index.ts, closeServer).
THEOREM OneServerOnly == Spec => []OneServerAtWork
<1>1. LifeInv => OneServerAtWork
  BY WorkersHold DEF OneServerAtWork
<1> QED BY LifeInit, LifeStep, <1>1, PTL DEF Spec

\* Exit code 0 means a flat puffer and a recorded end, whatever was under way
\* when the server was told to stop and whatever links went
\* (src/server/index.ts, controller.shutdown).
THEOREM CleanExitsAreSafe == Spec => []CleanExitIsSafe
<1>1. LifeInv => CleanExitIsSafe
  BY DEF LifeInv, Orderly, Secured, CleanExitIsSafe, ExitCode
<1> QED BY LifeInit, LifeStep, <1>1, PTL DEF Spec

\* A server that ended by itself has given back the lock, unless that failed,
\* and the link (src/server/index.ts, the catch of startServerInternal).
THEOREM ServersEndEmptyHanded == Spec => []EndsEmptyHanded
<1>1. LifeInv => EndsEmptyHanded
  BY DEF LifeInv, Orderly, LinkKept, LockKept, EndsEmptyHanded
<1> QED BY LifeInit, LifeStep, <1>1, PTL DEF Spec

-----------------------------------------------------------------------------
(* The lock as the calls of runtime-lock.ts give it.                       *)

TurnNow == [p \in Servers |-> Turn(p)]

LEMMA TurnIs ==
  /\ \A p \in Servers : /\ TurnNow[p] = Turn(p) /\ TurnNow'[p] = Turn(p)'
                        /\ Turn(p) \in {"waiting", "inside", "gone"}
  /\ DOMAIN TurnNow = Servers /\ DOMAIN TurnNow' = Servers
  BY DEF TurnNow, Turn

\* A server takes its turn, lets it go, gives up, or does neither.
LEMMA TurnTaken ==
  ASSUME NEW p \in Servers, \A q \in Servers \ {p} : Turn(q)' = Turn(q),
         \/ Turn(p)' = Turn(p)
         \/ Turn(p)' = "gone" /\ Turn(p) \in {"waiting", "inside"}
         \/ /\ Turn(p)' = "inside" /\ Turn(p) = "waiting"
            /\ \A q \in Servers : Turn(q) # "inside"
  PROVE  [Turns!Next]_TurnNow
<1>1. TurnNow' = [TurnNow EXCEPT ![p] = Turn(p)']
  BY TurnIs DEF TurnNow
<1>2. CASE Turn(p)' = Turn(p)
  BY <1>1, <1>2, TurnIs DEF TurnNow
<1>3. CASE Turn(p)' = "gone" /\ Turn(p) \in {"waiting", "inside"}
  <2>1. TurnNow' = [TurnNow EXCEPT ![p] = "gone"]
    BY <1>1, <1>3
  <2> QED BY <1>3, <2>1, TurnIs DEF Turns!Next, Turns!Leave, Turns!GiveUp, TurnNow
<1>4. CASE /\ Turn(p)' = "inside" /\ Turn(p) = "waiting"
           /\ \A q \in Servers : Turn(q) # "inside"
  <2>1. TurnNow' = [TurnNow EXCEPT ![p] = "inside"]
    BY <1>1, <1>4
  <2> QED BY <1>4, <2>1, TurnIs DEF Turns!Next, Turns!Enter, TurnNow
<1> QED BY <1>2, <1>3, <1>4

\* A step that leaves the lock alone.
LEMMA TurnMoves ==
  ASSUME LifeInv, LifeInv', NEW p \in Servers, NEW place, at' = [at EXCEPT ![p] = place],
         lock' = lock, at[p] \in Alive \union {"off"},
         place \in {"off", "starting"} => place = "starting" /\ at[p] \in {"off", "starting"}
  PROVE  [Turns!Next]_TurnNow
<1>1. TypeOK /\ LockKept(p) /\ LockKept(p)'
  BY DEF LifeInv
<1>2. at'[p] = place /\ \A q \in Servers \ {p} : at'[q] = at[q]
  BY <1>1 DEF TypeOK
<1>3. \A q \in Servers \ {p} : Turn(q)' = Turn(q)
  BY <1>2 DEF Turn
<1>4. \/ Turn(p)' = Turn(p)
      \/ Turn(p)' = "gone" /\ Turn(p) \in {"waiting", "inside"}
  BY <1>1, <1>2 DEF LockKept, Turn, Alive
<1> QED BY <1>3, <1>4, TurnTaken

LEMMA TurnStep == LifeInv /\ [Next]_vars => [Turns!Next]_TurnNow
<1> SUFFICES ASSUME LifeInv, [Next]_vars PROVE [Turns!Next]_TurnNow
  OBVIOUS
<1>1. TypeOK /\ LifeInv'
  BY LifeStep DEF LifeInv
<1>2. CASE at' = at /\ lock' = lock
  BY <1>2 DEF TurnNow, Turn
<1>3. ASSUME NEW p \in Servers, Begin(p) PROVE [Turns!Next]_TurnNow
  <2>1. at[p] = "off" /\ at' = [at EXCEPT ![p] = "starting"] /\ lock' = lock
    BY <1>3 DEF Begin, Go
  <2> QED BY <1>1, <2>1, TurnMoves
<1>4. ASSUME NEW p \in Servers, Acquire(p) PROVE [Turns!Next]_TurnNow
  <2>1. at[p] = "starting" /\ todo[p] # <<>> /\ LockKept(p) /\ InPlace(p)
    BY <1>4 DEF Acquire, Doing, LifeInv, Orderly
  <2>2. Head(todo[p]) = "lock" /\ "lock" \in Left(p) /\ lock # p
    BY <1>4, <2>1, StartHead DEF Acquire, Doing, LockKept
  <2>3. CASE /\ Advance(p) /\ lock' = p /\ (lock = None \/ at[lock] \in Over)
    <3>1. /\ at'[p] = "starting" /\ \A q \in Servers \ {p} : at'[q] = at[q]
      BY <1>1, <2>1, <2>2, <2>3, StartProgress
    <3>2. \A q \in Servers : Turn(q) # "inside"
      BY <2>1, <2>3, ServerAssumption DEF Turn, Alive, Over
    <3>3. Turn(p) = "waiting" /\ Turn(p)' = "inside"
      BY <2>1, <2>2, <2>3, <3>1 DEF Turn, Alive
    <3>4. \A q \in Servers \ {p} : Turn(q)' = Turn(q)
      BY <2>3, <3>1, ServerAssumption DEF Turn, Alive, Over
    <3> QED BY <3>2, <3>3, <3>4, TurnTaken
  <2>4. CASE FailStart(p, "ended", <<>>) /\ lock' = lock
    <3>1. at' = [at EXCEPT ![p] = "ended"]
      BY <2>4 DEF FailStart, Go
    <3> QED BY <1>1, <2>1, <2>4, <3>1, TurnMoves DEF Alive
  <2> QED BY <1>4, <2>3, <2>4 DEF Acquire
<1>5. ASSUME NEW p \in Servers, Admit(p) \/ Assemble(p) \/ Connect(p) \/ Listen(p)
      PROVE  [Turns!Next]_TurnNow
  <2>1. at[p] = "starting" /\ lock' = lock
    BY <1>5 DEF Admit, Assemble, Connect, Listen
  <2>2. \E place \in {"starting", "ended", "clearing", "closing", "serving"} :
          at' = [at EXCEPT ![p] = place]
    BY <1>5, <2>1 DEF Admit, Assemble, Connect, Listen, Advance, FailStart, Go
  <2> QED BY <1>1, <2>1, <2>2, TurnMoves DEF Alive
<1>6. ASSUME NEW p \in Servers, Service(p) PROVE at' = at /\ lock' = lock
  BY <1>6 DEF Service, CreateBegins, CreateEnds, RunBegins, RunInflates, RunEnds, RequestRuns,
              Deflates, Unplug, Request, control
<1>7. ASSUME NEW p \in Servers, at[p] \in Alive, Die(p) PROVE [Turns!Next]_TurnNow
  <2>1. at' = [at EXCEPT ![p] = "dead"] /\ lock' = lock
    BY <1>7 DEF Die, Go
  <2> QED BY <1>1, <1>7, <2>1, TurnMoves
<1>8. ASSUME NEW p \in Servers, Told(p) PROVE [Turns!Next]_TurnNow
  <2>1. at[p] \in Alive
    BY <1>8 DEF Told, Signal, PilotSignal, ParentGone, Alive
  <2>2. CASE Die(p)
    BY <1>7, <2>1, <2>2
  <2>3. CASE lock' = lock /\ (at' = at \/ at' = [at EXCEPT ![p] = "closing"])
    BY <1>1, <1>2, <2>1, <2>3, TurnMoves
  <2> QED
    BY <1>8, <2>2, <2>3 DEF Told, Signal, PilotSignal, ParentGone, PilotToldTo, Go
<1>9. ASSUME NEW p \in Servers, Release(p), Advance(p), lock' = IF lock = p THEN None ELSE lock
      PROVE  [Turns!Next]_TurnNow
  <2>1. at[p] \in {"clearing", "closing"} /\ LockKept(p)
    BY <1>9 DEF Release, LifeInv
  <2>2. lock = p /\ lock' = None
    BY <1>9, <2>1 DEF LockKept
  <2>3. \A q \in Servers \ {p} : at'[q] = at[q]
    BY <1>1, <1>9 DEF Advance, Go, TypeOK
  <2>4. at'[p] \in {"clearing", "closing", "ended"}
    BY <1>1, <1>9, <2>1 DEF Advance, Go, TypeOK
  <2>5. Turn(p) = "inside" /\ Turn(p)' = "gone"
    BY <2>1, <2>2, <2>4, ServerAssumption DEF Turn, Alive
  <2>6. \A q \in Servers \ {p} : Turn(q)' = Turn(q)
    BY <2>2, <2>3, ServerAssumption DEF Turn
  <2> QED BY <2>5, <2>6, TurnTaken
<1>10. ASSUME NEW p \in Servers, ClearStep(p) PROVE [Turns!Next]_TurnNow
  <2>1. at[p] \in {"clearing", "closing"}
    BY <1>10 DEF ClearStep, Drop, StopSession, ConfirmSafe, DisconnectDevice, CloseRest, Release
  <2>2. \/ Release(p) /\ Advance(p) /\ lock' = (IF lock = p THEN None ELSE lock)
        \/ /\ lock' = lock
           /\ \E place \in {"ended", at[p]} : at' = [at EXCEPT ![p] = place]
    BY <1>10 DEF ClearStep, Drop, StopSession, ConfirmSafe, DisconnectDevice, CloseRest, Release,
                 Advance, AdvanceFailed, Go
  <2> QED BY <1>1, <1>9, <2>1, <2>2, TurnMoves DEF Alive
<1>11. ASSUME NEW p \in Servers, ForceExit(p) \/ Crash(p) PROVE [Turns!Next]_TurnNow
  BY <1>7, <1>11 DEF ForceExit, Crash, Alive
<1> QED
  BY <1>2, <1>3, <1>4, <1>5, <1>6, <1>8, <1>10, <1>11 DEF Next, StartStep, Finished, vars, control

\* The one variable that stands for the lock file gives servers the directory
\* in the turns that RuntimeLock proves of the calls behind it, and whoever is
\* at work has its turn (src/server/index.ts, runtime-lock.ts).
THEOREM ServersTakeTurns ==
  Spec => ImplementsTurns /\ [](\A p \in Servers : AtWork(p) => Turn(p) = "inside")
<1>1. Init => Turns!Init
  <2>1. ASSUME Init PROVE TurnNow = [p \in Servers |-> "waiting"]
    BY <2>1, ServerAssumption DEF Init, TurnNow, Turn, Alive
  <2> QED BY <2>1 DEF Turns!Init, TurnNow
<1>2. LifeInv => \A p \in Servers : AtWork(p) => Turn(p) = "inside"
  BY WorkersHold DEF Turn, AtWork
<1> QED
  BY LifeInit, LifeStep, TurnStep, <1>1, <1>2, PTL DEF Spec, ImplementsTurns, Turns!Spec, TurnNow

-----------------------------------------------------------------------------
(* The policies agree, for every configuration.                            *)

\* Reading keeps a configuration one, without gaps (src/shared/config-loader.ts,
\* schemas.ts).
LEMMA NormalisedType ==
  ASSUME NEW c \in Configs
  PROVE  Normalised(c) \in Configs
BY DEF Normalised, Configs

LEMMA CompletedType ==
  ASSUME NEW c \in Configs
  PROVE  /\ Completed(c) \in Configs
         /\ Completed(c).environment # "omitted" /\ Completed(c).participants # "omitted"
         /\ Completed(c).compliance # "omitted" /\ Completed(c).runtime # "omitted"
         /\ Completed(c).privacy # "omitted"
<1> DEFINE e == IF c.environment = "omitted" THEN "other" ELSE c.environment
           p == IF c.participants = "omitted" THEN "disabled" ELSE c.participants
           q == IF c.compliance = "omitted" THEN "required" ELSE c.compliance
           r == IF c.runtime = "omitted" THEN "required" ELSE c.runtime
           s == IF c.privacy = "omitted" THEN "required" ELSE c.privacy
<1>1. /\ e \in {"production", "other"} /\ p \in {"enabled", "disabled"}
      /\ q \in {"required", "other"} /\ r \in {"required", "other"}
      /\ s \in {"required", "other"}
  BY DEF Configs
<1>2. Completed(c) = [c EXCEPT !.environment = e, !.participants = p,
                               !.compliance = q, !.runtime = r, !.privacy = s]
  BY DEF Completed
<1> HIDE DEF e, p, q, r, s
<1>3. /\ Completed(c).environment = e /\ Completed(c).participants = p
      /\ Completed(c).compliance = q /\ Completed(c).runtime = r
      /\ Completed(c).privacy = s
  BY <1>2 DEF Configs
<1>4. Completed(c) \in Configs
  <2> DEFINE c1 == [c EXCEPT !.environment = e]
             c2 == [c1 EXCEPT !.participants = p]
             c3 == [c2 EXCEPT !.compliance = q]
             c4 == [c3 EXCEPT !.runtime = r]
             c5 == [c4 EXCEPT !.privacy = s]
  <2>1. c1 \in Configs
    BY <1>1 DEF Configs
  <2>2. c2 \in Configs
    <3> HIDE DEF c1
    <3> QED BY <1>1, <2>1 DEF Configs
  <2>3. c3 \in Configs
    <3> HIDE DEF c2
    <3> QED BY <1>1, <2>2 DEF Configs
  <2>4. c4 \in Configs
    <3> HIDE DEF c3
    <3> QED BY <1>1, <2>3 DEF Configs
  <2>5. c5 \in Configs
    <3> HIDE DEF c4
    <3> QED BY <1>1, <2>4 DEF Configs
  <2>6. Completed(c) = c5
    BY <1>2, Zenon
  <2> QED BY <2>5, <2>6
<1> QED BY <1>1, <1>3, <1>4

\* What create-release seals, the sealed server starts from
\* (scripts/create-release.ts, src/server/production-entry.ts).
THEOREM SealedConfigStarts ==
  ASSUME NEW c \in Configs
  PROVE  SealedStarts(c)
<1> SUFFICES ASSUME Seals(c) PROVE EntryStarts(Loaded(c), Loaded(c), FALSE)
  BY DEF SealedStarts
<1> DEFINE l == Loaded(c)
<1>1. /\ l \in Configs
      /\ l.environment # "omitted" /\ l.participants # "omitted"
      /\ l.compliance # "omitted" /\ l.runtime # "omitted" /\ l.privacy # "omitted"
  BY NormalisedType, CompletedType DEF Loaded
<1>2. PolicyAccepts(l)
  BY DEF Seals, LoadsForProduction
<1>3. Loaded(l) = l
  BY DEF Seals
<1> HIDE DEF l
<1>4. Normalised(l) = [l EXCEPT !.evidence = FALSE]
  BY <1>2 DEF Normalised, PolicyAccepts
<1>5. l.evidence = FALSE
  <2>1. Loaded(l).evidence = FALSE
    BY <1>1, <1>4 DEF Loaded, Completed, Configs
  <2> QED BY <2>1, <1>3
<1>6. Normalised(l) = l
  BY <1>1, <1>4, <1>5 DEF Configs
<1>7. FormalLoads(l)
  BY <1>1, <1>2, <1>5, <1>6
     DEF FormalLoads, FormalSchemaAccepts, FormalPolicyAccepts, PolicyAccepts
<1> QED BY <1>6, <1>7 DEF EntryStarts, l

\* What the sealed server would start from could have been sealed: its own
\* policy (src/shared/formal-production-config.ts) is not the weaker one.
THEOREM StartedConfigIsSealable ==
  ASSUME NEW c \in Configs
  PROVE  StartsSealable(c)
<1> SUFFICES ASSUME FormalLoads(c) PROVE Seals(Normalised(c))
  BY DEF StartsSealable
<1> DEFINE n == Normalised(c)
<1>1. n \in Configs
  BY DEF Normalised, Configs
<1>2. FormalSchemaAccepts(n) /\ FormalPolicyAccepts(n)
  BY DEF FormalLoads
<1> HIDE DEF n
<1>3. Completed(n) = n
  BY <1>1, <1>2 DEF Completed, FormalSchemaAccepts, Configs
<1>4. Normalised(n) = n
  <2>1. Normalised(n) = [n EXCEPT !.evidence = n.evidence]
    BY <1>1, <1>2 DEF Normalised, FormalSchemaAccepts, Configs
  <2> QED BY <1>1, <2>1 DEF Configs
<1>5. Loaded(n) = n
  BY <1>3, <1>4 DEF Loaded
<1>6. SchemaAccepts(n) /\ PolicyAccepts(n)
  BY <1>2 DEF SchemaAccepts, PolicyAccepts, FormalPolicyAccepts,
              FormalSchemaAccepts, Loopback
<1> QED BY <1>5, <1>6 DEF Seals, LoadsForProduction, n

\* The serial driver serves in no mode (src/server/index.ts).
THEOREM SerialIsOutOfUse ==
  ASSUME NEW c \in Configs, NEW override \in Directories \union {"none"}
  PROVE  SerialNeverServes(c, override)
<1>1. Completed(c).device = c.device
  BY DEF Completed, Configs
<1>2. ASSUME NEW mode \in Practice \union {"test"}, Serves(mode, c, override)
      PROVE  c.device # "serial"
  BY <1>1, <1>2 DEF Serves, Admits, Practice, AdmitsDevelopment, AdmitsRehearsal,
                    AdmitsTest, AdmitsPilotRuntime
<1>3. FormalLoads(c) => c.device # "serial"
  BY DEF FormalLoads, FormalPolicyAccepts, Normalised, Configs
<1> QED BY <1>2, <1>3 DEF SerialNeverServes

\* The runtime of a pilot is not laxer than what index.ts asks of one
\* (src/server/screen-pilot-runtime.ts, index.ts).
THEOREM PilotGatesAreOne ==
  ASSUME NEW c \in Configs
  PROVE  PilotGatesAgree(c)
BY DEF PilotGatesAgree, AdmitsPilotRuntime, AdmitsScreenPilot, Loopback

\* Development, rehearsal and pilot keep to directories of their own, whatever
\* DATA_DIRECTORY says (src/server/index.ts, screen-pilot-runtime.ts).
THEOREM PracticeIsKeptApart ==
  ASSUME NEW c \in Configs, NEW override \in Directories \union {"none"},
         NEW d \in Configs, NEW other \in Directories \union {"none"}
  PROVE  PracticeKeptApart(c, override, d, other)
<1> DEFINE own(mode) == CASE mode = "development" -> {"dev", "dev/sub"}
                          [] mode = "rehearsal" -> {"mock"}
                          [] mode = "pilot" -> {"pilot"}
<1>1. ASSUME NEW e \in Configs, NEW o \in Directories \union {"none"},
             NEW m \in Practice, Serves(m, e, o)
      PROVE  LogDirectory(e, o) \in own(m)
  <2>1. Completed(e).directory = e.directory
    BY DEF Completed, Configs
  <2>2. CASE m = "development"
    BY <1>1, <2>2 DEF Serves, DirectoryAllowed, InsideDev
  <2>3. CASE m = "rehearsal"
    BY <1>1, <2>3 DEF Serves, DirectoryAllowed
  <2>4. CASE m = "pilot"
    BY <1>1, <2>1, <2>4
       DEF Serves, DirectoryAllowed, LogDirectory, Admits, AdmitsPilotRuntime
  <2> QED BY <2>2, <2>3, <2>4 DEF Practice
<1>2. SUFFICES ASSUME NEW m \in Practice, NEW n \in Practice, m # n,
                      Serves(m, c, override), Serves(n, d, other)
               PROVE  {LogDirectory(c, override), LogDirectory(d, other)} \notin
                        {{x} : x \in Directories} \union
                        {{"dev", "dev/sub"}, {"mock", "mock/sub"}, {"pilot", "pilot/sub"}}
  BY DEF PracticeKeptApart
<1>3. LogDirectory(c, override) \in own(m) /\ LogDirectory(d, other) \in own(n)
  BY <1>1, <1>2
<1> HIDE DEF own
<1>4. \A x \in own(m), y \in own(n) :
        {x, y} \notin {{z} : z \in Directories} \union
          {{"dev", "dev/sub"}, {"mock", "mock/sub"}, {"pilot", "pilot/sub"}}
  <2> SUFFICES ASSUME NEW x \in own(m), NEW y \in own(n)
               PROVE  /\ x # y
                      /\ {x, y} # {"dev", "dev/sub"} /\ {x, y} # {"mock", "mock/sub"}
                      /\ {x, y} # {"pilot", "pilot/sub"}
    OBVIOUS
  <2> QED BY <1>2 DEF own, Practice
<1> QED BY <1>3, <1>4
=============================================================================
