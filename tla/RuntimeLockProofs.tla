------------------------- MODULE RuntimeLockProofs -------------------------
(***************************************************************************)
(* The lock excludes: two servers never hold the data directory as long as *)
(* none stalls for the grace period, and a stale lock is not found by two  *)
(* servers at once.                                                        *)
(***************************************************************************)
EXTENDS RuntimeLock, TLAPS

Orderly == "stall" \notin Mishaps /\ "rivals" \notin Mishaps

\* A process that has created the file, and not yet given up.
Created == {"write", "cleanup"} \union Holding

\* The file that a process is writing, holding or cleaning up is its own.
CreatedOwns ==
  \A p \in Processes : at[p] \in Created =>
    file # None /\ file.owner = p /\ (at[p] \in Holding => file.written)

\* Whoever created the file does not look at it any more.
OwnerIsPast == file # None => at[file.owner] \in Created \union Ended

\* A file is moved aside only when its creator is gone.
OldIsDead == file # None /\ file.old => ~Active(file.owner)
RenamesStale == \A p \in Processes : at[p] = "rename" => Stale

IInv ==
  TypeOK /\ CreatedOwns /\ OwnerIsPast /\ OldIsDead /\ RenamesStale /\ ~Contended

USE DEF Acquiring, Holding, Ended

\* Initially there is no file and no process.
LEMMA InvInit == Init => IInv
  BY AttemptAssumption
  DEF Init, IInv, TypeOK, CreatedOwns, OwnerIsPast, OldIsDead, RenamesStale, Contended, Stale,
      Created

\* What a process creates and writes is a lock file.
LEMMA FileTyped ==
  \A p \in Processes, b \in BOOLEAN : [owner |-> p, written |-> b, old |-> FALSE] \in Files
  BY DEF Files

\* Types are kept by every step.
LEMMA TypeStep == ASSUME TypeOK, [Next]_vars PROVE TypeOK'
  <1> USE AttemptAssumption DEF TypeOK, Go
  <1>1. ASSUME NEW p \in Processes, Retry(p), file' = file \/ file' = None PROVE TypeOK'
    BY <1>1 DEF Retry
  <1>2. CASE UNCHANGED vars \/ FileAges
    BY <1>2 DEF vars, FileAges, Files
  <1>3. ASSUME NEW p \in Processes, Start(p) \/ Open(p) PROVE TypeOK'
    <2>1. CASE Start(p) BY <2>1 DEF Start
    <2>2. CASE Open(p)
      <3>1. file' \in Files \union {None}
        BY <2>2, FileTyped DEF Open
      <3> QED BY <2>2, <3>1 DEF Open
    <2> QED BY <1>3, <2>1, <2>2
  <1>4. ASSUME NEW p \in Processes, Write(p) \/ WriteFails(p) \/ Cleanup(p) PROVE TypeOK'
    <2>1. file' \in Files \union {None}
      BY <1>4, FileTyped DEF Write, WriteFails, Cleanup
    <2> QED BY <1>4, <2>1 DEF Write, WriteFails, Cleanup
  <1>5. ASSUME NEW p \in Processes, Read(p) PROVE TypeOK'
    <2>1. CASE Retry(p) BY <1>1, <1>5, <2>1 DEF Read
    <2>2. CASE ~Retry(p) BY <1>5, <2>2 DEF Read
    <2> QED BY <2>1, <2>2
  <1>6. ASSUME NEW p \in Processes, Stat(p) \/ Rename(p) PROVE TypeOK'
    <2>1. CASE Retry(p) BY <1>1, <1>6, <2>1 DEF Stat, Rename
    <2>2. CASE ~Retry(p) BY <1>6, <2>2 DEF Stat, Rename
    <2> QED BY <2>1, <2>2
  <1>7. ASSUME NEW p \in Processes, ReleaseBegin(p) \/ ReleaseEnd(p) \/ Crash(p) PROVE TypeOK'
    BY <1>7 DEF ReleaseBegin, ReleaseEnd, Crash
  <1> QED BY <1>2, <1>3, <1>4, <1>5, <1>6, <1>7 DEF Next, Acquire

\* The inductive step.
LEMMA InvStep == ASSUME Orderly, IInv, [Next]_vars PROVE IInv'
  <1> USE DEF IInv, TypeOK, Files, Orderly
  <1>1. TypeOK' BY TypeStep
  <1>2. CASE UNCHANGED vars
    BY <1>1, <1>2 DEF vars, CreatedOwns, OwnerIsPast, OldIsDead, RenamesStale, Contended, Stale,
      Active
  <1>3. CASE FileAges
    <2>1. /\ file # None /\ ~Active(file.owner) /\ UNCHANGED <<at, attempt>>
          /\ file' # None /\ file'.owner = file.owner /\ file'.written = file.written
      BY <1>1, <1>3, FileAssumption DEF FileAges
    <2>2. CreatedOwns' /\ OwnerIsPast' /\ OldIsDead'
      BY <2>1 DEF CreatedOwns, OwnerIsPast, OldIsDead, Active
    <2>3. RenamesStale' /\ ~Contended'
      BY <2>1 DEF RenamesStale, Contended, Stale, Active
    <2> QED BY <1>1, <2>2, <2>3
  <1>4. ASSUME NEW p \in Processes, Start(p) PROVE IInv'
    <2>1. ~Contended'
      BY <1>4 DEF Start
    <2> QED
      BY <1>1, <1>4, <2>1 DEF Start, Go, CreatedOwns, OwnerIsPast, OldIsDead, RenamesStale,
        Stale, Created, Active
  <1>5. ASSUME NEW p \in Processes, Open(p) PROVE IInv'
    <2>1. \A q \in Processes \ {p} : at'[q] = at[q]
      BY <1>5 DEF Open, Go
    <2>2. CASE file = None
      <3>1. /\ file' = [owner |-> p, written |-> FALSE, old |-> FALSE]
            /\ at[p] = "open" /\ at'[p] = "write"
        BY <1>5, <2>2 DEF Open, Go
      <3>2. \A q \in Processes : at'[q] # "rename"
        BY <2>1, <2>2, <3>1 DEF RenamesStale, Stale
      <3>3. \A q \in Processes : at'[q] \in Created => q = p
        BY <2>1, <2>2 DEF CreatedOwns
      <3>4. file' # None /\ file'.owner = p /\ ~file'.old
        BY <3>1, <1>1, FileTyped, FileAssumption
      <3>5. CreatedOwns' /\ OwnerIsPast' /\ OldIsDead'
        BY <3>1, <3>3, <3>4 DEF CreatedOwns, OwnerIsPast, OldIsDead, Created
      <3>6. RenamesStale' /\ ~Contended'
        BY <3>1, <3>2, <3>4 DEF RenamesStale, Contended, Stale, Active
      <3> QED BY <1>1, <3>5, <3>6
    <2>3. CASE file # None
      <3>1. file' = file /\ at[p] = "open" /\ at'[p] = "read"
        BY <1>5, <2>3 DEF Open, Go
      <3>2. file.owner # p
        BY <2>3, <3>1 DEF OwnerIsPast, Created
      <3>3. CreatedOwns' /\ OwnerIsPast' /\ OldIsDead' /\ RenamesStale' /\ ~Contended'
        BY <2>1, <2>3, <3>1, <3>2
        DEF CreatedOwns, OwnerIsPast, OldIsDead, RenamesStale, Contended, Stale, Created, Active
      <3> QED BY <1>1, <3>3
    <2> QED BY <2>2, <2>3
  <1>6. ASSUME NEW p \in Processes, Write(p) \/ WriteFails(p) PROVE IInv'
    <2>1. file # None /\ file.owner = p /\ at[p] = "write"
      BY <1>6 DEF Write, WriteFails, CreatedOwns, Created
    <2>2. ~file.old /\ \A q \in Processes : at[q] # "rename"
      BY <2>1 DEF OldIsDead, RenamesStale, Stale, Active
    <2>3. /\ \A q \in Processes \ {p} : at'[q] = at[q] /\ at[q] \notin Created
          /\ at'[p] \in {"own", "cleanup"}
          /\ file' # None /\ file'.owner = p
          /\ at'[p] = "own" => file'.written
          /\ ~file'.old
      <3>1. \A q \in Processes \ {p} : at[q] \notin Created
        BY <2>1 DEF CreatedOwns
      <3> DEFINE complete == [owner |-> p, written |-> TRUE, old |-> FALSE]
      <3>2. complete # None /\ complete.owner = p /\ complete.written /\ ~complete.old
        BY FileTyped, FileAssumption
      <3>3. CASE Write(p)
        <4>1. file' = complete
          BY <2>1, <3>3 DEF Write
        <4> QED BY <2>1, <3>1, <3>2, <3>3, <4>1 DEF Write, Go
      <3>4. CASE WriteFails(p)
        <4>1. file' \in {file, complete}
          BY <2>1, <3>4 DEF WriteFails
        <4> QED BY <2>1, <2>2, <3>1, <3>2, <3>4, <4>1 DEF WriteFails, Go
      <3> QED BY <1>6, <3>3, <3>4
    <2>4. CreatedOwns' /\ OwnerIsPast'
      BY <2>1, <2>3 DEF CreatedOwns, OwnerIsPast, Created
    <2>5. OldIsDead' /\ RenamesStale' /\ ~Contended'
      BY <2>1, <2>2, <2>3 DEF OldIsDead, RenamesStale, Contended, Stale, Active
    <2> QED BY <1>1, <2>4, <2>5
  <1>7. ASSUME NEW p \in Processes, Cleanup(p) \/ ReleaseEnd(p) PROVE IInv'
    <2>1. /\ file' = None
          /\ at[p] \in Created \ {"write"} /\ \E e \in Ended : at' = [at EXCEPT ![p] = e]
      BY <1>7 DEF Cleanup, ReleaseEnd, Go, Created
    <2>2. file # None /\ file.owner = p /\ Active(p)
      BY <2>1 DEF CreatedOwns, Created, Active
    <2>3. \A q \in Processes : at'[q] # "rename" /\ at'[q] \notin Created
      BY <2>1, <2>2 DEF CreatedOwns, RenamesStale, Stale, Created
    <2> QED
      BY <1>1, <2>1, <2>3 DEF CreatedOwns, OwnerIsPast, OldIsDead, RenamesStale, Contended, Stale
  <1>8. ASSUME NEW p \in Processes, Read(p) \/ Stat(p) PROVE IInv'
    <2>1. /\ file' = file
          /\ at[p] \in {"read", "stat"}
          /\ \E to \in {"open", "failed", "stat", "refused", "rename"} :
               /\ at' = [at EXCEPT ![p] = to]
               /\ to = "rename" => file # None /\ (file.old \/ (file.written /\ ~Active(file.owner)))
      <3>1. CASE Retry(p)
        BY <1>8, <3>1 DEF Read, Stat, Retry, Go
      <3>2. CASE ~Retry(p) /\ Stat(p)
        BY <3>2 DEF Stat, Go
      <3>3. CASE ~Retry(p) /\ Read(p)
        BY <3>3 DEF Read, Go
      <3> QED BY <1>8, <3>1, <3>2, <3>3
    <2>2. file # None => file.owner # p
      BY <2>1 DEF OwnerIsPast, Created
    <2>3. \A q \in Processes \ {p} : at'[q] = at[q]
      BY <2>1
    <2>4. CreatedOwns' /\ OwnerIsPast' /\ OldIsDead'
      BY <2>1, <2>2, <2>3 DEF CreatedOwns, OwnerIsPast, OldIsDead, Created, Active
    <2>5. Stale' <=> Stale
      BY <2>1, <2>2, <2>3 DEF Stale, Active
    <2>6. RenamesStale' /\ ~Contended'
      BY <2>1, <2>3, <2>5 DEF RenamesStale, Contended, Stale, OldIsDead
    <2> QED BY <1>1, <2>4, <2>6
  <1>9. ASSUME NEW p \in Processes, Rename(p) PROVE IInv'
    <2>1. Stale /\ at[p] = "rename" /\ file' = None
      BY <1>9 DEF Rename, RenamesStale
    <2>2. \E to \in {"open", "failed"} : at' = [at EXCEPT ![p] = to]
      BY <1>9 DEF Rename, Retry, Go
    <2>3. \A q \in Processes \ {p} : at[q] # "rename"
      BY <2>1 DEF Contended
    <2>4. \A q \in Processes : at[q] \notin Created
      BY <2>1 DEF Stale, CreatedOwns, Created, Active
    <2>5. CreatedOwns' /\ OwnerIsPast' /\ OldIsDead' /\ ~Contended'
      BY <2>1, <2>2, <2>4 DEF CreatedOwns, OwnerIsPast, OldIsDead, Contended, Stale, Created
    <2>6. RenamesStale'
      BY <2>2, <2>3 DEF RenamesStale
    <2> QED BY <1>1, <2>5, <2>6
  <1>10. ASSUME NEW p \in Processes, ReleaseBegin(p) PROVE IInv'
    <2>1. Owns(p) /\ at' = [at EXCEPT ![p] = "unlink"] /\ file' = file /\ at[p] = "own"
      BY <1>10 DEF ReleaseBegin, Owns, Go, CreatedOwns, Created
    <2> QED
      BY <1>1, <2>1 DEF Owns, CreatedOwns, OwnerIsPast, OldIsDead, RenamesStale, Contended, Stale,
        Created, Active
  <1>11. ASSUME NEW p \in Processes, Crash(p) PROVE IInv'
    <2>1. ~Contended'
      BY <1>11 DEF Crash
    <2> QED
      BY <1>1, <1>11, <2>1 DEF Crash, Go, CreatedOwns, OwnerIsPast, OldIsDead, RenamesStale,
        Stale, Created, Active
  <1> QED
    BY <1>2, <1>3, <1>4, <1>5, <1>6, <1>7, <1>8, <1>9, <1>10, <1>11 DEF Next, Acquire

\* Two servers never hold the data directory, and the one that does finds its
\* own token in the lock file, for any number of servers, started together
\* or crashing.
THEOREM LockExcludes == ASSUME Orderly PROVE Spec => [](Exclusion /\ HolderOwnsFile)
  <1>1. Init => IInv BY InvInit
  <1>2. IInv /\ [Next]_vars => IInv' BY InvStep
  <1>3. IInv => Exclusion /\ HolderOwnsFile
    BY DEF IInv, CreatedOwns, Created, Exclusion, HolderOwnsFile, Owns
  <1> QED BY <1>1, <1>2, <1>3, PTL DEF Spec

-----------------------------------------------------------------------------
(* The lock gives the directory to one server after the other.             *)

TurnAt(place) ==
  CASE place \in Holding -> "inside"
    [] place \in Ended -> "gone"
    [] OTHER -> "waiting"

TurnNow == [p \in Processes |-> Turn(p)]

LEMMA TurnIs ==
  /\ TurnNow = [p \in Processes |-> TurnAt(at[p])]
  /\ TurnNow' = [p \in Processes |-> TurnAt(at'[p])]
  BY DEF TurnNow, Turn, TurnAt

LEMMA TurnValues ==
  /\ \A place \in Holding : TurnAt(place) = "inside"
  /\ \A place \in Ended : TurnAt(place) = "gone"
  /\ \A place \in {"idle"} \union Acquiring : TurnAt(place) = "waiting"
  BY DEF TurnAt, Holding, Ended, Acquiring

\* A process that moves takes a turn, lets it go, gives up, or does neither.
LEMMA TurnMoves ==
  ASSUME TypeOK, NEW p \in Processes, NEW place, Go(p, place),
         \/ TurnAt(place) = TurnAt(at[p])
         \/ TurnAt(place) = "gone" /\ TurnAt(at[p]) \in {"waiting", "inside"}
         \/ /\ TurnAt(place) = "inside" /\ TurnAt(at[p]) = "waiting"
            /\ \A q \in Processes : at[q] \notin Holding
  PROVE  [Turns!Next]_TurnNow
  <1>1. TurnNow[p] = TurnAt(at[p]) /\ TurnNow' = [TurnNow EXCEPT ![p] = TurnAt(place)]
    BY TurnIs DEF Go, TypeOK
  <1>2. CASE TurnAt(place) = TurnAt(at[p])
    BY <1>1, <1>2, TurnIs
  <1>3. CASE TurnAt(place) = "gone" /\ TurnAt(at[p]) \in {"waiting", "inside"}
    BY <1>1, <1>3 DEF Turns!Next, Turns!Leave, Turns!GiveUp, TurnNow
  <1>4. CASE /\ TurnAt(place) = "inside" /\ TurnAt(at[p]) = "waiting"
             /\ \A q \in Processes : at[q] \notin Holding
    <2>1. \A q \in Processes : TurnNow[q] # "inside"
      BY <1>4 DEF TurnNow, Turn, Ended
    <2> QED BY <1>1, <1>4, <2>1 DEF Turns!Next, Turns!Enter, TurnNow
  <1> QED BY <1>2, <1>3, <1>4

LEMMA TurnStep == ASSUME IInv, [Next]_vars PROVE [Turns!Next]_TurnNow
  <1>1. TypeOK
    BY DEF IInv
  <1>2. CASE at' = at
    BY <1>2, TurnIs
  <1>3. ASSUME NEW p \in Processes, NEW place \in {"idle"} \union Acquiring \union Ended,
               Go(p, place), at[p] \in {"idle"} \union Acquiring
        PROVE  [Turns!Next]_TurnNow
    BY <1>1, <1>3, TurnMoves, TurnValues
  <1>4. ASSUME NEW p \in Processes, NEW place \in Ended, Go(p, place), at[p] \in Holding
        PROVE  [Turns!Next]_TurnNow
    BY <1>1, <1>4, TurnMoves, TurnValues
  <1>5. ASSUME NEW p \in Processes, Write(p) PROVE [Turns!Next]_TurnNow
    <2>1. at[p] = "write" /\ Go(p, "own")
      BY <1>5 DEF Write
    <2>2. \A q \in Processes : at[q] \notin Holding
      BY <2>1 DEF IInv, CreatedOwns, Created, Holding
    <2>3. TurnAt("own") = "inside" /\ TurnAt(at[p]) = "waiting"
      BY <2>1, TurnValues DEF Holding, Acquiring
    <2> QED BY <1>1, <2>1, <2>2, <2>3, TurnMoves
  <1>6. ASSUME NEW p \in Processes, ReleaseBegin(p) PROVE [Turns!Next]_TurnNow
    <2>1. at[p] = "own" /\ (Go(p, "unlink") \/ Go(p, "failed"))
      BY <1>6 DEF ReleaseBegin
    <2>2. TurnAt("unlink") = TurnAt(at[p]) /\ at[p] \in Holding /\ "failed" \in Ended
      BY <2>1, TurnValues DEF Holding, Ended
    <2> QED BY <1>1, <1>4, <2>1, <2>2, TurnMoves
  <1>7. ASSUME NEW p \in Processes, Retry(p), at[p] \in Acquiring PROVE [Turns!Next]_TurnNow
    <2>1. Go(p, "open") \/ Go(p, "failed")
      BY <1>7 DEF Retry
    <2> QED BY <1>3, <1>7, <2>1 DEF Acquiring, Ended
  <1>8. ASSUME NEW p \in Processes,
               Start(p) \/ Open(p) \/ WriteFails(p) \/ Cleanup(p) \/ Read(p) \/ Stat(p) \/ Rename(p)
        PROVE  [Turns!Next]_TurnNow
    <2>1. at[p] \in {"idle"} \union Acquiring
      BY <1>8 DEF Start, Open, WriteFails, Cleanup, Read, Stat, Rename, Acquiring
    <2>2. \/ Retry(p) /\ at[p] \in Acquiring
          \/ \E place \in {"idle"} \union Acquiring \union Ended : Go(p, place)
      BY <1>8 DEF Start, Open, WriteFails, Cleanup, Read, Stat, Rename, Acquiring, Ended
    <2> QED BY <1>3, <1>7, <2>1, <2>2
  <1>9. ASSUME NEW p \in Processes, Crash(p) PROVE [Turns!Next]_TurnNow
    <2>1. at[p] \in Acquiring \union Holding /\ Go(p, "dead") /\ "dead" \in Ended
      BY <1>9 DEF Crash, Active, Ended
    <2> QED BY <1>3, <1>4, <2>1
  <1>10. ASSUME NEW p \in Processes, ReleaseEnd(p) PROVE [Turns!Next]_TurnNow
    <2>1. at[p] \in Holding /\ Go(p, "released") /\ "released" \in Ended
      BY <1>10 DEF ReleaseEnd, Holding, Ended
    <2> QED BY <1>4, <2>1
  <1> QED
    BY <1>2, <1>5, <1>6, <1>8, <1>9, <1>10 DEF Next, Acquire, FileAges, vars

\* The calls of the file system give the directory to one server after the
\* other, whoever starts, crashes or fails to write meanwhile (runtime-lock.ts).
THEOREM LockTakesTurns == ASSUME Orderly PROVE Spec => ImplementsTurns
  <1>1. Init => IInv BY InvInit
  <1>2. IInv /\ [Next]_vars => IInv' BY InvStep
  <1>3. IInv /\ [Next]_vars => [Turns!Next]_TurnNow BY TurnStep
  <1>4. Init => Turns!Init
    <2>1. ASSUME Init PROVE TurnNow = [p \in Processes |-> "waiting"]
      BY <2>1, TurnIs, TurnValues DEF Init
    <2> QED BY <2>1 DEF Turns!Init, TurnNow
  <1> QED BY <1>1, <1>2, <1>3, <1>4, PTL DEF Spec, ImplementsTurns, Turns!Spec, TurnNow

=============================================================================
