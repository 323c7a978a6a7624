---------------------------- MODULE RuntimeLock ----------------------------
(***************************************************************************)
(* The lock file that keeps two servers off one data directory             *)
(* (src/server/runtime-lock.ts).  Each action is one call of the file      *)
(* system; processes and crashes interleave between any two of them.  A    *)
(* server that is started again is another process of the set.             *)
(***************************************************************************)
EXTENDS Naturals

CONSTANTS
  Processes,     \* lives of servers on the data directory, and their tokens
  MaxAttempts,   \* MAX_ACQUIRE_ATTEMPTS
  Mishaps,       \* "crash": a process may die; "stall": it may take longer than
                 \* the grace period for one step; "write": a write may fail;
                 \* "rivals": two may find the same stale lock
  None           \* no such file

ASSUME AttemptAssumption == MaxAttempts \in Nat \ {0}
ASSUME MishapAssumption == Mishaps \subseteq {"crash", "stall", "write", "rivals"}

VARIABLES
  file,      \* the lock file: who created it, whether its payload is complete,
             \* whether it is older than LOCK_INITIALIZATION_GRACE_MS
  at,        \* what each process does next
  attempt    \* the attempts it has begun

vars == <<file, at, attempt>>

Acquiring == {"open", "write", "cleanup", "read", "stat", "rename"}
Holding == {"own", "unlink"}
Ended == {"released", "refused", "failed", "dead"}
Files == [owner : Processes, written : BOOLEAN, old : BOOLEAN]

ASSUME FileAssumption == None \notin Files

TypeOK ==
  /\ file \in Files \union {None}
  /\ at \in [Processes -> {"idle"} \union Acquiring \union Holding \union Ended]
  /\ attempt \in [Processes -> 0 .. MaxAttempts]

Init ==
  /\ file = None
  /\ at = [p \in Processes |-> "idle"]
  /\ attempt = [p \in Processes |-> 0]

-----------------------------------------------------------------------------

\* processIsActive.
Active(p) == at[p] \in Acquiring \union Holding

\* A stale lock: whoever created it is gone.
Stale == file # None /\ ~Active(file.owner)

\* Two are about to find it so.
Contended ==
  Stale /\ \E p, q \in Processes : p # q /\ at[p] \in Acquiring /\ at[q] \in Acquiring

Owns(p) == file # None /\ file.owner = p /\ file.written

Go(p, to) == at' = [at EXCEPT ![p] = to]

\* continue: the loop ends after MAX_ACQUIRE_ATTEMPTS.
Retry(p) ==
  IF attempt[p] < MaxAttempts
  THEN Go(p, "open") /\ attempt' = [attempt EXCEPT ![p] = @ + 1]
  ELSE Go(p, "failed") /\ UNCHANGED attempt

Start(p) ==
  /\ at[p] = "idle"
  /\ Go(p, "open")
  /\ attempt' = [attempt EXCEPT ![p] = 1]
  /\ UNCHANGED file
  /\ "rivals" \in Mishaps \/ ~Contended'

\* Mutant: the file is opened without the exclusive flag.
OpenShared(p) ==
  /\ at[p] = "open"
  /\ file' = [owner |-> p, written |-> FALSE, old |-> FALSE]
  /\ Go(p, "write")
  /\ UNCHANGED attempt

\* open with the flag "wx".
Open(p) ==
  /\ at[p] = "open"
  /\ IF file = None
     THEN /\ file' = [owner |-> p, written |-> FALSE, old |-> FALSE]
          /\ Go(p, "write")
     ELSE Go(p, "read") /\ UNCHANGED file
  /\ UNCHANGED attempt

\* The payload is written through the handle, to the file that was created,
\* wherever that has been moved.
Write(p) ==
  /\ at[p] = "write"
  /\ file' = IF file # None /\ file.owner = p
             THEN [owner |-> p, written |-> TRUE, old |-> FALSE] ELSE file
  /\ Go(p, "own")
  /\ UNCHANGED attempt

\* The payload may be complete all the same, when only sync or close fails.
WriteFails(p) ==
  /\ "write" \in Mishaps
  /\ at[p] = "write"
  /\ file' \in {file, IF file # None /\ file.owner = p
                      THEN [owner |-> p, written |-> TRUE, old |-> FALSE] ELSE file}
  /\ Go(p, "cleanup")
  /\ UNCHANGED attempt

\* Whatever lies at the path is unlinked.
Cleanup(p) ==
  /\ at[p] = "cleanup"
  /\ file' = None
  /\ Go(p, "failed")
  /\ UNCHANGED attempt

\* The payload names an active process, a dead one, or is not complete.
Read(p) ==
  /\ at[p] = "read"
  /\ IF file = None THEN Retry(p)
     ELSE /\ Go(p, CASE ~file.written -> "stat"
                     [] file.written /\ Active(file.owner) -> "refused"
                     [] OTHER -> "rename")
          /\ UNCHANGED attempt
  /\ UNCHANGED file

\* Mutant: a lock that is being initialised is waited for without end.
StatIgnoresAge(p) ==
  /\ at[p] = "stat"
  /\ Retry(p)
  /\ UNCHANGED file

\* A lock that is not complete is waited for, until it is old.
Stat(p) ==
  /\ at[p] = "stat"
  /\ IF file # None /\ file.old
     THEN Go(p, "rename") /\ UNCHANGED attempt
     ELSE Retry(p)
  /\ UNCHANGED file

\* The file at the path is moved aside, whichever it is by now.
Rename(p) ==
  /\ at[p] = "rename"
  /\ file' = None
  /\ Retry(p)

\* release: the token in the file is compared ...
ReleaseBegin(p) ==
  /\ at[p] = "own"
  /\ Go(p, IF Owns(p) THEN "unlink" ELSE "failed")
  /\ UNCHANGED <<file, attempt>>

\* ... and the file unlinked.
ReleaseEnd(p) ==
  /\ at[p] = "unlink"
  /\ file' = None
  /\ Go(p, "released")
  /\ UNCHANGED attempt

Crash(p) ==
  /\ "crash" \in Mishaps
  /\ Active(p)
  /\ Go(p, "dead")
  /\ UNCHANGED <<file, attempt>>
  /\ "rivals" \in Mishaps \/ ~Contended'

\* The grace period passes.  That of an active creator's file passes between
\* two steps of somebody who acquires only if that process or the creator
\* stalls.
FileAges ==
  /\ file # None /\ ~file.old
  /\ Active(file.owner) => "stall" \in Mishaps
  /\ file' = [file EXCEPT !.old = TRUE]
  /\ UNCHANGED <<at, attempt>>

Acquire(p) ==
  \/ Open(p) \/ Write(p) \/ WriteFails(p) \/ Cleanup(p)
  \/ Read(p) \/ Stat(p) \/ Rename(p)

Next ==
  \/ FileAges
  \/ \E p \in Processes :
       Start(p) \/ Acquire(p) \/ ReleaseBegin(p) \/ ReleaseEnd(p) \/ Crash(p)

Spec == Init /\ [][Next]_vars

\* Calls of the file system return.
FairSpec == Spec /\ \A p \in Processes : WF_vars(Acquire(p)) /\ WF_vars(ReleaseEnd(p))

-----------------------------------------------------------------------------
(* Correctness.                                                            *)

\* No two servers hold the data directory at the same time.
Exclusion ==
  \A p, q \in Processes : at[p] \in Holding /\ at[q] \in Holding => p = q

\* The server that holds the directory finds its own token in the lock file:
\* neither the recovery of a stale lock nor a failed start has taken it away,
\* so that release can succeed.
HolderOwnsFile == \A p \in Processes : at[p] \in Holding => Owns(p)

\* Whether a server waits for the directory, is inside, or is gone.
Turn(p) ==
  CASE at[p] \in Holding -> "inside"
    [] at[p] \in Ended -> "gone"
    [] OTHER -> "waiting"

Turns == INSTANCE DirectoryTurns WITH turn <- [p \in Processes |-> Turn(p)]

\* Servers have the data directory in turns: with all that happens between two
\* calls of the file system, a server gets in only when nobody is inside, and
\* one that has let go, given up or died never gets in again.
ImplementsTurns == Turns!Spec

\* A server that starts when all others are gone, and finds no lock, a complete
\* stale one or an old one, gets the lock unless it dies or cannot write, or
\* another one starts as well.
Alone(p) == \A q \in Processes \ {p} : ~Active(q)
Recoverable == file = None \/ file.written \/ file.old
LoneStarterOwns ==
  \A p \in Processes :
    at[p] = "open" /\ attempt[p] = 1 /\ Alone(p) /\ Recoverable ~>
      at[p] \in {"own", "dead", "cleanup"} \/ ~Alone(p)

=============================================================================
