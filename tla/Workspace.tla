----------------------------- MODULE Workspace -----------------------------
(***************************************************************************)
(* The jobs that build in one checkout of the repository: `npm run build`, *)
(* the generation of a release and the launch of a screen pilot            *)
(* (build-lock.mjs, build-vite.mjs, build-server.mjs, create-release.ts,   *)
(* screen-pilot-launcher.ts, screen-pilot-provenance.ts, screen-pilot.ts), *)
(* while the sources are edited and committed under them.                  *)
(*                                                                         *)
(* A job is a sequence of steps <<what it does, to which output>>.  A      *)
(* source tree is the number of the edit that made it; an output is known  *)
(* by the tree it was built from, as its hash would tell it.               *)
(***************************************************************************)
EXTENDS Naturals, Sequences, FiniteSets

CONSTANTS
  Jobs,         \* the processes
  Kind,         \* what each of them is
  MaxEdits,     \* bound: edits of the sources
  MaxMishaps,   \* bound: steps that fail and processes that die, together
  None

ASSUME NoneAssumption == None \notin Jobs \union [owner : Jobs, written : BOOLEAN]
ASSUME KindAssumption == Kind \in [Jobs -> {"build", "release", "pilot"}]
ASSUME BoundAssumption == MaxEdits \in Nat /\ MaxMishaps \in Nat

VARIABLES
  file,     \* .build.lock: its owner (token and kind) and whether it is written
  tree,     \* the worktree
  head,     \* the tree of HEAD
  edits,    \* how many edits there have been
  undone,   \* an edit was undone, HEAD being what it was
  output,   \* dist and dist-server
  todo,     \* the steps that remain to each job
  seen,     \* the tree a build found when it cleared its output
  commit,   \* the commit recorded at the start of a release or a launch
  held,     \* what was read of the outputs: the staging of a release, the
            \* capability of a pilot
  loaded,   \* the bundle a pilot's process executes
  result,   \* what a release sealed or a pilot serves
  mishaps

sources == <<tree, head, edits, undone>>
memory == <<seen, commit, held, loaded, result>>
vars == <<file, sources, output, todo, memory, mishaps>>

Outputs == {"client", "bundle"}
Nothing == [out \in Outputs |-> None]

-----------------------------------------------------------------------------
(* The steps of the jobs.                                                  *)

\* buildViteTarget and buildServer, under a lock of their own or a release's.
ClientBuild == <<<<"clean", "client">>, <<"write", "client">>>>
ServerBuild == <<<<"clean", "bundle">>, <<"embed", "client">>, <<"write", "bundle">>>>

Locked(steps) ==
  <<<<"lock", "own">>, <<"fill", "own">>>> \o steps \o <<<<"unlock", "own">>>>
Joined(steps) == <<<<"join", "lent">>>> \o steps

Reading == <<<<"read", "bundle">>, <<"read", "client">>>>

BuildJob == Locked(ClientBuild) \o Locked(ServerBuild)

\* createRelease.
ReleaseJob ==
  Locked(<<<<"record", "head">>>> \o Joined(ClientBuild) \o Joined(ServerBuild)
           \o <<<<"again", "head">>>> \o Reading
           \o <<<<"again", "head">>, <<"seal", "copy">>>>)

\* runScreenPilotLauncher, and the process it starts.
PilotJob ==
  <<<<"record", "head">>>> \o BuildJob \o <<<<"again", "head">>>> \o Reading
    \o <<<<"load", "bundle">>, <<"again", "head">>, <<"check", "bundle">>,
         <<"serve", "client">>>>

Init ==
  /\ file = None
  /\ tree = 0 /\ head = 0 /\ edits = 0 /\ undone = FALSE
  /\ output = Nothing
  /\ seen = [p \in Jobs |-> None]
  /\ commit = [p \in Jobs |-> None]
  /\ held = [p \in Jobs |-> Nothing]
  /\ loaded = [p \in Jobs |-> None]
  /\ result = [p \in Jobs |-> None]
  /\ mishaps = 0
  /\ todo = [p \in Jobs |-> CASE Kind[p] = "build" -> BuildJob
                             [] Kind[p] = "release" -> ReleaseJob
                             [] Kind[p] = "pilot" -> PilotJob]

-----------------------------------------------------------------------------

Doing(p, op) == todo[p] # <<>> /\ Head(todo[p])[1] = op
What(p) == Head(todo[p])[2]

Then(p) == todo' = [todo EXCEPT ![p] = Tail(@)]

Owns(p) == file # None /\ file.owner = p

\* What a failure leaves to do: the `finally` that lets the lock go.
Undo(p) ==
  IF Owns(p) /\ Tail(todo[p]) # <<>> /\ <<"unlock", "own">> \in {todo[p][i] : i \in 2 .. Len(todo[p])}
  THEN <<<<"unlock", "own">>>> ELSE <<>>

Fail(p) == todo' = [todo EXCEPT ![p] = Undo(p)] /\ UNCHANGED memory

\* git status is empty and HEAD is the commit that was recorded.
Same(p) == tree = head /\ head = commit[p]

-----------------------------------------------------------------------------
(* The lock.                                                               *)

\* Mutant: a build waits for the lock as long as it takes.
LockWaits(p) ==
  /\ Doing(p, "lock")
  /\ IF file = None
     THEN file' = [owner |-> p, written |-> FALSE] /\ Then(p) /\ UNCHANGED memory
     ELSE /\ UNCHANGED file
          /\ IF "release" \in {Kind[p], Kind[file.owner]}
             THEN Fail(p) ELSE UNCHANGED <<todo, memory>>
  /\ UNCHANGED <<sources, output, mishaps>>

\* Mutant: the file is opened for writing, not created exclusively.
LockOverwrites(p) ==
  /\ Doing(p, "lock")
  /\ file' = [owner |-> p, written |-> FALSE]
  /\ Then(p)
  /\ UNCHANGED <<sources, output, memory, mishaps>>

\* acquireBuildLock: created exclusively.  A lock of another makes a release
\* fail, and a build if it is a release's or stays too long; an empty file is
\* given its time to be written.
Lock(p) ==
  /\ Doing(p, "lock")
  /\ \/ /\ file = None
        /\ file' = [owner |-> p, written |-> FALSE]
        /\ Then(p) /\ UNCHANGED memory
     \/ /\ file # None
        /\ Fail(p) /\ UNCHANGED file
  /\ UNCHANGED <<sources, output, mishaps>>

\* Token and kind are written; a file that cannot be written is removed.
Fill(p) ==
  /\ Doing(p, "fill")
  /\ file' = [owner |-> p, written |-> TRUE]
  /\ Then(p)
  /\ UNCHANGED <<sources, output, memory, mishaps>>

\* inheritedLock: a build within a release goes by the release's token.
Join(p) ==
  /\ Doing(p, "join")
  /\ IF Owns(p) /\ file.written THEN Then(p) /\ UNCHANGED memory ELSE Fail(p)
  /\ UNCHANGED <<file, sources, output, mishaps>>

\* release: the file must still be one's own.
Unlock(p) ==
  /\ Doing(p, "unlock")
  /\ IF Owns(p) THEN file' = None /\ Then(p) /\ UNCHANGED memory
                ELSE Fail(p) /\ UNCHANGED file
  /\ UNCHANGED <<sources, output, mishaps>>

-----------------------------------------------------------------------------
(* The builds.                                                             *)

Clean(p) ==
  /\ Doing(p, "clean")
  /\ output' = [output EXCEPT ![What(p)] = None]
  /\ seen' = [seen EXCEPT ![p] = tree]
  /\ Then(p)
  /\ UNCHANGED <<file, sources, commit, held, loaded, result, mishaps>>

\* createEmbeddedScreenPilotEvidence: the commit and the challenge that the
\* launcher gave, and the client's files as they are.
Embed(p) ==
  /\ Doing(p, "embed")
  /\ IF Kind[p] # "pilot" THEN Then(p) /\ UNCHANGED memory
     ELSE IF output["client"] = None THEN Fail(p)
     ELSE /\ held' = [held EXCEPT ![p]["client"] = output["client"]]
          /\ Then(p)
          /\ UNCHANGED <<seen, commit, loaded, result>>
  /\ UNCHANGED <<file, sources, output, mishaps>>

Evidence(p) ==
  IF Kind[p] # "pilot" THEN None \* "UNVERIFIED"
  ELSE [commit |-> commit[p], launcher |-> p, client |-> held[p]["client"]]

\* What a build that began on `seen' makes of the sources, which may have been
\* edited while it read them.
Mixed == MaxEdits + 1
Made(p) == IF seen[p] = tree THEN {tree} ELSE {seen[p], tree, Mixed}

Content(p, whole, from) ==
  IF What(p) = "client" THEN [of |-> from, whole |-> whole]
  ELSE [of |-> from, evidence |-> Evidence(p)]

Write(p) ==
  /\ Doing(p, "write")
  /\ \E from \in Made(p) : output' = [output EXCEPT ![What(p)] = Content(p, TRUE, from)]
  /\ Then(p)
  /\ UNCHANGED <<file, sources, memory, mishaps>>

-----------------------------------------------------------------------------
(* Releases and pilots.                                                    *)

\* The commit of a clean worktree (collectSourceProvenance, verifyScreenPilotSource).
Record(p) ==
  /\ Doing(p, "record")
  /\ IF tree = head
     THEN /\ commit' = [commit EXCEPT ![p] = head] /\ Then(p)
          /\ UNCHANGED <<seen, held, loaded, result>>
     ELSE Fail(p)
  /\ UNCHANGED <<file, sources, output, mishaps>>

\* Mutant: HEAD is compared, the worktree not looked at again.
AgainHead(p) ==
  /\ Doing(p, "again")
  /\ IF head = commit[p] THEN Then(p) /\ UNCHANGED memory ELSE Fail(p)
  /\ UNCHANGED <<file, sources, output, mishaps>>

Again(p) ==
  /\ Doing(p, "again")
  /\ IF Same(p) THEN Then(p) /\ UNCHANGED memory ELSE Fail(p)
  /\ UNCHANGED <<file, sources, output, mishaps>>

\* The files of an output are copied to the staging, or hashed into the capability.
Read(p) ==
  /\ Doing(p, "read")
  /\ IF output[What(p)] = None THEN Fail(p)
     ELSE /\ held' = [held EXCEPT ![p][What(p)] = output[What(p)]]
          /\ Then(p)
          /\ UNCHANGED <<seen, commit, loaded, result>>
  /\ UNCHANGED <<file, sources, output, mishaps>>

\* The manifest is written and verified, the staging renamed.
Seal(p) ==
  /\ Doing(p, "seal")
  /\ result' = [result EXCEPT ![p] =
       [commit |-> commit[p], client |-> held[p]["client"], bundle |-> held[p]["bundle"]]]
  /\ Then(p)
  /\ UNCHANGED <<file, sources, output, seen, commit, held, loaded, mishaps>>

\* The bundle as it is now is executed, and sent the capability; what it
\* embeds must be of this launcher, its commit and the client of the capability.
Authorized(p, bundle) ==
  /\ bundle.evidence # None
  /\ bundle.evidence.launcher = p
  /\ bundle.evidence.commit = commit[p]
  /\ bundle.evidence.client = held[p]["client"]

Load(p) ==
  /\ Doing(p, "load")
  /\ IF output["bundle"] # None /\ Authorized(p, output["bundle"])
     THEN /\ loaded' = [loaded EXCEPT ![p] = output["bundle"]] /\ Then(p)
          /\ UNCHANGED <<seen, commit, held, result>>
     ELSE Fail(p)
  /\ UNCHANGED <<file, sources, output, mishaps>>

\* The bundle on disk is that of the capability.
Check(p) ==
  /\ Doing(p, "check")
  /\ IF output["bundle"] # None /\ output["bundle"] = held[p]["bundle"]
     THEN Then(p) /\ UNCHANGED memory ELSE Fail(p)
  /\ UNCHANGED <<file, sources, output, mishaps>>

\* Mutant: the client's files are served as they are found.
ServeUncompared(p) ==
  /\ Doing(p, "serve")
  /\ IF output["client"] # None
     THEN /\ result' = [result EXCEPT ![p] =
               [commit |-> commit[p], client |-> output["client"], bundle |-> loaded[p]]]
          /\ Then(p)
          /\ UNCHANGED <<seen, commit, held, loaded>>
     ELSE Fail(p)
  /\ UNCHANGED <<file, sources, output, mishaps>>

\* The client's files are read once more; those read are served, from memory.
Serve(p) ==
  /\ Doing(p, "serve")
  /\ IF output["client"] # None /\ output["client"] = loaded[p].evidence.client
     THEN /\ result' = [result EXCEPT ![p] =
               [commit |-> commit[p], client |-> output["client"], bundle |-> loaded[p]]]
          /\ Then(p)
          /\ UNCHANGED <<seen, commit, held, loaded>>
     ELSE Fail(p)
  /\ UNCHANGED <<file, sources, output, mishaps>>

-----------------------------------------------------------------------------
(* What goes wrong, and what is done beside the jobs.                      *)

Mishap == mishaps < MaxMishaps /\ mishaps' = mishaps + 1

\* A step fails; a build that fails may leave some of its files.
Failure(p) ==
  /\ Mishap /\ todo[p] # <<>> /\ ~Doing(p, "lock") /\ Fail(p)
  /\ file' = IF Doing(p, "fill") THEN None ELSE file
  /\ IF Doing(p, "write")
     THEN \/ UNCHANGED output
          \/ /\ What(p) = "client"
             /\ \E from \in Made(p) :
                  output' = [output EXCEPT !["client"] = Content(p, FALSE, from)]
     ELSE UNCHANGED output
  /\ UNCHANGED sources

BuildSteps(p) ==
  IF Kind[p] = "release" THEN {"join", "clean", "embed", "write"}
  ELSE {"lock", "fill", "clean", "embed", "write", "unlock"}

\* The process dies, with the build it started or without it: the build is what
\* comes up to the next step of another kind.
Crash(p) ==
  /\ Mishap /\ todo[p] # <<>>
  /\ \/ todo' = [todo EXCEPT ![p] = <<>>]
     \/ \E n \in DOMAIN todo[p] :
          /\ \A i \in 1 .. n : todo[p][i][1] \in BuildSteps(p)
          /\ n < Len(todo[p]) => todo[p][n + 1][1] \notin BuildSteps(p)
          /\ todo' = [todo EXCEPT ![p] = SubSeq(@, 1, n)]
  /\ UNCHANGED <<file, sources, output, memory>>

AtWork(p) == todo[p] # <<>> /\ (commit[p] # None \/ seen[p] # None \/ Owns(p))

\* No process runs: a lock file that was left is removed by hand.
RemoveStale ==
  /\ file # None /\ ~ \E p \in Jobs : AtWork(p)
  /\ file' = None
  /\ UNCHANGED <<sources, output, todo, memory, mishaps>>

Edit ==
  /\ edits < MaxEdits
  /\ edits' = edits + 1 /\ tree' = edits'
  /\ UNCHANGED <<file, head, undone, output, todo, memory, mishaps>>

Commit ==
  /\ tree # head
  /\ head' = tree
  /\ UNCHANGED <<file, tree, edits, undone, output, todo, memory, mishaps>>

\* git stash, git restore.
Restore ==
  /\ tree # head
  /\ tree' = head /\ undone' = TRUE
  /\ UNCHANGED <<file, head, edits, output, todo, memory, mishaps>>

-----------------------------------------------------------------------------

Step(p) ==
  \/ Lock(p) \/ Fill(p) \/ Join(p) \/ Unlock(p)
  \/ Clean(p) \/ Embed(p) \/ Write(p)
  \/ Record(p) \/ Again(p) \/ Read(p) \/ Seal(p) \/ Load(p) \/ Check(p) \/ Serve(p)

\* All jobs have ended, the edits are over.
Finished == (\A p \in Jobs : todo[p] = <<>>) /\ UNCHANGED vars

Next ==
  \/ \E p \in Jobs : Step(p) \/ Failure(p) \/ Crash(p)
  \/ RemoveStale \/ Edit \/ Commit \/ Restore
  \/ Finished

Spec == Init /\ [][Next]_vars

\* A job goes on as long as it can.
FairSpec == Spec /\ \A p \in Jobs : WF_vars(Step(p))

-----------------------------------------------------------------------------
(* Properties.                                                             *)

Ops == {"lock", "fill", "join", "unlock", "clean", "embed", "write", "record", "again", "read",
        "seal", "load", "check", "serve"}

TypeOK ==
  /\ file \in {None} \union [owner : Jobs, written : BOOLEAN]
  /\ {tree, head, edits} \subseteq 0 .. MaxEdits /\ undone \in BOOLEAN
  /\ DOMAIN output = Outputs
  /\ \A p \in Jobs : todo[p] \in Seq(Ops \X (Outputs \union {"own", "lent", "head", "copy"}))
  /\ mishaps \in 0 .. MaxMishaps

Done(p, kind) == Kind[p] = kind /\ result[p] # None

\* What a release sealed under a commit was built of that commit, client and
\* server, whatever was built, edited, committed or died in the meantime,
\* unless an edit was undone, which leaves no trace between two looks at git.
SealedIsOfItsCommit ==
  \A p \in Jobs : Done(p, "release") /\ ~undone =>
    /\ result[p].client = [of |-> result[p].commit, whole |-> TRUE]
    /\ result[p].bundle = [of |-> result[p].commit, evidence |-> None]

\* A pilot executes a bundle its own launcher built, and serves the client
\* that this bundle was built with, whatever else was built in between; both
\* are of the commit it reports, unless an edit was undone.
PilotIsOfItsLauncher ==
  \A p \in Jobs : Done(p, "pilot") =>
    LET r == result[p] IN
    /\ r.bundle.evidence.launcher = p /\ r.bundle.evidence.commit = r.commit
    /\ r.client = r.bundle.evidence.client
    /\ ~undone => r.client.of = r.commit /\ r.bundle.of = r.commit

\* While a release is between its first build and its seal, nothing else
\* changes an output, not even the builds of one that died.
ReleaseIsUndisturbed ==
  [][\A p \in Jobs :
       Kind[p] = "release" /\ Owns(p) /\ file.written /\ output' # output =>
         todo'[p] # todo[p]]_vars

\* Every job comes to an end, whatever the lock it finds.
JobsEnd == \A p \in Jobs : <>(todo[p] = <<>>)
=============================================================================
