---------------------------- MODULE StartPolicy ----------------------------
(***************************************************************************)
(* Which configuration may serve in which mode: the two schemas, the       *)
(* production policy (written down twice: for the repository and for the   *)
(* sealed server), the assertions of the other modes, where each mode      *)
(* writes its logs, and what create-release makes of a configuration.      *)
(*                                                                         *)
(* A value the gates compare with one constant is that constant or "other".*)
(***************************************************************************)
Directories ==
  {"dev", "dev/sub", "mock", "mock/sub", "pilot", "pilot/sub", "test", "e2e",
   "sessions", "outside"}

InsideDev == {"dev", "dev/sub"}
InsideTest == {"test", "e2e", "mock", "mock/sub"}

\* A file, as it may be found: "omitted" sections have defaults in one schema;
\* "short": timings in which a ramp is longer than its phase.
Configs ==
  [device : {"mock", "serial", "screen"}, path : {"none", "com", "other"},
   allowMock : BOOLEAN, protocol : {"screen-v3", "other"},
   state : {"formal", "other"}, timing : {"formal", "other", "short"},
   orders : {"formal", "permuted", "repeated"},
   ids : {"DEV", "DEMO", "PILOT", "TEST", "SH26", "other"},
   host : {"127.0.0.1", "localhost", "other"}, port : {"4173", "4174", "other"},
   lan : BOOLEAN, external : BOOLEAN, form : {"none", "test", "study", "other"},
   audit : {"none", "GO", "NO-GO"}, evidence : BOOLEAN,
   directory : Directories, aborted : BOOLEAN,
   environment : {"production", "other", "omitted"},
   participants : {"enabled", "disabled", "omitted"},
   compliance : {"required", "other", "omitted"},
   runtime : {"required", "other", "omitted"},
   privacy : {"required", "other", "omitted"}]

Loopback(c) == c.host \in {"127.0.0.1", "localhost"}

-----------------------------------------------------------------------------
(* Reading a configuration.                                                *)

\* normalizeExternalComplianceConfigInput: old approval state goes away where
\* the file names external compliance itself.
Normalised(c) ==
  [c EXCEPT !.evidence = IF c.compliance = "required" THEN FALSE ELSE @]

\* The defaults of ExperimentConfigSchema.
Completed(c) ==
  [c EXCEPT !.environment = IF @ = "omitted" THEN "other" ELSE @,
            !.participants = IF @ = "omitted" THEN "disabled" ELSE @,
            !.compliance = IF @ = "omitted" THEN "required" ELSE @,
            !.runtime = IF @ = "omitted" THEN "required" ELSE @,
            !.privacy = IF @ = "omitted" THEN "required" ELSE @]

SchemaAccepts(c) ==
  /\ c.orders # "repeated" /\ c.timing # "short"
  /\ c.device = "serial" => c.path # "none"
  /\ c.device = "screen" => c.path = "none"
  /\ c.form # "other"
  /\ c.compliance # "other" /\ c.runtime # "other" /\ c.privacy # "other"
  /\ c.lan \/ Loopback(c)
  /\ ~c.external
  /\ c.device = "screen" => c.protocol = "screen-v3"
  /\ c.protocol = "screen-v3" => c.device # "serial"

\* FormalProductionConfigSchema: nothing may be missing, nothing be added.
FormalSchemaAccepts(c) ==
  /\ "omitted" \notin
       {c.environment, c.participants, c.compliance, c.runtime, c.privacy}
  /\ c.audit = "none" /\ ~c.evidence

\* assessProductionPolicy finds no issue.
PolicyAccepts(c) ==
  /\ c.device = "screen" /\ c.path = "none"
  /\ c.protocol = "screen-v3" /\ ~c.allowMock
  /\ c.state = "formal" /\ c.timing = "formal" /\ c.orders = "formal"
  /\ c.ids = "SH26"
  /\ c.form = "none" /\ c.audit = "none"
  /\ c.host = "127.0.0.1" /\ c.port = "4173" /\ ~c.lan /\ ~c.external
  /\ c.environment = "production" /\ c.participants = "enabled"
  /\ c.compliance = "required" /\ c.runtime = "required" /\ c.privacy = "required"

\* formalPolicyErrors finds none.
FormalPolicyAccepts(c) ==
  /\ c.device = "screen" /\ c.path = "none"
  /\ c.protocol = "screen-v3" /\ ~c.allowMock
  /\ c.state = "formal" /\ c.timing = "formal" /\ c.orders = "formal"
  /\ c.ids = "SH26" /\ c.form = "none"
  /\ c.host = "127.0.0.1" /\ c.port = "4173" /\ ~c.lan /\ ~c.external
  /\ c.environment = "production" /\ c.participants = "enabled"
  /\ c.compliance = "required" /\ c.runtime = "required" /\ c.privacy = "required"

\* loadExperimentConfig for production: what the snapshot is made of.
Loaded(c) == Completed(Normalised(c))
LoadsForProduction(c) == SchemaAccepts(Loaded(c)) /\ PolicyAccepts(Loaded(c))

\* parseFormalProductionConfig.
FormalLoads(c) ==
  FormalSchemaAccepts(Normalised(c)) /\ FormalPolicyAccepts(Normalised(c))

-----------------------------------------------------------------------------
(* A release.                                                              *)

\* createRelease: the snapshot is written out, read back and must be the same.
Seals(c) ==
  /\ LoadsForProduction(c)
  /\ LoadsForProduction(Loaded(c)) /\ Loaded(Loaded(c)) = Loaded(c)

\* The entry of a sealed server: no overrides, its own file, which must hash
\* as the manifest says.
EntryStarts(c, manifest, overridden) ==
  ~overridden /\ FormalLoads(c) /\ Normalised(c) = manifest

-----------------------------------------------------------------------------
(* The other modes.                                                        *)

AdmitsDevelopment(c) ==
  /\ c.device = "mock" /\ ~c.lan /\ Loopback(c) /\ ~c.external
  /\ c.form = "none" /\ c.audit # "GO" /\ ~c.evidence
  /\ c.ids = "DEV" /\ c.directory = "dev"

AdmitsRehearsal(c) ==
  /\ c.device = "mock" /\ ~c.lan /\ Loopback(c) /\ ~c.external
  /\ c.form = "none" /\ c.audit # "GO" /\ ~c.evidence
  /\ c.ids = "DEMO" /\ c.directory = "mock"

AdmitsTest(c) ==
  /\ ~c.lan /\ Loopback(c) /\ ~c.external
  /\ c.device # "serial" /\ c.form \in {"none", "test"}
  /\ c.audit # "GO" /\ ~c.evidence
  /\ c.ids \in {"DEMO", "TEST"} /\ c.directory \in {"test", "e2e", "mock"}

\* assertScreenPilotConfig of index.ts.
AdmitsScreenPilot(c) ==
  /\ c.device = "screen" /\ c.path = "none" /\ ~c.allowMock
  /\ c.protocol = "screen-v3"
  /\ c.state = "formal" /\ c.timing = "formal" /\ c.orders = "formal"
  /\ ~c.lan /\ Loopback(c) /\ ~c.external
  /\ c.form = "none" /\ c.audit = "none" /\ ~c.evidence
  /\ c.ids = "PILOT" /\ c.directory = "pilot" /\ c.aborted

\* assertPilotConfig of screen-pilot-runtime.ts.
AdmitsPilotRuntime(c) ==
  /\ c.device = "screen" /\ c.path = "none" /\ ~c.allowMock
  /\ c.protocol = "screen-v3"
  /\ c.state = "formal" /\ c.timing = "formal" /\ c.orders = "formal"
  /\ ~c.lan /\ c.host = "127.0.0.1" /\ c.port = "4174" /\ ~c.external
  /\ c.form = "none" /\ c.audit = "none" /\ ~c.evidence
  /\ c.ids = "PILOT" /\ c.directory = "pilot" /\ c.aborted

Practice == {"development", "rehearsal", "pilot"}

Admits(mode, c) ==
  CASE mode = "development" -> AdmitsDevelopment(c)
    [] mode = "rehearsal" -> AdmitsRehearsal(c)
    [] mode = "test" -> AdmitsTest(c)
    [] mode = "pilot" -> AdmitsPilotRuntime(c)

\* DATA_DIRECTORY, or "none" where it is not set.
LogDirectory(c, override) == IF override = "none" THEN c.directory ELSE override

DirectoryAllowed(mode, directory, override) ==
  /\ directory # "outside"
  /\ CASE mode = "development" -> directory \in InsideDev
       [] mode = "rehearsal" -> directory = "mock"
       [] mode = "test" -> directory \in InsideTest
       [] mode = "pilot" -> override = "none"

Serves(mode, c, override) ==
  /\ SchemaAccepts(Completed(c)) /\ Admits(mode, Completed(c))
  /\ DirectoryAllowed(mode, LogDirectory(c, override), override)

-----------------------------------------------------------------------------
(* What the gates are for.                                                 *)

\* A configuration that is sealed into a release is one its server starts
\* from, under the manifest made of it: the two loaders, which read it with
\* different schemas and policies, never disagree after the sealing.
SealedStarts(c) == Seals(c) => EntryStarts(Loaded(c), Loaded(c), FALSE)

\* What the sealed server would start from, create-release would seal: the
\* policy of the sealed server has not become the weaker one.
StartsSealable(c) == FormalLoads(c) => Seals(Normalised(c))

\* No mode whatever serves with the serial driver: of src/server, only its
\* tests reach it.
SerialNeverServes(c, override) ==
  /\ \A mode \in Practice \union {"test"} : Serves(mode, c, override) => c.device # "serial"
  /\ FormalLoads(c) => c.device # "serial"

\* Two modes of practice never write to one directory, nor to one inside the
\* other's, with or without an override.
PracticeKeptApart(c, override, d, other) ==
  \A m, n \in Practice :
    Serves(m, c, override) /\ Serves(n, d, other) /\ m # n =>
      {LogDirectory(c, override), LogDirectory(d, other)} \notin
        {{x} : x \in Directories} \union
        {{"dev", "dev/sub"}, {"mock", "mock/sub"}, {"pilot", "pilot/sub"}}

\* What the runtime of a pilot takes, index.ts would take as one too.
PilotGatesAgree(c) == AdmitsPilotRuntime(c) => AdmitsScreenPilot(c)
=============================================================================
