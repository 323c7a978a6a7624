------------------------- MODULE MCServerLifecycle -------------------------
(***************************************************************************)
(* ServerLifecycle for TLC: a server of each runtime that differs; and the  *)
(* policies on the repository's own configurations and their neighbours.    *)
(***************************************************************************)
EXTENDS ServerLifecycle, StartPolicy, TLC

CONSTANTS first, second

\* A server that connects its device on request beside a pilot, which connects
\* it at its start and has a launcher.
Rivals == first :> "manual" @@ second :> "pilot"

\* The runtime of a release takes the steps of a pilot and the signals of a
\* server of index.ts: what the run shows of these it shows of that.
ASSUME SamePrograms ==
  /\ ProductionStart = PilotStart
  /\ ProductionCleanup = PilotCleanup
  /\ ProductionStop = PilotStop

\* config/experiment.production.json, and what the others differ in.
Formal ==
  [device |-> "screen", path |-> "none", allowMock |-> FALSE,
   protocol |-> "screen-v3", state |-> "formal", timing |-> "formal",
   orders |-> "formal", ids |-> "SH26", host |-> "127.0.0.1", port |-> "4173",
   lan |-> FALSE, external |-> FALSE, form |-> "none", audit |-> "none",
   evidence |-> FALSE, directory |-> "sessions", aborted |-> TRUE,
   environment |-> "production", participants |-> "enabled",
   compliance |-> "required", runtime |-> "required", privacy |-> "required"]

Like(c, device, ids, directory) ==
  [c EXCEPT !.device = device, !.ids = ids, !.directory = directory,
            !.environment = "other", !.participants = "disabled"]

PracticeConfig == [mode \in Practice |->
  CASE mode = "development" -> Like(Formal, "mock", "DEV", "dev")
    [] mode = "rehearsal" -> Like(Formal, "mock", "DEMO", "mock")
    [] mode = "pilot" -> [Like(Formal, "screen", "PILOT", "pilot") EXCEPT !.port = "4174"]]

\* The policies are not empty.
ASSUME TheOwnConfigsServe ==
  /\ Seals(Formal)
  /\ \A mode \in Practice : Serves(mode, PracticeConfig[mode], "none")

\* What is proved of every configuration, on the neighbours of the formal one.
ASSUME NeighboursAgree ==
  \A evidence \in BOOLEAN, audit \in {"none", "NO-GO"},
     s \in [{"compliance", "runtime", "privacy"} -> {"required", "other", "omitted"}],
     host \in {"127.0.0.1", "localhost"}, timing \in {"formal", "short"} :
    LET c == [Formal EXCEPT !.evidence = evidence, !.audit = audit,
                !.compliance = s["compliance"], !.runtime = s["runtime"],
                !.privacy = s["privacy"], !.host = host, !.timing = timing]
    IN SealedStarts(c) /\ StartsSealable(c)
=============================================================================
