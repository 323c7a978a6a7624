------------------------ MODULE MCSessionController ------------------------
(* Instances of SessionController for TLC.                                 *)
EXTENDS SessionController, TLC

\* A puffer presentation first, then labels.
PufferThenLabel == [s \in Sessions |-> [i \in Positions |-> IF i = 1 THEN "puffer" ELSE "label"]]

\* A session can only follow another one while the audit store is healthy, and
\* only run with a connected device: states with an unhealthy store or a device
\* disconnected on purpose are checked and not followed further, nor are those
\* with more than one promise of the timers' callbacks left behind.
SuccessionOpen ==
  auditHealthy /\ link = "up" /\ Cardinality(commands) + Cardinality(resetChecks) <= 1

CallerSymmetry == Permutations(Callers)
SessionSymmetry == Permutations(Sessions)

=============================================================================
