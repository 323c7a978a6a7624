---------------------------- MODULE ResearchIds ----------------------------
(***************************************************************************)
(* What the data store promises of research ids (docs/EXPERIMENT_SPEC.md,  *)
(* the section on data): an id belongs for ever to the first session that  *)
(* is created under it.                                                    *)
(***************************************************************************)
CONSTANTS Ids, Sessions, Nobody

VARIABLE owner

Init == owner = [i \in Ids |-> Nobody]

\* A session becomes the owner of an id that nobody has, and owns no other.
Take(i, s) ==
  /\ owner[i] = Nobody
  /\ \A j \in Ids : owner[j] # s
  /\ owner' = [owner EXCEPT ![i] = s]

Next == \E i \in Ids, s \in Sessions : Take(i, s)

Spec == Init /\ [][Next]_owner

=============================================================================
