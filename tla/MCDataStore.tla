---------------------------- MODULE MCDataStore ----------------------------
(* Instances of DataStore for TLC.  No liveness is checked here, so that   *)
(* ids, sessions and orders may be exchanged.                              *)
EXTENDS DataStore, TLC

Interchangeable ==
  Permutations(Ids) \union Permutations(Sessions) \union Permutations(Orders)

=============================================================================
