--------------------------- MODULE MCRuntimeLock ---------------------------
(* Instances of RuntimeLock for TLC.                                       *)
EXTENDS RuntimeLock

=============================================================================
