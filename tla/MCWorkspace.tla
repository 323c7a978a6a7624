---------------------------- MODULE MCWorkspace ----------------------------
(* Workspace for TLC: one job of each kind.                                 *)
EXTENDS Workspace, TLC

CONSTANTS build, release, pilot

OneOfEach == build :> "build" @@ release :> "release" @@ pilot :> "pilot"
=============================================================================
