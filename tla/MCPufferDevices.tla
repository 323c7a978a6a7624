-------------------------- MODULE MCPufferDevices --------------------------
(* Instances of PufferDevices for TLC.                                     *)
EXTENDS PufferDevices

=============================================================================
