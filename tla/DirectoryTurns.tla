--------------------------- MODULE DirectoryTurns ---------------------------
(***************************************************************************)
(* What the lock of a data directory promises (README, runtime-lock.ts):   *)
(* servers have the directory one after the other.  Whoever waits may get  *)
(* in when nobody is inside, or give up; whoever leaves or gives up is     *)
(* gone for good, since a server that starts again is another process.     *)
(***************************************************************************)
CONSTANT Processes

VARIABLE turn    \* of each process: "waiting", "inside" or "gone"

Init == turn = [p \in Processes |-> "waiting"]

Enter(p) ==
  /\ turn[p] = "waiting"
  /\ \A q \in Processes : turn[q] # "inside"
  /\ turn' = [turn EXCEPT ![p] = "inside"]

Leave(p) == turn[p] = "inside" /\ turn' = [turn EXCEPT ![p] = "gone"]

GiveUp(p) == turn[p] = "waiting" /\ turn' = [turn EXCEPT ![p] = "gone"]

Next == \E p \in Processes : Enter(p) \/ Leave(p) \/ GiveUp(p)

Spec == Init /\ [][Next]_turn

=============================================================================
