------------------------- MODULE ExperimentProtocol -------------------------
(***************************************************************************)
(* What a participant is promised, without the machinery that keeps the    *)
(* promise: one introduction, then every presentation of the order exactly *)
(* once and in order, each shown as handling, processing, result, reset,   *)
(* with a response after it, then the summary and the completion.  A run   *)
(* may end at any moment, and what has ended never goes on.                *)
(***************************************************************************)
EXTENDS Naturals

CONSTANTS Sessions, LastPosition

VARIABLES
  shown,     \* what the participant of a session is being shown
  position   \* how many presentations have begun

Stages == {"waiting", "intro", "handling", "processing", "result", "reset",
           "response", "summary", "completed", "ended"}

Init ==
  /\ shown = [s \in Sessions |-> "waiting"]
  /\ position = [s \in Sessions |-> 0]

Show(s, from, to) ==
  /\ shown[s] = from
  /\ shown' = [shown EXCEPT ![s] = to]

Introduce(s) == Show(s, "waiting", "intro") /\ UNCHANGED position

Present(s) ==
  /\ Show(s, IF position[s] = 0 THEN "intro" ELSE "response", "handling")
  /\ position[s] < LastPosition
  /\ position' = [position EXCEPT ![s] = @ + 1]

Proceed(s) ==
  /\ \/ Show(s, "handling", "processing")
     \/ Show(s, "processing", "result")
     \/ Show(s, "result", "reset")
     \/ Show(s, "reset", "response")
  /\ UNCHANGED position

Summarize(s) ==
  /\ position[s] = LastPosition
  /\ Show(s, "response", "summary")
  /\ UNCHANGED position

Complete(s) == Show(s, "summary", "completed") /\ UNCHANGED position

End(s) ==
  /\ shown[s] # "ended"
  /\ shown' = [shown EXCEPT ![s] = "ended"]
  /\ position' = [position EXCEPT ![s] = 0]

Next ==
  \E s \in Sessions :
    \/ Introduce(s) \/ Present(s) \/ Proceed(s)
    \/ Summarize(s) \/ Complete(s) \/ End(s)

Spec == Init /\ [][Next]_<<shown, position>>

=============================================================================
