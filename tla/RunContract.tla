----------------------------- MODULE RunContract -----------------------------
(***************************************************************************)
(* What a pipeline run promises, whoever pauses, resumes or cancels it:    *)
(* processors finish one by one, a stop is never taken back, and the run   *)
(* is declared complete only with all of its processors finished and       *)
(* before anything asked it to stop.                                       *)
(***************************************************************************)
EXTENDS Naturals

CONSTANT N   \* number of processors

VARIABLES life, finished

contract == <<life, finished>>

Init == life = "new" /\ finished = 0

Begin == life = "new" /\ life' = "live" /\ UNCHANGED finished

\* Processors may still finish after a stop was asked for, never after the end.
Finish ==
  /\ life \in {"live", "stopping"}
  /\ finished < N
  /\ finished' = finished + 1
  /\ UNCHANGED life

Stop == life \in {"new", "live"} /\ life' = "stopping" /\ UNCHANGED finished

Succeed == life = "live" /\ finished = N /\ life' = "completed" /\ UNCHANGED finished

End == life \in {"live", "stopping", "completed"} /\ life' = "over" /\ UNCHANGED finished

Next == Begin \/ Finish \/ Stop \/ Succeed \/ End

Spec == Init /\ [][Next]_contract
=============================================================================
