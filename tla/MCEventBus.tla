------------------------------ MODULE MCEventBus ------------------------------
(* EventBus with one-shot and permanent subscribers of different priorities. *)
EXTENDS EventBus

CONSTANTS early, unheard

\* The subscriber "early" is called first; the event "unheard" interests it alone.
MCPriority == [s \in Subscribers |-> IF s = early THEN 10 ELSE 100]
MCInterest == [s \in Subscribers |-> IF s = early THEN Events ELSE Events \ {unheard}]
=============================================================================
