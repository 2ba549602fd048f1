---------------------------- MODULE MCEventBridge ----------------------------
(* Model-checking instance of EventBridge. *)
EXTENDS EventBridge
=============================================================================
