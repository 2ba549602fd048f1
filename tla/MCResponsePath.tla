---------------------------- MODULE MCResponsePath ----------------------------
(* ResponsePath with two requests, one piece of text and one interruption. *)
EXTENDS ResponsePath
=============================================================================
