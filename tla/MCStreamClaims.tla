---------------------------- MODULE MCStreamClaims ----------------------------
(* StreamClaims with two workers and three connections for two streams. *)
EXTENDS StreamClaims
=============================================================================
