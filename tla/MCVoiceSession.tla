---------------------------- MODULE MCVoiceSession ----------------------------
(* VoiceSession for TLC; the bounds are in the two cfg files. *)
EXTENDS VoiceSession
=============================================================================
