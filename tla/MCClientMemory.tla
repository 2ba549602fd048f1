---------------------------- MODULE MCClientMemory ----------------------------
(* ClientMemory with two calls, each of a known number or of none. *)
EXTENDS ClientMemory

\* app/main.py:576: "fallback: don't lose old summary on failure"
FailureKeepsTheSummary ==
  [][\A c \in saved' \ saved : Phone(c) # Unknown /\ ~call[c].tagged /\ call[c].text = call[c].prev =>
       Stored(Phone(c)) \subseteq summaries'[Phone(c)]]_vars
=============================================================================
