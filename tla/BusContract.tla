----------------------------- MODULE BusContract -----------------------------
(***************************************************************************)
(* What the owner of a bus relies on when it publishes from synchronous    *)
(* code and joins the queue (main.py:794): events wait in the order they   *)
(* were put, the worker has one in hand at a time, and the count that      *)
(* join() waits on falls once for each event, when it is finished.         *)
(***************************************************************************)
EXTENDS Naturals, Sequences

VARIABLES
  waiting,    \* events not yet taken
  hand,       \* the event the worker is busy with: none, or one
  unfinished  \* join() returns when this is zero

vars == <<waiting, hand, unfinished>>

Init == waiting = <<>> /\ hand = {} /\ unfinished = 0

(* One more event, behind the others. *)
Put ==
  /\ Len(waiting') = Len(waiting) + 1
  /\ \A i \in DOMAIN waiting : waiting'[i] = waiting[i]
  /\ unfinished' = unfinished + 1
  /\ UNCHANGED hand

(* An event that nobody subscribed to is finished at once. *)
Take ==
  /\ hand = {}
  /\ waiting # <<>>
  /\ waiting' = Tail(waiting)
  /\ \/ hand' = {Head(waiting)} /\ UNCHANGED unfinished
     \/ hand' = {} /\ unfinished' = unfinished - 1

(* By the last handler, or by a stop in the middle of one. *)
Finish ==
  /\ hand # {}
  /\ hand' = {}
  /\ unfinished' = unfinished - 1
  /\ UNCHANGED waiting

Next == Put \/ Take \/ Finish

Spec == Init /\ [][Next]_vars
=============================================================================
