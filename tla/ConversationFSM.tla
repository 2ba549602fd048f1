--------------------------- MODULE ConversationFSM ---------------------------
(***************************************************************************)
(* ConversationStateMachine: one machine per call, shared by every thread  *)
(* and handler that holds it.  set_state is another name of transition_to. *)
(***************************************************************************)
EXTENDS ConversationMachine

CONSTANT MaxRecords  \* bound on what a history or a log records (TLC only)

ASSUME BoundAssumption == MaxRecords \in Nat

VARIABLE fsm  \* [current, previous, history]

MachineInit == fsm = Fresh

TransitionTo(t) ==
  /\ Len(fsm.history) < MaxRecords
  /\ fsm' = Moved(fsm, t)

Reset == TransitionTo("IDLE")

Close == TransitionTo("CLOSED")

MachineNext ==
  \/ \E t \in ConversationState : TransitionTo(t)
  \/ Reset
  \/ Close

MachineSpec == MachineInit /\ [][MachineNext]_fsm

-----------------------------------------------------------------------------
MachineTypeOK == fsm \in Machine

\* What get_current_state, get_previous_state and get_transition_history report
\* of one machine always agrees: the history is an unbroken walk from IDLE that
\* ends with the step from the previous to the current state.
HistoryIsAWalk == Walk(fsm)

\* A call that was closed is never reopened: CLOSED is entered at most once and
\* nothing is recorded after it.
ClosedIsFinal == ClosedLast(fsm)

\* After an error or a barge-in no pipeline stage is entered until the machine
\* has been LISTENING again, however many transitions lie in between.
StopsAreResolved ==
  LET Entered(i) == fsm.history[i][2] IN
  \A i, j \in DOMAIN fsm.history :
    (i < j /\ Entered(i) \in {"ERROR", "INTERRUPTED"} /\ Entered(j) \in Stages)
      => \E k \in i .. j : Entered(k) = "LISTENING"
=============================================================================
