----------------------- MODULE PipelineRunner_proofs -----------------------
(* Theorems of PipelineRunner, for any number of processors and controllers. *)
EXTENDS PipelineRunner, TLAPS

\* Places of run() at a processor, and all places before the run is decided.
Inside == Hooks \cup Checks \cup
  {"pause_check", "paused", "lookup", "succeeded", "processor_failed", "processor_cancelled"}

Undecided == Inside \cup {"ready", "boundary", "mark", "last_check", "complete"}

\* What the lifecycle's state and the counters tell about the place of run().
Placed ==
  /\ pc \in Undecided => at = completed + 1 /\ failed = 0
  /\ pc \in Inside => at <= N
  /\ pc \in {"last_check", "complete"} => at = N + 1
  /\ state = "INITIALIZED" => pc = "ready"
  /\ pc = "ready" => state \in {"INITIALIZED", "CANCELLING"}
  /\ state = "COMPLETED" => pc = "cleanup"
  /\ state = "TERMINATED" => pc = "done"

IInv == TypeOK /\ Placed

LEMMA InitInv == Init => IInv
<1> SUFFICES ASSUME Init PROVE IInv
  OBVIOUS
<1>1. count \in [Event -> Nat]
  BY DEF Init
<1>2. owed \in [Threads -> Event \cup {"none"}]
  BY DEF Init
<1>3. TypeOK
  <2>1. state \in ExecutionState /\ pc \in Place /\ outcome \in Outcome
    BY DEF Init, ExecutionState, Place, Outcome
  <2>2. at \in 1 .. N + 1 /\ completed \in 0 .. N /\ failed \in 0 .. 1 /\ calls \in 0 .. MaxCalls
    BY RunnerAssumption DEF Init
  <2>3. token \in BOOLEAN /\ half \subseteq Controllers /\ overrun \in Nat
    BY DEF Init
  <2>4. QED
    BY <1>1, <1>2, <2>1, <2>2, <2>3 DEF TypeOK
<1>4. Placed
  BY RunnerAssumption DEF Init, Placed, Undecided, Inside, Hooks, Checks
<1>5. QED
  BY <1>3, <1>4 DEF IInv

LEMMA ControlInv ==
  ASSUME IInv, NEW t \in Controllers, Control(t)
  PROVE  IInv'
<1> USE RunnerAssumption DEF IInv, TypeOK, Placed, Threads, progress, Call, Unchanged, Change,
        ExecutionState, Event
<1>1. CASE Pause(t)
  BY <1>1 DEF Pause, pause
<1>2. CASE Resume(t)
  BY <1>2 DEF Resume, resume
<1>3. CASE CancelLifecycle(t)
  BY <1>3 DEF CancelLifecycle, cancel
<1>4. CASE CancelToken(t)
  BY <1>4 DEF CancelToken
<1>5. CASE Publish(t)
  BY <1>5 DEF Publish
<1>6. QED
  BY <1>1, <1>2, <1>3, <1>4, <1>5 DEF Control

LEMMA RunInv ==
  ASSUME IInv, Run \/ HookRaises \/ HookGivesUp \/ TaskCancelled
  PROVE  IInv'
<1> USE RunnerAssumption DEF IInv, TypeOK, Placed, Threads, Unchanged, Quiet, SameCounters,
        Step, Change, ExecutionState, Event, Place, Outcome, Undecided, Inside, Hooks, Checks
<1>1. CASE Start
  BY <1>1 DEF Start, start
<1>2. CASE StartRefused
  BY <1>2 DEF StartRefused
<1>3. CASE Boundary
  BY <1>3 DEF Boundary
<1>4. CASE PauseCheck
  BY <1>4 DEF PauseCheck
<1>5. CASE Paused
  BY <1>5 DEF Paused
<1>6. CASE MarkCancelled
  BY <1>6 DEF MarkCancelled, mark_cancelled
<1>7. CASE MarkAgain
  BY <1>7 DEF MarkAgain, mark_cancelled
<1>8. CASE NoImplementation
  BY <1>8 DEF NoImplementation
<1>9. CASE ProcessorStarts
  BY <1>9 DEF ProcessorStarts
<1>10. CASE ThrowIfCancelled
  BY <1>10 DEF ThrowIfCancelled
<1>11. CASE HookReturns
  BY <1>11 DEF HookReturns
<1>12. CASE HookRaises
  BY <1>12 DEF HookRaises
<1>13. CASE HookGivesUp
  BY <1>13 DEF HookGivesUp
<1>14. CASE ProcessorSucceeded
  BY <1>14 DEF ProcessorSucceeded
<1>15. CASE ProcessorCancelled
  BY <1>15 DEF ProcessorCancelled
<1>16. CASE ProcessorFailed
  BY <1>16 DEF ProcessorFailed
<1>17. CASE LastCheck
  BY <1>17 DEF LastCheck
<1>18. CASE Complete
  BY <1>18 DEF Complete, complete
<1>19. CASE Fail
  BY <1>19 DEF Fail, fail
<1>20. CASE TaskCancelled
  BY <1>20 DEF TaskCancelled
<1>21. CASE Cleanup
  BY <1>21 DEF Cleanup, shutdown
<1>22. CASE Publish(Runner)
  BY <1>22 DEF Publish, progress
<1>23. QED
  BY <1>1, <1>2, <1>3, <1>4, <1>5, <1>6, <1>7, <1>8, <1>9, <1>10, <1>11, <1>12, <1>13,
     <1>14, <1>15, <1>16, <1>17, <1>18, <1>19, <1>20, <1>21, <1>22 DEF Run

LEMMA StepInv == IInv /\ [Next]_vars => IInv'
<1>1. IInv /\ UNCHANGED vars => IInv'
  BY DEF vars, progress, IInv, TypeOK, Placed
<1>2. QED
  BY <1>1, ControlInv, RunInv DEF Next

\* The lifecycle, the counters and the place of run() always fit together.
THEOREM TypeCorrect == Spec => []TypeOK
<1>1. IInv => TypeOK
  BY DEF IInv
<1>2. QED
  BY <1>1, InitInv, StepInv, PTL DEF Spec

-----------------------------------------------------------------------------
\* Once a cancel was accepted or the run has failed, no operation of any thread
\* brings the run back.
THEOREM CancelWinsCorrect == Spec => CancelWins
<1>1. IInv /\ [Next]_vars => [(state \in Stopping) => (state' \in Stopping)]_vars
  <2> SUFFICES ASSUME IInv, Next, state \in Stopping PROVE state' \in Stopping
    OBVIOUS
  <2> USE DEF Stopping, IInv, TypeOK, Placed, Change, Unchanged, Quiet, Step, Undecided, Inside,
          Hooks, Checks
  <2>1. ASSUME NEW t \in Controllers, Control(t) PROVE state' \in Stopping
    BY <2>1 DEF Control, Pause, pause, Resume, resume, CancelLifecycle, cancel, CancelToken, Publish
  <2>2. CASE Start \/ StartRefused \/ Boundary \/ PauseCheck \/ Paused \/ MarkCancelled \/ MarkAgain
    BY <2>2 DEF Start, start, StartRefused, Boundary, PauseCheck, Paused, MarkCancelled, MarkAgain,
       mark_cancelled
  <2>3. CASE NoImplementation \/ ProcessorStarts \/ ThrowIfCancelled \/ HookReturns \/ HookRaises
             \/ HookGivesUp \/ TaskCancelled
    BY <2>3 DEF NoImplementation, ProcessorStarts, ThrowIfCancelled, HookReturns, HookRaises,
       HookGivesUp, TaskCancelled
  <2>4. CASE ProcessorSucceeded \/ ProcessorCancelled \/ ProcessorFailed \/ LastCheck
    BY <2>4 DEF ProcessorSucceeded, ProcessorCancelled, ProcessorFailed, LastCheck
  <2>5. CASE Complete \/ Fail \/ Cleanup \/ Publish(Runner)
    BY <2>5 DEF Complete, complete, Fail, fail, Cleanup, shutdown, Publish
  <2>6. QED
    BY <2>1, <2>2, <2>3, <2>4, <2>5 DEF Next, Run
<1>2. QED
  BY <1>1, InitInv, StepInv, PTL DEF Spec, CancelWins

-----------------------------------------------------------------------------
\* A processor can only have started in a pause if the pause came after the
\* runner had looked at the state: then the runner is past the lookup.
Held ==
  /\ overrun \in {0, 1}
  /\ state # "PAUSED" => overrun = 0
  /\ pc = "lookup" => overrun = 0

LEMMA StepHeld == Held /\ [Next]_vars => Held'
<1> SUFFICES ASSUME Held, [Next]_vars PROVE Held'
  OBVIOUS
<1> USE DEF Held, Change, Unchanged, Quiet, Step, progress
<1>1. ASSUME NEW t \in Controllers, Control(t) PROVE Held'
  BY <1>1 DEF Control, Call, Pause, pause, Resume, resume, CancelLifecycle, cancel, CancelToken,
     Publish
<1>2. CASE Start \/ StartRefused \/ Boundary \/ PauseCheck \/ Paused \/ MarkCancelled \/ MarkAgain
  BY <1>2 DEF Start, start, StartRefused, Boundary, PauseCheck, Paused, MarkCancelled, MarkAgain,
     mark_cancelled
<1>3. CASE NoImplementation \/ ProcessorStarts \/ ThrowIfCancelled \/ HookReturns \/ HookRaises
           \/ HookGivesUp \/ TaskCancelled
  BY <1>3 DEF NoImplementation, ProcessorStarts, ThrowIfCancelled, HookReturns, HookRaises,
     HookGivesUp, TaskCancelled, Hooks
<1>4. CASE ProcessorSucceeded \/ ProcessorCancelled \/ ProcessorFailed \/ LastCheck
  BY <1>4 DEF ProcessorSucceeded, ProcessorCancelled, ProcessorFailed, LastCheck
<1>5. CASE Complete \/ Fail \/ Cleanup \/ Publish(Runner)
  BY <1>5 DEF Complete, complete, Fail, fail, Cleanup, shutdown, Publish
<1>6. CASE UNCHANGED vars
  BY <1>6 DEF vars
<1>7. QED
  BY <1>1, <1>2, <1>3, <1>4, <1>5, <1>6 DEF Next, Run

\* While the state stays PAUSED at most one processor starts, whatever the threads do.
THEOREM PauseHoldsCorrect == Spec => []PauseHolds
<1>1. Init => Held
  BY DEF Init, Held
<1>2. Held => PauseHolds
  BY DEF Held, PauseHolds
<1>3. QED
  BY <1>1, <1>2, StepHeld, PTL DEF Spec

-----------------------------------------------------------------------------
(* The runner keeps the contract of a run. *)

LEMMA InitContract == Init => Contract!Init
  BY DEF Init, Contract!Init, Life

\* The steps that change neither the lifecycle's state nor the count of
\* finished processors are invisible in the contract.
LEMMA Stutters ==
  ASSUME UNCHANGED <<state, completed>>
  PROVE  UNCHANGED Contract!contract
  BY DEF Contract!contract, Life

LEMMA ControlContract ==
  ASSUME IInv, NEW t \in Controllers, Control(t)
  PROVE  [Contract!Next]_(Contract!contract)
<1> USE DEF IInv, TypeOK, ExecutionState, Contract!Next, Contract!contract, Contract!Stop, Life,
   Call, Change, Unchanged,
        progress
<1>1. CASE Pause(t) \/ Resume(t)
  BY <1>1 DEF Pause, pause, Resume, resume
<1>2. CASE CancelLifecycle(t)
  BY <1>2 DEF CancelLifecycle, cancel
<1>3. CASE CancelToken(t) \/ Publish(t)
  BY <1>3 DEF CancelToken, Publish
<1>4. QED
  BY <1>1, <1>2, <1>3 DEF Control

LEMMA RunContractStep ==
  ASSUME IInv, Run \/ HookRaises \/ HookGivesUp \/ TaskCancelled
  PROVE  [Contract!Next]_(Contract!contract)
<1> USE DEF IInv, TypeOK, Placed, ExecutionState, Undecided, Inside, Hooks, Checks, Step,
        Contract!Next, Contract!contract, Life, Change, Unchanged, SameCounters
<1>1. CASE StartRefused \/ Boundary \/ PauseCheck \/ Paused \/ NoImplementation \/ ProcessorStarts
  BY <1>1, Stutters DEF StartRefused, Boundary, PauseCheck, Paused, NoImplementation,
     ProcessorStarts, Quiet
<1>2. CASE ThrowIfCancelled \/ HookReturns \/ HookRaises \/ HookGivesUp \/ TaskCancelled
           \/ ProcessorCancelled \/ ProcessorFailed \/ LastCheck \/ Publish(Runner)
  BY <1>2, Stutters DEF ThrowIfCancelled, HookReturns, HookRaises, HookGivesUp, TaskCancelled,
     ProcessorCancelled, ProcessorFailed, LastCheck, Publish, Quiet, progress
<1>3. CASE Start
  BY <1>3 DEF Start, start, Contract!Begin
<1>4. CASE MarkCancelled \/ MarkAgain
  BY <1>4 DEF MarkCancelled, MarkAgain, mark_cancelled, Contract!Stop
<1>5. CASE Fail
  BY <1>5 DEF Fail, fail, Contract!Stop
<1>6. CASE ProcessorSucceeded
  BY <1>6, RunnerAssumption DEF ProcessorSucceeded, Contract!Finish
<1>7. CASE Complete
  BY <1>7, RunnerAssumption DEF Complete, complete, Contract!Succeed
<1>8. CASE Cleanup
  BY <1>8 DEF Cleanup, shutdown, Contract!End
<1>9. QED
  BY <1>1, <1>2, <1>3, <1>4, <1>5, <1>6, <1>7, <1>8 DEF Run

\* A run finishes its processors one by one, is declared complete only with all
\* of them finished and no stop before, and ends.
THEOREM KeepsContractCorrect == Spec => KeepsContract
<1>1. IInv /\ [Next]_vars => [Contract!Next]_(Contract!contract)
  <2>1. UNCHANGED vars => UNCHANGED Contract!contract
    BY Stutters DEF vars, progress
  <2>2. QED
    BY <2>1, ControlContract, RunContractStep DEF Next
<1>2. QED
  BY <1>1, InitInv, StepInv, InitContract, PTL DEF Spec, KeepsContract, Contract!Spec

-----------------------------------------------------------------------------
(* How a run ended, what it published and its metrics tell one story. *)

\* An event counts for the run from the moment the runner owes it.
Due(e) == count[e] + (IF owed[Runner] = e THEN 1 ELSE 0)

Working == Hooks \cup Checks \cup {"succeeded", "processor_failed", "processor_cancelled"}
Ending == {"cleanup", "done"}
Lost == count["ProcessorExecutionStarted"] - completed - failed

\* The processors: every one that started has been counted, but for the one at
\* work, and for one that the end of the task has cut off.
ProcessorsCounted ==
  /\ completed = count["ProcessorExecutionCompleted"]
  /\ pc \in Working => Lost = 1
  /\ pc \notin Working => Lost \in 0 .. 1 /\ (outcome # "task_cancelled" => Lost = 0)
  /\ pc \in Undecided => count["ProcessorExecutionFailed"] = 0
  /\ pc = "fail" \/ outcome = "raised" => failed = count["ProcessorExecutionFailed"]

\* The lifecycle: the runner alone declares the end, and each end but once.
EndsCounted ==
  /\ \A t \in Controllers : owed[t] \in {"none", "PipelinePaused", "PipelineResumed"}
  /\ owed[Runner] \in {"none", "PipelineStarted", "PipelineCancelled", "PipelineCompleted",
                       "PipelineFailed", "PipelineShutdown"}
  /\ outcome = "none" <=> pc \notin Ending
  /\ Due("PipelineShutdown") = (IF pc = "done" THEN 1 ELSE 0)
  /\ Due("PipelineFailed") = (IF outcome = "raised" THEN 1 ELSE 0)
  /\ outcome = "cancelled" => Due("PipelineCancelled") \in 1 .. 2
  /\ pc = "mark_again" => Due("PipelineCancelled") \in 0 .. 1
  /\ outcome # "cancelled" /\ pc # "mark_again" => Due("PipelineCancelled") = 0
  /\ Due("PipelineCompleted") <= (IF outcome = "returned" THEN 1 ELSE 0)

\* Who is responsible for a stop: a cancel that has reached the token, or will.
StopsExplained ==
  /\ pc = "done" => state = "TERMINATED"
  /\ state = "CANCELLED" => pc \in {"mark_again", "cleanup"}
  /\ state = "FAILED" => pc = "cleanup"
  /\ state = "CANCELLING" => token \/ half # {}
  /\ pc \in {"mark", "mark_again", "processor_cancelled"} \/ outcome = "cancelled" =>
       token /\ completed < N
  /\ outcome = "returned" =>
       /\ completed = N /\ failed = 0
       /\ Due("PipelineCompleted") = 1 \/ token \/ half # {}

Story == ProcessorsCounted /\ EndsCounted /\ StopsExplained

-----------------------------------------------------------------------------
\* What the steps do to the four events that end a run.
Ends == {"PipelineShutdown", "PipelineFailed", "PipelineCancelled", "PipelineCompleted"}

LEMMA DueTyped == TypeOK => \A e \in Event : Due(e) \in Nat
  BY DEF TypeOK, Due

LEMMA DueSame ==
  ASSUME UNCHANGED <<owed, count>>
  PROVE  \A e : Due(e)' = Due(e)
  BY DEF Due

LEMMA DueOwed ==
  ASSUME TypeOK, Free(Runner), NEW e0 \in Event, owed' = [owed EXCEPT ![Runner] = e0],
         UNCHANGED count
  PROVE  \A e \in Event : Due(e)' = Due(e) + (IF e = e0 THEN 1 ELSE 0)
  BY DEF TypeOK, Due, Free, Threads, Event

LEMMA DuePublished ==
  ASSUME TypeOK, Publish(Runner)
  PROVE  \A e \in Event : Due(e)' = Due(e)
  BY DEF TypeOK, Publish, Due, Threads, Event

LEMMA DueElsewhere ==
  ASSUME TypeOK, owed'[Runner] = owed[Runner], \A e \in Ends : count'[e] = count[e]
  PROVE  \A e \in Ends : Due(e)' = Due(e)
  BY DEF Due

LEMMA InitStory == Init => Story
<1> SUFFICES ASSUME Init PROVE Story
  OBVIOUS
<1>1. \A e \in Event \ {"PipelineInitialized"} : count[e] = 0 /\ Due(e) = 0
  BY DEF Init, Due, Threads, Event
<1>2. {"PipelineShutdown", "PipelineFailed", "PipelineCancelled", "PipelineCompleted",
       "ProcessorExecutionStarted", "ProcessorExecutionCompleted", "ProcessorExecutionFailed"}
        \subseteq Event \ {"PipelineInitialized"}
  BY DEF Event
<1> QED
  BY <1>1, <1>2, RunnerAssumption DEF Init, Story, ProcessorsCounted, EndsCounted, StopsExplained,
     Lost, Working, Ending, Hooks, Checks, Threads

\* The counts of the processors: one step per place where one of them changes.
LEMMA RunCounts ==
  ASSUME IInv, Story, Run \/ HookRaises \/ HookGivesUp \/ TaskCancelled
  PROVE  ProcessorsCounted'
<1> USE DEF IInv, TypeOK, Placed, Quiet, SameCounters, Step, Undecided, Inside, Hooks, Checks,
        Story, ProcessorsCounted, EndsCounted, Lost, Working, Ending, Event
<1>1. CASE Start \/ StartRefused \/ Boundary \/ PauseCheck \/ Paused \/ MarkCancelled \/ MarkAgain
  BY <1>1 DEF Start, StartRefused, Boundary, PauseCheck, Paused, MarkCancelled, MarkAgain
<1>2. CASE NoImplementation \/ ThrowIfCancelled \/ HookReturns \/ HookRaises \/ HookGivesUp
  BY <1>2 DEF NoImplementation, ThrowIfCancelled, HookReturns, HookRaises, HookGivesUp
<1>3. CASE LastCheck \/ Complete \/ Fail \/ Cleanup
  BY <1>3 DEF LastCheck, Complete, Fail, Cleanup
<1>4. CASE TaskCancelled
  BY <1>4 DEF TaskCancelled
<1>5. CASE ProcessorStarts
  BY <1>5 DEF ProcessorStarts
<1>6. CASE ProcessorSucceeded
  BY <1>6 DEF ProcessorSucceeded
<1>7. CASE ProcessorCancelled
  BY <1>7 DEF ProcessorCancelled
<1>8. CASE ProcessorFailed
  BY <1>8 DEF ProcessorFailed
<1>9. CASE Publish(Runner)
  BY <1>9 DEF Publish, progress
<1> QED BY <1>1, <1>2, <1>3, <1>4, <1>5, <1>6, <1>7, <1>8, <1>9 DEF Run

\* A controller publishes its own events only, and a cancel finds its token.
LEMMA ControlStory ==
  ASSUME IInv, Story, NEW t \in Controllers, Control(t)
  PROVE  Story'
<1>0. TypeOK /\ Runner \in Threads /\ t \in Threads /\ t # Runner
  BY RunnerAssumption DEF IInv, Threads
<1>1. owed'[Runner] = owed[Runner]
  BY <1>0 DEF TypeOK, Control, Pause, pause, Resume, resume, CancelLifecycle, cancel, CancelToken,
     Publish, Call, Change, Unchanged
<1>2. \A d \in Controllers : owed'[d] \in {"none", "PipelinePaused", "PipelineResumed"}
  BY <1>0 DEF Story, EndsCounted, TypeOK, Threads, Control, Pause, pause, Resume, resume,
     CancelLifecycle, cancel, CancelToken, Publish, Call, Change, Unchanged
<1>3. \A e \in Event \ {"PipelinePaused", "PipelineResumed"} : count'[e] = count[e]
  BY <1>0 DEF Story, EndsCounted, TypeOK, Event, Control, Pause, Resume, CancelLifecycle,
     CancelToken, Publish, Call
<1>4. UNCHANGED <<pc, completed, failed, outcome>>
  BY DEF Control, Pause, Resume, CancelLifecycle, CancelToken, Publish, Call, progress
<1>5. \A e \in Ends : Due(e)' = Due(e)
  BY <1>0, <1>1, <1>3, DueElsewhere DEF Ends, Event
<1>6. ProcessorsCounted'
  BY <1>3, <1>4 DEF Story, ProcessorsCounted, Lost, Event
<1>7. EndsCounted'
  BY <1>1, <1>2, <1>4, <1>5 DEF Story, EndsCounted, Ends
<1>8. StopsExplained'
  <2> USE <1>4, <1>5 DEF Story, StopsExplained, Ends
  <2>1. CASE Pause(t) \/ Resume(t)
    BY <2>1 DEF Pause, pause, Resume, resume, Call, Change, Unchanged
  <2>2. CASE CancelLifecycle(t)
    BY <2>2 DEF CancelLifecycle, cancel, Call, Change, Unchanged
  <2>3. CASE CancelToken(t) \/ Publish(t)
    BY <2>3 DEF CancelToken, Publish
  <2> QED BY <2>1, <2>2, <2>3 DEF Control
<1> QED BY <1>6, <1>7, <1>8 DEF Story

\* The ends of a run: only the last steps make the runner owe one.
LEMMA RunEndsCounted ==
  ASSUME IInv, Story, Run \/ HookRaises \/ HookGivesUp \/ TaskCancelled
  PROVE  EndsCounted'
<1>0. TypeOK /\ EndsCounted /\ Runner \in Threads /\ Runner \notin Controllers
  BY RunnerAssumption DEF IInv, Story, Threads
<1>1. \A e \in Ends : Due(e) \in Nat /\ e \in Event
  BY <1>0, DueTyped DEF Ends, Event
<1> USE DEF Step, EndsCounted, Ends, Ending, Hooks, Checks
<1>2. ASSUME UNCHANGED owed, \A e \in Ends : count'[e] = count[e], pc \notin Ending,
             pc' \notin Ending, pc # "mark_again", UNCHANGED outcome
      PROVE  EndsCounted'
  <2>1. \A e \in Ends : Due(e)' = Due(e)
    BY <1>0, <1>2, DueElsewhere
  <2> QED BY <1>0, <1>2, <2>1
<1>3. CASE StartRefused \/ Boundary \/ PauseCheck \/ Paused \/ NoImplementation
           \/ ThrowIfCancelled \/ HookReturns \/ HookRaises \/ HookGivesUp \/ ProcessorCancelled
  BY <1>2, <1>3 DEF StartRefused, Boundary, PauseCheck, Paused, NoImplementation, ThrowIfCancelled,
     HookReturns, HookRaises, HookGivesUp, ProcessorCancelled, Quiet, Unchanged
<1>4. CASE ProcessorStarts \/ ProcessorSucceeded \/ ProcessorFailed
  BY <1>0, <1>2, <1>4 DEF ProcessorStarts, ProcessorSucceeded, ProcessorFailed, Unchanged,
     TypeOK, Event
<1>5. ASSUME NEW e0 \in Event, owed' = [owed EXCEPT ![Runner] = e0], Free(Runner), UNCHANGED count
      PROVE  /\ \A e \in Ends : Due(e)' = Due(e) + (IF e = e0 THEN 1 ELSE 0)
             /\ \A t \in Controllers : owed'[t] = owed[t]
             /\ owed'[Runner] = e0
  <2>1. \A e \in Event : Due(e)' = Due(e) + (IF e = e0 THEN 1 ELSE 0)
    BY <1>0, <1>5, DueOwed
  <2> QED BY <1>0, <1>1, <1>5, <2>1 DEF TypeOK
<1>6. CASE Start
  <2>1. owed' = [owed EXCEPT ![Runner] = "PipelineStarted"] /\ Free(Runner) /\ UNCHANGED count
    BY <1>6 DEF Start, start, Change
  <2>2. /\ \A e \in Ends : Due(e)' = Due(e)
        /\ \A t \in Controllers : owed'[t] = owed[t]
        /\ owed'[Runner] = "PipelineStarted"
    BY <1>1, <1>5, <2>1 DEF Event
  <2> QED BY <1>0, <1>1, <1>6, <2>2 DEF Start
<1>7. CASE MarkCancelled
  <2>1. owed' = [owed EXCEPT ![Runner] = "PipelineCancelled"] /\ Free(Runner) /\ UNCHANGED count
    BY <1>7 DEF MarkCancelled, mark_cancelled, Change
  <2>2. /\ Due("PipelineCancelled")' = Due("PipelineCancelled") + 1
        /\ \A e \in Ends \ {"PipelineCancelled"} : Due(e)' = Due(e)
        /\ \A t \in Controllers : owed'[t] = owed[t]
        /\ owed'[Runner] = "PipelineCancelled"
    BY <1>1, <1>5, <2>1 DEF Event
  <2> QED BY <1>0, <1>1, <1>7, <2>2 DEF MarkCancelled
<1>8. CASE MarkAgain
  <2>1. owed' = [owed EXCEPT ![Runner] = "PipelineCancelled"] /\ Free(Runner) /\ UNCHANGED count
    BY <1>8 DEF MarkAgain, mark_cancelled, Change
  <2>2. /\ Due("PipelineCancelled")' = Due("PipelineCancelled") + 1
        /\ \A e \in Ends \ {"PipelineCancelled"} : Due(e)' = Due(e)
        /\ \A t \in Controllers : owed'[t] = owed[t]
        /\ owed'[Runner] = "PipelineCancelled"
    BY <1>1, <1>5, <2>1 DEF Event
  <2> QED BY <1>0, <1>1, <1>8, <2>2 DEF MarkAgain
<1>9. CASE Fail
  <2>1. owed' = [owed EXCEPT ![Runner] = "PipelineFailed"] /\ Free(Runner) /\ UNCHANGED count
    BY <1>9 DEF Fail, fail, Change
  <2>2. /\ Due("PipelineFailed")' = Due("PipelineFailed") + 1
        /\ \A e \in Ends \ {"PipelineFailed"} : Due(e)' = Due(e)
        /\ \A t \in Controllers : owed'[t] = owed[t]
        /\ owed'[Runner] = "PipelineFailed"
    BY <1>1, <1>5, <2>1 DEF Event
  <2> QED BY <1>0, <1>1, <1>9, <2>2 DEF Fail
<1>10. CASE Cleanup
  <2>1. owed' = [owed EXCEPT ![Runner] = "PipelineShutdown"] /\ Free(Runner) /\ UNCHANGED count
    BY <1>10 DEF Cleanup, shutdown, Change
  <2>2. /\ Due("PipelineShutdown")' = Due("PipelineShutdown") + 1
        /\ \A e \in Ends \ {"PipelineShutdown"} : Due(e)' = Due(e)
        /\ \A t \in Controllers : owed'[t] = owed[t]
        /\ owed'[Runner] = "PipelineShutdown"
    BY <1>1, <1>5, <2>1 DEF Event
  <2> QED BY <1>0, <1>1, <1>10, <2>2 DEF Cleanup
<1>11. CASE Complete
  <2>1. CASE UNCHANGED owed
    BY <1>0, <1>1, <1>11, <2>1, DueSame DEF Complete
  <2>2. CASE owed' = [owed EXCEPT ![Runner] = "PipelineCompleted"]
    BY <1>0, <1>1, <1>5, <1>11, <2>2 DEF Complete, Event
  <2> QED BY <1>11, <2>1, <2>2 DEF Complete, complete, Change, Unchanged
<1>12. CASE LastCheck \/ TaskCancelled
  <2>1. UNCHANGED <<owed, count>>
    BY <1>12 DEF LastCheck, TaskCancelled, Quiet, Unchanged
  <2> QED BY <1>0, <1>1, <1>12, <2>1, DueSame DEF LastCheck, TaskCancelled
<1>13. CASE Publish(Runner)
  <2>1. \A e \in Ends : Due(e)' = Due(e)
    BY <1>0, <1>1, <1>13, DuePublished
  <2>2. UNCHANGED <<pc, outcome>> /\ owed' = [owed EXCEPT ![Runner] = "none"]
    BY <1>13 DEF Publish, progress
  <2> QED BY <1>0, <2>1, <2>2 DEF TypeOK
<1> QED BY <1>3, <1>4, <1>6, <1>7, <1>8, <1>9, <1>10, <1>11, <1>12, <1>13 DEF Run

\* Why a run stopped: the state and the token explain every way it takes.
LEMMA RunExplained ==
  ASSUME IInv, Story, Run \/ HookRaises \/ HookGivesUp \/ TaskCancelled
  PROVE  StopsExplained'
<1>0. TypeOK /\ Placed /\ StopsExplained /\ EndsCounted /\ Runner \in Threads
  BY DEF IInv, Story, Threads
<1>1. ASSUME pc \notin Ending, outcome' \in {"none", "cancelled", "raised", "task_cancelled"},
             pc' # "done", UNCHANGED <<token, half, completed>>,
             state' = state \/ (state' = "RUNNING" /\ pc' = "boundary")
                \/ (state' = "CANCELLED" /\ pc' \in {"mark_again", "cleanup"})
                \/ (state' = "FAILED" /\ pc' = "cleanup"),
             state = "CANCELLED" => pc = "mark_again" /\ pc' = "cleanup",
             pc' \in {"mark", "mark_again", "processor_cancelled"} \/ outcome' = "cancelled" =>
               token /\ completed < N
      PROVE  StopsExplained'
  BY <1>0, <1>1 DEF StopsExplained, Ending
<1> USE <1>0 DEF Step, TypeOK, Placed, StopsExplained, EndsCounted, Ending, Undecided, Inside,
        Hooks, Checks, SameCounters, Quiet, Unchanged, Change
<1>2. CASE Start \/ StartRefused
  BY <1>1, <1>2 DEF Start, start, StartRefused
<1>3. CASE Boundary \/ PauseCheck \/ Paused
  BY <1>1, <1>3, RunnerAssumption DEF Boundary, PauseCheck, Paused
<1>4. CASE MarkCancelled \/ MarkAgain \/ NoImplementation
  BY <1>1, <1>4 DEF MarkCancelled, MarkAgain, mark_cancelled, NoImplementation
<1>5. CASE ProcessorStarts \/ ThrowIfCancelled \/ HookReturns \/ HookRaises \/ HookGivesUp
  BY <1>1, <1>5, RunnerAssumption DEF ProcessorStarts, ThrowIfCancelled, HookReturns, HookRaises,
     HookGivesUp
<1>6. CASE ProcessorSucceeded
  BY <1>6 DEF ProcessorSucceeded
<1>7. CASE ProcessorCancelled \/ ProcessorFailed
  BY <1>1, <1>7 DEF ProcessorCancelled, ProcessorFailed
<1>8. CASE Fail \/ TaskCancelled
  BY <1>1, <1>8 DEF Fail, fail, TaskCancelled
<1>9. CASE LastCheck
  <2>1. UNCHANGED <<owed, count>>
    BY <1>9 DEF LastCheck
  <2> QED BY <1>9, <2>1, RunnerAssumption DEF LastCheck
<1>10. CASE Complete
  <2>1. completed = N /\ failed = 0 /\ outcome = "none"
    BY <1>10, RunnerAssumption DEF Complete
  <2>2. state' = "COMPLETED" => Due("PipelineCompleted")' = 1
    <3>1. Due("PipelineCompleted") = 0
      BY <1>10, DueTyped DEF Complete, Event
    <3>2. CASE state' = "COMPLETED" /\ state \notin {"CANCELLING", "CANCELLED", "FAILED"}
      <4>1. owed' = [owed EXCEPT ![Runner] = "PipelineCompleted"] /\ Free(Runner) /\ UNCHANGED count
        BY <1>10, <3>2 DEF Complete, complete
      <4>2. "PipelineCompleted" \in Event
        BY DEF Event
      <4>3. Due("PipelineCompleted")' = Due("PipelineCompleted") + 1
        BY <4>1, <4>2, DueOwed
      <4> QED BY <3>1, <4>3
    <3> QED BY <1>10, <3>2 DEF Complete, complete
  <2>3. state' # "COMPLETED" => token \/ half # {}
    BY <1>10 DEF Complete, complete
  <2> QED BY <1>10, <2>1, <2>2, <2>3 DEF Complete, complete
<1>11. CASE Cleanup
  <2>1. outcome = "returned" => Due("PipelineCompleted")' = Due("PipelineCompleted")
    <3>1. owed' = [owed EXCEPT ![Runner] = "PipelineShutdown"] /\ Free(Runner) /\ UNCHANGED count
      BY <1>11 DEF Cleanup, shutdown
    <3>2. {"PipelineShutdown", "PipelineCompleted"} \subseteq Event
      BY DEF Event
    <3>3. Due("PipelineCompleted")' = Due("PipelineCompleted") + 0
      BY <3>1, <3>2, DueOwed
    <3> QED BY <3>2, <3>3, DueTyped
  <2> QED BY <1>11, <2>1 DEF Cleanup, shutdown
<1>12. CASE Publish(Runner)
  <2>1. Due("PipelineCompleted")' = Due("PipelineCompleted")
    BY <1>12, DuePublished DEF Event
  <2> QED BY <1>12, <2>1 DEF Publish, progress
<1> QED BY <1>2, <1>3, <1>4, <1>5, <1>6, <1>7, <1>8, <1>9, <1>10, <1>11, <1>12 DEF Run

\* On every path through failures, cancellations and refused starts the outcome,
\* the events and the metrics of a run agree at its end.
THEOREM EndIsConsistentCorrect == Spec => []EndIsConsistent
<1>1. IInv /\ Story /\ [Next]_vars => Story'
  <2>1. Story /\ UNCHANGED vars => Story'
    BY DEF vars, progress, Story, ProcessorsCounted, EndsCounted, StopsExplained, Due, Lost
  <2>2. QED
    BY <2>1, ControlStory, RunCounts, RunEndsCounted, RunExplained DEF Next, Story
<1>2. IInv /\ Story => EndIsConsistent
  <2> SUFFICES ASSUME IInv, Story, pc = "done", Free(Runner) PROVE EndIsConsistent
    BY DEF EndIsConsistent
  <2>1. /\ \A e \in Event : Due(e) = count[e]
        /\ \A e \in Event : count[e] \in Nat
    BY DEF Due, Free, IInv, TypeOK, Event
  <2>2. outcome \in {"returned", "raised", "cancelled", "task_cancelled"}
    BY DEF IInv, TypeOK, Outcome, Story, EndsCounted, Ending
  <2>3. /\ Due("PipelineShutdown") = count["PipelineShutdown"]
        /\ Due("PipelineFailed") = count["PipelineFailed"]
        /\ Due("PipelineCancelled") = count["PipelineCancelled"]
        /\ Due("PipelineCompleted") = count["PipelineCompleted"]
    BY <2>1 DEF Event
  <2> USE <2>2, <2>3, RunnerAssumption DEF EndIsConsistent, Story, ProcessorsCounted, EndsCounted,
          StopsExplained, Lost, Working, Ending, Hooks, Checks
  <2>4. CASE outcome = "returned"
    BY <2>4
  <2>5. CASE outcome = "raised"
    BY <2>5
  <2>6. CASE outcome = "cancelled"
    BY <2>6
  <2>7. CASE outcome = "task_cancelled"
    BY <2>7
  <2> QED BY <2>4, <2>5, <2>6, <2>7
<1>3. QED
  BY <1>1, <1>2, InitInv, StepInv, InitStory, PTL DEF Spec
=============================================================================
