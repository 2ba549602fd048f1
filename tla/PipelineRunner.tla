---------------------------- MODULE PipelineRunner ----------------------------
(***************************************************************************)
(* PipelineRunner with its lifecycle manager, executor, cancellation token *)
(* and metrics: one run of N processors, in scheduler order, while other   *)
(* threads pause, resume and cancel it.                                    *)
(*                                                                         *)
(* The lifecycle changes its state under a lock and publishes the event    *)
(* after releasing it, so every operation is two steps of its thread: the  *)
(* change, then the publication the thread owes.  runner.cancel() is two   *)
(* steps as well: the lifecycle first, the token second.  The runner reads *)
(* the token, the state and the processors' hooks in steps of its own.     *)
(***************************************************************************)
EXTENDS Integers

CONSTANTS N,            \* number of processors in the execution order
          Controllers,  \* threads that pause, resume and cancel
          Runner,       \* the thread that awaits run()
          MaxCalls      \* bound on the controllers' calls (TLC only)

ASSUME RunnerAssumption ==
  /\ N \in Nat
  /\ MaxCalls \in Nat
  /\ Runner \notin Controllers

Threads == Controllers \cup {Runner}

VARIABLES
  state,      \* lifecycle._state
  token,      \* cancellation_token._is_cancelled
  pc,         \* where run() is
  at,         \* number of the processor run() is at
  completed,  \* metrics.completed_processors
  failed,     \* metrics.failed_processors
  outcome,    \* how run() ended: "none" until it is known
  owed,       \* per thread, the event it still has to publish
  half,       \* controllers between the two steps of cancel()
  count,      \* how often each event was published
  calls,      \* calls made by the controllers
  overrun     \* history: processors started since the state became PAUSED

progress == <<pc, at, completed, failed, outcome>>
vars == <<state, token, progress, owed, half, count, calls, overrun>>

ExecutionState == {"INITIALIZED", "RUNNING", "PAUSED", "CANCELLING", "CANCELLED",
                   "COMPLETED", "FAILED", "TERMINATED"}

Event == {"PipelineInitialized", "PipelineStarted", "PipelinePaused", "PipelineResumed",
          "PipelineCancelled", "PipelineCompleted", "PipelineFailed", "PipelineShutdown",
          "ProcessorExecutionStarted", "ProcessorExecutionCompleted",
          "ProcessorExecutionFailed"}

Hooks == {"before_execute", "execute", "after_execute"}
Checks == {"check_before", "check_execute", "check_after"}

Place == Hooks \cup Checks \cup
  {"ready", "boundary", "pause_check", "paused", "lookup", "succeeded",
   "processor_failed", "processor_cancelled", "mark", "mark_again", "last_check",
   "complete", "fail", "cleanup", "done"}

Outcome == {"none", "returned", "raised", "cancelled", "task_cancelled"}

-----------------------------------------------------------------------------
(* Operations of the lifecycle manager, called by thread t *)

\* The state is set under the lock; the event is owed until the thread goes on.
Change(t, s, e) ==
  /\ state' = s
  /\ owed' = [owed EXCEPT ![t] = e]
  /\ overrun' = IF s = "PAUSED" THEN overrun ELSE 0

Unchanged == UNCHANGED <<state, owed, overrun>>

start(t) == state \in {"INITIALIZED", "PAUSED"} /\ Change(t, "RUNNING", "PipelineStarted")

pause(t) ==
  \/ state = "RUNNING" /\ Change(t, "PAUSED", "PipelinePaused")
  \/ state # "RUNNING" /\ Unchanged

\* Mutant: resume does not look at the state.
resume_Unchecked(t) == Change(t, "RUNNING", "PipelineResumed")

resume(t) ==
  \/ state = "PAUSED" /\ Change(t, "RUNNING", "PipelineResumed")
  \/ state # "PAUSED" /\ Unchanged

cancel(t) ==
  \/ state \in {"CANCELLED", "COMPLETED", "FAILED", "TERMINATED"} /\ Unchanged
  \/ /\ state \notin {"CANCELLED", "COMPLETED", "FAILED", "TERMINATED"}
     /\ Change(t, "CANCELLING", "none")

mark_cancelled(t) == Change(t, "CANCELLED", "PipelineCancelled")

complete(t) ==
  \/ state \in {"CANCELLING", "CANCELLED", "FAILED"} /\ Unchanged
  \/ /\ state \notin {"CANCELLING", "CANCELLED", "FAILED"}
     /\ Change(t, "COMPLETED", "PipelineCompleted")

fail(t) == Change(t, "FAILED", "PipelineFailed")

shutdown(t) == Change(t, "TERMINATED", "PipelineShutdown")

\* Every event is published by the thread that owes it, before it does anything else.
Publish(t) ==
  /\ owed[t] # "none"
  /\ count' = [count EXCEPT ![owed[t]] = @ + 1]
  /\ owed' = [owed EXCEPT ![t] = "none"]
  /\ UNCHANGED <<state, token, progress, half, calls, overrun>>

Free(t) == owed[t] = "none"

-----------------------------------------------------------------------------
(* The controllers *)

Call(t) ==
  /\ Free(t) /\ t \notin half
  /\ calls < MaxCalls /\ calls' = calls + 1
  /\ UNCHANGED <<token, progress, count>>

Pause(t) == Call(t) /\ pause(t) /\ UNCHANGED half

Resume(t) == Call(t) /\ resume(t) /\ UNCHANGED half

CancelLifecycle(t) == Call(t) /\ cancel(t) /\ half' = half \cup {t}

CancelToken(t) ==
  /\ t \in half
  /\ token' = TRUE
  /\ half' = half \ {t}
  /\ UNCHANGED <<state, progress, owed, count, calls, overrun>>

Control(t) == Pause(t) \/ Resume(t) \/ CancelLifecycle(t) \/ CancelToken(t) \/ Publish(t)

-----------------------------------------------------------------------------
(* PipelineRunner.run *)

Step(from, to) ==
  /\ Free(Runner)
  /\ pc \in from
  /\ pc' = to
  /\ UNCHANGED <<token, half, calls>>

Quiet == Unchanged /\ UNCHANGED count
SameCounters == UNCHANGED <<at, completed, failed>>

Start ==
  /\ Step({"ready"}, "boundary")
  /\ start(Runner)
  /\ SameCounters /\ UNCHANGED <<outcome, count>>

\* The lifecycle refuses to start: InvalidExecutionStateError.
StartRefused ==
  /\ Step({"ready"}, "fail")
  /\ state \notin {"INITIALIZED", "PAUSED"}
  /\ Quiet /\ SameCounters /\ UNCHANGED outcome

\* Mutant: the last processor is left out.
Boundary_OneLess ==
  /\ \/ at >= N /\ Step({"boundary"}, "last_check")
     \/ at < N /\ token /\ Step({"boundary"}, "mark")
     \/ at < N /\ ~token /\ Step({"boundary"}, "pause_check")
  /\ Quiet /\ SameCounters /\ UNCHANGED outcome

\* The head of the loop: leave it, or ask the token.
Boundary ==
  /\ \/ at > N /\ Step({"boundary"}, "last_check")
     \/ at <= N /\ token /\ Step({"boundary"}, "mark")
     \/ at <= N /\ ~token /\ Step({"boundary"}, "pause_check")
  /\ Quiet /\ SameCounters /\ UNCHANGED outcome

PauseCheck ==
  /\ \/ state = "PAUSED" /\ Step({"pause_check"}, "paused")
     \/ state # "PAUSED" /\ Step({"pause_check"}, "lookup")
  /\ Quiet /\ SameCounters /\ UNCHANGED outcome

\* Mutant: the pause is slept through once, without looking at the state again.
Paused_Once ==
  /\ \/ token /\ Step({"paused"}, "mark")
     \/ ~token /\ Step({"paused"}, "lookup")
  /\ Quiet /\ SameCounters /\ UNCHANGED outcome

\* Mutant: the loop keeps the state it read when it was entered.
Paused_Stale ==
  /\ \/ token /\ Step({"paused"}, "mark")
     \/ ~token /\ Step({"paused"}, "paused")
  /\ Quiet /\ SameCounters /\ UNCHANGED outcome

\* The body of the pause loop: ask the token, sleep, look again.
Paused ==
  /\ \/ token /\ Step({"paused"}, "mark")
     \/ ~token /\ Step({"paused"}, "pause_check")
  /\ Quiet /\ SameCounters /\ UNCHANGED outcome

MarkCancelled ==
  /\ Step({"mark"}, "mark_again")
  /\ mark_cancelled(Runner)
  /\ SameCounters /\ UNCHANGED <<outcome, count>>

\* The handler of PipelineCancelledError marks whatever raised it, once more.
MarkAgain ==
  /\ Step({"mark_again"}, "cleanup")
  /\ mark_cancelled(Runner)
  /\ outcome' = "cancelled"
  /\ SameCounters /\ UNCHANGED count

NoImplementation ==
  /\ Step({"lookup"}, "fail")
  /\ Quiet /\ SameCounters /\ UNCHANGED outcome

-----------------------------------------------------------------------------
(* DefaultProcessorExecutor.run *)

ProcessorStarts ==
  /\ Step({"lookup"}, "check_before")
  /\ count' = [count EXCEPT !["ProcessorExecutionStarted"] = @ + 1]
  /\ overrun' = IF state = "PAUSED" THEN overrun + 1 ELSE 0
  /\ SameCounters /\ UNCHANGED <<state, owed, outcome>>

ThrowIfCancelled ==
  /\ \/ token /\ Step(Checks, "processor_cancelled")
     \/ ~token /\ Step({"check_before"}, "before_execute")
     \/ ~token /\ Step({"check_execute"}, "execute")
     \/ ~token /\ Step({"check_after"}, "after_execute")
  /\ Quiet /\ SameCounters /\ UNCHANGED outcome

HookReturns ==
  /\ \/ Step({"before_execute"}, "check_execute")
     \/ Step({"execute"}, "check_after")
     \/ Step({"after_execute"}, "succeeded")
  /\ Quiet /\ SameCounters /\ UNCHANGED outcome

HookRaises ==
  /\ Step(Hooks, "processor_failed")
  /\ Quiet /\ SameCounters /\ UNCHANGED outcome

\* The hook itself calls throw_if_cancelled on the token it was given.
HookGivesUp ==
  /\ token
  /\ Step(Hooks, "processor_cancelled")
  /\ Quiet /\ SameCounters /\ UNCHANGED outcome

ProcessorSucceeded ==
  /\ Step({"succeeded"}, "boundary")
  /\ completed' = completed + 1
  /\ at' = at + 1
  /\ count' = [count EXCEPT !["ProcessorExecutionCompleted"] = @ + 1]
  /\ Unchanged /\ UNCHANGED <<failed, outcome>>

ProcessorCancelled ==
  /\ Step({"processor_cancelled"}, "mark_again")
  /\ failed' = failed + 1
  /\ Quiet /\ UNCHANGED <<at, completed, outcome>>

\* Mutant: the failure is reported and swallowed, and the loop goes on.
ProcessorFailed_Swallowed ==
  /\ Step({"processor_failed"}, "boundary")
  /\ failed' = failed + 1
  /\ at' = at + 1
  /\ count' = [count EXCEPT !["ProcessorExecutionFailed"] = @ + 1]
  /\ Unchanged /\ UNCHANGED <<completed, outcome>>

ProcessorFailed ==
  /\ Step({"processor_failed"}, "fail")
  /\ failed' = failed + 1
  /\ count' = [count EXCEPT !["ProcessorExecutionFailed"] = @ + 1]
  /\ Unchanged /\ UNCHANGED <<at, completed, outcome>>

-----------------------------------------------------------------------------
(* The end of run *)

LastCheck ==
  /\ \/ ~token /\ Step({"last_check"}, "complete") /\ UNCHANGED outcome
     \/ token /\ Step({"last_check"}, "cleanup") /\ outcome' = "returned"
  /\ Quiet /\ SameCounters

Complete ==
  /\ Step({"complete"}, "cleanup")
  /\ complete(Runner)
  /\ outcome' = "returned"
  /\ SameCounters /\ UNCHANGED count

Fail ==
  /\ Step({"fail"}, "cleanup")
  /\ fail(Runner)
  /\ outcome' = "raised"
  /\ SameCounters /\ UNCHANGED count

\* The asyncio task is cancelled at an await: only the finally clause runs.
TaskCancelled ==
  /\ Step(Hooks \cup {"paused"}, "cleanup")
  /\ outcome' = "task_cancelled"
  /\ Quiet /\ SameCounters

Cleanup ==
  /\ Step({"cleanup"}, "done")
  /\ shutdown(Runner)
  /\ SameCounters /\ UNCHANGED <<outcome, count>>

\* What run() does by itself, the returning of its hooks included.
Run ==
  \/ Start \/ StartRefused \/ Boundary \/ PauseCheck \/ Paused
  \/ MarkCancelled \/ MarkAgain \/ NoImplementation
  \/ ProcessorStarts \/ ThrowIfCancelled \/ HookReturns
  \/ ProcessorSucceeded \/ ProcessorCancelled \/ ProcessorFailed
  \/ LastCheck \/ Complete \/ Fail \/ Cleanup
  \/ Publish(Runner)

-----------------------------------------------------------------------------
Init ==
  /\ state = "INITIALIZED"
  /\ token = FALSE
  /\ pc = "ready"
  /\ at = 1
  /\ completed = 0
  /\ failed = 0
  /\ outcome = "none"
  /\ owed = [t \in Threads |-> "none"]
  /\ half = {}
  /\ count = [e \in Event |-> IF e = "PipelineInitialized" THEN 1 ELSE 0]
  /\ calls = 0
  /\ overrun = 0

Next ==
  \/ Run
  \/ HookRaises \/ HookGivesUp \/ TaskCancelled
  \/ \E t \in Controllers : Control(t)

\* The event loop keeps running the runner's task, every hook eventually
\* returns, and a controller that has begun cancel() finishes it.
Fairness ==
  /\ WF_vars(Run)
  /\ \A t \in Controllers : WF_vars(CancelToken(t) \/ Publish(t))

Spec == Init /\ [][Next]_vars /\ Fairness

-----------------------------------------------------------------------------
TypeOK ==
  /\ state \in ExecutionState
  /\ token \in BOOLEAN
  /\ pc \in Place
  /\ at \in 1 .. N + 1
  /\ completed \in 0 .. N
  /\ failed \in 0 .. 1
  /\ outcome \in Outcome
  /\ owed \in [Threads -> Event \cup {"none"}]
  /\ half \subseteq Controllers
  /\ count \in [Event -> Nat]
  /\ calls \in 0 .. MaxCalls
  /\ overrun \in Nat

Stopping == {"CANCELLING", "CANCELLED", "FAILED", "TERMINATED"}

\* Once a cancel was accepted or the run has failed nothing brings it back: no
\* start, pause, resume or completion of any thread, in any interleaving.
CancelWins == [][(state \in Stopping) => (state' \in Stopping)]_vars

\* A pause holds: while the state stays PAUSED at most the one processor starts
\* that the runner had already decided to start when the pause came.
PauseHolds == overrun <= 1

\* How run() ended, what it published and what the metrics say tell one story,
\* on every path through failures, cancellations and refused starts.
EndIsConsistent ==
  pc = "done" /\ Free(Runner) =>
    /\ count["PipelineShutdown"] = 1 /\ state = "TERMINATED"
    /\ completed = count["ProcessorExecutionCompleted"]
    /\ count["ProcessorExecutionStarted"] - completed - failed
         \in (IF outcome = "task_cancelled" THEN 0 .. 1 ELSE {0})
    /\ count["PipelineCompleted"] <= IF outcome = "returned" THEN 1 ELSE 0
    /\ CASE outcome = "returned"       -> /\ completed = N /\ failed = 0
                                          /\ count["PipelineCancelled"] + count["PipelineFailed"] = 0
                                          /\ count["PipelineCompleted"] = 1 \/ token \/ half # {}
         [] outcome = "raised"         -> /\ count["PipelineFailed"] = 1
                                          /\ count["PipelineCancelled"] = 0
                                          /\ failed = count["ProcessorExecutionFailed"]
         [] outcome = "cancelled"      -> /\ token /\ completed < N
                                          /\ count["PipelineCancelled"] \in 1 .. 2
                                          /\ count["PipelineFailed"] = 0
         [] outcome = "task_cancelled" -> count["PipelineCancelled"] + count["PipelineFailed"] = 0

\* A run that has begun ends, unless it is left paused for ever.
EndsUnlessPaused == <>(pc = "done") \/ <>[](state = "PAUSED")

-----------------------------------------------------------------------------
Life ==
  IF state = "INITIALIZED" THEN "new"
  ELSE IF state \in {"RUNNING", "PAUSED"} THEN "live"
  ELSE IF state = "COMPLETED" THEN "completed"
  ELSE IF state = "TERMINATED" THEN "over"
  ELSE "stopping"

Contract == INSTANCE RunContract WITH life <- Life, finished <- completed

\* The runner keeps the contract of a run, pauses and cancels being invisible in
\* it but for the moment the stop takes effect.
KeepsContract == Contract!Spec
=============================================================================
