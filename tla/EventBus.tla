------------------------------- MODULE EventBus -------------------------------
(***************************************************************************)
(* EventBus with its Registry and Dispatcher, on one asyncio event loop.   *)
(*                                                                         *)
(* publish_sync puts an event on the queue, which the background worker    *)
(* delivers; await publish() delivers it in the publisher's own task.  A   *)
(* delivery takes a snapshot of the matching subscribers in priority order *)
(* and awaits their handlers one after the other: only while a handler     *)
(* runs can anything else happen, so one step ends a handler and begins    *)
(* the next, or finishes the delivery.  The registry's lock is never held  *)
(* across an await, hence never contended.                                 *)
(*                                                                         *)
(* One owner starts and stops the worker, as run_voice_session does, and   *)
(* handlers let the cancellation of their task through.                    *)
(***************************************************************************)
EXTENDS Integers, Sequences, FiniteSets, SequencesExt

CONSTANTS Events,       \* events that may be published, each once
          Subscribers,  \* ids of subscriptions, not reused once delivered to
          Once,         \* the one-shot subscriptions
          Priority,     \* lower values are called first
          Interest,     \* the events a subscription's pattern matches
          Publishers,   \* tasks that await publish()
          Worker        \* the background worker

ASSUME BusAssumption ==
  /\ Once \subseteq Subscribers
  /\ Priority \in [Subscribers -> Nat]
  /\ Interest \in [Subscribers -> SUBSET Events]
  /\ Worker \notin Publishers

Tasks == Publishers \cup {Worker}

VARIABLES
  registry,    \* registry._subscribers, in order of registration
  queue,       \* the events of _queue
  unfinished,  \* the queue's count of unfinished tasks, which join() waits on
  worker,      \* _worker_task: none, running, cancelled by stop(), or done
  delivery,    \* per task, the delivery it is busy with
  fate,        \* history: what became of each event
  snapshot,    \* history: the subscribers an event was going to be given to
  order,       \* history: the events in the order publish_sync was called
  called,      \* history: per event, the subscribers whose handlers were called with it
  handled      \* history: the events of all these calls, in order

bus == <<registry, queue, unfinished, worker, delivery>>
vars == <<bus, fate, snapshot, order, called, handled>>

Delivery(event, todo, once, failed) ==
  [event |-> event, todo |-> todo, once |-> once, failed |-> failed]
Idle == Delivery("none", <<>>, {}, FALSE)
Fate == {"new", "queued", "running", "unheard", "done", "failed", "dropped"}
WorkerState == {"none", "running", "cancelled", "done"}

-----------------------------------------------------------------------------
(* Registry *)

\* The entries at some places, in an order of the places: the k-th has k - 1 before it.
Entries(places, before) ==
  LET at(k) == CHOOSE i \in places : Cardinality({j \in places : <<j, i>> \in before}) = k - 1
  IN  [k \in 1..Cardinality(places) |-> registry[at(k)]]

\* sorted() by priority is stable.
SortedBefore ==
  {p \in (DOMAIN registry) \X (DOMAIN registry) :
     \/ Priority[registry[p[1]]] < Priority[registry[p[2]]]
     \/ Priority[registry[p[1]]] = Priority[registry[p[2]]] /\ p[1] < p[2]}
ListedBefore == {p \in (DOMAIN registry) \X (DOMAIN registry) : p[1] < p[2]}

\* get_matching, and the filters that take subscribers out.
Matching(e) == Entries({i \in DOMAIN registry : e \in Interest[registry[i]]}, SortedBefore)
Without(ids) == Entries({i \in DOMAIN registry : registry[i] \notin ids}, ListedBefore)

Subscribe(s) ==
  /\ \A i \in DOMAIN registry : registry[i] # s
  /\ \A e \in Events : \A i \in DOMAIN snapshot[e] : snapshot[e][i] # s
  /\ registry' = Append(registry, s)
  /\ UNCHANGED <<queue, unfinished, worker, delivery, fate, snapshot, order, called, handled>>

Unsubscribe(s) ==
  /\ \E i \in DOMAIN registry : registry[i] = s
  /\ registry' = Without({s})
  /\ UNCHANGED <<queue, unfinished, worker, delivery, fate, snapshot, order, called, handled>>

-----------------------------------------------------------------------------
(* Delivering: EventBus.publish and Dispatcher.dispatch, in task t *)

\* The handler of a subscriber is called with an event.
Calls(e, s) ==
  /\ called' = [called EXCEPT ![e] = Append(@, s)]
  /\ handled' = Append(handled, e)

\* Without subscribers publish returns at once; otherwise the first handler runs.
Begin(t, e) ==
  LET subscribers == Matching(e) IN
  /\ snapshot' = [snapshot EXCEPT ![e] = subscribers]
  /\ \/ /\ subscribers = <<>>
        /\ fate' = [fate EXCEPT ![e] = "unheard"]
        /\ UNCHANGED <<delivery, called, handled>>
     \/ /\ subscribers # <<>>
        /\ fate' = [fate EXCEPT ![e] = "running"]
        /\ delivery' = [delivery EXCEPT ![t] = Delivery(e, subscribers, {}, FALSE)]
        /\ Calls(e, Head(subscribers))

\* task_done, of the worker only.
TaskDone(t) == unfinished' = IF t = Worker THEN unfinished - 1 ELSE unfinished

\* A failure of any handler is raised at the end, instead of the ids to remove.
Finish(t, d) ==
  /\ delivery' = [delivery EXCEPT ![t] = Idle]
  /\ fate' = [fate EXCEPT ![d.event] = IF d.failed THEN "failed" ELSE "done"]
  /\ registry' = IF d.failed THEN registry ELSE Without(d.once)
  /\ TaskDone(t)

\* The delivery goes on with what is left to do after the handler that ended.
GoOn(t, d) ==
  \/ /\ d.todo = <<>>
     /\ Finish(t, d)
     /\ UNCHANGED <<called, handled>>
  \/ /\ d.todo # <<>>
     /\ delivery' = [delivery EXCEPT ![t] = d]
     /\ Calls(d.event, Head(d.todo))
     /\ UNCHANGED <<registry, unfinished, fate>>

Busy(t) == delivery[t] # Idle

\* The worker cannot finish a handler normally once its task is cancelled.
Ending(t) ==
  /\ Busy(t)
  /\ t = Worker => worker = "running"
  /\ UNCHANGED <<queue, worker, snapshot, order>>

HandlerReturns(t) ==
  LET d == delivery[t]  s == Head(d.todo) IN
  /\ Ending(t)
  /\ GoOn(t, Delivery(d.event, Tail(d.todo), d.once \cup ({s} \cap Once), d.failed))

\* Mutant: a failing handler ends the delivery.
HandlerRaises_Aborts(t) ==
  /\ Ending(t)
  /\ Finish(t, [delivery[t] EXCEPT !.failed = TRUE])
  /\ UNCHANGED <<called, handled>>

HandlerRaises(t) ==
  LET d == delivery[t] IN
  /\ Ending(t)
  /\ GoOn(t, Delivery(d.event, Tail(d.todo), d.once, TRUE))

-----------------------------------------------------------------------------
(* Publishing *)

\* Mutant: the newest event is put first.
PublishSync_Front(e) ==
  /\ fate[e] = "new"
  /\ fate' = [fate EXCEPT ![e] = "queued"]
  /\ queue' = <<e>> \o queue
  /\ order' = Append(order, e)
  /\ unfinished' = unfinished + 1
  /\ UNCHANGED <<registry, worker, delivery, snapshot, called, handled>>

PublishSync(e) ==
  /\ fate[e] = "new"
  /\ fate' = [fate EXCEPT ![e] = "queued"]
  /\ queue' = Append(queue, e)
  /\ order' = Append(order, e)
  /\ unfinished' = unfinished + 1
  /\ UNCHANGED <<registry, worker, delivery, snapshot, called, handled>>

Publish(p, e) ==
  /\ fate[e] = "new"
  /\ ~Busy(p)
  /\ Begin(p, e)
  /\ UNCHANGED <<registry, queue, unfinished, worker, order>>

-----------------------------------------------------------------------------
(* The background worker and its owner *)

\* Mutant: an event without subscribers does not reach task_done.
WorkerTakes_Unheard ==
  /\ worker = "running" /\ ~Busy(Worker)
  /\ queue # <<>>
  /\ queue' = Tail(queue)
  /\ Begin(Worker, Head(queue))
  /\ UNCHANGED <<registry, unfinished, worker, order>>

WorkerTakes ==
  /\ worker = "running" /\ ~Busy(Worker)
  /\ queue # <<>>
  /\ queue' = Tail(queue)
  /\ Begin(Worker, Head(queue))
  /\ unfinished' = IF Matching(Head(queue)) = <<>> THEN unfinished - 1 ELSE unfinished
  /\ UNCHANGED <<registry, worker, order>>

Start ==
  /\ worker = "none"
  /\ worker' = "running"
  /\ UNCHANGED <<registry, queue, unfinished, delivery, fate, snapshot, order, called, handled>>

\* stop() cancels the task, then awaits it.
StopCancels ==
  /\ worker = "running"
  /\ worker' = "cancelled"
  /\ UNCHANGED <<registry, queue, unfinished, delivery, fate, snapshot, order, called, handled>>

\* Mutant: a cancelled delivery does not reach task_done.
WorkerEnds_Undone ==
  /\ worker = "cancelled"
  /\ worker' = "done"
  /\ \/ ~Busy(Worker) /\ UNCHANGED <<delivery, fate, unfinished>>
     \/ /\ Busy(Worker)
        /\ delivery' = [delivery EXCEPT ![Worker] = Idle]
        /\ fate' = [fate EXCEPT ![delivery[Worker].event] = "dropped"]
        /\ UNCHANGED unfinished
  /\ UNCHANGED <<registry, queue, snapshot, order, called, handled>>

\* CancelledError in get() ends the loop; in a handler it drops the rest of the
\* delivery, and the event counts as finished all the same.
WorkerEnds ==
  /\ worker = "cancelled"
  /\ worker' = "done"
  /\ \/ ~Busy(Worker) /\ UNCHANGED <<delivery, fate, unfinished>>
     \/ /\ Busy(Worker)
        /\ delivery' = [delivery EXCEPT ![Worker] = Idle]
        /\ fate' = [fate EXCEPT ![delivery[Worker].event] = "dropped"]
        /\ TaskDone(Worker)
  /\ UNCHANGED <<registry, queue, snapshot, order, called, handled>>

StopReturns ==
  /\ worker = "done"
  /\ worker' = "none"
  /\ UNCHANGED <<registry, queue, unfinished, delivery, fate, snapshot, order, called, handled>>

-----------------------------------------------------------------------------
Init ==
  /\ registry = <<>>
  /\ queue = <<>>
  /\ unfinished = 0
  /\ worker = "none"
  /\ delivery = [t \in Tasks |-> Idle]
  /\ fate = [e \in Events |-> "new"]
  /\ snapshot = [e \in Events |-> <<>>]
  /\ order = <<>>
  /\ called = [e \in Events |-> <<>>]
  /\ handled = <<>>

Deliver(t) == HandlerReturns(t) \/ HandlerRaises(t)

Next ==
  \/ \E s \in Subscribers : Subscribe(s) \/ Unsubscribe(s)
  \/ \E e \in Events : PublishSync(e) \/ \E p \in Publishers : Publish(p, e)
  \/ \E t \in Tasks : Deliver(t)
  \/ WorkerTakes \/ Start \/ StopCancels \/ WorkerEnds \/ StopReturns

\* The event loop runs every task that is ready, and handlers end.
Fairness ==
  /\ \A t \in Tasks : WF_vars(Deliver(t))
  /\ WF_vars(WorkerTakes) /\ WF_vars(WorkerEnds) /\ WF_vars(StopReturns)

Spec == Init /\ [][Next]_vars /\ Fairness

-----------------------------------------------------------------------------
TypeOK ==
  /\ registry \in Seq(Subscribers)
  /\ queue \in Seq(Events)
  /\ unfinished \in Nat
  /\ worker \in WorkerState
  /\ \A t \in Tasks :
       /\ delivery[t].event \in Events \cup {"none"}
       /\ delivery[t].todo \in Seq(Subscribers)
       /\ delivery[t].once \subseteq Once
       /\ delivery[t].failed \in BOOLEAN
  /\ fate \in [Events -> Fate]
  /\ snapshot \in [Events -> Seq(Subscribers)]
  /\ order \in Seq(Events)
  /\ called \in [Events -> Seq(Subscribers)]
  /\ handled \in Seq(Events)

\* Failures are isolated: an event reaches every subscriber of its snapshot once,
\* in priority order, whatever handlers raise and whoever unsubscribes meanwhile;
\* only a stop cuts the sequence short, never with a gap.
EveryoneIsCalled ==
  \A e \in Events :
    /\ IsPrefix(called[e], snapshot[e])
    /\ fate[e] \in {"done", "failed"} => called[e] = snapshot[e]
    /\ \A i, j \in DOMAIN called[e] :
         i < j => Priority[called[e][i]] <= Priority[called[e][j]]

\* Events published from synchronous code are handled one at a time in the order
\* they were published, across stops and restarts of the worker.
QueueOrder ==
  \A i, j \in DOMAIN handled : \A k, l \in DOMAIN order :
    i < j /\ order[k] = handled[i] /\ order[l] = handled[j] => k <= l

\* The count join() waits on is exactly the events queued, or in the worker's hands.
JoinIsExact ==
  unfinished = Len(queue) + (IF Busy(Worker) THEN 1 ELSE 0)

Contract == INSTANCE BusContract WITH
              waiting <- queue,
              hand <- IF Busy(Worker) THEN {delivery[Worker].event} ELSE {},
              unfinished <- unfinished

\* Seen from its owner the bus is a queue and the one event in hand: whatever tasks
\* deliver beside it, handlers raise and stop() cancels, no event overtakes another
\* and each is counted off once, so join() returns only when nothing is left.
KeepsBusContract == Contract!Spec

\* If the worker is left running the queue drains, and join() returns.
Drains == <>[](worker = "running") => <>[](unfinished = 0)
=============================================================================
