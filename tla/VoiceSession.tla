----------------------------- MODULE VoiceSession -----------------------------
(***************************************************************************)
(* One run of run_voice_session: the session and its store, the bus with   *)
(* its single worker, the handlers that keep the history and show the call *)
(* to the front ends, and the teardown, which publishes SessionClosed and  *)
(* waits until the summary has been made of the history.                   *)
(*                                                                         *)
(* The bus is EventBus cut down to what a session uses: publish_sync, one  *)
(* worker, one handler for an event.  Both keep BusContract.               *)
(***************************************************************************)
EXTENDS FrontEnds

CONSTANT MaxEvents   \* bound: events the bridge publishes

ASSUME SessionAssumption == MaxEvents \in Nat

VARIABLES
  at,          \* where run_voice_session is
  store,       \* the session in its manager: state and history; "deleted" when removed
  subs,        \* sub_ids, by the kinds of events they handle, in order
  queue,       \* event_bus._queue
  worker,      \* its worker: "none", "running", "ended"
  handling,    \* the event in a handler and its next step
  events,      \* how many events have been published, SessionClosed among them
  said,        \* history: the utterances published before SessionClosed
  transcript,  \* the history on_session_closed has read
  summaries,   \* the transcripts that summaries were made of
  outcome,     \* history: how on_session_closed went, "none" before that
  shown        \* history: the events of the session every browser was sent

closing == <<transcript, summaries, outcome>>
svars == <<at, store, subs, queue, worker, handling, events, said, closing, shown>>
vars == <<svars, fvars>>

(* "utterance": a transcript or an answer with text; "tool_only": an       *)
(* answer that is blank without its function tags; "notice": an event that *)
(* is only shown.                                                          *)
Kinds == {"utterance", "tool_only", "notice"}
Bridges == <<"closed", "utterance", "notice">>   \* in the order of sub_ids
Handler(e) == IF e.kind = "tool_only" THEN "utterance" ELSE e.kind

Idle == [event |-> [kind |-> "none", id |-> 0], step |-> "none"]
Handling == handling.step # "none"
Unfinished == Len(queue) + (IF Handling THEN 1 ELSE 0)
Goes(place) == at' = place

NewSession == [state |-> "IDLE", history |-> <<>>]   \* what Session() starts with
Terminal(session) == session.state = "CLOSED"
Refused(e) == e.kind = "tool_only"                   \* Message() raises on a blank content

TypeOK ==
  /\ FrontEndsTypeOK
  /\ at \in {"new", "created", "bus", "ready", "running", "closing", "joining",
             "unsubscribing", "stopping", "deleting", "done", "failed", "aborted"}
  /\ store.state \in {"none", "IDLE", "LISTENING", "CLOSED", "deleted"}
  /\ ToSet(store.history) \subseteq 1..(MaxEvents + 1)
  /\ ToSet(subs) \subseteq ToSet(Bridges)
  /\ worker \in {"none", "running", "ended"}
  /\ handling.step \in {"none", "lookup", "append", "show", "showing", "read", "summarise"}
  /\ events \in 0..(MaxEvents + 1)
  /\ ToSet(transcript) \subseteq 1..(MaxEvents + 1)
  /\ outcome \in {"none", "missed", "raised", "failed", "made"}

-----------------------------------------------------------------------------
Init ==
  /\ FrontEndsInit
  /\ at = "new" /\ store = [state |-> "none", history |-> <<>>]
  /\ subs = <<>> /\ queue = <<>> /\ worker = "none" /\ handling = Idle
  /\ events = 0 /\ said = <<>>
  /\ transcript = <<>> /\ summaries = <<>> /\ outcome = "none"
  /\ shown = [f \in Browsers |-> <<>>]

CreateSession ==
  /\ at = "new" /\ Goes("created")
  /\ store' = NewSession
  /\ UNCHANGED <<subs, queue, worker, handling, events, said, closing, shown, fvars>>

(* The summary's handler is subscribed, then the worker starts. *)
StartBus ==
  /\ at = "created" /\ Goes("bus")
  /\ subs' = <<"closed">> /\ worker' = "running"
  /\ queue' = <<[kind |-> "created", id |-> 0]>>
  /\ UNCHANGED <<store, handling, events, said, closing, shown, fvars>>

Bridge ==
  /\ at = "bus" /\ Goes("ready")
  /\ subs' = Bridges
  /\ UNCHANGED <<store, queue, worker, handling, events, said, closing, shown, fvars>>

(* Graph, transport or adapter cannot be built: the exception leaves the   *)
(* function above its try, so nothing is torn down.                        *)
BootFails ==
  /\ at \in {"bus", "ready"} /\ Goes("failed")
  /\ UNCHANGED <<store, subs, queue, worker, handling, events, said, closing, shown, fvars>>

(* set_state, which refuses a session that is gone or CLOSED. *)
SetState(state) ==
  store' = IF store.state = "deleted" \/ Terminal(store) THEN store ELSE [store EXCEPT !.state = state]

Run ==
  /\ at = "ready" /\ Goes("running")
  /\ SetState("LISTENING")
  /\ UNCHANGED <<subs, queue, worker, handling, events, said, closing, shown, fvars>>

(* The bridge publishes while the pipeline runs and, from frames that are  *)
(* still in flight, after it.                                              *)
Publish(kind) ==
  LET id == events + 1
  IN  /\ at \in {"running", "closing", "joining", "unsubscribing", "stopping", "deleting"}
      /\ events < MaxEvents
      /\ events' = id
      /\ queue' = Append(queue, [kind |-> kind, id |-> id])
      /\ said' = IF kind = "utterance" /\ at \in {"running", "closing"}
                 THEN Append(said, id) ELSE said
      /\ UNCHANGED <<at, store, subs, worker, handling, closing, shown, fvars>>

-----------------------------------------------------------------------------
(* The worker takes the next event; without a subscriber it is done at once. *)
\* Mutant: the newest event is taken first.
Takes_Newest ==
  /\ worker = "running" /\ ~Handling /\ queue # <<>>
  /\ queue' = Front(queue)
  /\ handling' = IF ~Contains(subs, Handler(Last(queue))) THEN Idle
                 ELSE [event |-> Last(queue),
                       step |-> CASE Last(queue).kind = "notice" -> "show"
                                  [] Last(queue).kind = "closed" -> "read"
                                  [] OTHER -> "lookup"]
  /\ UNCHANGED <<at, store, subs, worker, events, said, closing, shown, fvars>>
Takes ==
  /\ worker = "running" /\ ~Handling /\ queue # <<>>
  /\ queue' = Tail(queue)
  /\ handling' = IF ~Contains(subs, Handler(Head(queue))) THEN Idle
                 ELSE [event |-> Head(queue),
                       step |-> CASE Head(queue).kind = "notice" -> "show"
                                  [] Head(queue).kind = "closed" -> "read"
                                  [] OTHER -> "lookup"]
  /\ UNCHANGED <<at, store, subs, worker, events, said, closing, shown, fvars>>

Step(step) == handling' = [handling EXCEPT !.step = step]

(* add_message, first section under the lock; a blank message raises, and  *)
(* the handler with it. The session object is used after the lock.         *)
\* Mutant: the exception of a handler ends the worker.
Lookup_EndsWorker ==
  /\ handling.step = "lookup"
  /\ IF Refused(handling.event) THEN handling' = Idle /\ worker' = "ended"
                                          ELSE Step("append") /\ UNCHANGED worker
  /\ UNCHANGED <<at, store, subs, queue, events, said, closing, shown, fvars>>
Lookup ==
  /\ handling.step = "lookup"
  /\ IF store.state = "deleted" THEN Step("show")
     ELSE IF Refused(handling.event) THEN handling' = Idle ELSE Step("append")
  /\ UNCHANGED <<at, store, subs, queue, worker, events, said, closing, shown, fvars>>

AppendMessage ==
  /\ handling.step = "append"
  /\ store' = [store EXCEPT !.history = Append(@, handling.event.id)]
  /\ Step("show")
  /\ UNCHANGED <<at, subs, queue, worker, events, said, closing, shown, fvars>>

Sent(f) == IF f = Nobody THEN shown
           ELSE [shown EXCEPT ![f] = Append(@, handling.event.id)]

(* The handler awaits the broadcast and is done when that is. *)
Show ==
  /\ handling.step = "show"
  /\ StartCast
  /\ shown' = Sent(cast'.ws)
  /\ IF cast'.ws = Nobody THEN handling' = Idle ELSE Step("showing")
  /\ UNCHANGED <<at, store, subs, queue, worker, events, said, closing>>

ShowGoesOn ==
  /\ handling.step = "showing"
  /\ SendEnds
  /\ shown' = Sent(cast'.ws)
  /\ handling' = IF cast'.ws = Nobody THEN Idle ELSE handling
  /\ UNCHANGED <<at, store, subs, queue, worker, events, said, closing>>

(* on_session_closed. It raises if the database cannot be reached or has   *)
(* no client for a session that names none, and has nothing to do if the   *)
(* session is not in the store any more; else it reads the history.        *)
CloseReads ==
  /\ handling.step = "read"
  /\ \/ outcome' = "raised" /\ handling' = Idle /\ UNCHANGED transcript
     \/ /\ store.state = "deleted"
        /\ outcome' = "missed" /\ handling' = Idle /\ UNCHANGED transcript
     \/ /\ store.state # "deleted"
        /\ transcript' = store.history /\ Step("summarise") /\ UNCHANGED outcome
  /\ UNCHANGED <<at, store, subs, queue, worker, events, said, summaries, shown, fvars>>

(* The language model answers and the analytics are shown, or it fails and *)
(* the handler goes on to the database with the summary of earlier calls,  *)
(* showing nothing.                                                        *)
Summarised ==
  /\ handling.step = "summarise"
  /\ \/ /\ summaries' = Append(summaries, transcript)
        /\ outcome' = "made" /\ Step("show")
     \/ outcome' = "failed" /\ handling' = Idle /\ UNCHANGED summaries
  /\ UNCHANGED <<at, store, subs, queue, worker, events, said, transcript, shown, fvars>>

WorkerStep == Takes \/ Lookup \/ AppendMessage \/ Show \/ ShowGoesOn \/ CloseReads \/ Summarised

-----------------------------------------------------------------------------
(* adapter.run() returns, is cancelled, or raises: all of it is caught. *)
RunEnds ==
  /\ at = "running" /\ Goes("closing")
  /\ UNCHANGED <<store, subs, queue, worker, handling, events, said, closing, shown, fvars>>

(* With the Pipecat task cancelled: set_state(CLOSED), then SessionClosed. *)
\* Mutant: SessionClosed goes into the queue first of all.
Close_Overtakes ==
  /\ at = "closing" /\ Goes("joining")
  /\ SetState("CLOSED")
  /\ events' = events + 1 /\ queue' = <<[kind |-> "closed", id |-> events + 1]>> \o queue
  /\ UNCHANGED <<subs, worker, handling, said, closing, shown, fvars>>
Close ==
  /\ at = "closing" /\ Goes("joining")
  /\ SetState("CLOSED")
  /\ events' = events + 1 /\ queue' = Append(queue, [kind |-> "closed", id |-> events + 1])
  /\ UNCHANGED <<subs, worker, handling, said, closing, shown, fvars>>

(* queue.join(): every event has been taken and its handlers have ended. *)
\* Mutant: it is enough that the queue is empty.
Join_Empty ==
  /\ at = "joining" /\ queue = <<>> /\ Goes("unsubscribing")
  /\ UNCHANGED <<store, subs, queue, worker, handling, events, said, closing, shown, fvars>>
Join ==
  /\ at = "joining" /\ Unfinished = 0 /\ Goes("unsubscribing")
  /\ UNCHANGED <<store, subs, queue, worker, handling, events, said, closing, shown, fvars>>

Unsubscribe ==
  /\ at = "unsubscribing"
  /\ IF subs = <<>> THEN Goes("stopping") /\ UNCHANGED subs ELSE subs' = Tail(subs) /\ UNCHANGED at
  /\ UNCHANGED <<store, queue, worker, handling, events, said, closing, shown, fvars>>

(* bus.stop(): a handler of a late event is cancelled where it is. *)
StopBus ==
  /\ at = "stopping" /\ Goes("deleting")
  /\ worker' = "ended" /\ handling' = Idle
  /\ IF Sending THEN StopCast ELSE UNCHANGED fvars
  /\ UNCHANGED <<store, subs, queue, events, said, closing, shown>>

(* delete_session: the object is marked CLOSED for those who still hold it. *)
Delete ==
  /\ at = "deleting" /\ Goes("done")
  /\ store' = [store EXCEPT !.state = "deleted"]
  /\ UNCHANGED <<subs, queue, worker, handling, events, said, closing, shown, fvars>>

(* The task is cancelled once more, inside its finally. *)
Cancelled ==
  /\ at \in {"closing", "joining", "unsubscribing", "stopping", "deleting"}
  /\ Goes("aborted")
  /\ UNCHANGED <<store, subs, queue, worker, handling, events, said, closing, shown, fvars>>

Main ==
  \/ CreateSession \/ StartBus \/ Bridge \/ Run
  \/ Close \/ Join \/ Unsubscribe \/ StopBus \/ Delete

Next ==
  \/ Main \/ BootFails \/ RunEnds \/ Cancelled \/ WorkerStep
  \/ \E kind \in Kinds : Publish(kind)
  \/ BrowserStep /\ UNCHANGED svars

(* The event loop runs what is ready, sends end one way or the other, and  *)
(* the language model ends its answer.                                     *)
Fairness == WF_vars(Main) /\ WF_vars(WorkerStep)

Spec == Init /\ [][Next]_vars
FairSpec == Spec /\ Fairness

-----------------------------------------------------------------------------
(***************************************************************************)
(* The summary is made of the whole call: every utterance published before *)
(* SessionClosed is in the history by then, in its order, and none that    *)
(* came later (main.py:793 "Wait for SessionClosed to be processed").      *)
(***************************************************************************)
SummarySeesWholeCall == \A i \in DOMAIN summaries : summaries[i] = said

(***************************************************************************)
(* When a session comes to its end, its SessionClosed has been handled     *)
(* while it was still in the store: a summary was made, exactly one,       *)
(* unless the handler raised or the language model failed. No worker, no   *)
(* subscription and no broadcast is left behind.                           *)
(***************************************************************************)
EndsClean ==
  at = "done" =>
    /\ outcome \in {"raised", "failed", "made"}
    /\ Len(summaries) = IF outcome = "made" THEN 1 ELSE 0
    /\ worker = "ended" /\ subs = <<>> /\ ~Sending

(***************************************************************************)
(* A browser is sent the events of a session in their order and none       *)
(* twice, however the list changes under the broadcasts.                   *)
(***************************************************************************)
ShownInOrder ==
  \A f \in Browsers : \A i, j \in DOMAIN shown[f] : i < j => shown[f][i] < shown[f][j]

(***************************************************************************)
(* The teardown ends, whatever its handlers meet and although it waits for *)
(* all of them.                                                            *)
(***************************************************************************)
TeardownCompletes == at = "closing" ~> at \in {"done", "aborted"}
=============================================================================
