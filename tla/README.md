# A TLA+ model of the real-time voice pipeline

This directory models the control logic of the service in `app/`: the
conversation state machine, the bridge that turns pipeline frames into
transitions and events, the pipeline builder with its graph and scheduler, the
pipeline runner, the event bus, the life of a voice session with its front ends,
the ownership of streams, the memory of clients from call to call, and the way of
a turn through filler, resilient proxy, tool interceptor, voice and call
terminator. TLC checks the models on small instances; TLAPS proves the central
facts for every value of the constants.

## The system

A call reaches the service over Twilio or LiveKit. `run_voice_session`
(`app/main.py`) creates a session, an event bus, a conversation state machine, a
pipeline graph and a Pipecat adapter, and awaits the adapter. Audio flows through
Pipecat's processors (speech to text, language routing, latency filler, LLM, tool
interception, text to speech, call termination). An observer sees every frame
that is pushed and calls the event bridge, which moves the machine and publishes
events; subscribers of the bus keep the session's history, drive the user
interface and, at the end, store a summary for the caller's next call.

| component | state it keeps | operations | interacts with | what is hard |
|---|---|---|---|---|
| conversation machine (`conversation/`) | current and previous state, history, under a lock | `transition_to`, `reset`, `close` | called by the bridge and the session | every caller may ask for anything at any time |
| event bridge, observer, adapter (`adapters/pipecat/events.py`, `adapter.py`) | greeting flag, current response, per-turn flags | one callback per frame kind, `run` | moves the machine, publishes on the bus | frames of different processors interleave, late and repeated frames, refused transitions |
| pipeline runner (`pipeline/runner.py`, `lifecycle.py`, `executor.py`, ...) | lifecycle state, token, counters | `run`, `pause`, `resume`, `cancel` | publishes lifecycle and processor events | threads race with the run; two-step cancel; failures on every path |
| event bus (`events/`) | subscriptions, queue, worker | `subscribe`, `unsubscribe`, `publish`, `publish_sync`, `start`, `stop`, `join` of the queue | everything publishes on it | overlapping deliveries, failing handlers, a stop in the middle of one |
| pipeline builder, graph, scheduler (`pipeline/builder.py`, `graph.py`, `scheduler.py`) | nodes and edges under a lock | add, connect, insert, remove, replace, build | read by the runner | graph edits that leave dangling edges or cycles, build against concurrent edits |
| voice session (`main.py`: `run_voice_session`) | the objects of one call | bootstrap, handlers of the bus, teardown | owns bus, machine, store, adapter | teardown order, failures between steps, a join that waits for a language model |
| stream ownership (`main.py`: `websocket_endpoint`, `lifespan`, clean-up loop) | one database row per stream | claim, release, stale clean-up | several worker processes, one table | crash of a worker, early returns without release, claims that fail half way |
| session store (`session/`) | sessions by id, under a lock | create, get, delete, messages, state | used by handlers of the bus | mutable sessions shared outside the lock |
| client memory (`repositories/`, the webhook, `on_session_closed`) | a client per number, one summary per client, a row per session | read at call start (twice), written at call end | several calls of one client, several transactions of one call | timeouts that cut a transaction, lost updates, fallbacks that write an empty text |
| latency filler (`filler_processor.py`) | a timer task | frames, events of the bus | pushes frames, is called back about their effects | timer against answer, its own events, late events |
| tool interception, call termination (`tool_interceptor.py`, `language_router.py`) | a text buffer, two hang-up flags | text and audio frames | one dictionary shared with the filler and the tools | flags written by one turn and used by another |
| resilient proxies (`processors.py`) | primary or fallback service, a flag | frames, failures, switch | Pipecat's own task of each service | a switch with awaits, cancelled in the middle |
| router (`routers/livekit_router.py`) | request times, sockets | rate limit, join, broadcast | front ends | list changed while it is iterated |
| latency tracker, context trimming, lead store | small records | record, trim, save | bridge, LLM | boundaries |

For each component the properties that make it correct:

- machine: history, previous and current state agree; the terminal state is final; a stop (error, barge-in) is resolved through LISTENING.
- bridge: no order of frames strands the machine in a state that only passes through a handler; the user always gets the turn back; the greeting handshake happens once; the stage a browser was told of last is the one the call is in.
- runner: an accepted cancel wins; a pause holds; state, events, counters and outcome agree; a run that is not left paused ends.
- bus: every event reaches its whole snapshot once, in priority order, whatever fails; queued events keep their order; `join` returns exactly when all is delivered.
- builder: edges join existing nodes, no edit closes a cycle or cuts a way, a raising call changes nothing, what is built was validated and can be scheduled; the scheduler's order is topological and complete.
- session: a summary is of the whole call; the teardown ends whatever its handlers meet, not before `SessionClosed` has been handled, and leaves nothing behind.
- front ends: a browser sees a session's events in order and none twice. That a broadcast comes to every socket, as its comment says, is not so.
- stream ownership: one connection serves a stream; a claim without a handler does not lock its stream for ever.
- client memory: a call that could read the memory does not forget it; without failures the memory is complete; the webhook answers in time.
- filler, proxies, termination: a clip is cut as soon as the bus has caught up, one fallback is made, a request is answered and answered once, a call is ended only by a request of its own and a stop of the voice. That no clip starts over an answer, and that the goodbye is spoken, is what the comments say and not so.

## Modules

| module | models | state | actions |
|---|---|---|---|
| `ConversationMachine` | the machine as a value: the transition map, `Moved(m, t)` for `transition_to` | none | none |
| `ConversationFSM` | `ConversationStateMachine` | `fsm` | `TransitionTo`, `Reset`, `Close` |
| `EventBridge` | bridge, observer, `PipecatAdapter.run`, close in the session; extends `ConversationFSM` | `fsm`, `greeted`, `response`, `emitted`, `phase`, `log` | one per frame kind, one per way the adapter goes on or ends |
| `PipelineRunner` | runner, lifecycle, executor, token, counters | `state`, `token`, `pc`, `at`, counters, `owed`, `half`, `count` | one per step of `run` between two points where another thread may act; `Pause`, `Resume`, `CancelLifecycle`, `CancelToken` per controller |
| `RunContract` | what a run promises | `life`, `finished` | `Begin`, `Finish`, `Stop`, `Succeed`, `End` |
| `EventBus` | bus, registry, dispatcher | `registry`, `queue`, `unfinished`, `worker`, `delivery` and histories | `Subscribe`, `Unsubscribe`, `PublishSync`, `Publish`, `HandlerReturns`, `HandlerRaises`, `WorkerTakes`, `Start`, `StopCancels`, `WorkerEnds`, `StopReturns` |
| `BusContract` | what the owner of a bus relies on | `waiting`, `hand`, `unfinished` | `Put`, `Take`, `Finish` |
| `Topology` | operators: `Acyclic`, `Reach` | none | none |
| `PipelineGraph` | `PipelineGraph`: adjacency lists and the search for cycles | `adj`, `refused`, the call in progress (`trying`, `visited`, `rec_stack`, `path`, `ahead`), the history `shown` | `AddNode`, `RemoveNode`, `RemoveEdge`, `AddEdge`; of the search `Start`, `Descend`, `Skip`, `CycleFound`, `Return`, `Accept` |
| `GraphContract` | what the graph promises the builder | `nodes`, `edges`, `raised` | `Add`, `Remove`, `Connect`, `Disconnect` |
| `PipelineBuilder` | `PipelineBuilder`, `validate_pipeline` | `processors`, `nodes`, `edges`, `raised`, `building`, `built` | one per edit inside `Call`, `BuildValidates`, `BuildReturns` |
| `PipelineScheduler` | `PipelineScheduler` (Kahn's algorithm) on what a graph has become; extends `PipelineGraph` | `nodes`, `edges`, `in_degree`, `queue`, `order` | `Edits`, `Schedules`, `Visit` |
| `StreamClaims` | claims of streams by connections of several workers | `up`, `cleaning`, `conn`, `claims`, `aged` | `StartUp`, `ShutDown`, `Crash`, `CleanUp`; `Accept`, `NoStart`, `Claim`, `Reject`, `ClaimFails`, `BadParameters`, `EnterSession`, `LeaveSession`, `Release`, `ReleaseFails` per connection; `Age` |
| `ClientMemory` | webhook, prefetch, closing handler and both repositories, statement by statement | `call`, `clients`, `inserting`, `summaries`, `rows` | one per statement and per way it fails, see below |
| `FrontEnds` | the list of browser sockets and one broadcast over it | `frontend_websockets`, `browser`, `broken`, `cast` | `Open`, `Greeted`, `Breaks`, `Leave`, `OthersCleanUp`, `StartCast`, `SendEnds`, `StopCast` |
| `VoiceSession` | `run_voice_session` with store, bus, worker and handlers; extends `FrontEnds` | `at`, `store`, `subs`, `queue`, `worker`, `handling`; of the summary `transcript`, `summaries`, `outcome` | bootstrap and teardown step by step, `Publish`, one per step of a handler, two for the summary: `CloseReads`, `Summarised` |
| `ServiceProxy` | `ResilientLLMProcessor` and `ResilientSTTProcessor` | `inbox`, `active`, `backup`, `task`, `own` | `Serve`, `OwnServe`, `Emit`, `Finish`, `Raises`, `SideFails`, `Trigger`, `Setup`, `Requeue`, `Interrupted` |
| `ResponsePath` | filler, tool interceptor, voice, call terminator around the proxy; extends `ServiceProxy` | `heard`, `wait`, `bus`, `opened`, `hangup`, `completed`, `speech`, `voice`, `calls`, `ended` | `Transcript`, `UserTurn`, `TimerFires`, `CancelWait`, `ClipEnds`, `Streams`, `Answers`, `Breaks`, `Tool`, `Proxy`, `Speak`, `PassEnd`, `Silence`, `VoiceFails`, `Interrupt`, `TaskEnds` |
| `MC...` | constants for TLC and, for `memory_failure`, a statement of a comment | | |
| `..._proofs` | theorems | | |

Definitions named `X_Something` next to an `X`, with a comment that begins with
"Mutant", are plausible wrong versions of `X`; no specification uses them. They
show for each property that a bug in the code would break it.

### How the models correspond to the code

*Conversation machine.* `transition_to` checks the map and updates all fields
under the lock: one atomic step. A refusal raises and changes nothing. Timestamps,
reasons and metadata are left out.

*Event bridge.* Each callback is a synchronous method on the event loop, hence one
step with all of its transitions and publications; `log` is the order in which
`publish_sync` put events on the queue. `_fsm_transition` swallows a refusal, so
the events are published whether or not the machine moved: `Go` and `Publish` are
separate in the model as in the code. The observer is called for every hop of
every frame, from processors that run concurrently, and frames may still be seen
after the run has ended: the model allows any frame kind at any time in the phases
where an observer exists. What the transcript and response say is not modelled,
except whether the current response is blank. On the mock path there is no
observer; only there the adapter itself announces start, completion and
processors.

*Pipeline runner.* Lifecycle operations change the state under a lock and publish
after releasing it, so each is two steps of its thread (`owed` holds the event in
between). `runner.cancel()` is two steps, `half` holds the controllers between
them. `run()` is divided at each read of the token or the state and at each await.
A hook may return, raise, give up on the token, or never be reached; the asyncio
task of the run may be cancelled at any await, in which case only the `finally`
clause runs. `count` counts publications by event; the order of the runner's own
events follows from `pc`.

*Event bus.* On one event loop other tasks run only while a handler is awaited, so
a step ends one handler and begins the next or finishes the delivery (with the
removal of one-shot subscribers, which takes an uncontended lock and does not
yield). The code takes the next queued event without yielding when the queue is
not empty; the model lets other tasks run there too, which only adds behaviours.
`stop()` is three steps: cancel, the worker's end, the return. A cancelled worker
in a delivery drops the rest of it and still counts the event as finished. A stable
sort and a filter are both `Entries`: the places that are kept, each where as many
come before it as the order of the places says. `snapshot` and `called` are
histories: whom an event was going to be given to, and whom it was given to so far.
Its owner sees less: a queue, the one event the worker has in hand, and the count
`join` waits on. That is `BusContract`; direct publications, subscriptions and the
handlers of one event are stutters of it.

*Pipeline graph, builder and scheduler.* Each operation of the builder runs under
its lock and is one step, except `build()`, which takes the lock twice: `building`
holds the threads between the validation and the snapshot, and the history
`edited` those of them whose graph was edited since. `built` is what the last call
returned. Calls that raise before they change anything are `Raise`;
`Wire` adds edges one by one as `add_edge` does, and leaves what was added before
the edge that closes a cycle. The builder never reads the order of children, so
its graph is a set of edges and its cycle check the definition `Acyclic`.
`PipelineGraph` has the lists and the depth-first search, one step for each turn of
its loops: `path` holds the calls of `dfs` that have not returned, `ahead` the
children each has still to look at. Dictionaries and lists of children are met in
any order, which only adds behaviours. It implements `GraphContract`, in which a
call is one step and an edge is refused exactly when it closes a cycle. Roles other than the two transports are one role. The scheduler
gets a copy of the graph when no call is going on (`Schedules`); its loop is one step
per turn, and the order in which dictionaries and children are listed is left open. So
that it leaves nobody out rests on the search, as in the code.
Events, names and metadata are left out.

*Stream ownership.* The insert of a claim is one statement with a primary key,
hence atomic between workers: either `Claim` or `Reject`. Any other error
(`ClaimFails`) goes on without knowing whether the row was written. A crash ends
the handlers of a worker where they are; the rows stay. Ages are abstracted to
"older than two hours", which may come true at any time, also while the call is on
the line. The release deletes by stream, as in the code. `holder` and `faulty` are
histories.

*Client memory.* A summary is the set of calls it tells of, so that "the prompt
combines the previous summary with this call" is a union and a lost update is a
missing member. Each statement that another transaction can come between is a step;
`inserting` is the lock a new row of a unique number holds until its transaction
ends. The handler of `SessionClosed` keeps one transaction open while it asks the
language model, hence the row it inserted too. A timeout cuts a transaction at any
statement, and the commit may have got through. A client is identified with its
number; "dangling" is an id whose row was rolled back.

*Front ends.* The loop of a broadcast iterates a Python list by index with an
await per send; appends and removals in between change what the index means.
Broadcasts of other sessions matter to it only by what they remove at their end.

*Voice session.* The steps of `run_voice_session` end at its awaits. The bus is
cut down to what a session uses (one worker, one handler for each event kind;
`EventBus` has the rest); both are proved to keep `BusContract`. `add_message` takes the lock twice and uses the session
between: `Lookup` and `AppendMessage`. A handler awaits its broadcast: `Show`,
`ShowGoesOn`. Texts are ids; an answer of function tags only is blank when they
are cut out, and refused. The handler of `SessionClosed` reads the history in one
step and has its summary in another, because the language model answers in between;
before the first it may raise (the database cannot be reached, or has no client for
a session that names none), after it the model may fail, and `outcome` is the
history of which it was. `Cancelled` is a second cancellation inside the `finally`.

*Response path.* `ServiceProxy` has the proxy with the three tasks that run its
code: its own, the one of the active service (which takes what was re-queued), and
a task of the side that may start the switch as well. `Trigger` and `Setup` are
divided at the await in `trigger_llm_fallback`. `ResponsePath` puts around it what
shares `shared_state`. A text is intercepted in the step that pushes it, because
the interceptor has no await of its own before it pushes; the voice is behind a
queue. A turn is two steps. `Transcript` is the recogniser's, which publishes
`ThinkingStarted`; `UserTurn` is the context frame the aggregator makes of it when
the turn ends, which starts the filler's timer. The bus may call the filler about the
first before or after the second. `bus` counts the calls that are still to come,
because they arrive late and the filler cancels whatever timer or clip runs, whatever
the event was. Published are the transcript, the start of a response (unless the
machine refuses the move), the end of one with text, the start of the voice and that
of a clip. Frames of the answer are not among what the filler meets: the model and the
voice push them below it. Whether the voice ends before or after the end of the
response has passed is left open. `credit`, a history, is the number of requests to
hang up less that of the calls ended.

## Runs

| run | instance | shows |
|---|---|---|
| `fsm` | up to 6 recorded transitions | `HistoryIsAWalk`, `ClosedIsFinal`, `StopsAreResolved` |
| `bridge` | up to 9 published events, greeting enabled | `NeverStranded`, `GreetingHandshake`, `StageIsAnnounced`, `TurnIsHandedBack` |
| `runner` | 3 processors, 2 controllers, 4 calls | `PauseHolds`, `EndIsConsistent`, `CancelWins`, `EndsUnlessPaused`, refinement of `RunContract` (`KeepsContract`) |
| `bus` | 3 events, a one-shot and a permanent subscriber, 1 direct publisher | `EveryoneIsCalled`, `QueueOrder`, refinement of `BusContract` (`KeepsBusContract`), `Drains` |
| `builder` | 4 ids, one of them with two roles, 2 threads | `GraphMatchesProcessors`, `NoCycle`, `BuiltCanBeScheduled`, `SplicesKeepTheWays`, `RaisingChangesNothing`, `BuildReturnsAValidPipeline` |
| `scheduler` | 4 nodes, symmetric: every graph that edits make, then the scheduler of it | refinement of `GraphContract` (`KeepsGraphContract`), `OrderIsTopological`, `OrderIsComplete` |
| `streams` | 2 workers, 3 connections, 2 streams, 1 stop | `OneSessionPerStream`, `OrphansAreCleaned` |
| `memory` | 2 calls, each of a known number or of none | `MemoryIsComplete`, `SavesKeepWhatWasKnown`, `WebhookAnswers` |
| `memory_failure` | the same | violated: `FailureKeepsTheSummary`, a comment in `main.py` |
| `session` | 2 browsers, 2 events of the bridge | `SummarySeesWholeCall`, `EndsClean`, `ShownInOrder`, `TeardownCompletes` |
| `broadcast` | 2 browsers, 1 event | violated: `SentToAll`, a comment in `livekit_router.py` |
| `path` | 2 requests, 1 piece of text, 2 errors, 1 interruption | `EachEndWasAsked`, `ClipIsCalledOff`, `BackupMadeOnce`, `AnsweredOnce`, `TurnSurvivesFailover` |

Each module that has state has a type invariant, `TypeOK` (`GraphTypeOK`,
`StreamTypeOK` and so on); all of them are proved, so the runs do not check them
again.

Bounds. Six transitions contain every walk through error or interruption and back
to a stage (at most five edges) and a close. Nine events are two complete turns,
or the greeting, its repetition by a later hop and a barge-in. Three processors
give a first, a middle and a last one; four calls of two controllers contain a
pause, a resume and both halves of a cancel overlapping another call. Three events
allow two overlapping deliveries and a third after either; two subscribers are
enough for a failure before or after another handler and for a cut in between.
Four nodes are the least that hold two paths that meet again, and a splice with a
processor before and behind it and one beside it. Three connections are an owner, a
rival and a third that comes after the release of either; a crash and its restart
are one stop. Two calls overlap at every pair of statements, or follow each other,
or are of two clients. Two events fill the queue behind a busy handler, and two
browsers are what a removal needs to shift a list. Two requests are a turn and the
next, or a turn and the result of its tool; two errors are the failure of the
primary and that of the fallback or of the connection beside it. With one piece of
text an answer has a word, a tag or nothing. Words behind a tag need two; that
instance is too large for the liveness property, and the four others hold in it with
one error (a million states).

`CHECK_DEADLOCK` is off except for the builder, which can always be edited: a
call ends, a run is over, all events of the instance are published, the scheduler's
loop ends, every connection or call has ended, or a bound is reached.

Fairness. `PipelineRunner` and `EventBus` state weak fairness of what the asyncio
event loop schedules: steps of the run, the worker and deliveries, including that
a hook or handler eventually returns, and the second half of a cancel that was
begun. `StreamClaims` assumes that the container restarts a dead worker, that time
passes, and that a turn of the clean-up loop eventually succeeds (an error is logged
and the loop goes on). `ClientMemory` assumes of the whole system only the three
seconds of the webhook's timer, because a language model may never answer.
`VoiceSession` assumes the event loop, that a send ends one way or the other and
that the language model ends its answer; `join` has no timeout, so the last is what
its end depends on. `ResponsePath` assumes the tasks of the proxy and that a service
ends its answer or raises, at the latest when its request times out. Nothing is
assumed of users, callers, pauses, publications, starts or stops. The machine, the
bridge, the builder, its graph and the scheduler have safety properties only.

## Proofs

Every type invariant, and every safety property and refinement that a run checks,
is also a theorem, for all values of the constants; two of the liveness properties
have a theorem about their safety half. Each module below holds the invariant its
theorems rest on.

`Conversation_proofs`, about the machine and the bridge. Of the machine as a value:
CLOSED is reachable from every other state and has no way out (`CloseAlwaysAllowed`,
`ClosedIsTerminal`), which states `reset` works from (`ResetSources`), and an
attempted transition keeps type, walk and terminal state (`MovedTyped`,
`MovedWalks`, `MovedClosedLast`). `MachineTypeCorrect`, `HistoryCorrect` and
`ClosedCorrect` follow: with type and walk as part of the invariant each action is
one attempted transition. `StopsCorrect` needs more than `StopsAreResolved` itself:
`StopsHold` adds that while a stop is pending (no LISTENING since it) the machine
rests in one of the states from which no stage can be entered. Of the bridge, the
proofs first show that every step is one of nine combinations of attempted
transitions (`StepHandled`). From that follow
`NeverStrandedCorrect` (an interruption or a transcript is always resolved inside
its handler because the map allows INTERRUPTED from every state the machine rests
in) and `TurnHandedBack`. `GreetingHandshakeCorrect` shows that only the end of
playback publishes the two events of the handshake, and that no other handler
publishes a greeting event once the flag is set; that the run itself announces its
greeting before the flag can be set is the added invariant (`phase = "built"`
implies not greeted). `StageIsAnnouncedCorrect` looks at both machine and log: each
handler either ends by announcing the stage its moves lead to (`MovesAndAnnounces`),
or announces none and stays or leaves for a stage nobody is told of
(`StaysAnnounced`). Which of the two it is depends on where a refused move leaves the
machine (`WhereTheyLead`), hence on the states it can rest in. `BridgeTypeCorrect`
puts the types of the bridge on top.

`PipelineRunner_proofs` uses the inductive invariant `IInv`: the types, and
`Placed`, which ties the place of `run()` to the counters (`at = completed + 1`
while undecided, `at = N + 1` after the loop) and to the state (COMPLETED only
before the cleanup, TERMINATED only at the end). `TypeOK` alone is not inductive:
that `at` stays within `N + 1` and `failed` within 1 depends on where `run()` is.
`CancelWinsCorrect` needs the invariant for `complete`, which does not test for
TERMINATED; `KeepsContractCorrect`, the refinement, needs it to show that all
processors are finished when the run is declared complete. `PauseHoldsCorrect`
has an invariant of its own, `Held`. `EndIsConsistentCorrect` needs `Story`: the
counters of processors and of endings are tied, at every place of `run()`, to the
events already published plus those still owed (`Due`), and a cancel that ends the
run is explained by the token or by a controller between its two steps.

`EventBus_proofs`. `JoinIsExact` is inductive with the types, because a delivery is
idle exactly when it has nothing left to do; with it `BusTypeCorrect` shows that the
count of unfinished tasks never goes below zero. `EveryoneIsCalledCorrect` needs
where a delivery stands: its calls so far are a beginning of its snapshot
(`Prefix`), what it still has to do is the rest (`Remains`), one task has the event,
and the snapshot is sorted (`Given`). That `Entries` sorts at all is
`EntriesListed`: among finitely many places in a total order each number of
predecessors below their count is taken by one of them, by the pigeonhole principle
(`EveryRankIsTaken`). `QueueOrderCorrect` needs `Queueing`: the queue is the end of
what was published, the worker is busy with the event just before it, publishers
are busy with events that never were in it. Then whatever was handled has left the
queue (`HandledIsTaken`), so that the event the worker handles next is later than
all of them, and every step that handles an event is one case (`OnwardStep`).
`KeepsBusContractCorrect` maps the worker's delivery to the one event in hand: a
step of `EventBus` is a `Put`, a `Take`, a `Finish`, or nothing its owner could see.
It rests on a delivery with calls left never being idle (`NotIdle`), and with
`JoinIsExactCorrect` the count is what it says: the queue and the event in hand.

`PipelineBuilder_proofs` shows for each splice that a cycle after it would have
been one before (`InsertedBefore`, `InsertedAfter`, `Replaced`): acyclicity is
stated as "every set of nodes has a member without a parent in it", which needs no
induction along paths. Hence no splice ever raises half way, `Step` is one lemma
per operation, and `GraphMatchesProcessorsCorrect`, `NoCycleCorrect`,
`BuiltCanBeScheduledCorrect` and `RaisingChangesNothingCorrect` follow. The four
facts need each other: acyclicity is kept only because a new node has no edges yet,
which is part of `GraphMatchesProcessors`. `SplicesKeepTheWaysCorrect` needs no
induction along ways either: what is reached is what all closed sets of nodes have
in common, and each closed set before a splice has one after it with the same old
nodes, and the other way round (`WaysCorrespond`): the new processor is in it when
its target is, or when the one it replaces was.
`BuildReturnsAValidPipelineCorrect` adds that what a thread validated stays valid
until an edit (`StillValid`).

`PipelineTopology_proofs`, about the scheduler and the search for cycles. For the
scheduler it strengthens the order's properties with what the counters mean:
`in_degree` is the number of parents not yet in the order (`Counted`), and a node of
degree zero is in the queue or in the order, not both, and once (`Placed`).
`OrderIsCompleteCorrect` applies acyclicity to the set of nodes left out. The search
has the invariant `SearchIInv`: `rec_stack` is the path of open calls and that path
is a walk (`StackIsPath`, `PathIsWalk`), what a loop has passed was left again or is
the next call (`BehindIsLeft`), and the nodes it has left are closed under their
edges and without a cycle (`LeftIsClosed`). Hence a node met on the stack closes a
cycle, and when every node is left the whole graph has none. `ReachClosesCycle`
turns that into the contract's words, an edge closes a cycle exactly when its end
reaches its start; reaching is again membership in all closed sets, so no induction
along walks is needed. `KeepsGraphContractCorrect` is the refinement, and
`NoCycleGetsIn` says that between two calls the graph never has a cycle. That is also
what a scheduler begins with (`ScheduledGraph`): a run of `PipelineScheduler` is a run
of the graph (`GraphOfScheduler`), and the two invariants together are inductive.

`SharedTables_proofs`, about the two tables of the database. Streams: that nobody
else can claim a stream rests on its row being there, fresh, and made by the one
connection that serves it (`RowOfItsSession`); with the types that is inductive, and
`OneSessionPerStreamCorrect` follows. Memory: `SavesKeepWhatWasKnownCorrect` holds
because what was stored all the time since a call began travels with it until its
text is made (`KnownIsCarried`), which needs that the id it carries is that of its
own number's client (`IdIsRight`), that every summary has a client
(`SummariesHaveClients`) and that a row in an open transaction is nobody else's
(`InsertedIsNew`). `MemoryIsCompleteCorrect` adds `InOrder`: of a number that
nothing disturbed at most one call is going on, it carries what is stored, and its
text is that and itself (`Follows`); two calls of a number are never on at once
without disturbing it, so nobody writes between its read and its write.

`VoiceSession_proofs`, about a session and the browsers. Of the list it needs that a
socket is in it once and that what the loop has come to is never ahead of it again
(`Behind`), since a removal moves sockets only towards the beginning; that an
increasing choice of places does so is by counting. For the session, ids grow along
the queue and the handler's event is older (`IdsGrow`), SessionClosed is in one place
until its handler has read the history (`ClosedOnce`, `ClosedInTime`), and until then
the history with what is waiting and in hand is what was said (`WholeCall`); both are
increasing, and an increasing sequence is given by its values, hence
`SummarySeesWholeCallCorrect`. `EndsCleanCorrect` rests on the handler of
SessionClosed ending in one of its outcomes before `join` returns, on a summary being
one of them (`MadeOnce`), and on the order
of the teardown (`Teardown`), `ShownInOrderCorrect` on `ShownBefore`: what a browser
was sent is older than what waits, and, but for the browsers the present broadcast
has reached, than what is being handled. `SessionBusKeepsContract` is the same
contract that `EventBus` keeps, now of the small bus in the session.
`JoinNeverStuckCorrect` is the safety half of `TeardownCompletes`: while the teardown
waits in `join` and something is unfinished, some step of the worker or of its
handler has all it needs. It adds that the worker lives until `stop` (`WorkerLives`).
`SessionTypeCorrect` adds that the numbers in a history, and in what is read of it,
are those of events (`Numbered`, `NumberedRead`).

`ResponsePath_proofs`, about the proxy and the path around it. `TypeCorrect` is
inductive with `TasksHold`, which task may hold a request where. The flag and the
count of fallbacks go together (`OneBackup`). `EachEndWasAskedCorrect` is an action
property: a pending request to hang up has not been used (`Covered`), and the one step
that uses one is a stop of the voice while filler and timer stay as they are
(`Accounts`). `ClipIsCalledOffCorrect` is inductive as it stands: a clip publishes its
own start, and the step that takes the last call from the bus is the one that cuts it.
`AnsweredOnceCorrect` needs `Once`: a request that is still
to be answered is in one place only, of the inbox, the service's own queue, the two
tasks that serve and the results of tools that will come, and one that is answered
or given up is in none. `NothingIsLostCorrect` is an action property, the safety half
of `TurnSurvivesFailover`: what was asked stays waiting, in work or answered, and it
is dropped only by an interruption, by an error with nothing behind the service, or
by a fallback that was never set up.

The assumptions are the ones named in the modules: `BoundAssumption`,
`BridgeAssumption`, `RunnerAssumption`, `BusAssumption`, `BuilderAssumption`,
`IdsAssumption`, `StreamAssumption`, `MemoryAssumption`, `FrontEndAssumption`,
`SessionAssumption`, `ProxyAssumption` and `PathAssumption`. The bounds
(`MaxRecords`, `MaxCalls`, `MaxStops`, `MaxEvents`, `MaxRequests`, `MaxTokens`,
`MaxErrors`, `MaxInterrupts`) only limit how often something happens, so the
theorems hold for any value of them.

Model-checked only: the liveness properties `EndsUnlessPaused`, `Drains`,
`OrphansAreCleaned`, `WebhookAnswers`, `TeardownCompletes` and
`TurnSurvivesFailover`, because the prover has no rules for fairness and ENABLED. So
what is proved of them stops at "nothing is lost" and "something can go on"; that it
does go on is shown on the instances above. That the search of `PipelineGraph` ends
is neither proved nor stated: each of its turns enters a node or passes a child.

## Where code and documentation disagree

- A failing summary can lose the old one. The comment at `main.py:576` reads
  "fallback: don't lose old summary on failure", but the text that is taken is what
  this call carries: if its own reads failed or timed out, that is empty, and it is
  written over what is stored (`memory_failure`).
- A broadcast may skip a browser. `livekit_router.py:203` reads "Send to all connected
  frontends". The loop below walks the list itself by index across its awaits: if the
  socket it has just sent to breaks and its endpoint takes it out, the next one moves
  under the index and is not sent the event (`broadcast`).
Read in the code, some of it met while modelling, without a run of its own:

- A clip may start over an answer. `filler_processor.py:123` reads "Intercept when LLM
  starts generating or when TTS starts", DEVLOG:833 "immediately cancel latency filler
  playback tasks ... when the LLM starts generating or TTS starts playing". The frames
  of that branch are pushed below the filler and never reach it, and of the events the
  bus brings, `ThinkingStarted` was published before the turn came to the filler: with
  a slow first text the clip starts although the model has begun.
- A call may end in the middle of its goodbye. `language_router.py:86` reads "When bot
  finishes its response, if hangup requested and LLM is done". The flag for the latter
  is set by every response and reset only by the end of a call (the reset at line 73
  waits for transcriptions, which the aggregator keeps), so a stop of the voice before
  the end of the answer that says goodbye ends the call, with words still unspoken.
- DEVLOG:525 has `TTSStartedFrame` lead to SPEAKING; from THINKING, where filler audio starts, the map refuses it (`adapters/pipecat/events.py:199`).
- The docstring of `conversation/transitions.py` lists far fewer transitions than the map allows, and `on_user_interrupted` is documented for speech during playback and called for any start of speech.
- A cancelled processor is counted in `failed_processors` although the comment at `executor.py:81` says it is not recorded as a failure.
- A one-shot subscriber can be delivered to twice, when two deliveries overlap (`bus.py:143`, `subscriber.py:29`). For the same reason `EveryoneIsCalled` speaks of snapshots.
- `build()` can return a pipeline that was not validated when another thread edits in between (`builder.py:221`); `BuildReturnsAValidPipeline` excepts exactly those calls.
- A pipeline whose transport input is not a root, behind a single other root, is accepted (`validators.py:44`), and rule 3 of `validate_pipeline`, a path from an input to an output, is not checked.
- The filler's own `TTSStartedFrame` comes back over the bus as `SpeakingStarted` and cuts its clip, if nothing else has; late events of an earlier answer cancel the timer of a later turn.
- Text behind the closing bracket of an `end_call` tag is spoken, contrary to the docstring of `tool_interceptor.py`.
- A call never ends when no text is spoken after the request to end it (`language_router.py:56-58`): no stop of playback comes, and the filler drops every further turn.
- A session may end without a summary: `get_or_create_client` raises if the session names no client (`main.py:494`), and the dispatcher swallows it (`raised` in `VoiceSession`).
- An interruption while the fallback is set up leaves it made and never started: for the rest of the call nothing answers (`Dead` in `ServiceProxy`).
- After an interruption the interceptor keeps its buffer, and an opened tag holds back the next answer.
- An exception between the start of the bus and the `try` of `run_voice_session` leaves worker and session behind (`BootFails`).

## Plan

Done: the machine, the bridge, the runner with its contract, the bus, the builder
with its graph and scheduler, stream ownership, client memory, the session with its
front ends, and the response path; for all of them the types and the safety
properties are proved, and runner, bus and graph implement a contract.

Left, in order:

1. `FrameFlow`: the observer hop by hop, with the contents of responses, so that a text published twice can be told from two texts.
2. A second `run()` of a paused runner; the lead store and the rate limit, as small sequential models.

## Not modelled

Audio, text and language processing (recognition, prompts, the heuristics for
language and emotion, the cleaning of texts), latency measurements, which are only
logged, remote services beyond "answers, fails or is late", login, registration
and tokens of the router, the rate limit, business services of single queries, the
file of leads, the audio of the greeting, the bus's middleware chain, which the
service leaves empty, the context manager, which nothing calls, the front end,
scripts, benchmarks and migrations, the older `main_test.py`, and the unused
`latency_profiler.py` and `pipeline/queue.py`: pure data, input and output, or not
part of the service.
