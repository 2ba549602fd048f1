----------------------------- MODULE EventBridge -----------------------------
(***************************************************************************)
(* PipecatEventBridge, the observer that drives it and PipecatAdapter.run: *)
(* frames pushed inside the voice pipeline become transitions of the       *)
(* conversation machine, fsm, and events on the session's bus.             *)
(*                                                                         *)
(* Every handler is synchronous, so on the event loop it is one atomic     *)
(* step, with all the transitions and publications it makes.  The observer *)
(* sees a frame once per processor that pushes it, and processors run      *)
(* concurrently: between two sightings of one frame any other frame may be *)
(* seen, so the environment may show it any frame at any time, also late   *)
(* frames after the run has ended.                                         *)
(***************************************************************************)
EXTENDS ConversationFSM

CONSTANT GreetingEnabled  \* ENABLE_INITIAL_GREETING

ASSUME BridgeAssumption == GreetingEnabled \in BOOLEAN

VARIABLES
  greeted,   \* bridge._greeting_complete
  response,  \* observer._current_llm_response is not blank
  emitted,   \* observer._llm_response_emitted_for_turn
  phase,     \* where PipecatAdapter and run_voice_session are
  log        \* names of the events published, in queue order

vars == <<fsm, greeted, response, emitted, phase, log>>

Phase == {"built", "running", "mock", "mock_processor", "ended", "closed", "aborted"}

-----------------------------------------------------------------------------
\* _fsm_transition: skipped in the target state, and a refusal is only logged.
Go(m, t) == IF m.current = t THEN m ELSE Moved(m, t)

Publish(events) ==
  /\ Len(log) < MaxRecords
  /\ log' = log \o events

Unless(done, events) == IF done THEN <<>> ELSE events

-----------------------------------------------------------------------------
(* Callbacks of the bridge *)

OnPipelineStarted(more) ==
  /\ fsm' = Go(fsm, "LISTENING")
  /\ Publish(<<"PipelineStarted", "ConversationStarted", "ListeningStarted">> \o more)
  /\ UNCHANGED greeted

OnPipelineCompleted ==
  /\ fsm' = Go(fsm, "CLOSED")
  /\ Publish(<<"PipelineCompleted", "ConversationEnded">>)
  /\ UNCHANGED greeted

OnPipelineFailed ==
  /\ Publish(<<"PipelineFailed">>)
  /\ UNCHANGED <<fsm, greeted>>

OnTranscriptReady ==
  /\ fsm' = Go(Go(fsm, "TRANSCRIBING"), "THINKING")
  /\ Publish(<<"TranscriptReady", "ThinkingStarted">>)
  /\ UNCHANGED greeted

OnLLMResponseStarted ==
  LET unprompted == fsm.current = "LISTENING"
  IN  /\ fsm' = Go(IF unprompted THEN Go(fsm, "THINKING") ELSE fsm, "GENERATING_RESPONSE")
      /\ Publish(IF unprompted THEN <<"ThinkingStarted">> ELSE <<>>)
      /\ UNCHANGED greeted

OnLLMResponseReady ==
  /\ fsm' = Go(fsm, "GENERATING_AUDIO")
  /\ Publish(Unless(greeted, <<"AssistantGreetingGenerated">>)
             \o <<"ResponseGenerated", "AudioGenerationStarted">>)
  /\ UNCHANGED greeted

OnAudioStarted ==
  /\ fsm' = Go(fsm, "SPEAKING")
  /\ Publish(Unless(greeted, <<"AssistantGreetingTTSStarted">>) \o <<"SpeakingStarted">>)
  /\ UNCHANGED greeted

\* Mutant: the greeting flag is never set.
OnAudioFinished_GreetsAgain ==
  /\ fsm' = Go(fsm, "LISTENING")
  /\ Publish(<<"SpeakingFinished">>
             \o Unless(greeted, <<"AssistantGreetingCompleted", "ConversationReady">>)
             \o <<"ListeningStarted">>)
  /\ UNCHANGED greeted

OnAudioFinished ==
  /\ greeted' = TRUE
  /\ fsm' = Go(fsm, "LISTENING")
  /\ Publish(<<"SpeakingFinished">>
             \o Unless(greeted, <<"AssistantGreetingCompleted", "ConversationReady">>)
             \o <<"ListeningStarted">>)

\* Mutant: the interruption is not resolved back to LISTENING.
OnUserInterrupted_Unresolved ==
  /\ fsm' = Go(fsm, "INTERRUPTED")
  /\ Publish(<<"ConversationInterrupted", "ListeningStarted">>)
  /\ UNCHANGED greeted

OnUserInterrupted ==
  /\ fsm' = Go(Go(fsm, "INTERRUPTED"), "LISTENING")
  /\ Publish(<<"ConversationInterrupted", "ListeningStarted">>)
  /\ UNCHANGED greeted

-----------------------------------------------------------------------------
(* Frames the observer reacts to *)

Observing == phase \in {"running", "ended", "closed"} /\ UNCHANGED phase

UserStartedSpeaking ==
  /\ Observing
  /\ OnUserInterrupted
  /\ response' = FALSE
  /\ emitted' = FALSE

Transcription ==
  /\ Observing
  /\ OnTranscriptReady
  /\ UNCHANGED <<response, emitted>>

LLMFullResponseStart ==
  /\ Observing
  /\ OnLLMResponseStarted
  /\ emitted' = FALSE
  /\ UNCHANGED response

LLMText ==
  /\ Observing
  /\ response' = TRUE
  /\ UNCHANGED <<fsm, greeted, emitted, log>>

LLMFullResponseEnd ==
  /\ Observing
  /\ ~emitted /\ response
  /\ OnLLMResponseReady
  /\ emitted' = TRUE
  /\ UNCHANGED response

TTSStarted ==
  /\ Observing
  /\ OnAudioStarted
  /\ UNCHANGED <<response, emitted>>

TTSStopped ==
  /\ Observing
  /\ OnAudioFinished
  /\ UNCHANGED <<response, emitted>>

Frame ==
  \/ UserStartedSpeaking \/ Transcription \/ LLMFullResponseStart \/ LLMText
  \/ LLMFullResponseEnd \/ TTSStarted \/ TTSStopped

-----------------------------------------------------------------------------
(* The adapter and the end of the session *)

Phases(from, to) ==
  /\ phase \in from
  /\ phase' = to
  /\ UNCHANGED <<response, emitted>>

Greeting == IF GreetingEnabled THEN <<"AssistantGreetingStarted">> ELSE <<>>

BuildFails == Phases({"built"}, "aborted") /\ OnPipelineFailed

Run ==
  /\ Phases({"built"}, "running")
  /\ Publish(Greeting)
  /\ UNCHANGED <<fsm, greeted>>

RunMock == Phases({"built"}, "mock") /\ OnPipelineStarted(Greeting)

OnProcessorStarted ==
  /\ Phases({"mock"}, "mock_processor")
  /\ Publish(<<"ProcessorExecutionStarted">>)
  /\ UNCHANGED <<fsm, greeted>>

OnProcessorCompleted ==
  /\ Phases({"mock_processor"}, "mock")
  /\ Publish(<<"ProcessorExecutionCompleted">>)
  /\ UNCHANGED <<fsm, greeted>>

MockEnds == Phases({"mock"}, "ended") /\ OnPipelineCompleted

RunFails == Phases({"running", "mock", "mock_processor"}, "ended") /\ OnPipelineFailed

\* The pipeline finished, or the task running it was cancelled.
RunReturns ==
  /\ Phases({"running", "mock_processor"}, "ended")
  /\ UNCHANGED <<fsm, greeted, log>>

CloseSession ==
  /\ Phases({"ended"}, "closed")
  /\ fsm' = Moved(fsm, "CLOSED")
  /\ UNCHANGED <<greeted, log>>

-----------------------------------------------------------------------------
\* run_voice_session moves the new machine to LISTENING before the adapter exists.
Init ==
  /\ fsm = Moved(Fresh, "LISTENING")
  /\ greeted = FALSE
  /\ response = FALSE
  /\ emitted = FALSE
  /\ phase = "built"
  /\ log = <<>>

Next ==
  \/ Frame
  \/ BuildFails \/ Run \/ RunMock \/ OnProcessorStarted \/ OnProcessorCompleted
  \/ MockEnds \/ RunFails \/ RunReturns \/ CloseSession

Spec == Init /\ [][Next]_vars

-----------------------------------------------------------------------------
EventName ==
  {"PipelineStarted", "ConversationStarted", "ListeningStarted", "PipelineCompleted",
   "ConversationEnded", "PipelineFailed", "TranscriptReady", "ThinkingStarted",
   "AssistantGreetingStarted", "AssistantGreetingGenerated", "AssistantGreetingTTSStarted",
   "AssistantGreetingCompleted", "ConversationReady", "ResponseGenerated",
   "AudioGenerationStarted", "SpeakingStarted", "SpeakingFinished",
   "ConversationInterrupted", "ProcessorExecutionStarted", "ProcessorExecutionCompleted"}

TypeOK ==
  /\ fsm \in Machine
  /\ greeted \in BOOLEAN /\ response \in BOOLEAN /\ emitted \in BOOLEAN
  /\ phase \in Phase
  /\ log \in Seq(EventName)

GreetingEvents ==
  {"AssistantGreetingStarted", "AssistantGreetingGenerated",
   "AssistantGreetingTTSStarted", "AssistantGreetingCompleted", "ConversationReady"}

StageEvents ==
  {"ListeningStarted", "ThinkingStarted", "AudioGenerationStarted", "SpeakingStarted"}

Announcement ==
  [LISTENING        |-> "ListeningStarted",
   GENERATING_AUDIO |-> "AudioGenerationStarted",
   SPEAKING         |-> "SpeakingStarted"]

\* Between two callbacks the machine never rests in a state that only passes
\* through a handler: whatever order frames are seen in, TRANSCRIBING and
\* INTERRUPTED are always left again inside the handler that entered them.
NeverStranded ==
  fsm.current \in {"LISTENING", "THINKING", "GENERATING_RESPONSE",
                   "GENERATING_AUDIO", "SPEAKING", "CLOSED"}

\* The greeting handshake the user interface waits for: ConversationReady is
\* published at most once, right after AssistantGreetingCompleted, exactly when
\* the bridge takes the greeting for complete, and no greeting event follows it
\* even if frames of the greeting are seen again by later processors.
GreetingHandshake ==
  LET Ready == {i \in DOMAIN log : log[i] = "ConversationReady"} IN
  /\ greeted <=> Ready # {}
  /\ \A i \in DOMAIN log : log[i] = "AssistantGreetingCompleted" => i + 1 \in Ready
  /\ \A i \in Ready :
       /\ i > 1 /\ log[i - 1] = "AssistantGreetingCompleted"
       /\ \A j \in DOMAIN log : j > i => log[j] \notin GreetingEvents

\* A user who starts to speak is always listened to, from every state of the
\* turn, and the end of playback hands the turn back unless the next answer is
\* already being thought about or streamed; only a closed call stays closed.
TurnIsHandedBack ==
  [][ /\ UserStartedSpeaking => fsm'.current \in {"LISTENING", "CLOSED"}
      /\ TTSStopped /\ fsm.current \notin {"THINKING", "GENERATING_RESPONSE"}
           => fsm'.current \in {"LISTENING", "CLOSED"} ]_vars

\* The stage a browser was told of last is the stage the call is in, although a
\* refused transition does not keep a handler from publishing: the machine is in
\* LISTENING, GENERATING_AUDIO or SPEAKING only if no event of another stage has
\* been published since that stage was (or, before the first turn, none at all).
\* Not so while an answer is thought about or streamed: a late end of playback is
\* refused there, and ListeningStarted published all the same.
StageIsAnnounced ==
  fsm.current \in DOMAIN Announcement =>
    \/ \E i \in DOMAIN log :
         /\ log[i] = Announcement[fsm.current]
         /\ \A j \in DOMAIN log : j > i => log[j] \notin StageEvents
    \/ fsm.current = "LISTENING" /\ \A j \in DOMAIN log : log[j] \notin StageEvents
=============================================================================
