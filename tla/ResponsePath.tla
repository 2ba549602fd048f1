----------------------------- MODULE ResponsePath -----------------------------
(***************************************************************************)
(* From a turn of the user to the voice and to the end of the call, in the *)
(* order of the processors: the latency filler, the resilient proxy of the *)
(* language model, the tool interceptor, the voice, the call terminator.   *)
(* They share one dictionary (hangup_requested); the filler is also called *)
(* back by the event bus, later than what it is told happened.             *)
(*                                                                         *)
(* A text is intercepted in the step that pushes it: what is slow is the   *)
(* voice. The voice is external: it may end its speech before or after the *)
(* end of the response passes, or fail. Transcriptions are consumed by the *)
(* aggregator above the filler, so the terminator's reset on them is dead. *)
(***************************************************************************)
EXTENDS ServiceProxy

CONSTANT MaxInterrupts   \* bound: interruptions by the user

ASSUME PathAssumption == MaxInterrupts \in Nat

VARIABLES
  heard,       \* whether the aggregator holds a transcript
  count,       \* context frames made, of turns and of tool results
  wait,        \* _wait_task: "none", "waiting", "clip", and the turn it is for
  bus,         \* how many events the filler will still be called with
  opened,      \* _buffer: whether it holds the beginning of a save_lead tag
  hangup,      \* shared_state["hangup_requested"]
  completed,   \* llm_response_completed
  speech,      \* texts and ends of responses on the way to the voice
  voice,       \* whether it speaks
  calls,       \* the tool functions that run: [req, hangup]
  interrupts,  \* how many interruptions there were
  ended,       \* whether a CancelFrame has been queued to the task
  credit,      \* history: requests to hang up less CancelFrames
  over         \* the task has been cancelled

lower == <<opened, hangup, completed, speech, voice, ended, credit>>
filler == <<wait, bus>>
rvars == <<heard, count, filler, lower, calls, interrupts, over>>
vars == <<rvars, pvars>>

NoWait == [phase |-> "none", req |-> 0]
Texts == {"words", "end_tag", "lead_open", "close"}

TypeOK ==
  /\ ProxyTypeOK
  /\ count \in 0..MaxRequests /\ interrupts \in 0..MaxInterrupts
  /\ wait \in [phase : {"none", "waiting", "clip"}, req : 0..MaxRequests]
  /\ bus \in Nat
  /\ speech \in Seq([of : 0..MaxRequests, what : {"words", "end"}])
  /\ calls \subseteq [req : Requests, hangup : BOOLEAN]
  /\ {heard, opened, hangup, completed, voice, ended, over} \subseteq BOOLEAN
  /\ credit \in Int

Init ==
  /\ ProxyInit
  /\ heard = FALSE /\ count = 0 /\ interrupts = 0 /\ calls = {} /\ over = FALSE
  /\ wait = NoWait /\ bus = 0
  /\ opened = FALSE /\ hangup = FALSE /\ completed = FALSE
  /\ speech = <<>> /\ voice = FALSE /\ ended = FALSE /\ credit = 0

-----------------------------------------------------------------------------
(* The recogniser pushes a transcript, which is published as              *)
(* ThinkingStarted; the aggregator keeps it until the turn ends. Further   *)
(* transcripts of the turn publish the same, sooner or later.              *)
Transcript ==
  /\ count < MaxRequests /\ ~heard /\ heard' = TRUE
  /\ bus' = bus + 1
  /\ UNCHANGED <<count, wait, lower, calls, interrupts, over, pvars>>

(* The turn ends: its context frame comes to the filler, which drops it    *)
(* after a request to hang up and otherwise starts its timer anew and      *)
(* passes the frame on. By then the bus may have called the filler about   *)
(* the transcript, or may still do so.                                     *)
UserTurn ==
  /\ count < MaxRequests /\ heard /\ heard' = FALSE
  /\ count' = count + 1
  /\ IF hangup THEN UNCHANGED <<wait, inbox>>
     ELSE /\ wait' = [phase |-> "waiting", req |-> count + 1]
          /\ inbox' = Append(inbox, count + 1)
  /\ UNCHANGED <<bus, lower, calls, interrupts, over>>
  /\ UNCHANGED <<fallback_active, active, backup, task, tokens, errors, own, made, served, gone>>

(* The threshold has passed: the clip starts, whatever the model and the   *)
(* voice do by now: their frames are pushed below the filler, so that it   *)
(* never meets one. The observer publishes the clip's own TTSStartedFrame  *)
(* as SpeakingStarted, like that of an answer.                             *)
\* Mutant: the observer tells the clip from the voice.
TimerFires_Unpublished ==
  /\ wait.phase = "waiting"
  /\ wait' = IF hangup THEN NoWait ELSE [wait EXCEPT !.phase = "clip"]
  /\ UNCHANGED <<bus, heard, count, lower, calls, interrupts, over, pvars>>
TimerFires ==
  /\ wait.phase = "waiting"
  /\ IF hangup THEN wait' = NoWait /\ UNCHANGED bus
     ELSE wait' = [wait EXCEPT !.phase = "clip"] /\ bus' = bus + 1
  /\ UNCHANGED <<heard, count, lower, calls, interrupts, over, pvars>>

(* The bus calls cancel_wait, whatever the event tells of. *)
CancelWait ==
  /\ bus > 0 /\ bus' = bus - 1
  /\ wait' = NoWait
  /\ UNCHANGED <<heard, count, lower, calls, interrupts, over, pvars>>

(* CallTerminationProcessor on a TTSStoppedFrame. *)
\* Mutant: a clip's stop is taken for one of the voice.
Stopped_AnyStop(is_filler) ==
  IF hangup /\ completed
  THEN ended' = TRUE /\ credit' = credit - 1 /\ hangup' = FALSE /\ completed' = FALSE
  ELSE UNCHANGED <<ended, credit, hangup, completed>>
Stopped(is_filler) ==
  IF ~is_filler /\ hangup /\ completed
  THEN ended' = TRUE /\ credit' = credit - 1 /\ hangup' = FALSE /\ completed' = FALSE
  ELSE UNCHANGED <<ended, credit, hangup, completed>>

ClipEnds ==
  /\ wait.phase = "clip"
  /\ wait' = NoWait
  /\ Stopped(TRUE)
  /\ UNCHANGED <<bus, heard, count, opened, speech, voice, calls, interrupts, over, pvars>>

-----------------------------------------------------------------------------
(* ToolInterceptionProcessor. An end_call tag is cut out as soon as it is  *)
(* seen; the text behind the opening of a save_lead tag is kept back until *)
(* the tag closes, or is thrown away at the end of the response. A closing *)
(* bracket alone is text like any other.                                   *)
Intercept(r, what) ==
  /\ opened' = (what = "lead_open" \/ (opened /\ what \notin {"close", "end"}))
  /\ hangup' = (hangup \/ what = "end_tag")
  /\ credit' = IF what = "end_tag" THEN credit + 1 ELSE credit
  /\ speech' = IF what = "end" THEN Append(speech, [of |-> r, what |-> "end"])
               ELSE IF what \in {"words", "close"} /\ ~opened
                    THEN Append(speech, [of |-> r, what |-> "words"]) ELSE speech
  /\ UNCHANGED <<completed, voice, ended>>

Streams(c) ==
  /\ Emit(c)
  /\ \E what \in Texts : Intercept(task[c].req, what)
  /\ UNCHANGED <<heard, count, filler, calls, interrupts, over>>

(* The end of a response is published if it had text. *)
Ends(c) ==
  /\ Intercept(task[c].req, "end")
  /\ bus' = IF task[c].text THEN bus + 1 ELSE bus

(* A response may call a tool, whose result becomes a request of its own. *)
Answers(c) ==
  /\ Finish(c)
  /\ Ends(c)
  /\ \/ UNCHANGED <<count, calls>>
     \/ /\ count < MaxRequests /\ count' = count + 1
        /\ \E h \in BOOLEAN : calls' = calls \cup {[req |-> count + 1, hangup |-> h]}
  /\ UNCHANGED <<heard, wait, interrupts, over>>

(* A service that raises may have pushed the end of the response or not. *)
Breaks(c) ==
  /\ Raises(c)
  /\ Ends(c) \/ UNCHANGED <<lower, bus>>
  /\ UNCHANGED <<heard, count, wait, calls, interrupts, over>>

(* end_call, or a tool that only answers. The result reaches the proxy     *)
(* from below and does not pass the filler.                                *)
Tool(call) ==
  /\ calls' = calls \ {call}
  /\ hangup' = (hangup \/ call.hangup)
  /\ credit' = IF call.hangup THEN credit + 1 ELSE credit
  /\ inbox' = Append(inbox, call.req)
  /\ UNCHANGED <<heard, count, filler, opened, completed, speech, voice, ended, interrupts, over>>
  /\ UNCHANGED <<fallback_active, active, backup, task, tokens, errors, own, made, served, gone>>

(* When the fallback is up, "Connecting to backup engine" is to be spoken. *)
(* A service that is given a request pushes the start of its response,     *)
(* which is published as ThinkingStarted if the conversation was still     *)
(* listening, and not at all otherwise.                                    *)
Proxy ==
  /\ ProxyStep
  /\ speech' = IF backup' = "started" /\ backup # "started"
               THEN Append(speech, [of |-> 0, what |-> "words"]) ELSE speech
  /\ \/ UNCHANGED bus
     \/ /\ \E c \in {"main", "own"} : task[c].step = "idle" /\ task'[c].step = "serving"
        /\ bus' = bus + 1
  /\ UNCHANGED <<heard, count, wait, opened, hangup, completed, voice, ended, credit, calls,
                 interrupts, over>>

(* The voice starts with a text, which is published, or goes on with it. *)
Speak ==
  /\ speech # <<>> /\ Head(speech).what = "words"
  /\ speech' = Tail(speech) /\ voice' = TRUE
  /\ bus' = IF voice THEN bus ELSE bus + 1
  /\ UNCHANGED <<heard, count, wait, opened, hangup, completed, ended, credit, calls,
                 interrupts, over, pvars>>

PassEnd ==
  /\ speech # <<>> /\ Head(speech).what = "end"
  /\ speech' = Tail(speech) /\ completed' = TRUE
  /\ UNCHANGED <<heard, count, filler, opened, hangup, voice, ended, credit, calls, interrupts,
                 over, pvars>>

Silence ==
  /\ voice /\ voice' = FALSE
  /\ Stopped(FALSE)
  /\ UNCHANGED <<heard, count, filler, opened, speech, calls, interrupts, over, pvars>>

(* An error of the voice: no TTSStoppedFrame comes. *)
VoiceFails ==
  /\ voice /\ voice' = FALSE
  /\ UNCHANGED <<heard, count, filler, opened, hangup, completed, speech, ended, credit, calls,
                 interrupts, over, pvars>>

-----------------------------------------------------------------------------
(* The user speaks into the answer: what the proxy does is cancelled, the  *)
(* end of the response may still pass, what is below is dropped. The       *)
(* interceptor keeps its buffer, the filler its timer, the terminator its  *)
(* flag.                                                                   *)
Interrupt ==
  /\ interrupts < MaxInterrupts /\ interrupts' = interrupts + 1
  /\ Interrupted
  /\ opened' \in {opened, FALSE}
  /\ speech' = <<>> /\ voice' = FALSE
  /\ UNCHANGED <<heard, count, filler, hangup, completed, ended, credit, calls, over>>

(* The queued CancelFrame is executed. *)
TaskEnds ==
  /\ ended /\ over' = TRUE
  /\ UNCHANGED <<heard, count, filler, lower, calls, interrupts, pvars>>

Inference(c) == Streams(c) \/ Answers(c) \/ Breaks(c)

Next ==
  /\ ~over
  /\ \/ Transcript \/ UserTurn \/ TimerFires \/ CancelWait \/ ClipEnds
     \/ Speak \/ PassEnd \/ Silence \/ VoiceFails
     \/ Interrupt \/ TaskEnds \/ Proxy
     \/ SideFails /\ UNCHANGED rvars
     \/ \E c \in {"main", "own"} : Inference(c)
     \/ \E call \in calls : Tool(call)

(* The event loop runs the proxy's tasks, and services end their answers   *)
(* or raise, at the latest when they time out.                             *)
Fairness ==
  /\ WF_vars(~over /\ Proxy)
  /\ \A c \in {"main", "own"} : WF_vars(~over /\ Inference(c))

Spec == Init /\ [][Next]_vars
FairSpec == Spec /\ Fairness

-----------------------------------------------------------------------------
(***************************************************************************)
(* Every CancelFrame that ends the call answers a request to hang up of    *)
(* its own, which no other has used, and comes when the voice stops: the   *)
(* stop of a clip never uses a request (DEVLOG.md:881).                    *)
(***************************************************************************)
EachEndWasAsked ==
  [][credit' < credit => credit > 0 /\ voice /\ ~voice' /\ UNCHANGED wait]_vars

(***************************************************************************)
(* While a clip plays, alone or into an answer that has begun, an event    *)
(* that makes the filler cut it is on its way. It is the clip's own if no  *)
(* other: a clip is cut as soon as the bus has caught up.                  *)
(***************************************************************************)
ClipIsCalledOff == wait.phase = "clip" => bus > 0

(***************************************************************************)
(* A request whose service raised is answered all the same, by the other   *)
(* service or by the second attempt of the first, unless an interruption   *)
(* or a second error takes it, the fallback never starts or the call ends. *)
(***************************************************************************)
TurnSurvivesFailover ==
  \A r \in Requests :
    (task["main"].step = "failed" /\ task["main"].req = r)
      ~> (served[r] > 0 \/ r \in gone \/ Dead \/ over)
=============================================================================
