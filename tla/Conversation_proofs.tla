------------------------- MODULE Conversation_proofs -------------------------
(* Theorems of the conversation machine, as a value and on its own, for every *)
(* history, and of the bridge that drives it, for any order of the frames.    *)
EXTENDS EventBridge, SequenceTheorems, TLAPS

(* What one transition does to a machine *)

\* CLOSED is reachable in one step from every other state, and from CLOSED there
\* is no way out (state_machine.py: "CLOSED is reachable from every non-terminal
\* state").
THEOREM CloseAlwaysAllowed ==
  \A s \in ConversationState : CanTransition(s, "CLOSED") <=> s # "CLOSED"
  BY DEF CanTransition, TransitionMap, ConversationState, Stages

\* CLOSED is terminal: every transition out of it is refused.
LEMMA ClosedIsTerminal == \A t : ~CanTransition("CLOSED", t)
  BY DEF CanTransition, TransitionMap, ConversationState, Stages

\* reset() succeeds from ERROR and SPEAKING and from no other state, as its
\* docstring says (state_machine.py: reset).
THEOREM ResetSources ==
  \A s \in ConversationState : CanTransition(s, "IDLE") <=> s \in {"ERROR", "SPEAKING"}
  BY DEF CanTransition, TransitionMap, ConversationState, Stages

\* A machine that moved is the old one with a record appended, or the old one.
LEMMA MovedShape ==
  ASSUME NEW m \in Machine, NEW t \in ConversationState
  PROVE  \/ /\ ~CanTransition(m.current, t)
            /\ Moved(m, t) = m
         \/ /\ CanTransition(m.current, t)
            /\ Moved(m, t) = [current  |-> t,
                              previous |-> m.current,
                              history  |-> Append(m.history, <<m.current, t>>)]
  BY DEF Moved

\* transition_to keeps a machine a machine (its states stay members of the enum).
LEMMA MovedTyped ==
  ASSUME NEW m \in Machine, NEW t \in ConversationState
  PROVE  Moved(m, t) \in Machine
<1>1. <<m.current, t>> \in TransitionRecord
  BY DEF Machine, TransitionRecord
<1>2. Append(m.history, <<m.current, t>>) \in Seq(TransitionRecord)
  BY <1>1 DEF Machine
<1>3. m.current \in ConversationState \cup {NoState}
  BY DEF Machine
<1>4. [current  |-> t,
       previous |-> m.current,
       history  |-> Append(m.history, <<m.current, t>>)] \in Machine
  BY <1>2, <1>3 DEF Machine
<1>5. QED
  BY <1>4, MovedShape

\* transition_to extends the walk by one step from the current state.
LEMMA MovedWalks ==
  ASSUME NEW m \in Machine, NEW t \in ConversationState, Walk(m)
  PROVE  Walk(Moved(m, t))
<1>1. CASE Moved(m, t) = m
  BY <1>1
<1>2. CASE Moved(m, t) = [current  |-> t,
                          previous |-> m.current,
                          history  |-> Append(m.history, <<m.current, t>>)]
  <2> DEFINE h == m.history
             r == <<m.current, t>>
             n == Moved(m, t)
  <2>1. h \in Seq(TransitionRecord) /\ Len(h) \in Nat
    BY DEF Machine
  <2>2. n.history = Append(h, r) /\ n.current = t /\ n.previous = m.current
    BY <1>2
  <2>3. /\ Len(Append(h, r)) = Len(h) + 1
        /\ Append(h, r)[Len(h) + 1] = r
        /\ \A i \in 1 .. Len(h) : Append(h, r)[i] = h[i]
        /\ Append(h, r) # <<>>
    BY <2>1
  <2>4. r[1] = m.current /\ r[2] = t
    OBVIOUS
  <2> HIDE DEF h, r, n
  <2>5. ASSUME NEW i \in 1 .. Len(h)
        PROVE  Append(h, r)[i][2] = Append(h, r)[i + 1][1]
    <3>1. CASE i < Len(h)
      BY <2>1, <2>3, <3>1 DEF Walk, h
    <3>2. CASE i = Len(h)
      <4>1. h # <<>>
        BY <2>1, <3>2
      <4>2. h[Len(h)][2] = m.current
        BY <4>1 DEF Walk, h
      <4>3. QED
        BY <2>1, <2>3, <2>4, <3>2, <4>2
    <3>3. QED
      BY <2>1, <3>1, <3>2
  <2>6. Append(h, r)[1][1] = "IDLE"
    <3>1. CASE h = <<>>
      BY <2>3, <2>4, <3>1 DEF Walk, h
    <3>2. CASE h # <<>>
      BY <2>1, <2>3, <3>2 DEF Walk, h
    <3>3. QED
      BY <3>1, <3>2
  <2>7. Walk(n)
    BY <2>1, <2>2, <2>3, <2>5, <2>6 DEF Walk, r
  <2>8. QED
    BY <2>7 DEF n
<1>3. QED
  BY <1>1, <1>2, MovedShape

\* transition_to never records anything after CLOSED.
LEMMA MovedClosedLast ==
  ASSUME NEW m \in Machine, NEW t \in ConversationState, Walk(m), ClosedLast(m)
  PROVE  ClosedLast(Moved(m, t))
<1>1. CASE Moved(m, t) = m
  BY <1>1
<1>2. CASE /\ CanTransition(m.current, t)
           /\ Moved(m, t) = [current  |-> t,
                             previous |-> m.current,
                             history  |-> Append(m.history, <<m.current, t>>)]
  <2> DEFINE h == m.history
             r == <<m.current, t>>
  <2>1. h \in Seq(TransitionRecord) /\ Len(h) \in Nat
    BY DEF Machine
  <2>2. m.current # "CLOSED"
    BY <1>2, ClosedIsTerminal
  <2>3. \A i \in 1 .. Len(h) : h[i][2] # "CLOSED"
    <3> SUFFICES ASSUME NEW i \in 1 .. Len(h), h[i][2] = "CLOSED" PROVE FALSE
      OBVIOUS
    <3>1. i = Len(h)
      BY <2>1 DEF ClosedLast
    <3>2. h # <<>>
      BY <2>1
    <3>3. h[Len(h)][2] = m.current
      BY <3>2 DEF Walk
    <3>4. QED
      BY <2>2, <3>1, <3>3
  <2>4. QED
    BY <1>2, <2>1, <2>3 DEF ClosedLast
<1>3. QED
  BY <1>1, <1>2, MovedShape

-----------------------------------------------------------------------------
(* ConversationStateMachine *)

\* A step of the machine is one call of transition_to, or no change.
LEMMA StepIsAMove ==
  ASSUME [MachineNext]_fsm
  PROVE  UNCHANGED fsm \/ \E t \in ConversationState : fsm' = Moved(fsm, t)
<1>1. "IDLE" \in ConversationState /\ "CLOSED" \in ConversationState
  BY DEF ConversationState
<1>2. QED
  BY <1>1 DEF MachineNext, TransitionTo, Reset, Close

\* The machine always has a legal state, previous state and history.
THEOREM MachineTypeCorrect == MachineSpec => []MachineTypeOK
<1>1. MachineInit => MachineTypeOK
  BY DEF MachineInit, Fresh, MachineTypeOK, Machine, ConversationState, NoState
<1>2. MachineTypeOK /\ [MachineNext]_fsm => MachineTypeOK'
  BY StepIsAMove, MovedTyped DEF MachineTypeOK
<1>3. QED
  BY <1>1, <1>2, PTL DEF MachineSpec

\* The history of every machine is one unbroken walk from IDLE to the current
\* state: get_previous_state and get_transition_history never disagree.
THEOREM HistoryCorrect == MachineSpec => []HistoryIsAWalk
<1>1. MachineInit => HistoryIsAWalk
  BY DEF MachineInit, Fresh, HistoryIsAWalk, Walk
<1>2. MachineTypeOK /\ HistoryIsAWalk /\ [MachineNext]_fsm => HistoryIsAWalk'
  BY StepIsAMove, MovedWalks DEF MachineTypeOK, HistoryIsAWalk
<1>3. QED
  BY <1>1, <1>2, MachineTypeCorrect, PTL DEF MachineSpec

\* A closed conversation is never reopened: no transition follows CLOSED.
THEOREM ClosedCorrect == MachineSpec => []ClosedIsFinal
<1>1. MachineInit => ClosedIsFinal
  BY DEF MachineInit, Fresh, ClosedIsFinal, ClosedLast
<1>2. MachineTypeOK /\ HistoryIsAWalk /\ ClosedIsFinal /\ [MachineNext]_fsm => ClosedIsFinal'
  BY StepIsAMove, MovedClosedLast DEF MachineTypeOK, HistoryIsAWalk, ClosedIsFinal
<1>3. QED
  BY <1>1, <1>2, MachineTypeCorrect, HistoryCorrect, PTL DEF MachineSpec

-----------------------------------------------------------------------------
\* Where a machine may be that was stopped and has not been LISTENING since: the
\* map leads from there to no stage, except through LISTENING.
Stopped == {"ERROR", "INTERRUPTED", "IDLE", "CLOSED"}

LEMMA StoppedTargets ==
  \A s \in Stopped, t \in ConversationState :
    CanTransition(s, t) => t \in Stopped \cup {"LISTENING"}
  BY DEF Stopped, CanTransition, TransitionMap, ConversationState, Stages

\* A stop that was not followed by LISTENING still holds the machine.
Pending(m, i) ==
  /\ m.history[i][2] \in {"ERROR", "INTERRUPTED"}
  /\ \A k \in i .. Len(m.history) : m.history[k][2] # "LISTENING"
StopsHold(m) == \A i \in DOMAIN m.history : Pending(m, i) => m.current \in Stopped

Resolved(m) ==
  \A i, j \in DOMAIN m.history :
    (i < j /\ m.history[i][2] \in {"ERROR", "INTERRUPTED"} /\ m.history[j][2] \in Stages)
      => \E k \in i .. j : m.history[k][2] = "LISTENING"

\* One transition keeps both: the new record cannot be a stage while a stop holds.
LEMMA MovedResolves ==
  ASSUME NEW m \in Machine, NEW t \in ConversationState, StopsHold(m), Resolved(m)
  PROVE  StopsHold(Moved(m, t)) /\ Resolved(Moved(m, t))
<1>1. CASE Moved(m, t) = m
  BY <1>1
<1>2. CASE /\ CanTransition(m.current, t)
           /\ Moved(m, t) = [current  |-> t,
                             previous |-> m.current,
                             history  |-> Append(m.history, <<m.current, t>>)]
  <2> DEFINE h == m.history
             n == Moved(m, t)
             g == n.history
             L == Len(h)
  <2>1. h \in Seq(TransitionRecord) /\ L \in Nat /\ m.current \in ConversationState
    BY DEF Machine
  <2>2. n.current = t /\ g = Append(h, <<m.current, t>>)
    BY <1>2
  <2>3. /\ DOMAIN h = 1 .. L /\ DOMAIN g = 1 .. L + 1 /\ Len(g) = L + 1
        /\ \A i \in 1 .. L : g[i] = h[i]
        /\ g[L + 1][2] = t
    BY <2>1, <2>2
  <2> HIDE DEF g
  <2>4. ASSUME NEW i \in 1 .. L, h[i][2] \in {"ERROR", "INTERRUPTED"},
               \A k \in i .. L : g[k][2] # "LISTENING"
        PROVE  t \in Stopped \cup {"LISTENING"}
    <3>1. Pending(m, i)
      BY <2>1, <2>3, <2>4 DEF Pending
    <3>2. m.current \in Stopped
      BY <2>3, <3>1 DEF StopsHold
    <3> QED BY <1>2, <3>2, StoppedTargets
  <2>5. StopsHold(n)
    <3> SUFFICES ASSUME NEW i \in DOMAIN g, Pending(n, i) PROVE t \in Stopped
      BY <2>2 DEF StopsHold, g
    <3>1. g[i][2] \in {"ERROR", "INTERRUPTED"} /\ \A k \in i .. L + 1 : g[k][2] # "LISTENING"
      BY <2>3 DEF Pending, g
    <3>2. CASE i = L + 1
      BY <2>3, <3>1, <3>2 DEF Stopped
    <3>3. CASE i # L + 1
      <4>1. i \in 1 .. L
        BY <2>1, <2>3, <3>3
      <4>2. t # "LISTENING"
        BY <2>1, <2>3, <3>1, <4>1
      <4> QED BY <2>1, <2>3, <2>4, <3>1, <4>1, <4>2
    <3> QED BY <3>2, <3>3
  <2>6. Resolved(n)
    <3> SUFFICES ASSUME NEW i \in DOMAIN g, NEW j \in DOMAIN g, i < j,
                        g[i][2] \in {"ERROR", "INTERRUPTED"}, g[j][2] \in Stages
                 PROVE  \E k \in i .. j : g[k][2] = "LISTENING"
      BY DEF Resolved, g
    <3>1. i \in 1 .. L /\ g[i] = h[i]
      BY <2>1, <2>3
    <3>2. CASE j = L + 1
      <4> SUFFICES ASSUME \A k \in i .. j : g[k][2] # "LISTENING" PROVE FALSE
        OBVIOUS
      <4>1. t \in Stopped \cup {"LISTENING"}
        BY <2>1, <2>4, <3>1, <3>2
      <4> QED BY <2>3, <3>2, <4>1 DEF Stopped, Stages
    <3>3. CASE j # L + 1
      <4>1. j \in 1 .. L /\ g[j] = h[j]
        BY <2>1, <2>3, <3>3
      <4>2. PICK k \in i .. j : h[k][2] = "LISTENING"
        BY <2>3, <3>1, <4>1 DEF Resolved
      <4>3. g[k] = h[k]
        BY <2>1, <2>3, <3>1, <4>1
      <4> QED BY <4>2, <4>3
    <3> QED BY <3>2, <3>3
  <2> QED BY <2>5, <2>6
<1> QED BY <1>1, <1>2, MovedShape

\* After an error or an interruption no stage is entered before LISTENING, in a
\* history of any length.
THEOREM StopsCorrect == MachineSpec => []StopsAreResolved
<1> DEFINE Held == StopsHold(fsm) /\ Resolved(fsm)
<1>1. MachineInit => Held
  BY DEF MachineInit, Fresh, StopsHold, Resolved
<1>2. MachineTypeOK /\ Held /\ [MachineNext]_fsm => Held'
  BY StepIsAMove, MovedResolves DEF MachineTypeOK
<1>3. Held => StopsAreResolved
  BY DEF Resolved, StopsAreResolved
<1> QED
  <2> HIDE DEF Held
  <2> QED BY <1>1, <1>2, <1>3, MachineTypeCorrect, PTL DEF MachineSpec

-----------------------------------------------------------------------------
(* The bridge *)

Resting == {"LISTENING", "THINKING", "GENERATING_RESPONSE",
            "GENERATING_AUDIO", "SPEAKING", "CLOSED"}

\* What the handlers need of the transition map.
LEMMA MapFacts ==
  /\ \A s \in Resting \ {"CLOSED"} : CanTransition(s, "INTERRUPTED")
  /\ CanTransition("INTERRUPTED", "LISTENING")
  /\ CanTransition("TRANSCRIBING", "THINKING")
  /\ CanTransition("SPEAKING", "LISTENING")
  /\ CanTransition("GENERATING_AUDIO", "LISTENING")
  /\ CanTransition("IDLE", "LISTENING")
  BY DEF Resting, CanTransition, TransitionMap, ConversationState, Stages

\* The state of the machine after one attempted transition.
LEMMA GoState ==
  ASSUME NEW m, NEW t
  PROVE  Go(m, t).current = IF CanTransition(m.current, t) THEN t ELSE m.current
  BY DEF Go, Moved

\* A handler only ever moves the machine through transition_to, so an attempted
\* transition keeps it a machine with an unbroken history.
Sound(m) == m \in Machine /\ Walk(m) /\ ClosedLast(m)

SoundNow == Sound(fsm)

LEMMA GoSound ==
  ASSUME NEW m, Sound(m), NEW t \in ConversationState
  PROVE  Sound(Go(m, t))
<1>1. CASE m.current = t
  BY <1>1 DEF Go
<1>2. CASE m.current # t
  BY <1>2, MovedTyped, MovedWalks, MovedClosedLast DEF Go, Sound
<1>3. QED
  BY <1>1, <1>2

-----------------------------------------------------------------------------
\* Every step leaves the machine alone or moves it by the attempts of one handler.
Handled(m) ==
  {m, Go(m, "LISTENING"), Go(m, "CLOSED"), Moved(m, "CLOSED"), Go(m, "SPEAKING"),
   Go(m, "GENERATING_AUDIO"), Go(m, "GENERATING_RESPONSE"),
   Go(Go(m, "THINKING"), "GENERATING_RESPONSE"),
   Go(Go(m, "TRANSCRIBING"), "THINKING"),
   Go(Go(m, "INTERRUPTED"), "LISTENING")}

LEMMA StepHandled == [Next]_vars => fsm' \in Handled(fsm)
<1> SUFFICES ASSUME [Next]_vars PROVE fsm' \in Handled(fsm)
  OBVIOUS
<1> USE DEF Handled
<1>1. CASE Frame
  BY <1>1 DEF Frame, UserStartedSpeaking, Transcription, LLMFullResponseStart, LLMText,
     LLMFullResponseEnd, TTSStarted, TTSStopped, OnUserInterrupted, OnTranscriptReady,
     OnLLMResponseStarted, OnLLMResponseReady, OnAudioStarted, OnAudioFinished
<1>2. CASE BuildFails \/ Run \/ RunMock \/ OnProcessorStarted \/ OnProcessorCompleted
  BY <1>2 DEF BuildFails, Run, RunMock, OnProcessorStarted, OnProcessorCompleted,
     OnPipelineStarted, OnPipelineFailed
<1>3. CASE MockEnds \/ RunFails \/ RunReturns \/ CloseSession
  BY <1>3 DEF MockEnds, RunFails, RunReturns, CloseSession, OnPipelineCompleted, OnPipelineFailed
<1>4. CASE UNCHANGED vars
  BY <1>4 DEF vars
<1>5. QED
  BY <1>1, <1>2, <1>3, <1>4 DEF Next

\* Whatever the frames, late ones and the second close included, what the bridge
\* drives stays a machine with an unbroken history.
LEMMA MachineStaysSound == Spec => []SoundNow
<1> USE DEF SoundNow
<1>1. Init => SoundNow
  <2>1. Sound(Fresh)
    BY DEF Sound, Fresh, Machine, ConversationState, NoState, Walk, ClosedLast
  <2>2. "LISTENING" \in ConversationState
    BY DEF ConversationState
  <2>3. QED
    BY <2>1, <2>2, MovedTyped, MovedWalks, MovedClosedLast DEF Init, Sound
<1>2. SoundNow /\ [Next]_vars => SoundNow'
  <2> SUFFICES ASSUME Sound(fsm), fsm' \in Handled(fsm) PROVE Sound(fsm')
    BY StepHandled
  <2>1. {"LISTENING", "CLOSED", "SPEAKING", "GENERATING_AUDIO", "GENERATING_RESPONSE",
         "THINKING", "TRANSCRIBING", "INTERRUPTED"} \subseteq ConversationState
    BY DEF ConversationState
  <2>2. \A t \in ConversationState : Sound(Go(fsm, t))
    BY GoSound
  <2>3. \A t, u \in ConversationState : Sound(Go(Go(fsm, t), u))
    BY <2>2, GoSound
  <2>4. Sound(Moved(fsm, "CLOSED"))
    BY <2>1, MovedTyped, MovedWalks, MovedClosedLast DEF Sound
  <2>5. QED
    BY <2>1, <2>2, <2>3, <2>4 DEF Handled
<1>3. QED
  <2> HIDE DEF SoundNow
  <2>1. QED
    BY <1>1, <1>2, PTL DEF Spec

\* However the frames of a turn interleave, the machine never rests in a state
\* that only passes through a handler.
THEOREM NeverStrandedCorrect == Spec => []NeverStranded
<1> USE DEF NeverStranded
<1>1. Init => NeverStranded
  BY MapFacts DEF Init, Fresh, Moved
<1>2. NeverStranded /\ [Next]_vars => NeverStranded'
  <2> SUFFICES ASSUME NeverStranded, fsm' \in Handled(fsm) PROVE NeverStranded'
    BY StepHandled
  <2>1. CASE fsm' = Go(Go(fsm, "INTERRUPTED"), "LISTENING")
    <3>1. CASE fsm.current = "CLOSED"
      BY <2>1, <3>1, ClosedIsTerminal, GoState
    <3>2. CASE fsm.current # "CLOSED"
      BY <2>1, <3>2, MapFacts, GoState DEF Resting
    <3>3. QED
      BY <3>1, <3>2
  <2>2. CASE fsm' = Go(Go(fsm, "TRANSCRIBING"), "THINKING")
    BY <2>2, MapFacts, GoState
  <2>3. CASE fsm' = Go(Go(fsm, "THINKING"), "GENERATING_RESPONSE")
    BY <2>3, GoState
  <2>4. CASE fsm' \in {fsm, Go(fsm, "LISTENING"), Go(fsm, "CLOSED"), Go(fsm, "SPEAKING"),
                       Go(fsm, "GENERATING_AUDIO"), Go(fsm, "GENERATING_RESPONSE")}
    BY <2>4, GoState
  <2>5. CASE fsm' = Moved(fsm, "CLOSED")
    BY <2>5 DEF Moved
  <2>6. QED
    BY <2>1, <2>2, <2>3, <2>4, <2>5 DEF Handled
<1>3. QED
  BY <1>1, <1>2, PTL DEF Spec

\* A user who starts to speak is always listened to, and the end of playback
\* hands the turn back unless an answer is being thought about or streamed.
THEOREM TurnHandedBack == Spec => TurnIsHandedBack
<1> DEFINE Handed ==
      /\ UserStartedSpeaking => fsm'.current \in {"LISTENING", "CLOSED"}
      /\ TTSStopped /\ fsm.current \notin {"THINKING", "GENERATING_RESPONSE"}
           => fsm'.current \in {"LISTENING", "CLOSED"}
<1>1. NeverStranded /\ [Next]_vars => [Handed]_vars
  <2>1. ASSUME NeverStranded, UserStartedSpeaking
        PROVE  fsm'.current \in {"LISTENING", "CLOSED"}
    <3>1. fsm' = Go(Go(fsm, "INTERRUPTED"), "LISTENING")
      BY <2>1 DEF UserStartedSpeaking, OnUserInterrupted
    <3>2. CASE fsm.current = "CLOSED"
      BY <3>1, <3>2, ClosedIsTerminal, GoState
    <3>3. CASE fsm.current # "CLOSED"
      BY <2>1, <3>1, <3>3, MapFacts, GoState DEF Resting, NeverStranded
    <3>4. QED
      BY <3>2, <3>3
  <2>2. ASSUME NeverStranded, TTSStopped, fsm.current \notin {"THINKING", "GENERATING_RESPONSE"}
        PROVE  fsm'.current \in {"LISTENING", "CLOSED"}
    <3>1. fsm' = Go(fsm, "LISTENING")
      BY <2>2 DEF TTSStopped, OnAudioFinished
    <3>2. QED
      BY <2>2, <3>1, MapFacts, GoState DEF NeverStranded
  <2>3. QED
    BY <2>1, <2>2
<1>2. QED
  BY <1>1, NeverStrandedCorrect, PTL DEF Spec, TurnIsHandedBack

-----------------------------------------------------------------------------
(* The greeting handshake. *)

Handshake == {"AssistantGreetingCompleted", "ConversationReady"}

\* No step greets before the run has begun; the log holds names of events.
GreetingInv ==
  /\ log \in Seq(EventName) /\ greeted \in BOOLEAN
  /\ phase = "built" => ~greeted
  /\ GreetingHandshake

\* Publishing keeps the handshake as long as the events published are no part of
\* it and, once it is over, of no greeting.
LEMMA PublishedAside ==
  ASSUME GreetingInv, NEW events \in Seq(EventName \ Handshake),
         greeted => events \in Seq(EventName \ GreetingEvents),
         log' = log \o events, greeted' = greeted
  PROVE  log' \in Seq(EventName) /\ GreetingHandshake'
<1> DEFINE L == Len(log)
<1>1. /\ log \in Seq(EventName) /\ L \in Nat /\ Len(events) \in Nat
      /\ events \in Seq(EventName)
  BY DEF GreetingInv, EventName
<1>2. /\ log' \in Seq(EventName) /\ DOMAIN log = 1 .. L /\ DOMAIN log' = 1 .. L + Len(events)
      /\ \A i \in 1 .. L : log'[i] = log[i]
  BY <1>1
<1>3. \A i \in DOMAIN log' : i \notin 1 .. L => log'[i] \notin Handshake
  BY <1>1
<1>4. ASSUME greeted PROVE \A i \in DOMAIN log' : i \notin 1 .. L => log'[i] \notin GreetingEvents
  BY <1>1, <1>4
<1> QED BY <1>1, <1>2, <1>3, <1>4 DEF GreetingInv, GreetingHandshake, Handshake

\* What is published follows what was.
LEMMA Appended ==
  ASSUME NEW S, NEW old \in Seq(S), NEW more \in Seq(S), Len(more) = 4
  PROVE  /\ old \o more \in Seq(S) /\ DOMAIN (old \o more) = 1 .. Len(old) + 4
         /\ \A i \in 1 .. Len(old) : (old \o more)[i] = old[i]
         /\ \A k \in 1 .. 4 : (old \o more)[Len(old) + k] = more[k]
<1>1. Len(old) \in Nat /\ old \o more \in Seq(S)
  OBVIOUS
<1>2. /\ Len(old \o more) = Len(old) + 4
      /\ \A i \in 1 .. Len(old) + 4 : (old \o more)[i] =
           IF i <= Len(old) THEN old[i] ELSE more[i - Len(old)]
  <2>1. /\ Len(old \o more) = Len(old) + Len(more)
        /\ \A i \in 1 .. Len(old) + Len(more) : (old \o more)[i] =
             IF i <= Len(old) THEN old[i] ELSE more[i - Len(old)]
    BY ConcatProperties, Zenon
  <2> QED BY <2>1, Len(more) = 4, Zenon
<1>3. DOMAIN (old \o more) = 1 .. Len(old) + 4
  BY <1>1, <1>2
<1>4. \A i \in 1 .. Len(old) : (old \o more)[i] = old[i]
  OBVIOUS
<1>5. ASSUME NEW k \in 1 .. 4 PROVE (old \o more)[Len(old) + k] = more[k]
  <2>1. Len(old) + k \in 1 .. Len(old) + 4 /\ ~(Len(old) + k <= Len(old))
        /\ (Len(old) + k) - Len(old) = k
    BY <1>1
  <2> QED BY <1>2, <2>1
<1> QED BY <1>1, <1>3, <1>4, <1>5

\* The first end of playback is the handshake; a later one is an ordinary one.
LEMMA FinishedGreets ==
  ASSUME GreetingInv, OnAudioFinished
  PROVE  log' \in Seq(EventName) /\ GreetingHandshake'
<1>1. CASE greeted
  <2> DEFINE events == <<"SpeakingFinished">> \o <<>> \o <<"ListeningStarted">>
  <2>1. log' = log \o events /\ greeted' = greeted
    BY <1>1 DEF OnAudioFinished, Publish, Unless, GreetingInv
  <2>2. events \in Seq(EventName \ Handshake) /\ events \in Seq(EventName \ GreetingEvents)
    BY DEF EventName, Handshake, GreetingEvents
  <2> QED BY <2>1, <2>2, PublishedAside
<1>2. CASE ~greeted
  <2> DEFINE L == Len(log)
             events == <<"SpeakingFinished">>
                         \o <<"AssistantGreetingCompleted", "ConversationReady">>
                         \o <<"ListeningStarted">>
  <2>1. log' = log \o events /\ greeted' = TRUE
    BY <1>2 DEF OnAudioFinished, Publish, Unless
  <2>2. log \in Seq(EventName) /\ L \in Nat /\ DOMAIN log = 1 .. L
    BY DEF GreetingInv, EventName
  <2>3. \A i \in 1 .. L : log[i] \notin Handshake
    BY <1>2, <2>2 DEF GreetingInv, GreetingHandshake, Handshake
  <2>4. /\ events \in Seq(EventName) /\ Len(events) = 4
        /\ events[1] = "SpeakingFinished" /\ events[2] = "AssistantGreetingCompleted"
        /\ events[3] = "ConversationReady" /\ events[4] = "ListeningStarted"
    BY DEF EventName
  <2> HIDE DEF L, events
  <2>5. /\ log' \in Seq(EventName) /\ DOMAIN log' = 1 .. L + 4
        /\ \A i \in 1 .. L : log'[i] = log[i]
        /\ log'[L + 1] = "SpeakingFinished"
        /\ log'[L + 2] = "AssistantGreetingCompleted"
        /\ log'[L + 3] = "ConversationReady"
        /\ log'[L + 4] = "ListeningStarted"
    <3>1. /\ log' \in Seq(EventName) /\ DOMAIN log' = 1 .. Len(log) + 4
          /\ \A i \in 1 .. Len(log) : log'[i] = log[i]
          /\ \A k \in 1 .. 4 : log'[Len(log) + k] = events[k]
      BY <2>1, <2>2, <2>4, Appended
    <3>2. 1 \in 1 .. 4 /\ 2 \in 1 .. 4 /\ 3 \in 1 .. 4 /\ 4 \in 1 .. 4
      OBVIOUS
    <3> QED BY <2>4, <3>1, <3>2 DEF L
  <2>6. \A i \in DOMAIN log' : i \in 1 .. L \/ i = L + 1 \/ i = L + 2 \/ i = L + 3 \/ i = L + 4
    BY <2>2, <2>5
  <2>7. {i \in DOMAIN log' : log'[i] = "ConversationReady"} = {L + 3}
    BY <2>2, <2>3, <2>5, <2>6 DEF Handshake
  <2>8. \A i \in DOMAIN log' : log'[i] = "AssistantGreetingCompleted" => i = L + 2
    BY <2>2, <2>3, <2>5, <2>6 DEF Handshake
  <2>9. \A j \in DOMAIN log' : j > L + 3 => log'[j] \notin GreetingEvents
    BY <2>2, <2>5, <2>6 DEF GreetingEvents
  <2>10. L + 3 > 1 /\ (L + 3) - 1 = L + 2 /\ (L + 2) + 1 = L + 3
    BY <2>2
  <2> QED BY <2>1, <2>5, <2>7, <2>8, <2>9, <2>10 DEF GreetingHandshake
<1> QED BY <1>1, <1>2

\* What every other callback publishes is no part of the handshake and, once the
\* greeting is complete, of no greeting.
LEMMA OthersPublish ==
  ASSUME GreetingInv, [Next]_vars, ~TTSStopped
  PROVE  /\ greeted' = greeted
         /\ \E events \in Seq(EventName \ Handshake) :
              /\ log' = log \o events
              /\ greeted => events \in Seq(EventName \ GreetingEvents)
<1> DEFINE Aside(events) ==
             /\ greeted' = greeted
             /\ events \in Seq(EventName \ Handshake)
             /\ log' = log \o events
             /\ greeted => events \in Seq(EventName \ GreetingEvents)
<1> USE DEF Publish, Unless, EventName, Handshake, GreetingEvents
<1> SUFFICES \E events : Aside(events)
  OBVIOUS
<1>0. ASSUME UNCHANGED <<greeted, log>> PROVE Aside(<<>>)
  BY <1>0 DEF GreetingInv
<1>1. ASSUME OnUserInterrupted PROVE Aside(<<"ConversationInterrupted", "ListeningStarted">>)
  BY <1>1 DEF OnUserInterrupted
<1>2. ASSUME OnTranscriptReady PROVE Aside(<<"TranscriptReady", "ThinkingStarted">>)
  BY <1>2 DEF OnTranscriptReady
<1>3. ASSUME OnLLMResponseStarted PROVE \E events : Aside(events)
  <2>1. CASE fsm.current = "LISTENING"
    <3>1. Aside(<<"ThinkingStarted">>) BY <1>3, <2>1 DEF OnLLMResponseStarted
    <3> QED BY <3>1
  <2>2. CASE fsm.current # "LISTENING"
    <3>1. Aside(<<>>) BY <1>3, <2>2 DEF OnLLMResponseStarted
    <3> QED BY <3>1
  <2> QED BY <2>1, <2>2
<1>4. ASSUME OnLLMResponseReady PROVE \E events : Aside(events)
  <2>1. CASE greeted
    <3>1. Aside(<<>> \o <<"ResponseGenerated", "AudioGenerationStarted">>)
      BY <1>4, <2>1 DEF OnLLMResponseReady
    <3> QED BY <3>1
  <2>2. CASE ~greeted
    <3>1. Aside(<<"AssistantGreetingGenerated">> \o <<"ResponseGenerated", "AudioGenerationStarted">>)
      BY <1>4, <2>2 DEF OnLLMResponseReady
    <3> QED BY <3>1
  <2> QED BY <2>1, <2>2
<1>5. ASSUME OnAudioStarted PROVE \E events : Aside(events)
  <2>1. CASE greeted
    <3>1. Aside(<<>> \o <<"SpeakingStarted">>) BY <1>5, <2>1 DEF OnAudioStarted
    <3> QED BY <3>1
  <2>2. CASE ~greeted
    <3>1. Aside(<<"AssistantGreetingTTSStarted">> \o <<"SpeakingStarted">>)
      BY <1>5, <2>2 DEF OnAudioStarted
    <3> QED BY <3>1
  <2> QED BY <2>1, <2>2
<1>6. ASSUME OnPipelineFailed PROVE Aside(<<"PipelineFailed">>)
  BY <1>6 DEF OnPipelineFailed
<1>7. ASSUME OnPipelineCompleted PROVE Aside(<<"PipelineCompleted", "ConversationEnded">>)
  BY <1>7 DEF OnPipelineCompleted
<1>8. ASSUME Run PROVE \E events : Aside(events)
  <2>1. ~greeted BY <1>8 DEF Run, Phases, GreetingInv
  <2>2. CASE GreetingEnabled
    <3>1. Aside(<<"AssistantGreetingStarted">>) BY <1>8, <2>1, <2>2 DEF Run, Greeting
    <3> QED BY <3>1
  <2>3. CASE ~GreetingEnabled
    <3>1. Aside(<<>>) BY <1>8, <2>1, <2>3 DEF Run, Greeting
    <3> QED BY <3>1
  <2> QED BY <2>2, <2>3
<1>9. ASSUME RunMock PROVE \E events : Aside(events)
  <2>1. ~greeted BY <1>9 DEF RunMock, Phases, GreetingInv
  <2> DEFINE begun == <<"PipelineStarted", "ConversationStarted", "ListeningStarted">>
  <2>2. CASE GreetingEnabled
    <3>1. Aside(begun \o <<"AssistantGreetingStarted">>)
      BY <1>9, <2>1, <2>2 DEF RunMock, OnPipelineStarted, Greeting
    <3> QED BY <3>1
  <2>3. CASE ~GreetingEnabled
    <3>1. Aside(begun \o <<>>) BY <1>9, <2>1, <2>3 DEF RunMock, OnPipelineStarted, Greeting
    <3> QED BY <3>1
  <2> QED BY <2>2, <2>3
<1>10. ASSUME OnProcessorStarted PROVE Aside(<<"ProcessorExecutionStarted">>)
  BY <1>10 DEF OnProcessorStarted
<1>11. ASSUME OnProcessorCompleted PROVE Aside(<<"ProcessorExecutionCompleted">>)
  BY <1>11 DEF OnProcessorCompleted
<1>12. ASSUME LLMText \/ RunReturns \/ CloseSession \/ UNCHANGED vars
       PROVE  UNCHANGED <<greeted, log>>
  BY <1>12 DEF LLMText, RunReturns, CloseSession, vars
<1> HIDE DEF Aside
<1> QED
  BY <1>0, <1>1, <1>2, <1>3, <1>4, <1>5, <1>6, <1>7, <1>8, <1>9, <1>10, <1>11, <1>12
     DEF Next, Frame, UserStartedSpeaking, Transcription, LLMFullResponseStart,
         LLMFullResponseEnd, TTSStarted, BuildFails, MockEnds, RunFails

\* The run never returns to its beginning, where nothing was greeted yet.
LEMMA GreetsAfterTheStart ==
  ASSUME GreetingInv, [Next]_vars
  PROVE  greeted' \in BOOLEAN /\ (phase' = "built" => ~greeted')
<1>1. CASE TTSStopped
  BY <1>1 DEF TTSStopped, Observing, OnAudioFinished
<1>2. CASE ~TTSStopped
  <2>1. greeted' = greeted BY <1>2, OthersPublish
  <2>2. phase' = "built" => phase = "built"
    BY DEF Next, Frame, UserStartedSpeaking, Transcription, LLMFullResponseStart, LLMText,
           LLMFullResponseEnd, TTSStarted, TTSStopped, Observing, Phases, BuildFails, Run,
           RunMock, OnProcessorStarted, OnProcessorCompleted, MockEnds, RunFails, RunReturns,
           CloseSession, vars
  <2> QED BY <2>1, <2>2 DEF GreetingInv
<1> QED BY <1>1, <1>2

LEMMA GreetingInvariance == Spec => []GreetingInv
<1>1. Init => GreetingInv
  <2> SUFFICES ASSUME Init PROVE GreetingInv
    OBVIOUS
  <2>1. log \in Seq(EventName) /\ DOMAIN log = {} /\ greeted = FALSE
    BY DEF Init, EventName
  <2>2. GreetingHandshake
    BY <2>1 DEF GreetingHandshake
  <2> QED BY <2>1, <2>2 DEF GreetingInv
<1>2. GreetingInv /\ [Next]_vars => GreetingInv'
  <2> SUFFICES ASSUME GreetingInv, [Next]_vars PROVE GreetingInv'
    OBVIOUS
  <2>1. log' \in Seq(EventName) /\ GreetingHandshake'
    <3>1. CASE TTSStopped
      BY <3>1, FinishedGreets DEF TTSStopped
    <3>2. CASE ~TTSStopped
      BY <3>2, OthersPublish, PublishedAside
    <3> QED BY <3>1, <3>2
  <2> QED BY <2>1, GreetsAfterTheStart DEF GreetingInv
<1> QED BY <1>1, <1>2, PTL DEF Spec

\* ConversationReady comes once, right after AssistantGreetingCompleted, exactly
\* when the bridge takes the greeting for complete, and no greeting event follows,
\* however often later processors repeat the greeting's frames.
THEOREM GreetingHandshakeCorrect == Spec => []GreetingHandshake
<1>1. GreetingInv => GreetingHandshake
  BY DEF GreetingInv
<1> QED BY <1>1, GreetingInvariance, PTL

-----------------------------------------------------------------------------
(* What the browsers were told of last. *)

\* The last stage announced in a log is e; no stage was announced.
LastStage(l, e) ==
  \E i \in DOMAIN l : l[i] = e /\ \A j \in DOMAIN l : j > i => l[j] \notin StageEvents
NoStage(l) == \A j \in DOMAIN l : l[j] \notin StageEvents

\* What is published without a stage leaves the last one as it was.
LEMMA StageKept ==
  ASSUME NEW old \in Seq(EventName), NEW more \in Seq(EventName \ StageEvents)
  PROVE  /\ \A e : LastStage(old, e) => LastStage(old \o more, e)
         /\ NoStage(old) => NoStage(old \o more)
<1>1. /\ Len(old) \in Nat /\ Len(more) \in Nat /\ DOMAIN old = 1 .. Len(old)
      /\ more \in Seq(EventName)
  BY DEF EventName
<1>2. /\ DOMAIN (old \o more) = 1 .. Len(old) + Len(more)
      /\ \A i \in 1 .. Len(old) : (old \o more)[i] = old[i]
      /\ \A i \in DOMAIN (old \o more) : i \notin 1 .. Len(old) => (old \o more)[i] \notin StageEvents
  BY <1>1
<1>3. ASSUME NEW e, LastStage(old, e) PROVE LastStage(old \o more, e)
  <2>1. PICK i \in DOMAIN old :
          old[i] = e /\ \A j \in DOMAIN old : j > i => old[j] \notin StageEvents
    BY <1>3 DEF LastStage
  <2>2. i \in DOMAIN (old \o more) /\ (old \o more)[i] = e
    BY <1>1, <1>2, <2>1
  <2>3. \A j \in DOMAIN (old \o more) : j > i => (old \o more)[j] \notin StageEvents
    BY <1>1, <1>2, <2>1
  <2> QED BY <2>2, <2>3 DEF LastStage
<1>4. NoStage(old) => NoStage(old \o more)
  BY <1>1, <1>2 DEF NoStage
<1> QED BY <1>3, <1>4

\* A stage that is published is the last one from then on.
LEMMA StageSet ==
  ASSUME NEW old \in Seq(EventName), NEW more \in Seq(EventName), NEW e, LastStage(more, e)
  PROVE  LastStage(old \o more, e)
<1>1. /\ Len(old) \in Nat /\ Len(more) \in Nat /\ DOMAIN more = 1 .. Len(more)
      /\ DOMAIN (old \o more) = 1 .. Len(old) + Len(more)
  OBVIOUS
<1>2. PICK k \in DOMAIN more :
        more[k] = e /\ \A j \in DOMAIN more : j > k => more[j] \notin StageEvents
  BY DEF LastStage
<1>3. \A j \in 1 .. Len(more) : (old \o more)[Len(old) + j] = more[j]
  OBVIOUS
<1>4. Len(old) + k \in DOMAIN (old \o more) /\ (old \o more)[Len(old) + k] = e
  BY <1>1, <1>2, <1>3
<1>5. ASSUME NEW j \in DOMAIN (old \o more), j > Len(old) + k
      PROVE  (old \o more)[j] \notin StageEvents
  <2>1. j - Len(old) \in 1 .. Len(more) /\ j - Len(old) > k /\ Len(old) + (j - Len(old)) = j
    BY <1>1, <1>2, <1>5
  <2> QED BY <1>1, <1>2, <1>3, <2>1
<1> QED BY <1>4, <1>5 DEF LastStage

\* The machine rests in a stage that is announced, or one that no browser is told.
Announced(m, l) ==
  m.current \in DOMAIN Announcement =>
    LastStage(l, Announcement[m.current]) \/ (m.current = "LISTENING" /\ NoStage(l))

\* A handler whose last announcement is that of the stage it moves to.
LEMMA MovesAndAnnounces ==
  ASSUME Announced(fsm, log), log \in Seq(EventName),
         NEW s \in DOMAIN Announcement, NEW more \in Seq(EventName),
         LastStage(more, Announcement[s]),
         fsm'.current = s \/ fsm'.current \notin DOMAIN Announcement, log' = log \o more
  PROVE  Announced(fsm', log')
  BY StageSet DEF Announced

\* A step that announces no stage and stays in one or leaves for an unannounced one.
LEMMA StaysAnnounced ==
  ASSUME Announced(fsm, log), log \in Seq(EventName),
         NEW more \in Seq(EventName \ StageEvents), log' = log \o more,
         fsm'.current = fsm.current \/ fsm'.current \notin DOMAIN Announcement
  PROVE  Announced(fsm', log')
  BY StageKept DEF Announced

\* What the stages need of the transition map.
LEMMA StageFacts ==
  /\ Resting = {"LISTENING", "THINKING", "GENERATING_RESPONSE", "GENERATING_AUDIO", "SPEAKING", "CLOSED"}
  /\ \A s \in Resting \ {"CLOSED"} : CanTransition(s, "TRANSCRIBING") /\ CanTransition(s, "CLOSED")
  /\ \A t : ~CanTransition("CLOSED", t)
  /\ CanTransition("GENERATING_AUDIO", "LISTENING") /\ CanTransition("SPEAKING", "LISTENING")
  /\ \A s \in {"LISTENING", "THINKING", "GENERATING_RESPONSE", "SPEAKING"} :
       CanTransition(s, "GENERATING_AUDIO")
  /\ \A s \in {"LISTENING", "GENERATING_RESPONSE", "GENERATING_AUDIO"} : CanTransition(s, "SPEAKING")
  /\ CanTransition("LISTENING", "THINKING") /\ CanTransition("THINKING", "GENERATING_RESPONSE")
<1>1. /\ \A s \in Resting \ {"CLOSED"} : CanTransition(s, "TRANSCRIBING") /\ CanTransition(s, "CLOSED")
      /\ CanTransition("LISTENING", "THINKING") /\ CanTransition("THINKING", "GENERATING_RESPONSE")
  BY DEF Resting, CanTransition, TransitionMap, ConversationState, Stages
<1>2. /\ \A s \in {"LISTENING", "THINKING", "GENERATING_RESPONSE", "SPEAKING"} :
           CanTransition(s, "GENERATING_AUDIO")
      /\ \A s \in {"LISTENING", "GENERATING_RESPONSE", "GENERATING_AUDIO"} :
           CanTransition(s, "SPEAKING")
  BY DEF CanTransition, TransitionMap, ConversationState, Stages
<1> QED BY <1>1, <1>2, MapFacts, ClosedIsTerminal DEF Resting

\* Where each handler's attempts lead from a state the machine can rest in.
LEMMA WhereTheyLead ==
  ASSUME NEW m, m.current \in Resting
  PROVE  /\ Go(m, "LISTENING").current \in {"LISTENING", "THINKING", "GENERATING_RESPONSE", "CLOSED"}
         /\ Go(m, "GENERATING_AUDIO").current \in {"GENERATING_AUDIO", "CLOSED"}
         /\ Go(m, "SPEAKING").current \in {"SPEAKING", "THINKING", "CLOSED"}
         /\ Go(m, "CLOSED").current = "CLOSED" /\ Moved(m, "CLOSED").current = "CLOSED"
         /\ Go(Go(m, "TRANSCRIBING"), "THINKING").current \in {"THINKING", "CLOSED"}
         /\ Go(Go(m, "INTERRUPTED"), "LISTENING").current \in {"LISTENING", "CLOSED"}
         /\ m.current = "LISTENING" =>
              Go(Go(m, "THINKING"), "GENERATING_RESPONSE").current = "GENERATING_RESPONSE"
         /\ Go(m, "GENERATING_RESPONSE").current \in {m.current, "GENERATING_RESPONSE"}
<1>1. /\ Go(m, "LISTENING").current \in {"LISTENING", "THINKING", "GENERATING_RESPONSE", "CLOSED"}
      /\ Go(m, "GENERATING_AUDIO").current \in {"GENERATING_AUDIO", "CLOSED"}
      /\ Go(m, "SPEAKING").current \in {"SPEAKING", "THINKING", "CLOSED"}
      /\ Go(m, "CLOSED").current = "CLOSED"
      /\ Go(m, "GENERATING_RESPONSE").current \in {m.current, "GENERATING_RESPONSE"}
  BY StageFacts, GoState
<1>2. Moved(m, "CLOSED").current = "CLOSED"
  BY StageFacts DEF Moved
<1>3. Go(Go(m, "TRANSCRIBING"), "THINKING").current \in {"THINKING", "CLOSED"}
  <2>1. Go(m, "TRANSCRIBING").current \in {"TRANSCRIBING", "CLOSED"}
    BY StageFacts, GoState
  <2> QED BY <2>1, StageFacts, MapFacts, GoState
<1>4. Go(Go(m, "INTERRUPTED"), "LISTENING").current \in {"LISTENING", "CLOSED"}
  <2>1. Go(m, "INTERRUPTED").current \in {"INTERRUPTED", "CLOSED"}
    BY StageFacts, MapFacts, GoState
  <2> QED BY <2>1, StageFacts, MapFacts, GoState
<1>5. ASSUME m.current = "LISTENING"
      PROVE  Go(Go(m, "THINKING"), "GENERATING_RESPONSE").current = "GENERATING_RESPONSE"
  <2>1. Go(m, "THINKING").current = "THINKING"
    BY <1>5, StageFacts, GoState
  <2> QED BY <2>1, StageFacts, GoState
<1> QED BY <1>1, <1>2, <1>3, <1>4, <1>5

\* Short tuples of events.
LEMMA Tuples ==
  ASSUME NEW S
  PROVE  /\ <<>> \in Seq(S)
         /\ \A a \in S : <<a>> \in Seq(S)
         /\ \A b, c \in S : <<b, c>> \in Seq(S)
         /\ \A d, e, f \in S : <<d, e, f>> \in Seq(S)
  OBVIOUS

LEMMA AnnouncedStep ==
  ASSUME Announced(fsm, log), NeverStranded, log \in Seq(EventName), [Next]_vars
  PROVE  Announced(fsm', log')
<1> USE DEF Publish, Unless
<1>0. fsm.current \in Resting
  BY DEF NeverStranded, Resting
<1>2. ASSUME fsm'.current \notin DOMAIN Announcement PROVE Announced(fsm', log')
  BY <1>2 DEF Announced
<1>3. {"LISTENING", "GENERATING_AUDIO", "SPEAKING"} = DOMAIN Announcement
  BY DEF Announcement
<1>4. ASSUME OnUserInterrupted PROVE Announced(fsm', log')
  <2> DEFINE more == <<"ConversationInterrupted", "ListeningStarted">>
  <2>1. more \in Seq(EventName) /\ LastStage(more, Announcement["LISTENING"])
    BY DEF EventName, Announcement, LastStage
  <2>2. fsm'.current \in {"LISTENING", "CLOSED"} /\ log' = log \o more
    BY <1>0, <1>4, WhereTheyLead DEF OnUserInterrupted
  <2> HIDE DEF more
  <2> QED BY <1>3, <2>1, <2>2, MovesAndAnnounces
<1>5. ASSUME OnTranscriptReady PROVE Announced(fsm', log')
  <2>1. fsm'.current \in {"THINKING", "CLOSED"}
    BY <1>0, <1>5, WhereTheyLead DEF OnTranscriptReady
  <2> QED BY <1>2, <1>3, <2>1
<1>6. ASSUME OnLLMResponseStarted PROVE Announced(fsm', log')
  <2>1. CASE fsm.current = "LISTENING"
    BY <1>0, <1>2, <1>3, <1>6, <2>1, WhereTheyLead DEF OnLLMResponseStarted
  <2>2. CASE fsm.current # "LISTENING"
    <3>1. <<>> \in Seq(EventName \ StageEvents) /\ log' = log \o <<>>
          /\ fsm'.current \in {fsm.current, "GENERATING_RESPONSE"}
      BY <1>0, <1>6, <2>2, WhereTheyLead DEF OnLLMResponseStarted
    <3> QED BY <1>3, <3>1, StaysAnnounced
  <2> QED BY <2>1, <2>2
<1>7. ASSUME OnLLMResponseReady PROVE Announced(fsm', log')
  <2> DEFINE more == Unless(greeted, <<"AssistantGreetingGenerated">>)
                     \o <<"ResponseGenerated", "AudioGenerationStarted">>
  <2>1. more \in Seq(EventName) /\ LastStage(more, Announcement["GENERATING_AUDIO"])
    <3>1. Unless(greeted, <<"AssistantGreetingGenerated">>) \in Seq(EventName)
          /\ <<"ResponseGenerated", "AudioGenerationStarted">> \in Seq(EventName)
      <4>1. {"AssistantGreetingGenerated", "ResponseGenerated", "AudioGenerationStarted"}
              \subseteq EventName
        BY DEF EventName
      <4> QED BY <4>1, Tuples
    <3>2. LastStage(<<"ResponseGenerated", "AudioGenerationStarted">>,
                    Announcement["GENERATING_AUDIO"])
      BY DEF Announcement, LastStage
    <3> HIDE DEF Unless
    <3>3. more \in Seq(EventName)
      BY <3>1
    <3> QED BY <3>1, <3>2, <3>3, StageSet
  <2>2. fsm'.current \in {"GENERATING_AUDIO", "CLOSED"} /\ log' = log \o more
    BY <1>0, <1>7, WhereTheyLead DEF OnLLMResponseReady
  <2> HIDE DEF more
  <2> QED BY <1>3, <2>1, <2>2, MovesAndAnnounces
<1>8. ASSUME OnAudioStarted PROVE Announced(fsm', log')
  <2> DEFINE more == Unless(greeted, <<"AssistantGreetingTTSStarted">>) \o <<"SpeakingStarted">>
  <2>1. more \in Seq(EventName) /\ LastStage(more, Announcement["SPEAKING"])
    <3>1. Unless(greeted, <<"AssistantGreetingTTSStarted">>) \in Seq(EventName)
          /\ <<"SpeakingStarted">> \in Seq(EventName)
      <4>1. {"AssistantGreetingTTSStarted", "SpeakingStarted"} \subseteq EventName
        BY DEF EventName
      <4> QED BY <4>1, Tuples
    <3>2. LastStage(<<"SpeakingStarted">>, Announcement["SPEAKING"])
      BY DEF Announcement, LastStage
    <3> HIDE DEF Unless
    <3>3. more \in Seq(EventName)
      BY <3>1
    <3> QED BY <3>1, <3>2, <3>3, StageSet
  <2>2. fsm'.current \in {"SPEAKING", "THINKING", "CLOSED"} /\ log' = log \o more
    BY <1>0, <1>8, WhereTheyLead DEF OnAudioStarted
  <2> HIDE DEF more
  <2> QED BY <1>3, <2>1, <2>2, MovesAndAnnounces
<1>9. ASSUME OnAudioFinished PROVE Announced(fsm', log')
  <2> DEFINE more == <<"SpeakingFinished">>
                     \o Unless(greeted, <<"AssistantGreetingCompleted", "ConversationReady">>)
                     \o <<"ListeningStarted">>
  <2>1. more \in Seq(EventName) /\ LastStage(more, Announcement["LISTENING"])
    <3> DEFINE front == <<"SpeakingFinished">>
                 \o Unless(greeted, <<"AssistantGreetingCompleted", "ConversationReady">>)
    <3>1. front \in Seq(EventName) /\ <<"ListeningStarted">> \in Seq(EventName)
      <4>1. {"SpeakingFinished", "AssistantGreetingCompleted", "ConversationReady",
             "ListeningStarted"} \subseteq EventName
        BY DEF EventName
      <4>2. Unless(greeted, <<"AssistantGreetingCompleted", "ConversationReady">>)
              \in Seq(EventName) /\ <<"SpeakingFinished">> \in Seq(EventName)
            /\ <<"ListeningStarted">> \in Seq(EventName)
        BY <4>1, Tuples
      <4> HIDE DEF Unless
      <4> QED BY <4>2
    <3>2. LastStage(<<"ListeningStarted">>, Announcement["LISTENING"])
      BY DEF Announcement, LastStage
    <3>3. more = front \o <<"ListeningStarted">>
      OBVIOUS
    <3> HIDE DEF front, more
    <3>4. LastStage(front \o <<"ListeningStarted">>, Announcement["LISTENING"])
      BY <3>1, <3>2, StageSet
    <3>5. front \o <<"ListeningStarted">> \in Seq(EventName)
      BY <3>1
    <3> QED BY <3>3, <3>4, <3>5
  <2>2. fsm'.current \in {"LISTENING", "THINKING", "GENERATING_RESPONSE", "CLOSED"}
        /\ log' = log \o more
    BY <1>0, <1>9, WhereTheyLead DEF OnAudioFinished
  <2> HIDE DEF more
  <2> QED BY <1>3, <2>1, <2>2, MovesAndAnnounces
<1>10. ASSUME RunMock PROVE Announced(fsm', log')
  <2> DEFINE more == <<"PipelineStarted", "ConversationStarted", "ListeningStarted">> \o Greeting
  <2>1. more \in Seq(EventName) /\ LastStage(more, Announcement["LISTENING"])
    <3> DEFINE begun == <<"PipelineStarted", "ConversationStarted", "ListeningStarted">>
    <3>1. begun \in Seq(EventName) /\ Greeting \in Seq(EventName \ StageEvents)
      <4>1. {"PipelineStarted", "ConversationStarted", "ListeningStarted"} \subseteq EventName
            /\ "AssistantGreetingStarted" \in EventName \ StageEvents
        BY DEF EventName, StageEvents
      <4> QED BY <4>1, Tuples DEF Greeting
    <3>4. Greeting \in Seq(EventName)
      BY <3>1
    <3>2. LastStage(begun, Announcement["LISTENING"])
      <4>1. begun[3] = "ListeningStarted" /\ DOMAIN begun = 1 .. 3
        OBVIOUS
      <4> HIDE DEF begun
      <4> QED BY <4>1 DEF Announcement, LastStage
    <3>3. more = begun \o Greeting
      OBVIOUS
    <3> HIDE DEF begun, more
    <3> QED BY <3>1, <3>2, <3>3, <3>4, StageKept
  <2>2. fsm'.current \in {"LISTENING", "THINKING", "GENERATING_RESPONSE", "CLOSED"}
        /\ log' = log \o more
    BY <1>0, <1>10, WhereTheyLead DEF RunMock, OnPipelineStarted
  <2> HIDE DEF more
  <2> QED BY <1>3, <2>1, <2>2, MovesAndAnnounces
<1>11. ASSUME OnPipelineCompleted \/ CloseSession PROVE Announced(fsm', log')
  BY <1>0, <1>2, <1>3, <1>11, WhereTheyLead DEF OnPipelineCompleted, CloseSession
<1>12. ASSUME OnPipelineFailed \/ Run \/ OnProcessorStarted \/ OnProcessorCompleted
              \/ LLMText \/ RunReturns \/ UNCHANGED vars
       PROVE  Announced(fsm', log')
  <2> DEFINE Quiet == {<<"PipelineFailed">>, <<"AssistantGreetingStarted">>, <<>>,
                       <<"ProcessorExecutionStarted">>, <<"ProcessorExecutionCompleted">>}
  <2>1. Quiet \subseteq Seq(EventName \ StageEvents)
    BY DEF EventName, StageEvents
  <2>2. log = log \o <<>>
    OBVIOUS
  <2>3. fsm' = fsm /\ \E more \in Quiet : log' = log \o more
    BY <1>12, <2>2 DEF OnPipelineFailed, Run, OnProcessorStarted, OnProcessorCompleted,
       LLMText, RunReturns, vars, Greeting
  <2> HIDE DEF Quiet
  <2> QED BY <2>1, <2>3, StaysAnnounced
<1> HIDE DEF Publish, Unless
<1> QED
  BY <1>4, <1>5, <1>6, <1>7, <1>8, <1>9, <1>10, <1>11, <1>12
     DEF Next, Frame, UserStartedSpeaking, Transcription, LLMFullResponseStart,
         LLMFullResponseEnd, TTSStarted, TTSStopped, BuildFails, MockEnds, RunFails

\* Whenever the machine rests in LISTENING, GENERATING_AUDIO or SPEAKING, that is
\* the stage published last, for calls of any length and frames in any order.
THEOREM StageIsAnnouncedCorrect == Spec => []StageIsAnnounced
<1> DEFINE Told == Announced(fsm, log)
<1>1. Init => Told
  BY MapFacts DEF Init, Announced, NoStage, Fresh, Moved
<1>2. Told /\ NeverStranded /\ GreetingInv /\ [Next]_vars => Told'
  BY AnnouncedStep DEF GreetingInv
<1>3. Told => StageIsAnnounced
  BY DEF Announced, LastStage, NoStage, StageIsAnnounced
<1> HIDE DEF Told
<1> QED BY <1>1, <1>2, <1>3, NeverStrandedCorrect, GreetingInvariance, PTL DEF Spec

-----------------------------------------------------------------------------
\* The flags of the observer and the adapter's place.
FlagsOK == response \in BOOLEAN /\ emitted \in BOOLEAN /\ phase \in Phase

LEMMA FlagsStep == FlagsOK /\ [Next]_vars => FlagsOK'
<1> SUFFICES ASSUME FlagsOK, [Next]_vars PROVE FlagsOK'
  OBVIOUS
<1>1. CASE Frame
  BY <1>1 DEF Frame, UserStartedSpeaking, Transcription, LLMFullResponseStart, LLMText,
     LLMFullResponseEnd, TTSStarted, TTSStopped, Observing, FlagsOK
<1>2. CASE BuildFails \/ Run \/ RunMock \/ OnProcessorStarted \/ OnProcessorCompleted
  BY <1>2 DEF BuildFails, Run, RunMock, OnProcessorStarted, OnProcessorCompleted, Phases, Phase,
     FlagsOK
<1>3. CASE MockEnds \/ RunFails \/ RunReturns \/ CloseSession
  BY <1>3 DEF MockEnds, RunFails, RunReturns, CloseSession, Phases, Phase, FlagsOK
<1>4. CASE UNCHANGED vars
  BY <1>4 DEF vars, FlagsOK
<1> QED BY <1>1, <1>2, <1>3, <1>4 DEF Next

\* The bridge publishes known events only, of any length of call, and keeps the
\* machine it drives a machine.
THEOREM BridgeTypeCorrect == Spec => []TypeOK
<1>1. Init => FlagsOK
  BY DEF Init, FlagsOK, Phase
<1>2. FlagsOK /\ GreetingInv /\ fsm \in Machine => TypeOK
  BY DEF FlagsOK, GreetingInv, TypeOK
<1>3. SoundNow => fsm \in Machine
  BY DEF SoundNow, Sound
<1> QED BY <1>1, <1>2, <1>3, FlagsStep, GreetingInvariance, MachineStaysSound, PTL DEF Spec
=============================================================================
