------------------------- MODULE ConversationMachine -------------------------
(***************************************************************************)
(* The conversation state machine of app/conversation as a value: the map  *)
(* of legal transitions and what transition_to does to a machine.  The     *)
(* method runs under the machine's lock, so it is one atomic step; when it *)
(* refuses it raises and the machine stays as it was.                      *)
(***************************************************************************)
EXTENDS Naturals, Sequences

ConversationState ==
  {"IDLE", "LISTENING", "TRANSCRIBING", "THINKING", "GENERATING_RESPONSE",
   "GENERATING_AUDIO", "SPEAKING", "INTERRUPTED", "ERROR", "CLOSED"}

NoState == "None"

Stages == {"TRANSCRIBING", "THINKING", "GENERATING_RESPONSE",
           "GENERATING_AUDIO", "SPEAKING"}

TransitionMap ==
  [s \in ConversationState |->
    CASE s = "IDLE"                -> {"LISTENING", "CLOSED"}
      [] s = "LISTENING"           -> Stages \cup {"INTERRUPTED", "ERROR", "CLOSED"}
      [] s = "TRANSCRIBING"        -> {"THINKING", "INTERRUPTED", "ERROR", "CLOSED"}
      [] s = "THINKING"            -> {"GENERATING_RESPONSE", "GENERATING_AUDIO",
                                       "TRANSCRIBING", "INTERRUPTED", "ERROR", "CLOSED"}
      [] s = "GENERATING_RESPONSE" -> {"GENERATING_AUDIO", "SPEAKING", "TRANSCRIBING",
                                       "INTERRUPTED", "ERROR", "CLOSED"}
      [] s = "GENERATING_AUDIO"    -> {"SPEAKING", "LISTENING", "TRANSCRIBING",
                                       "INTERRUPTED", "ERROR", "CLOSED"}
      [] s = "SPEAKING"            -> {"LISTENING", "TRANSCRIBING", "INTERRUPTED", "IDLE",
                                       "ERROR", "CLOSED", "GENERATING_AUDIO"}
      [] s = "INTERRUPTED"         -> {"LISTENING", "CLOSED"}
      [] s = "ERROR"               -> {"IDLE", "CLOSED"}
      [] s = "CLOSED"              -> {}]

\* Mutants: the terminal check is lost; an interruption resumes the stage; the
\* edges back from GENERATING_AUDIO and from SPEAKING are forgotten.
CanTransition_NoTerminal(s, t) == t \in TransitionMap[s] \/ (s = "CLOSED" /\ t = "IDLE")
CanTransition_Resumes(s, t) == t \in TransitionMap[s] \/ (s = "INTERRUPTED" /\ t = "TRANSCRIBING")
CanTransition_NoRelisten(s, t) ==
  t \in TransitionMap[s] /\ <<s, t>> # <<"GENERATING_AUDIO", "LISTENING">>
CanTransition_NoSecondAnswer(s, t) ==
  t \in TransitionMap[s] /\ <<s, t>> # <<"SPEAKING", "GENERATING_AUDIO">>

CanTransition(s, t) == t \in TransitionMap[s]

Fresh == [current |-> "IDLE", previous |-> NoState, history |-> <<>>]

\* Mutant: the previous state is left as it was.
Moved_StalePrevious(m, t) ==
  IF CanTransition(m.current, t)
    THEN [m EXCEPT !.current = t, !.history = Append(@, <<m.current, t>>)]
    ELSE m

\* The machine after transition_to(t).
Moved(m, t) ==
  IF CanTransition(m.current, t)
    THEN [current  |-> t,
          previous |-> m.current,
          history  |-> Append(m.history, <<m.current, t>>)]
    ELSE m

-----------------------------------------------------------------------------
TransitionRecord == ConversationState \X ConversationState

Machine ==
  [current  : ConversationState,
   previous : ConversationState \cup {NoState},
   history  : Seq(TransitionRecord)]

\* The history of m is one unbroken walk from IDLE to its current state, and its
\* previous state is where the last step began.
Walk(m) ==
  LET h == m.history IN
  /\ \A i \in 1 .. Len(h) - 1 : h[i][2] = h[i + 1][1]
  /\ h = <<>> => m.current = "IDLE" /\ m.previous = NoState
  /\ h # <<>> => h[1][1] = "IDLE" /\ h[Len(h)] = <<m.previous, m.current>>

\* Nothing is recorded after CLOSED.
ClosedLast(m) ==
  \A i \in 1 .. Len(m.history) : m.history[i][2] = "CLOSED" => i = Len(m.history)
=============================================================================
