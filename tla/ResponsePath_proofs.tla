------------------------ MODULE ResponsePath_proofs ------------------------
(***************************************************************************)
(* For any number of requests, texts, errors and interruptions: one        *)
(* fallback is made, no request is answered twice or lost, a clip that     *)
(* plays is called off, and a call is ended only by a request of its own.  *)
(***************************************************************************)
EXTENDS ResponsePath, TLAPS

Steps == {"idle", "serving", "failed", "setup", "requeue"}
Task == [step : Steps, req : 0..MaxRequests, text : BOOLEAN]

(* A task that is not idle has a request (but for the side, which has      *)
(* none), and the service's own task only serves.                          *)
TasksHold ==
  /\ \A c \in {"main", "own"} : task[c].step # "idle" => task[c].req \in Requests
  /\ task["own"].step \in {"idle", "serving"}

LEMMA Bounds == MaxRequests \in Nat /\ MaxTokens \in Nat /\ MaxErrors \in Nat /\ MaxInterrupts \in Nat
BY ProxyAssumption, PathAssumption

-----------------------------------------------------------------------------
(* What becomes of the tasks *)

TasksOK == task \in [Tasks -> Task] /\ TasksHold

(* One task changes. *)
LEMMA TaskChanges ==
  ASSUME TasksOK, NEW c \in Tasks, NEW t \in Task, task' = [task EXCEPT ![c] = t],
         c \in {"main", "own"} /\ t.step # "idle" => t.req \in Requests,
         c = "own" => t.step \in {"idle", "serving"}
  PROVE  /\ TasksOK'
         /\ task'[c] = t /\ \A d \in Tasks \ {c} : task'[d] = task[d]
BY DEF TasksOK, TasksHold, Tasks

LEMMA GoesTask ==
  ASSUME TasksOK, NEW c \in {"main", "side"}, NEW step \in Steps \ {"idle"},
         task[c].step # "idle" \/ c = "side", Goes(c, step)
  PROVE  /\ TasksOK'
         /\ task'[c].step = step /\ task'[c].req = task[c].req
         /\ \A d \in Tasks \ {c} : task'[d] = task[d]
<1> DEFINE t == [task[c] EXCEPT !.step = step]
<1>1. task[c] \in Task /\ c \in Tasks
  BY DEF TasksOK, Tasks
<1>2. t \in Task /\ t.step = step /\ t.req = task[c].req
  BY <1>1 DEF Task
<1>3. task' = [task EXCEPT ![c] = t]
  BY DEF Goes
<1>4. c \in {"main", "own"} /\ t.step # "idle" => t.req \in Requests
  BY <1>2 DEF TasksOK, TasksHold
<1> HIDE DEF t
<1> QED BY <1>1, <1>2, <1>3, <1>4, TaskChanges

LEMMA RestsTask ==
  ASSUME TasksOK, NEW c \in Tasks, Rests(c)
  PROVE  /\ TasksOK'
         /\ task'[c] = Resting /\ task'[c].step = "idle"
         /\ \A d \in Tasks \ {c} : task'[d] = task[d]
<1>1. Resting \in Task /\ Resting.step = "idle"
  BY Bounds DEF Resting, Task, Steps
<1>2. task' = [task EXCEPT ![c] = Resting]
  BY DEF Rests
<1> HIDE DEF Resting
<1> QED BY <1>1, <1>2, TaskChanges

LEMMA ServesTask ==
  ASSUME TasksOK, NEW c \in {"main", "own"}, NEW r \in Requests,
         task' = [task EXCEPT ![c] = Serving(r)]
  PROVE  /\ TasksOK'
         /\ task'[c].step = "serving" /\ task'[c].req = r
         /\ \A d \in Tasks \ {c} : task'[d] = task[d]
<1>1. Serving(r) \in Task /\ Serving(r).step = "serving" /\ Serving(r).req = r
  BY Bounds DEF Serving, Task, Steps, Requests
<1>2. c \in Tasks
  BY DEF Tasks
<1> QED BY <1>1, <1>2, TaskChanges

LEMMA EmitsTask ==
  ASSUME TasksOK, NEW c \in {"main", "own"}, Emit(c)
  PROVE  /\ TasksOK'
         /\ task'[c].step = task[c].step /\ task'[c].req = task[c].req
         /\ \A d \in Tasks \ {c} : task'[d] = task[d]
<1> DEFINE t == [task[c] EXCEPT !.text = TRUE]
<1>1. task[c] \in Task /\ c \in Tasks
  BY DEF TasksOK, Tasks
<1>2. t \in Task /\ t.step = task[c].step /\ t.req = task[c].req
  BY <1>1 DEF Task
<1>3. task' = [task EXCEPT ![c] = t]
  BY DEF Emit
<1>4. /\ t.step # "idle" => t.req \in Requests
      /\ c = "own" => t.step \in {"idle", "serving"}
  BY <1>2 DEF TasksOK, TasksHold
<1> HIDE DEF t
<1> QED BY <1>1, <1>2, <1>3, <1>4, TaskChanges

LEMMA AfterTask ==
  ASSUME TasksOK, NEW c \in {"main", "side"}, task[c].step # "idle", After(c)
  PROVE  /\ TasksOK'
         /\ c = "main" => task'[c].step # "idle" /\ task'[c].req = task[c].req
         /\ \A d \in Tasks \ {c} : task'[d] = task[d]
<1>1. CASE c = "main"
  BY <1>1, GoesTask DEF After, Steps
<1>2. CASE c = "side"
  <2>1. c \in Tasks
    BY DEF Tasks
  <2> QED BY <1>2, <2>1, RestsTask DEF After
<1> QED BY <1>1, <1>2

LEMMA CancelledTasks ==
  ASSUME TasksOK, Interrupted
  PROVE  /\ TasksOK'
         /\ task'["main"].step = "idle"
         /\ IF NotStarted THEN task'["own"] = task["own"] ELSE task'["own"].step = "idle"
<1> DEFINE cancelled == IF NotStarted THEN {"main"} ELSE {"main", "own"}
<1>1. Resting \in Task /\ Resting.step = "idle"
  BY Bounds DEF Resting, Task, Steps
<1>2. task' = [c \in Tasks |-> IF c \in cancelled THEN Resting ELSE task[c]]
  BY DEF Interrupted
<1>3. "main" \in Tasks /\ "own" \in Tasks
  BY DEF Tasks
<1> HIDE DEF Resting
<1> QED BY <1>1, <1>2, <1>3 DEF TasksOK, TasksHold

-----------------------------------------------------------------------------
(* The type *)

(* What the proxy keeps besides its tasks, and what is around the proxy. *)
ProxyDataOK ==
  /\ inbox \in Seq(Requests) /\ own \in Seq(Requests)
  /\ fallback_active \in BOOLEAN /\ active \in {"primary", "fallback"}
  /\ backup \in {"none", "made", "started"}
  /\ tokens \in 0..MaxTokens /\ errors \in 0..MaxErrors
  /\ made \in Nat /\ served \in [Requests -> Nat] /\ gone \subseteq Requests
WaitRecord == [phase : {"none", "waiting", "clip"}, req : 0..MaxRequests]
FillerOK ==
  /\ wait \in WaitRecord
  /\ bus \in Nat
Item == [of : 0..MaxRequests, what : {"words", "end"}]
LowerOK ==
  /\ speech \in Seq(Item)
  /\ opened \in BOOLEAN /\ hangup \in BOOLEAN /\ completed \in BOOLEAN
  /\ voice \in BOOLEAN /\ ended \in BOOLEAN /\ credit \in Int
RestOK ==
  /\ count \in 0..MaxRequests /\ interrupts \in 0..MaxInterrupts /\ heard \in BOOLEAN
  /\ calls \subseteq [req : Requests, hangup : BOOLEAN] /\ over \in BOOLEAN

TypeInv == TasksOK /\ ProxyDataOK /\ FillerOK /\ LowerOK /\ RestOK

LEMMA TypeParts == TypeInv => TypeOK
<1>1. TypeInv => ProxyTypeOK
  BY DEF TypeInv, ProxyTypeOK, TasksOK, Task, Steps, ProxyDataOK
<1>2. FillerOK /\ LowerOK /\ RestOK /\ ProxyTypeOK => TypeOK
  BY DEF TypeOK, FillerOK, LowerOK, RestOK, WaitRecord, Item
<1> QED BY <1>1, <1>2 DEF TypeInv

LEMMA HeadTyped ==
  ASSUME NEW S, NEW q \in Seq(S), q # <<>>
  PROVE  Head(q) \in S /\ Tail(q) \in Seq(S)
OBVIOUS

LEMMA SeqTyped ==
  ASSUME NEW S
  PROVE  <<>> \in Seq(S) /\ \A q \in Seq(S), e \in S : Append(q, e) \in Seq(S)
OBVIOUS

(* What a text or the end of a response does to the lower processors. *)
LEMMA InterceptTyped ==
  ASSUME LowerOK, NEW r \in 0..MaxRequests, NEW what \in Texts \cup {"end"}, Intercept(r, what)
  PROVE  LowerOK'
<1> DEFINE words == [of |-> r, what |-> "words"]
           end == [of |-> r, what |-> "end"]
<1>1. words \in Item /\ end \in Item
  BY DEF Item
<1>2. speech' = speech \/ speech' = Append(speech, words) \/ speech' = Append(speech, end)
  BY DEF Intercept
<1>3. speech \in Seq(Item)
  BY DEF LowerOK
<1>4. speech' \in Seq(Item)
  <2> HIDE DEF words, end
  <2> QED BY <1>1, <1>2, <1>3
<1>5. opened' \in BOOLEAN /\ hangup' \in BOOLEAN
  BY DEF Intercept
<1>6. UNCHANGED <<completed, voice, ended>> /\ credit' \in Int
  BY DEF LowerOK, Intercept
<1> QED BY <1>4, <1>5, <1>6 DEF LowerOK

LEMMA StoppedTyped ==
  ASSUME LowerOK, NEW is_filler \in BOOLEAN, Stopped(is_filler), UNCHANGED <<opened, speech>>,
         voice' \in BOOLEAN
  PROVE  LowerOK'
<1>1. CASE ~is_filler /\ hangup /\ completed
  <2>1. ended' = TRUE /\ hangup' = FALSE /\ completed' = FALSE /\ credit' = credit - 1
    BY <1>1 DEF Stopped
  <2>2. credit' \in Int /\ speech' \in Seq(Item)
    BY <2>1 DEF LowerOK
  <2> QED BY <2>1, <2>2 DEF LowerOK
<1>2. CASE ~(~is_filler /\ hangup /\ completed)
  <2>1. UNCHANGED <<ended, credit, hangup, completed>>
    BY <1>2 DEF Stopped
  <2> QED BY <2>1 DEF LowerOK
<1> QED BY <1>1, <1>2

(* Steps of the proxy alone. *)
LEMMA ProxyTyped ==
  ASSUME TasksOK, ProxyDataOK, ProxyStep
  PROVE  TasksOK' /\ ProxyDataOK'
<1>1. CASE Serve
  <2>1. inbox # <<>> /\ inbox \in Seq(Requests)
    BY <1>1 DEF Serve, ProxyDataOK
  <2>2. Head(inbox) \in Requests /\ Tail(inbox) \in Seq(Requests)
    BY <2>1, HeadTyped
  <2>3. TasksOK'
    <3>1. CASE NotStarted
      BY <1>1, <3>1 DEF Serve, TasksOK, TasksHold
    <3>2. CASE ~NotStarted
      BY <1>1, <2>2, <3>2, ServesTask DEF Serve
    <3> QED BY <3>1, <3>2
  <2>4. gone' \subseteq Requests
    BY <1>1, <2>2 DEF Serve, ProxyDataOK
  <2> QED BY <1>1, <2>2, <2>3, <2>4 DEF Serve, ProxyDataOK
<1>2. CASE OwnServe
  <2>1. own # <<>> /\ own \in Seq(Requests)
    BY <1>2 DEF OwnServe, ProxyDataOK
  <2>2. Head(own) \in Requests /\ Tail(own) \in Seq(Requests)
    BY <2>1, HeadTyped
  <2>3. TasksOK'
    BY <1>2, <2>2, ServesTask DEF OwnServe
  <2> QED BY <1>2, <2>2, <2>3 DEF OwnServe, ProxyDataOK
<1>3. CASE Requeue
  <2>1. task["main"].req \in Requests
    BY <1>3 DEF Requeue, TasksOK, TasksHold
  <2>2. TasksOK'
    BY <1>3, RestsTask DEF Requeue, Tasks
  <2> QED BY <1>3, <2>1, <2>2 DEF Requeue, ProxyDataOK
<1>4. ASSUME NEW c \in {"main", "side"}, Trigger(c) PROVE TasksOK' /\ ProxyDataOK'
  <2>1. After(c) \/ Goes(c, "setup")
    BY <1>4 DEF Trigger, FactoryRaises, FactoryReturns
  <2>2. TasksOK'
    BY <1>4, <2>1, AfterTask, GoesTask DEF Trigger, Steps
  <2>3. CASE fallback_active
    BY <1>4, <2>2, <2>3 DEF Trigger, ProxyDataOK
  <2>4. CASE ~fallback_active
    <3>1. fallback_active' = TRUE /\ made' = made + 1
      BY <1>4, <2>4 DEF Trigger
    <3>2. active' \in {"primary", "fallback"} /\ backup' \in {"none", "made", "started"}
      BY <1>4, <2>4 DEF Trigger, FactoryRaises, FactoryReturns, ProxyDataOK
    <3> QED BY <1>4, <2>2, <3>1, <3>2 DEF Trigger, ProxyDataOK
  <2> QED BY <2>3, <2>4
<1>5. ASSUME NEW c \in {"main", "side"}, Setup(c) PROVE TasksOK' /\ ProxyDataOK'
  <2>1. TasksOK'
    BY <1>5, AfterTask DEF Setup
  <2> QED BY <1>5, <2>1 DEF Setup, ProxyDataOK
<1> QED BY <1>1, <1>2, <1>3, <1>4, <1>5 DEF ProxyStep

(* What a service answers, and how it fails. *)
LEMMA ServiceTyped ==
  ASSUME TasksOK, ProxyDataOK, NEW c \in {"main", "own"}, Emit(c) \/ Finish(c) \/ Raises(c)
  PROVE  TasksOK' /\ ProxyDataOK' /\ task[c].req \in Requests
<1>1. task[c].req \in Requests /\ c \in Tasks
  BY DEF Emit, Finish, Raises, TasksOK, TasksHold, Tasks
<1>2. CASE Emit(c)
  <2>1. TasksOK'
    BY <1>2, EmitsTask
  <2>2. tokens' \in 0..MaxTokens
    BY <1>2, Bounds DEF Emit, ProxyDataOK
  <2> QED BY <1>1, <1>2, <2>1, <2>2 DEF Emit, ProxyDataOK
<1>3. CASE Finish(c)
  <2>1. TasksOK'
    BY <1>1, <1>3, RestsTask DEF Finish
  <2>2. served' \in [Requests -> Nat]
    BY <1>1, <1>3 DEF Finish, ProxyDataOK
  <2> QED BY <1>1, <1>3, <2>1, <2>2 DEF Finish, ProxyDataOK
<1>4. CASE Raises(c)
  <2>1. TasksOK'
    BY <1>1, <1>4, RestsTask, GoesTask DEF Raises, Steps
  <2>2. errors' \in 0..MaxErrors
    BY <1>4, Bounds DEF Raises, ProxyDataOK
  <2>3. gone' \subseteq Requests
    BY <1>1, <1>4 DEF Raises, ProxyDataOK
  <2> QED BY <1>1, <1>4, <2>1, <2>2, <2>3 DEF Raises, ProxyDataOK
<1> QED BY <1>2, <1>3, <1>4

LEMMA InterruptedTyped ==
  ASSUME TasksOK, ProxyDataOK, Interrupted
  PROVE  TasksOK' /\ ProxyDataOK'
<1>1. TasksOK'
  BY CancelledTasks
<1>2. Waiting(inbox) \subseteq Requests /\ Waiting(own) \subseteq Requests
  BY DEF ProxyDataOK, Waiting
<1>3. Held("main") \subseteq Requests /\ Held("own") \subseteq Requests
  BY DEF TasksOK, TasksHold, Held
<1>4. gone' \subseteq Requests
  <2>1. gone' \subseteq gone \cup Waiting(inbox) \cup Held("main") \cup Held("own") \cup Waiting(own)
    BY DEF Interrupted
  <2> QED BY <1>2, <1>3, <2>1 DEF ProxyDataOK
<1>5. inbox' \in Seq(Requests) /\ own' \in Seq(Requests)
  BY DEF Interrupted, ProxyDataOK
<1> QED BY <1>1, <1>4, <1>5 DEF Interrupted, ProxyDataOK

(* Every step keeps the type. *)
LEMMA TypeStep == TypeInv /\ [Next]_vars => TypeInv'
<1> SUFFICES ASSUME TasksOK, ProxyDataOK, FillerOK, LowerOK, RestOK, [Next]_vars
             PROVE  (TasksOK /\ ProxyDataOK /\ FillerOK /\ LowerOK /\ RestOK)'
  BY DEF TypeInv
<1> DEFINE Typed == TasksOK /\ ProxyDataOK /\ FillerOK /\ LowerOK /\ RestOK
<1> USE Bounds
<1>1. ASSUME UNCHANGED pvars PROVE (TasksOK /\ ProxyDataOK)'
  BY <1>1 DEF pvars, TasksOK, TasksHold, ProxyDataOK
<1>2. ASSUME UNCHANGED filler PROVE FillerOK'
  BY <1>2 DEF filler, FillerOK
<1>3. ASSUME UNCHANGED lower PROVE LowerOK'
  BY <1>3 DEF lower, LowerOK
<1>4. ASSUME UNCHANGED <<heard, count, calls, interrupts>>, over' \in BOOLEAN PROVE RestOK'
  BY <1>4 DEF RestOK
<1>5. ASSUME wait' \in WaitRecord, bus' \in {bus, bus + 1} PROVE FillerOK'
  BY <1>5 DEF FillerOK
<1>6. NoWait \in WaitRecord /\ wait \in WaitRecord /\ 0 \in 0..MaxRequests
  BY DEF NoWait, WaitRecord, FillerOK
<1>10. CASE Transcript
  <2>1. RestOK'
    BY <1>10 DEF Transcript, RestOK
  <2>2. FillerOK'
    BY <1>5, <1>6, <1>10 DEF Transcript
  <2> QED BY <1>1, <1>3, <1>10, <2>1, <2>2 DEF Transcript
<1>11. CASE UserTurn
  <2>1. count + 1 \in 0..MaxRequests /\ count + 1 \in Requests
    BY <1>11 DEF UserTurn, RestOK, Requests
  <2>2. FillerOK'
    <3>1. [phase |-> "waiting", req |-> count + 1] \in WaitRecord
      BY <2>1 DEF WaitRecord
    <3> QED BY <1>5, <1>6, <1>11, <3>1 DEF UserTurn
  <2>3. ProxyDataOK' /\ TasksOK'
    <3>1. inbox' \in Seq(Requests)
      <4>1. inbox' = inbox \/ inbox' = Append(inbox, count + 1)
        BY <1>11 DEF UserTurn
      <4> QED BY <2>1, <4>1, SeqTyped DEF ProxyDataOK
    <3>2. TasksOK'
      BY <1>11 DEF UserTurn, TasksOK, TasksHold
    <3> QED BY <1>11, <3>1, <3>2 DEF UserTurn, ProxyDataOK
  <2>4. RestOK'
    BY <1>11, <2>1 DEF UserTurn, RestOK
  <2> QED BY <1>3, <1>11, <2>2, <2>3, <2>4 DEF UserTurn
<1>12. CASE TimerFires
  <2>1. FillerOK'
    <3>1. [wait EXCEPT !.phase = "clip"] \in WaitRecord
      BY DEF FillerOK, WaitRecord
    <3> QED BY <1>5, <1>6, <1>12, <3>1 DEF TimerFires
  <2> QED BY <1>1, <1>3, <1>4, <1>12, <2>1 DEF TimerFires, RestOK
<1>13. CASE CancelWait
  <2>1. FillerOK'
    BY <1>6, <1>13 DEF CancelWait, FillerOK
  <2> QED BY <1>1, <1>3, <1>4, <1>13, <2>1 DEF CancelWait, RestOK
<1>14. CASE ClipEnds
  <2>1. FillerOK'
    BY <1>6, <1>14 DEF ClipEnds, FillerOK
  <2>2. LowerOK'
    BY <1>14, StoppedTyped DEF ClipEnds, LowerOK
  <2> QED BY <1>1, <1>4, <1>14, <2>1, <2>2 DEF ClipEnds, RestOK
<1>15. CASE Speak
  <2>1. Head(speech) \in Item
        /\ Tail(speech) \in Seq(Item)
    BY <1>15, HeadTyped DEF Speak, LowerOK
  <2>2. FillerOK'
    BY <1>5, <1>6, <1>15 DEF Speak
  <2>3. LowerOK'
    BY <1>15, <2>1 DEF Speak, LowerOK
  <2> QED BY <1>1, <1>4, <1>15, <2>2, <2>3 DEF Speak, RestOK
<1>16. CASE PassEnd
  <2>1. Tail(speech) \in Seq(Item)
    BY <1>16, HeadTyped DEF PassEnd, LowerOK
  <2>2. LowerOK'
    BY <1>16, <2>1 DEF PassEnd, LowerOK
  <2> QED BY <1>1, <1>2, <1>4, <1>16, <2>2 DEF PassEnd, RestOK
<1>17. CASE Silence
  <2>1. LowerOK'
    BY <1>17, StoppedTyped DEF Silence
  <2> QED BY <1>1, <1>2, <1>4, <1>17, <2>1 DEF Silence, RestOK
<1>18. CASE VoiceFails
  <2>1. LowerOK'
    BY <1>18 DEF VoiceFails, LowerOK
  <2> QED BY <1>1, <1>2, <1>4, <1>18, <2>1 DEF VoiceFails, RestOK
<1>19. CASE Interrupt
  <2>1. (TasksOK /\ ProxyDataOK)'
    BY <1>19, InterruptedTyped DEF Interrupt
  <2>2. LowerOK'
    <3>1. opened' \in BOOLEAN
      BY <1>19 DEF Interrupt, LowerOK
    <3>2. speech' \in Seq(Item) /\ voice' \in BOOLEAN
      BY <1>19, SeqTyped DEF Interrupt
    <3> QED BY <1>19, <3>1, <3>2 DEF Interrupt, LowerOK
  <2>3. RestOK'
    BY <1>19 DEF Interrupt, RestOK
  <2> QED BY <1>2, <1>19, <2>1, <2>2, <2>3 DEF Interrupt
<1>20. CASE TaskEnds
  BY <1>1, <1>2, <1>3, <1>4, <1>20 DEF TaskEnds
<1>21. CASE Proxy
  <2>1. (TasksOK /\ ProxyDataOK)'
    BY <1>21, ProxyTyped DEF Proxy
  <2>2. LowerOK'
    <3>1. [of |-> 0, what |-> "words"] \in Item
      BY <1>6 DEF Item
    <3>2. speech' \in {speech, Append(speech, [of |-> 0, what |-> "words"])}
      BY <1>21 DEF Proxy
    <3>3. speech' \in Seq(Item)
      BY <3>1, <3>2 DEF LowerOK
    <3> QED BY <1>21, <3>3 DEF Proxy, LowerOK
  <2>3. FillerOK'
    BY <1>5, <1>6, <1>21 DEF Proxy
  <2> QED BY <1>4, <1>21, <2>1, <2>2, <2>3 DEF Proxy, RestOK
<1>22. CASE SideFails /\ UNCHANGED rvars
  <2>1. TasksOK'
    BY <1>22, GoesTask DEF SideFails, Steps
  <2>2. ProxyDataOK'
    BY <1>22 DEF SideFails, ProxyDataOK
  <2> QED BY <1>2, <1>3, <1>4, <1>22, <2>1, <2>2 DEF rvars, RestOK
<1>23. ASSUME NEW c \in {"main", "own"}, Streams(c) PROVE Typed'
  <2>1. (TasksOK /\ ProxyDataOK)' /\ task[c].req \in 0..MaxRequests
    BY <1>23, ServiceTyped DEF Streams, Requests
  <2>2. LowerOK'
    BY <1>23, <2>1, InterceptTyped DEF Streams
  <2> QED BY <1>2, <1>4, <1>23, <2>1, <2>2 DEF Streams, RestOK
<1>24. ASSUME NEW c \in {"main", "own"}, Answers(c) PROVE Typed'
  <2>1. (TasksOK /\ ProxyDataOK)' /\ task[c].req \in 0..MaxRequests
    BY <1>24, ServiceTyped DEF Answers, Requests
  <2>2. LowerOK'
    BY <1>24, <2>1, InterceptTyped DEF Answers, Ends
  <2>3. FillerOK'
    BY <1>5, <1>6, <1>24 DEF Answers, Ends
  <2>4. RestOK'
    BY <1>24 DEF Answers, RestOK, Requests
  <2> QED BY <2>1, <2>2, <2>3, <2>4
<1>25. ASSUME NEW c \in {"main", "own"}, Breaks(c) PROVE Typed'
  <2>1. (TasksOK /\ ProxyDataOK)' /\ task[c].req \in 0..MaxRequests
    BY <1>25, ServiceTyped DEF Breaks, Requests
  <2>2. LowerOK'
    BY <1>3, <1>25, <2>1, InterceptTyped DEF Breaks, Ends
  <2>3. FillerOK'
    BY <1>5, <1>6, <1>25 DEF Breaks, Ends
  <2> QED BY <1>4, <1>25, <2>1, <2>2, <2>3 DEF Breaks, RestOK
<1>26. ASSUME NEW x \in calls, Tool(x) PROVE Typed'
  <2>1. x.req \in Requests /\ x.hangup \in BOOLEAN
    BY DEF RestOK
  <2>2. (TasksOK /\ ProxyDataOK)'
    BY <1>26, <2>1 DEF Tool, TasksOK, TasksHold, ProxyDataOK
  <2>3. LowerOK'
    BY <1>26, <2>1 DEF Tool, LowerOK
  <2>4. RestOK'
    BY <1>26 DEF Tool, RestOK
  <2> QED BY <1>2, <1>26, <2>2, <2>3, <2>4 DEF Tool
<1>27. CASE UNCHANGED vars
  BY <1>1, <1>2, <1>3, <1>4, <1>27 DEF vars, rvars, RestOK
<1> QED
  BY <1>10, <1>11, <1>12, <1>13, <1>14, <1>15, <1>16, <1>17, <1>18, <1>19, <1>20, <1>21, <1>22, <1>23,
     <1>24, <1>25, <1>26, <1>27 DEF Next, Inference

LEMMA InitTyped == Init => TypeInv
<1>1. Init => TasksOK
  BY Bounds DEF Init, ProxyInit, TasksOK, TasksHold, Task, Steps, Resting, Tasks
<1>2. ASSUME Init PROVE ProxyDataOK
  <2>1. inbox \in Seq(Requests) /\ own \in Seq(Requests)
    BY <1>2 DEF Init, ProxyInit
  <2>2. served \in [Requests -> Nat] /\ tokens \in 0..MaxTokens /\ errors \in 0..MaxErrors /\ made \in Nat
    BY <1>2, Bounds DEF Init, ProxyInit
  <2> QED BY <1>2, <2>1, <2>2 DEF Init, ProxyInit, ProxyDataOK
<1>3. ASSUME Init PROVE FillerOK /\ LowerOK /\ RestOK
  <2>1. NoWait \in WaitRecord /\ 0 \in 0..MaxRequests /\ 0 \in 0..MaxInterrupts
    BY Bounds DEF NoWait, WaitRecord
  <2>2. FillerOK
    BY <1>3, <2>1, SeqTyped DEF Init, FillerOK
  <2>3. LowerOK
    <3>1. speech = <<>> /\ opened = FALSE /\ hangup = FALSE /\ completed = FALSE
          /\ voice = FALSE /\ ended = FALSE /\ credit = 0
      BY <1>3 DEF Init
    <3>2. speech \in Seq(Item) /\ credit \in Int
      BY <3>1, SeqTyped
    <3>3. opened \in BOOLEAN /\ hangup \in BOOLEAN /\ completed \in BOOLEAN
          /\ voice \in BOOLEAN /\ ended \in BOOLEAN
      BY <3>1
    <3> QED BY <3>2, <3>3 DEF LowerOK
  <2>4. RestOK
    BY <1>3, <2>1 DEF Init, RestOK
  <2> QED BY <2>2, <2>3, <2>4
<1> QED BY <1>1, <1>2, <1>3 DEF TypeInv

(* Every variable of the path keeps its type. *)
THEOREM TypeCorrect == Spec => []TypeOK
<1> QED BY InitTyped, TypeStep, TypeParts, PTL DEF Spec

-----------------------------------------------------------------------------
(* One fallback, fillers that yield, ends that were asked for *)

(* The flag is set in the step that makes the fallback. *)
OneBackup == made = IF fallback_active THEN 1 ELSE 0

(* However many tasks fail, and however often, the factory is called once. *)
THEOREM BackupMadeOnceCorrect == Spec => []BackupMadeOnce
<1>1. Init => OneBackup
  BY DEF Init, ProxyInit, OneBackup
<1>2. OneBackup /\ [Next]_vars => OneBackup'
  <2> SUFFICES ASSUME OneBackup, [Next]_vars PROVE OneBackup'
    OBVIOUS
  <2>1. ASSUME NEW c \in {"main", "side"}, Trigger(c) PROVE OneBackup'
    <3>1. CASE fallback_active
      BY <2>1, <3>1 DEF Trigger, OneBackup
    <3>2. CASE ~fallback_active
      <4>1. fallback_active' = TRUE /\ made' = made + 1 /\ made = 0
        BY <2>1, <3>2 DEF Trigger, OneBackup
      <4> QED BY <4>1 DEF OneBackup
    <3> QED BY <3>1, <3>2
  <2>2. ASSUME UNCHANGED <<fallback_active, made>> PROVE OneBackup'
    BY <2>2 DEF OneBackup
  <2>3. CASE Proxy
    BY <2>1, <2>2, <2>3 DEF Proxy, ProxyStep, Serve, OwnServe, Requeue, Setup
  <2>4. CASE Transcript \/ UserTurn \/ Interrupt \/ (SideFails /\ UNCHANGED rvars)
    BY <2>2, <2>4 DEF Transcript, UserTurn, Interrupt, Interrupted, SideFails, pvars
  <2>5. ASSUME NEW c \in {"main", "own"}, Inference(c) PROVE OneBackup'
    BY <2>2, <2>5 DEF Inference, Streams, Answers, Breaks, Emit, Finish, Raises
  <2>6. ASSUME NEW x \in calls, Tool(x) PROVE OneBackup'
    BY <2>2, <2>6 DEF Tool
  <2>7. CASE TimerFires \/ CancelWait \/ ClipEnds \/ Speak \/ PassEnd \/ Silence
             \/ VoiceFails \/ TaskEnds \/ UNCHANGED vars
    BY <2>2, <2>7 DEF TimerFires, CancelWait, ClipEnds, Speak, PassEnd, Silence,
       VoiceFails, TaskEnds, pvars, vars
  <2> QED BY <2>3, <2>4, <2>5, <2>6, <2>7 DEF Next
<1>3. OneBackup => BackupMadeOnce
  BY DEF OneBackup, BackupMadeOnce
<1> QED BY <1>1, <1>2, <1>3, PTL DEF Spec

(* While a clip plays, an event that makes the filler cut it is on its     *)
(* way, whatever was published, handled or started again in between.       *)
THEOREM ClipIsCalledOffCorrect == Spec => []ClipIsCalledOff
<1>1. Init => ClipIsCalledOff
  BY DEF Init, ClipIsCalledOff, NoWait
<1>2. TypeInv /\ ClipIsCalledOff /\ [Next]_vars => ClipIsCalledOff'
  <2> SUFFICES ASSUME TypeInv, ClipIsCalledOff, [Next]_vars PROVE ClipIsCalledOff'
    OBVIOUS
  <2> USE DEF ClipIsCalledOff
  <2>0. bus \in Nat
    BY DEF TypeInv, FillerOK
  <2>1. ASSUME wait' = wait \/ wait'.phase # "clip", bus' \in {bus, bus + 1}
        PROVE  ClipIsCalledOff'
    BY <2>0, <2>1
  <2>2. NoWait.phase # "clip"
    BY DEF NoWait
  <2>3. CASE UserTurn
    <3>1. wait' = wait \/ wait'.phase = "waiting"
      BY <2>3 DEF UserTurn
    <3> QED BY <2>1, <2>3, <3>1 DEF UserTurn
  <2>4. CASE TimerFires
    BY <2>0, <2>2, <2>4 DEF TimerFires
  <2>5. CASE CancelWait
    BY <2>2, <2>5 DEF CancelWait
  <2>6. CASE ClipEnds \/ Transcript
    BY <2>1, <2>2, <2>6 DEF ClipEnds, Transcript
  <2>7. ASSUME NEW c \in {"main", "own"}, Inference(c) PROVE ClipIsCalledOff'
    BY <2>1, <2>7 DEF Inference, Streams, Answers, Breaks, Ends, filler
  <2>8. ASSUME NEW x \in calls, Tool(x) PROVE ClipIsCalledOff'
    BY <2>1, <2>8 DEF Tool, filler
  <2>9. CASE Proxy \/ Interrupt \/ (SideFails /\ UNCHANGED rvars) \/ TaskEnds \/ UNCHANGED vars
    BY <2>1, <2>9 DEF Proxy, Interrupt, TaskEnds, rvars, filler, vars
  <2>10. CASE Speak \/ PassEnd \/ Silence \/ VoiceFails
    BY <2>1, <2>10 DEF Speak, PassEnd, Silence, VoiceFails, filler
  <2> QED BY <2>3, <2>4, <2>5, <2>6, <2>7, <2>8, <2>9, <2>10 DEF Next
<1> QED BY <1>1, <1>2, InitTyped, TypeStep, PTL DEF Spec

(* A pending request to hang up has not been used. *)
Covered == credit \in Nat /\ (hangup => credit >= 1)

(* What a step may do with the request: keep or use it, at a stop of the   *)
(* voice, or make a new one.                                               *)
UsedAtTheStop == credit > 0 /\ voice /\ ~voice' /\ UNCHANGED wait
Accounts ==
  /\ Covered'
  /\ credit' < credit => UsedAtTheStop

LEMMA KeepsAccount == Covered /\ UNCHANGED credit /\ (hangup' => hangup) => Accounts
BY DEF Covered, Accounts

LEMMA Accounted ==
  ASSUME Covered, [Next]_vars
  PROVE  Accounts
<1>1. ASSUME UNCHANGED credit, hangup' => hangup PROVE Accounts
  BY <1>1, KeepsAccount
<1>2. ASSUME NEW r, NEW what, Intercept(r, what) PROVE Accounts
  <2>1. CASE what = "end_tag"
    <3>1. credit' = credit + 1
      BY <1>2, <2>1 DEF Intercept
    <3> QED BY <3>1 DEF Covered, Accounts
  <2>2. CASE what # "end_tag"
    BY <1>1, <1>2, <2>2 DEF Intercept
  <2> QED BY <2>1, <2>2
<1>3. ASSUME NEW c \in {"main", "own"}, Inference(c) PROVE Accounts
  BY <1>1, <1>2, <1>3 DEF Inference, Streams, Answers, Breaks, Ends, lower
<1>4. ASSUME NEW x \in calls, Tool(x) PROVE Accounts
  <2>1. CASE x.hangup
    <3>1. credit' = credit + 1
      BY <1>4, <2>1 DEF Tool
    <3> QED BY <3>1 DEF Covered, Accounts
  <2>2. CASE ~x.hangup
    BY <1>1, <1>4, <2>2 DEF Tool
  <2> QED BY <2>1, <2>2
<1>5. CASE ClipEnds
  BY <1>1, <1>5 DEF ClipEnds, Stopped
<1>6. CASE Silence
  <2>1. CASE hangup /\ completed
    <3>1. credit' = credit - 1 /\ ~hangup' /\ voice /\ ~voice' /\ UNCHANGED wait
      BY <1>6, <2>1 DEF Silence, Stopped, filler
    <3> QED BY <2>1, <3>1 DEF Covered, Accounts, UsedAtTheStop
  <2>2. CASE ~(hangup /\ completed)
    BY <1>1, <1>6, <2>2 DEF Silence, Stopped
  <2> QED BY <2>1, <2>2
<1>7. CASE Transcript \/ UserTurn \/ TimerFires \/ CancelWait \/ Speak \/ PassEnd \/ VoiceFails
  BY <1>1, <1>7 DEF Transcript, UserTurn, TimerFires, CancelWait, Speak, PassEnd, VoiceFails, lower
<1>8. CASE Proxy \/ Interrupt \/ TaskEnds \/ (SideFails /\ UNCHANGED rvars) \/ UNCHANGED vars
  <2>1. UNCHANGED <<hangup, credit>>
    BY <1>8 DEF Proxy, Interrupt, TaskEnds, rvars, lower, vars
  <2> QED BY <1>1, <2>1
<1> QED BY <1>3, <1>4, <1>5, <1>6, <1>7, <1>8 DEF Next

(* A call is ended only by a request of its own, made by a tag or a tool   *)
(* and not used before, when the voice stops: never at a clip's stop.      *)
THEOREM EachEndWasAskedCorrect == Spec => EachEndWasAsked
<1>1. Init => Covered
  BY DEF Init, Covered
<1>2. Covered /\ [Next]_vars => Covered'
  BY Accounted DEF Accounts
<1>3. Covered /\ [Next]_vars
        => [credit' < credit => credit > 0 /\ voice /\ ~voice' /\ UNCHANGED wait]_vars
  BY Accounted DEF Accounts, UsedAtTheStop
<1> QED BY <1>1, <1>2, <1>3, PTL DEF Spec, EachEndWasAsked

-----------------------------------------------------------------------------
(* Every request is in one place *)

Distinct(queue) == \A i, j \in DOMAIN queue : queue[i] = queue[j] => i = j

(* The requests that tool functions will make. *)
Called == {x.req : x \in calls}

(* Where a request that is still to be answered may be. *)
Inbox == Waiting(inbox)
Own == Waiting(own)
Main == Held("main")
Worker == Held("own")
Open == Inbox \cup Own \cup Main \cup Worker \cup Called

(* Exclusion alone is not inductive: an answer is the only one because its *)
(* request is nowhere else, and a new request has a new number.            *)
InOnePlace ==
  /\ Distinct(inbox) /\ Distinct(own)
  /\ \A x, y \in calls : x.req = y.req => x = y
  /\ Inbox \cap Own = {} /\ Inbox \cap Main = {} /\ Inbox \cap Worker = {}
  /\ Own \cap Main = {} /\ Own \cap Worker = {} /\ Main \cap Worker = {}
  /\ Called \cap (Inbox \cup Own \cup Main \cup Worker) = {}
AnsweredAndGone ==
  /\ Open \subseteq 1..count
  /\ \A r \in Requests : served[r] <= 1 /\ (served[r] = 1 => r \in (1..count) \ Open)
Once == InOnePlace /\ AnsweredAndGone

LEMMA HeadLeaves ==
  ASSUME NEW S, NEW q \in Seq(S), q # <<>>, Distinct(q)
  PROVE  /\ Head(q) \in Waiting(q) /\ Waiting(Tail(q)) = Waiting(q) \ {Head(q)}
         /\ Distinct(Tail(q))
<1>1. /\ Len(q) \in Nat /\ Len(q) >= 1 /\ DOMAIN q = 1..Len(q) /\ Head(q) = q[1]
      /\ DOMAIN Tail(q) = 1..(Len(q) - 1)
      /\ \A i \in 1..(Len(q) - 1) : Tail(q)[i] = q[i + 1]
  OBVIOUS
<1>2. Distinct(Tail(q))
  BY <1>1 DEF Distinct
<1>3. Head(q) \in Waiting(q)
  BY <1>1 DEF Waiting
<1>4. ASSUME NEW e \in Waiting(Tail(q)) PROVE e \in Waiting(q) \ {Head(q)}
  <2>1. PICK i \in 1..(Len(q) - 1) : e = q[i + 1]
    BY <1>1 DEF Waiting
  <2>2. i + 1 \in DOMAIN q /\ 1 \in DOMAIN q /\ i + 1 # 1
    BY <1>1
  <2> QED BY <1>1, <2>1, <2>2 DEF Waiting, Distinct
<1>5. ASSUME NEW e \in Waiting(q) \ {Head(q)} PROVE e \in Waiting(Tail(q))
  <2>1. PICK i \in 1..Len(q) : e = q[i]
    BY <1>1 DEF Waiting
  <2>2. i # 1
    BY <1>1, <2>1
  <2>3. i - 1 \in 1..(Len(q) - 1) /\ (i - 1) + 1 = i
    BY <1>1, <2>2
  <2> QED BY <1>1, <2>1, <2>3 DEF Waiting
<1> QED BY <1>2, <1>3, <1>4, <1>5

LEMMA LastComes ==
  ASSUME NEW S, NEW q \in Seq(S), NEW e \in S
  PROVE  /\ Waiting(Append(q, e)) = Waiting(q) \cup {e}
         /\ Distinct(q) /\ e \notin Waiting(q) => Distinct(Append(q, e))
<1>1. /\ Len(q) \in Nat /\ DOMAIN q = 1..Len(q)
      /\ DOMAIN Append(q, e) = 1..(Len(q) + 1)
      /\ \A i \in 1..Len(q) : Append(q, e)[i] = q[i]
      /\ Append(q, e)[Len(q) + 1] = e
  OBVIOUS
<1>2. \A i \in DOMAIN Append(q, e) : i \in 1..Len(q) \/ i = Len(q) + 1
  BY <1>1
<1>3. Waiting(Append(q, e)) = Waiting(q) \cup {e}
  BY <1>1, <1>2 DEF Waiting
<1>4. Distinct(q) /\ e \notin Waiting(q) => Distinct(Append(q, e))
  BY <1>1, <1>2 DEF Distinct, Waiting
<1> QED BY <1>3, <1>4

LEMMA NothingWaits == Waiting(<<>>) = {} /\ Distinct(<<>>)
BY DEF Waiting, Distinct

(* A step by which requests only move on, and which finishes none. *)
LEMMA Moves ==
  ASSUME TypeInv, Once, InOnePlace', served' = served, count' = count, Open' \subseteq Open
  PROVE  Once'
BY DEF Once, AnsweredAndGone

(* A step that leaves the places of the requests alone. *)
LEMMA Stays ==
  ASSUME TypeInv, Once, UNCHANGED <<inbox, own, calls, served, count>>,
         Main' = Main, Worker' = Worker
  PROVE  Once'
<1>1. UNCHANGED <<Inbox, Own, Called>>
  BY DEF Inbox, Own, Called
<1>2. InOnePlace'
  BY <1>1 DEF Once, InOnePlace, Distinct
<1>3. Open' = Open
  BY <1>1 DEF Open
<1> QED BY <1>2, <1>3, Moves

(* What a task holds depends on the task alone. *)
LEMMA HeldBy ==
  /\ task'["main"] = task["main"] => Main' = Main
  /\ task'["own"] = task["own"] => Worker' = Worker
  /\ (task["main"].step # "idle" /\ task'["main"].step # "idle"
        /\ task'["main"].req = task["main"].req) => Main' = Main
  /\ (task["own"].step # "idle" /\ task'["own"].step # "idle"
        /\ task'["own"].req = task["own"].req) => Worker' = Worker
  /\ task["main"].step # "idle" => Main = {task["main"].req}
  /\ task["own"].step # "idle" => Worker = {task["own"].req}
  /\ task["main"].step = "idle" => Main = {}
  /\ task["own"].step = "idle" => Worker = {}
  /\ task'["main"].step = "idle" => Main' = {}
  /\ task'["own"].step = "idle" => Worker' = {}
  /\ task'["main"].step # "idle" => Main' = {task'["main"].req}
  /\ task'["own"].step # "idle" => Worker' = {task'["own"].req}
BY DEF Main, Worker, Held

LEMMA ProxyOnce ==
  ASSUME TypeInv, Once, ProxyStep, UNCHANGED <<calls, count>>
  PROVE  Once'
<1>0. /\ TasksOK /\ inbox \in Seq(Requests) /\ own \in Seq(Requests)
      /\ Called' = Called /\ "main" \in Tasks /\ "own" \in Tasks
      /\ Distinct(inbox) /\ Distinct(own)
  BY DEF TypeInv, ProxyDataOK, Called, Tasks, Once, InOnePlace
<1>1. CASE Serve
  <2> DEFINE r == Head(inbox)
  <2>1. /\ r \in Inbox /\ Inbox' = Inbox \ {r} /\ Distinct(inbox)' /\ r \in Requests
        /\ Own' = Own /\ own' = own /\ served' = served
    BY <1>0, <1>1, HeadLeaves, HeadTyped DEF Serve, Inbox, Own
  <2>2. Main = {} /\ Main' \subseteq {r} /\ Worker' = Worker
    <3>1. CASE NotStarted
      BY <1>1, <3>1, HeldBy DEF Serve
    <3>2. CASE ~NotStarted
      <4>1. task'["main"].step = "serving" /\ task'["main"].req = r /\ task'["own"] = task["own"]
        BY <1>0, <1>1, <2>1, <3>2, ServesTask DEF Serve
      <4> QED BY <1>1, <4>1, HeldBy DEF Serve
    <3> QED BY <3>1, <3>2
  <2> HIDE DEF r
  <2>3. InOnePlace'
    BY <1>0, <2>1, <2>2 DEF Once, InOnePlace
  <2>4. Open' \subseteq Open
    BY <1>0, <2>1, <2>2 DEF Open
  <2> QED BY <2>1, <2>3, <2>4, Moves
<1>2. CASE OwnServe
  <2> DEFINE r == Head(own)
  <2>1. /\ r \in Own /\ Own' = Own \ {r} /\ Distinct(own)' /\ r \in Requests
        /\ Inbox' = Inbox /\ inbox' = inbox /\ served' = served
    BY <1>0, <1>2, HeadLeaves, HeadTyped DEF OwnServe, Inbox, Own
  <2>2. Worker = {} /\ Worker' = {r} /\ Main' = Main
    <3>1. task'["own"].step = "serving" /\ task'["own"].req = r /\ task'["main"] = task["main"]
      BY <1>0, <1>2, <2>1, ServesTask DEF OwnServe
    <3> QED BY <1>2, <3>1, HeldBy DEF OwnServe
  <2> HIDE DEF r
  <2>3. InOnePlace'
    BY <1>0, <2>1, <2>2 DEF Once, InOnePlace
  <2>4. Open' \subseteq Open
    BY <1>0, <2>1, <2>2 DEF Open
  <2> QED BY <2>1, <2>3, <2>4, Moves
<1>3. CASE Requeue
  <2> DEFINE r == task["main"].req
  <2>1. r \in Requests /\ Main = {r}
    BY <1>0, <1>3, HeldBy DEF Requeue, TasksOK, TasksHold
  <2>2. Main' = {} /\ Worker' = Worker
    BY <1>0, <1>3, RestsTask, HeldBy DEF Requeue
  <2>3. r \notin Own /\ own' = Append(own, r) /\ inbox' = inbox /\ served' = served
    BY <1>3, <2>1 DEF Requeue, Once, InOnePlace
  <2> HIDE DEF r
  <2>4. Own' = Own \cup {r} /\ Distinct(own)' /\ Inbox' = Inbox
    BY <1>0, <2>1, <2>3, LastComes DEF Own, Inbox
  <2>5. InOnePlace'
    BY <1>0, <2>1, <2>2, <2>3, <2>4 DEF Once, InOnePlace
  <2>6. Open' \subseteq Open
    BY <1>0, <2>1, <2>2, <2>4 DEF Open
  <2> QED BY <2>3, <2>5, <2>6, Moves
<1>4. ASSUME NEW c \in {"main", "side"}, Trigger(c) \/ Setup(c) PROVE Once'
  <2>1. /\ After(c) \/ Goes(c, "setup")
        /\ task[c].step # "idle" /\ UNCHANGED <<inbox, own, served>>
    BY <1>4 DEF Trigger, Setup, FactoryRaises, FactoryReturns
  <2>2. /\ task'["own"] = task["own"]
        /\ \/ task'["main"] = task["main"]
           \/ /\ task["main"].step # "idle" /\ task'["main"].step # "idle"
              /\ task'["main"].req = task["main"].req
    BY <1>0, <2>1, AfterTask, GoesTask DEF Steps
  <2> QED BY <2>1, <2>2, HeldBy, Stays
<1> QED BY <1>1, <1>2, <1>3, <1>4 DEF ProxyStep

LEMMA OnceStep == TypeInv /\ Once /\ [Next]_vars => Once'
<1> SUFFICES ASSUME TypeInv, Once, [Next]_vars PROVE Once'
  OBVIOUS
<1>0. /\ TasksOK /\ inbox \in Seq(Requests) /\ own \in Seq(Requests) /\ count \in Nat
      /\ "main" \in Tasks /\ "own" \in Tasks /\ served \in [Requests -> Nat]
      /\ Distinct(inbox) /\ Distinct(own) /\ calls \subseteq [req : Requests, hangup : BOOLEAN]
  BY Bounds DEF TypeInv, ProxyDataOK, RestOK, Tasks, Once, InOnePlace
<1>1. CASE UserTurn
  <2> DEFINE r == count + 1
  <2>1. r \in Requests /\ count' = r /\ r \notin 1..count
    BY <1>0, <1>1, Bounds DEF UserTurn, Requests
  <2>2. r \notin Open
    BY <2>1 DEF Once, AnsweredAndGone
  <2>3. /\ UNCHANGED <<own, calls, served, task>>
        /\ inbox' = inbox \/ inbox' = Append(inbox, r)
    BY <1>1 DEF UserTurn, lower
  <2>4. 1..r = (1..count) \cup {r}
    BY <1>0
  <2> HIDE DEF r
  <2>5. Own' = Own /\ Main' = Main /\ Worker' = Worker /\ Called' = Called
    BY <2>3 DEF Own, Main, Worker, Held, Called
  <2>6. (Inbox' = Inbox \/ Inbox' = Inbox \cup {r}) /\ Distinct(inbox)'
    <3>1. r \notin Waiting(inbox)
      BY <2>2 DEF Open, Inbox
    <3>2. CASE inbox' = Append(inbox, r)
      BY <1>0, <2>1, <3>1, <3>2, LastComes DEF Inbox
    <3>3. CASE inbox' = inbox
      BY <1>0, <3>3 DEF Inbox, Waiting, Distinct
    <3> QED BY <2>3, <3>2, <3>3
  <2>7. InOnePlace'
    BY <2>2, <2>3, <2>5, <2>6 DEF Once, InOnePlace, Open
  <2>8. Open' \subseteq Open \cup {r} /\ Open \subseteq 1..count
    BY <2>5, <2>6 DEF Open, Once, AnsweredAndGone
  <2>9. AnsweredAndGone'
    <3>1. \A x \in Requests : served'[x] <= 1 /\ (served'[x] = 1 => x \in (1..r) \ Open')
      <4>1. ASSUME NEW x \in Requests, served[x] = 1 PROVE x \in (1..r) \ Open'
        <5>1. x \in 1..count /\ x \notin Open
          BY <4>1 DEF Once, AnsweredAndGone
        <5> QED BY <2>1, <2>4, <2>8, <5>1
      <4> QED BY <2>3, <4>1 DEF Once, AnsweredAndGone
    <3>2. Open' \subseteq 1..r
      BY <2>4, <2>8
    <3> QED BY <2>1, <3>1, <3>2 DEF AnsweredAndGone
  <2> QED BY <2>7, <2>9 DEF Once
<1>2. ASSUME NEW c \in {"main", "own"}, Answers(c) PROVE Once'
  <2> DEFINE r == task[c].req
  <2>1. /\ c \in Tasks /\ task[c].step = "serving" /\ r \in Requests
        /\ served' = [served EXCEPT ![r] = @ + 1] /\ Rests(c) /\ UNCHANGED <<inbox, own>>
    BY <1>0, <1>2 DEF Answers, Finish, TasksOK, TasksHold
  <2>2. /\ task'[c].step = "idle"
        /\ \A d \in Tasks \ {c} : task'[d] = task[d]
    BY <1>0, <2>1, RestsTask
  <2>3. /\ Inbox' = Inbox /\ Own' = Own
        /\ IF c = "main" THEN Main = {r} /\ Main' = {} /\ Worker' = Worker
                         ELSE Worker = {r} /\ Worker' = {} /\ Main' = Main
    BY <1>0, <2>1, <2>2, HeldBy DEF Inbox, Own
  <2>4. \/ UNCHANGED <<count, calls>> /\ Called' = Called
        \/ /\ count' = count + 1 /\ count + 1 \in Requests /\ Called' = Called \cup {count + 1}
           /\ \E h \in BOOLEAN : calls' = calls \cup {[req |-> count + 1, hangup |-> h]}
    <3>1. CASE UNCHANGED <<count, calls>>
      BY <3>1 DEF Called
    <3>2. ASSUME count < MaxRequests, count' = count + 1, NEW h \in BOOLEAN,
                 calls' = calls \cup {[req |-> count + 1, hangup |-> h]}
          PROVE  count + 1 \in Requests /\ Called' = Called \cup {count + 1}
      <4>1. count + 1 \in Requests
        BY <1>0, <3>2, Bounds DEF Requests
      <4>2. Called' = Called \cup {[req |-> count + 1, hangup |-> h].req}
        BY <3>2 DEF Called
      <4> QED BY <4>1, <4>2
    <3> QED BY <1>2, <3>1, <3>2 DEF Answers
  <2>5. count + 1 \notin 1..count /\ 1..(count + 1) = (1..count) \cup {count + 1}
    BY <1>0
  <2>6. count + 1 \notin Open /\ r \in Open
    BY <2>3, <2>5 DEF Once, AnsweredAndGone, Open
  <2>7. \A x, y \in calls' : x.req = y.req => x = y
    <3>1. \A x \in calls : x.req # count + 1
      BY <2>6 DEF Open, Called
    <3>2. CASE UNCHANGED <<count, calls>>
      BY <3>2 DEF Once, InOnePlace
    <3>3. ASSUME NEW h \in BOOLEAN, calls' = calls \cup {[req |-> count + 1, hangup |-> h]}
          PROVE  \A x, y \in calls' : x.req = y.req => x = y
      BY <3>1, <3>3 DEF Once, InOnePlace
    <3> QED BY <2>4, <3>2, <3>3
  <2> HIDE DEF r
  <2>8. Called' = Called \/ Called' = Called \cup {count + 1}
    BY <2>4
  <2>9. InOnePlace'
    <3>1. Distinct(inbox)' /\ Distinct(own)'
      BY <1>0, <2>1 DEF Distinct
    <3>2. CASE c = "main"
      BY <2>3, <2>6, <2>7, <2>8, <3>1, <3>2 DEF Once, InOnePlace, Open
    <3>3. CASE c # "main"
      BY <2>3, <2>6, <2>7, <2>8, <3>1, <3>3 DEF Once, InOnePlace, Open
    <3> QED BY <3>2, <3>3
  <2>10. Open' \subseteq (Open \ {r}) \cup (Called' \ Called)
    <3>1. CASE c = "main"
      BY <2>3, <2>8, <3>1 DEF Once, InOnePlace, Open
    <3>2. CASE c # "main"
      BY <2>3, <2>8, <3>2 DEF Once, InOnePlace, Open
    <3> QED BY <3>1, <3>2
  <2>11. AnsweredAndGone'
    <3>1. served[r] = 0
      BY <1>0, <2>1, <2>6 DEF Once, AnsweredAndGone
    <3>2. r \in 1..count /\ r # count + 1
      BY <2>5, <2>6 DEF Once, AnsweredAndGone
    <3>3. served'[r] = 1 /\ \A x \in Requests \ {r} : served'[x] = served[x]
      BY <1>0, <2>1, <3>1
    <3>4. \/ count' = count /\ Open' \subseteq Open \ {r}
          \/ count' = count + 1 /\ Open' \subseteq (Open \ {r}) \cup {count + 1}
      BY <2>4, <2>10
    <3>5. Open' \subseteq 1..count' /\ r \notin Open' /\ 1..count \subseteq 1..count'
      BY <2>5, <3>2, <3>4 DEF Once, AnsweredAndGone
    <3>6. ASSUME NEW x \in Requests \ {r}, served[x] = 1 PROVE x \in (1..count') \ Open'
      <4>1. x \in 1..count /\ x \notin Open /\ x # count + 1
        BY <2>5, <3>6 DEF Once, AnsweredAndGone
      <4> QED BY <3>4, <3>5, <4>1
    <3> QED BY <3>2, <3>3, <3>5, <3>6 DEF Once, AnsweredAndGone
  <2> QED BY <2>9, <2>11 DEF Once
<1>3. ASSUME NEW c \in {"main", "own"}, Streams(c) PROVE Once'
  <2>1. UNCHANGED <<inbox, own, served, count, calls>> /\ Emit(c) /\ task[c].step = "serving"
    BY <1>3 DEF Streams, Emit
  <2>2. /\ task'[c].step = task[c].step /\ task'[c].req = task[c].req
        /\ \A d \in Tasks \ {c} : task'[d] = task[d]
    BY <1>0, <2>1, EmitsTask
  <2>3. Main' = Main /\ Worker' = Worker
    BY <1>0, <2>1, <2>2, HeldBy
  <2> QED BY <2>1, <2>3, Stays
<1>4. ASSUME NEW c \in {"main", "own"}, Breaks(c) PROVE Once'
  <2>1. UNCHANGED <<inbox, own, served, count, calls>> /\ task[c].step = "serving"
    BY <1>4 DEF Breaks, Raises
  <2>2. CASE c = "main"
    <3>1. Goes("main", "failed")
      BY <1>4, <2>2 DEF Breaks, Raises
    <3>2. /\ task'["main"].step = "failed" /\ task'["main"].req = task["main"].req
          /\ task'["own"] = task["own"]
      BY <1>0, <2>1, <2>2, <3>1, GoesTask DEF Steps
    <3> QED BY <2>1, <2>2, <3>2, HeldBy, Stays
  <2>3. CASE c = "own"
    <3>1. task'["own"].step = "idle" /\ task'["main"] = task["main"]
      BY <1>0, <1>4, <2>3, RestsTask DEF Breaks, Raises
    <3>2. Worker' = {} /\ Main' = Main /\ Inbox' = Inbox /\ Own' = Own /\ Called' = Called
      BY <2>1, <3>1, HeldBy DEF Inbox, Own, Called
    <3>3. InOnePlace'
      BY <2>1, <3>2 DEF Once, InOnePlace, Distinct
    <3>4. Open' \subseteq Open
      BY <3>2 DEF Open
    <3> QED BY <2>1, <3>3, <3>4, Moves
  <2> QED BY <2>2, <2>3
<1>5. ASSUME NEW x \in calls, Tool(x) PROVE Once'
  <2> DEFINE r == x.req
  <2>1. r \in Requests /\ r \in Called /\ UNCHANGED <<own, served, task, count>>
    BY <1>0, <1>5 DEF Tool, Called
  <2>2. inbox' = Append(inbox, r) /\ r \notin Inbox /\ calls' = calls \ {x}
    BY <1>5, <2>1 DEF Tool, Once, InOnePlace
  <2>3. Called' = Called \ {r}
    BY <2>2 DEF Called, Once, InOnePlace
  <2> HIDE DEF r
  <2>4. Inbox' = Inbox \cup {r} /\ Distinct(inbox)'
    BY <1>0, <2>1, <2>2, LastComes DEF Inbox
  <2>5. Own' = Own /\ Main' = Main /\ Worker' = Worker
    BY <2>1 DEF Own, Main, Worker, Held
  <2>6. InOnePlace'
    <3>1. Distinct(own)' /\ \A a, b \in calls' : a.req = b.req => a = b
      BY <1>0, <2>1, <2>2 DEF Once, InOnePlace, Distinct
    <3> QED BY <2>1, <2>3, <2>4, <2>5, <3>1 DEF Once, InOnePlace
  <2>7. Open' \subseteq Open
    BY <2>1, <2>3, <2>4, <2>5 DEF Open
  <2> QED BY <2>1, <2>6, <2>7, Moves
<1>6. CASE Interrupt
  <2>1. UNCHANGED <<count, calls, served>> /\ inbox' = <<>> /\ Called' = Called
        /\ own' = (IF NotStarted THEN own ELSE <<>>) /\ Interrupted
    BY <1>6 DEF Interrupt, Interrupted, Called
  <2>2. Main' = {} /\ Inbox' = {} /\ Distinct(inbox)'
    BY <1>0, <2>1, CancelledTasks, HeldBy, NothingWaits DEF Inbox
  <2>3. Worker' \subseteq Worker /\ Own' \subseteq Own /\ Distinct(own)'
    <3>1. CASE NotStarted
      BY <1>0, <2>1, <3>1, CancelledTasks, HeldBy DEF Own, Distinct
    <3>2. CASE ~NotStarted
      BY <1>0, <2>1, <3>2, CancelledTasks, HeldBy, NothingWaits DEF Own
    <3> QED BY <3>1, <3>2
  <2>4. InOnePlace'
    BY <2>1, <2>2, <2>3 DEF Once, InOnePlace
  <2>5. Open' \subseteq Open
    BY <2>1, <2>2, <2>3 DEF Open
  <2> QED BY <2>1, <2>4, <2>5, Moves
<1>7. CASE SideFails /\ UNCHANGED rvars
  <2>1. UNCHANGED <<inbox, own, served, count, calls>> /\ Goes("side", "failed")
    BY <1>7 DEF SideFails, rvars
  <2>2. task'["main"] = task["main"] /\ task'["own"] = task["own"]
    BY <1>0, <2>1, GoesTask DEF Steps
  <2> QED BY <2>1, <2>2, HeldBy, Stays
<1>8. CASE Proxy
  BY <1>8, ProxyOnce DEF Proxy
<1>9. CASE Transcript \/ TimerFires \/ CancelWait \/ ClipEnds \/ Speak \/ PassEnd \/ Silence
           \/ VoiceFails \/ TaskEnds \/ UNCHANGED vars
  <2>1. UNCHANGED <<inbox, own, served, count, calls, task>>
    BY <1>9 DEF Transcript, TimerFires, CancelWait, ClipEnds, Speak, PassEnd, Silence, VoiceFails,
       TaskEnds, pvars, rvars, vars
  <2> QED BY <2>1, HeldBy, Stays
<1> QED
  BY <1>1, <1>2, <1>3, <1>4, <1>5, <1>6, <1>7, <1>8, <1>9 DEF Next, Inference

LEMMA InitOnce == Init => Once
<1> SUFFICES ASSUME Init PROVE Once
  OBVIOUS
<1>1. /\ inbox = <<>> /\ own = <<>> /\ calls = {} /\ count = 0
      /\ task = [c \in Tasks |-> Resting] /\ served = [r \in Requests |-> 0]
  BY DEF Init, ProxyInit
<1>2. Inbox = {} /\ Own = {} /\ Called = {} /\ Distinct(inbox) /\ Distinct(own)
  BY <1>1, NothingWaits DEF Inbox, Own, Called
<1>3. Main = {} /\ Worker = {}
  BY <1>1 DEF Main, Worker, Held, Resting, Tasks
<1>4. InOnePlace
  BY <1>1, <1>2, <1>3 DEF InOnePlace
<1>5. AnsweredAndGone
  BY <1>1, <1>2, <1>3 DEF AnsweredAndGone, Open
<1> QED BY <1>4, <1>5 DEF Once

(* No request is answered to its end twice, whatever fails and whenever a  *)
(* switch to the fallback falls between the two tasks that serve.          *)
THEOREM AnsweredOnceCorrect == Spec => []AnsweredOnce
<1>1. Once => AnsweredOnce
  BY DEF Once, AnsweredAndGone, AnsweredOnce
<1> QED BY <1>1, InitTyped, InitOnce, TypeStep, OnceStep, PTL DEF Spec

-----------------------------------------------------------------------------
(* No request is lost *)

Answered == {r \in Requests : served[r] > 0}
Known == Open \cup Answered \cup gone

(* What was asked is waiting, in work, answered or dropped ever after; and *)
(* it is dropped only by an interruption, by the exception of a service    *)
(* nobody is behind, or because the fallback was never set up.             *)
NothingIsLost ==
  /\ Known \subseteq Known'
  /\ gone' # gone => interrupts' # interrupts \/ errors' # errors \/ NotStarted

(* A step that leaves the answers and the dropped as they are. *)
LEMMA OpenKept ==
  ASSUME UNCHANGED <<served, gone>>, Open \subseteq Open'
  PROVE  NothingIsLost
BY DEF NothingIsLost, Known, Answered

LEMMA PlacesKept ==
  ASSUME UNCHANGED <<inbox, own, calls>>, Main' = Main, Worker' = Worker
  PROVE  Open' = Open
BY DEF Open, Inbox, Own, Called

(* Serving it, putting it back and switching over keep hold of it. *)
LEMMA ProxyLosesNothing ==
  ASSUME TypeInv, Once, ProxyStep, UNCHANGED calls
  PROVE  NothingIsLost
<1>0. /\ TasksOK /\ inbox \in Seq(Requests) /\ own \in Seq(Requests)
      /\ Called' = Called /\ "main" \in Tasks /\ "own" \in Tasks
      /\ Distinct(inbox) /\ Distinct(own)
  BY DEF TypeInv, ProxyDataOK, Called, Tasks, Once, InOnePlace
<1>1. CASE Serve
  <2> DEFINE r == Head(inbox)
  <2>1. /\ Inbox' = Inbox \ {r} /\ r \in Requests /\ Own' = Own
        /\ UNCHANGED served /\ Main = {}
    BY <1>0, <1>1, HeadLeaves, HeadTyped, HeldBy DEF Serve, Inbox, Own
  <2>2. CASE NotStarted
    <3>1. gone' = gone \cup {r} /\ UNCHANGED task
      BY <1>1, <2>2 DEF Serve
    <3>2. Worker' = Worker
      BY <3>1, HeldBy
    <3>3. Open \subseteq Open' \cup {r}
      BY <1>0, <2>1, <3>2 DEF Open
    <3> HIDE DEF r
    <3> QED BY <2>1, <2>2, <3>1, <3>3 DEF NothingIsLost, Known, Answered
  <2>3. CASE ~NotStarted
    <3>1. /\ task'["main"].step = "serving" /\ task'["main"].req = r
          /\ task'["own"] = task["own"] /\ UNCHANGED gone
      BY <1>0, <1>1, <2>1, <2>3, ServesTask DEF Serve
    <3>2. Main' = {r} /\ Worker' = Worker
      BY <3>1, HeldBy
    <3>3. Open \subseteq Open'
      BY <1>0, <2>1, <3>2 DEF Open
    <3> QED BY <2>1, <3>1, <3>3, OpenKept
  <2> QED BY <2>2, <2>3
<1>2. CASE OwnServe
  <2> DEFINE r == Head(own)
  <2>1. /\ Own' = Own \ {r} /\ r \in Requests /\ Inbox' = Inbox
        /\ UNCHANGED <<served, gone>> /\ Worker = {}
    BY <1>0, <1>2, HeadLeaves, HeadTyped, HeldBy DEF OwnServe, Inbox, Own
  <2>2. Worker' = {r} /\ Main' = Main
    <3>1. task'["own"].step = "serving" /\ task'["own"].req = r /\ task'["main"] = task["main"]
      BY <1>0, <1>2, <2>1, ServesTask DEF OwnServe
    <3> QED BY <3>1, HeldBy
  <2>3. Open \subseteq Open'
    BY <1>0, <2>1, <2>2 DEF Open
  <2> QED BY <2>1, <2>3, OpenKept
<1>3. CASE Requeue
  <2> DEFINE r == task["main"].req
  <2>1. r \in Requests /\ Main = {r} /\ Worker' = Worker
    <3>1. r \in Requests /\ Main = {r}
      BY <1>0, <1>3, HeldBy DEF Requeue, TasksOK, TasksHold
    <3>2. Worker' = Worker
      BY <1>0, <1>3, RestsTask, HeldBy DEF Requeue
    <3> QED BY <3>1, <3>2
  <2>2. own' = Append(own, r) /\ UNCHANGED <<inbox, served, gone>>
    BY <1>3 DEF Requeue
  <2> HIDE DEF r
  <2>3. Own' = Own \cup {r} /\ Inbox' = Inbox
    BY <1>0, <2>1, <2>2, LastComes DEF Own, Inbox
  <2>4. Open \subseteq Open'
    BY <1>0, <2>1, <2>3 DEF Open
  <2> QED BY <2>2, <2>4, OpenKept
<1>4. ASSUME NEW c \in {"main", "side"}, Trigger(c) \/ Setup(c) PROVE NothingIsLost
  <2>1. /\ After(c) \/ Goes(c, "setup")
        /\ task[c].step # "idle" /\ UNCHANGED <<inbox, own, served, gone>>
    BY <1>4 DEF Trigger, Setup, FactoryRaises, FactoryReturns
  <2>2. /\ task'["own"] = task["own"]
        /\ \/ task'["main"] = task["main"]
           \/ /\ task["main"].step # "idle" /\ task'["main"].step # "idle"
              /\ task'["main"].req = task["main"].req
    BY <1>0, <2>1, AfterTask, GoesTask DEF Steps
  <2>3. Main' = Main /\ Worker' = Worker
    BY <2>2, HeldBy
  <2>4. Open' = Open
    BY <2>1, <2>3, PlacesKept
  <2> QED BY <2>1, <2>4, OpenKept
<1> QED BY <1>1, <1>2, <1>3, <1>4 DEF ProxyStep

LEMMA LosesNothing ==
  ASSUME TypeInv, Once, [Next]_vars
  PROVE  NothingIsLost
<1>0. /\ TasksOK /\ inbox \in Seq(Requests) /\ own \in Seq(Requests)
      /\ "main" \in Tasks /\ "own" \in Tasks /\ served \in [Requests -> Nat]
      /\ Distinct(inbox) /\ Distinct(own) /\ errors \in Nat /\ interrupts \in Nat
  BY Bounds DEF TypeInv, ProxyDataOK, RestOK, Tasks, Once, InOnePlace
<1>1. CASE UserTurn
  <2>1. /\ UNCHANGED <<own, calls, served, gone, task>>
        /\ inbox' = inbox \/ inbox' = Append(inbox, count + 1)
    BY <1>1 DEF UserTurn, lower
  <2>2. count + 1 \in Requests
    BY <1>1, Bounds DEF UserTurn, Requests, TypeInv, RestOK
  <2>3. Inbox \subseteq Inbox'
    <3>1. CASE inbox' = Append(inbox, count + 1)
      BY <1>0, <2>2, <3>1, LastComes DEF Inbox
    <3>2. CASE inbox' = inbox
      BY <3>2 DEF Inbox
    <3> QED BY <2>1, <3>1, <3>2
  <2>4. Open \subseteq Open'
    BY <2>1, <2>3 DEF Open, Own, Main, Worker, Held, Called
  <2> QED BY <2>1, <2>4, OpenKept
<1>2. ASSUME NEW c \in {"main", "own"}, Answers(c) PROVE NothingIsLost
  <2> DEFINE r == task[c].req
  <2>1. /\ c \in Tasks /\ task[c].step = "serving" /\ r \in Requests
        /\ served' = [served EXCEPT ![r] = @ + 1] /\ Rests(c) /\ UNCHANGED <<inbox, own, gone>>
    BY <1>0, <1>2 DEF Answers, Finish, TasksOK, TasksHold
  <2>2. /\ Inbox' = Inbox /\ Own' = Own
        /\ IF c = "main" THEN Main = {r} /\ Worker' = Worker ELSE Worker = {r} /\ Main' = Main
    <3>1. \A d \in Tasks \ {c} : task'[d] = task[d]
      BY <1>0, <2>1, RestsTask
    <3> QED BY <1>0, <2>1, <3>1, HeldBy DEF Inbox, Own
  <2>3. Called \subseteq Called'
    <3>1. calls \subseteq calls'
      BY <1>2 DEF Answers
    <3> QED BY <3>1 DEF Called
  <2> HIDE DEF r
  <2>4. Open \subseteq Open' \cup {r}
    BY <2>2, <2>3 DEF Open
  <2>5. Answered' = Answered \cup {r}
    BY <1>0, <2>1 DEF Answered
  <2> QED BY <2>1, <2>4, <2>5 DEF NothingIsLost, Known
<1>3. ASSUME NEW c \in {"main", "own"}, Streams(c) PROVE NothingIsLost
  <2>1. UNCHANGED <<inbox, own, served, gone, calls>> /\ Emit(c) /\ task[c].step = "serving"
    BY <1>3 DEF Streams, Emit
  <2>2. /\ task'[c].step = task[c].step /\ task'[c].req = task[c].req
        /\ \A d \in Tasks \ {c} : task'[d] = task[d]
    BY <1>0, <2>1, EmitsTask
  <2>3. Main' = Main /\ Worker' = Worker
    BY <1>0, <2>1, <2>2, HeldBy
  <2>4. Open' = Open
    BY <2>1, <2>3, PlacesKept
  <2> QED BY <2>1, <2>4, OpenKept
<1>4. ASSUME NEW c \in {"main", "own"}, Breaks(c) PROVE NothingIsLost
  <2>1. /\ UNCHANGED <<inbox, own, served, calls>> /\ task[c].step = "serving"
        /\ errors' # errors
    BY <1>0, <1>4 DEF Breaks, Raises
  <2>2. CASE c = "main"
    <3>1. Goes("main", "failed") /\ UNCHANGED gone
      BY <1>4, <2>2 DEF Breaks, Raises
    <3>2. /\ task'["main"].step = "failed" /\ task'["main"].req = task["main"].req
          /\ task'["own"] = task["own"]
      BY <1>0, <2>1, <2>2, <3>1, GoesTask DEF Steps
    <3>3. Main' = Main /\ Worker' = Worker
      BY <2>1, <2>2, <3>2, HeldBy
    <3>4. Open' = Open
      BY <2>1, <3>3, PlacesKept
    <3> QED BY <2>1, <3>1, <3>4, OpenKept
  <2>3. CASE c = "own"
    <3>1. /\ gone' = gone \cup {task["own"].req} /\ task'["main"] = task["main"]
      BY <1>0, <1>4, <2>3, RestsTask DEF Breaks, Raises
    <3>2. Worker = {task["own"].req} /\ Main' = Main /\ Inbox' = Inbox /\ Own' = Own /\ Called' = Called
      BY <2>1, <2>3, <3>1, HeldBy DEF Inbox, Own, Called
    <3>3. Open \subseteq Open' \cup gone'
      BY <3>1, <3>2 DEF Open
    <3> QED BY <2>1, <3>1, <3>3 DEF NothingIsLost, Known, Answered
  <2> QED BY <2>2, <2>3
<1>5. ASSUME NEW x \in calls, Tool(x) PROVE NothingIsLost
  <2>1. /\ inbox' = Append(inbox, x.req) /\ calls' = calls \ {x}
        /\ UNCHANGED <<own, served, gone, task>>
    BY <1>5 DEF Tool
  <2>2. x.req \in Requests
    BY DEF TypeInv, RestOK
  <2>3. Inbox' = Inbox \cup {x.req}
    BY <1>0, <2>1, <2>2, LastComes DEF Inbox
  <2>4. Called \subseteq Called' \cup {x.req}
    BY <2>1 DEF Called
  <2>5. Open \subseteq Open'
    BY <2>1, <2>3, <2>4 DEF Open, Own, Main, Worker, Held
  <2> QED BY <2>1, <2>5, OpenKept
<1>6. CASE Interrupt
  <2>1. /\ UNCHANGED <<calls, served>> /\ interrupts' # interrupts
        /\ gone' = gone \cup Inbox \cup Main
                        \cup (IF NotStarted THEN {} ELSE Worker \cup Own)
    BY <1>0, <1>6 DEF Interrupt, Interrupted, Inbox, Main, Worker, Own
  <2>2. Called' = Called
    BY <2>1 DEF Called
  <2>3. Worker \cup Own \subseteq Worker' \cup Own' \cup gone'
    <3>1. CASE NotStarted
      <4>1. Own' = Own /\ task'["own"] = task["own"]
        BY <1>0, <1>6, <3>1, CancelledTasks DEF Interrupt, Interrupted, Own
      <4> QED BY <4>1, HeldBy
    <3>2. CASE ~NotStarted
      BY <2>1, <3>2
    <3> QED BY <3>1, <3>2
  <2>4. Open \subseteq Open' \cup gone'
    BY <2>1, <2>2, <2>3 DEF Open
  <2> QED BY <2>1, <2>4 DEF NothingIsLost, Known, Answered
<1>7. CASE SideFails /\ UNCHANGED rvars
  <2>1. UNCHANGED <<inbox, own, served, gone, calls>> /\ Goes("side", "failed")
    BY <1>7 DEF SideFails, rvars
  <2>2. task'["main"] = task["main"] /\ task'["own"] = task["own"]
    BY <1>0, <2>1, GoesTask DEF Steps
  <2>3. Open' = Open
    BY <2>1, <2>2, HeldBy, PlacesKept
  <2> QED BY <2>1, <2>3, OpenKept
<1>8. CASE Proxy
  BY <1>8, ProxyLosesNothing DEF Proxy
<1>9. CASE Transcript \/ TimerFires \/ CancelWait \/ ClipEnds \/ Speak \/ PassEnd \/ Silence
           \/ VoiceFails \/ TaskEnds \/ UNCHANGED vars
  <2>1. UNCHANGED <<inbox, own, served, gone, calls, task>>
    BY <1>9 DEF Transcript, TimerFires, CancelWait, ClipEnds, Speak, PassEnd, Silence, VoiceFails,
       TaskEnds, pvars, rvars, vars
  <2>2. Open' = Open
    BY <2>1, HeldBy, PlacesKept
  <2> QED BY <2>1, <2>2, OpenKept
<1> QED
  BY <1>1, <1>2, <1>3, <1>4, <1>5, <1>6, <1>7, <1>8, <1>9 DEF Next, Inference

(* A request that reached the proxy is never lost on the way from the      *)
(* primary to the fallback or between the two tasks that serve: it waits,  *)
(* is in work, was answered, or is among those dropped for a reason.       *)
THEOREM NothingIsLostCorrect == Spec => [][NothingIsLost]_vars
<1>1. TypeInv /\ Once /\ [Next]_vars => [NothingIsLost]_vars
  BY LosesNothing
<1> QED BY <1>1, InitTyped, InitOnce, TypeStep, OnceStep, PTL DEF Spec
=============================================================================
