----------------------------- MODULE ServiceProxy -----------------------------
(***************************************************************************)
(* ResilientLLMProcessor, and ResilientSTTProcessor, whose code is the     *)
(* same: a proxy that hands its frames to a primary service and, once that *)
(* has raised, makes a fallback service and goes on with it. The primary   *)
(* is called in the proxy's own task; the frame that failed is put into    *)
(* the queue of the service, whose own task takes it, so that from then on *)
(* two tasks serve requests. The other caller of the fallback is a task of *)
(* the side: system frames, or the speech connection that is patched to    *)
(* switch over when connecting fails.                                      *)
(*                                                                         *)
(* What a service answers is external: some tokens, then the end of the    *)
(* response, or an exception in the middle.                                *)
(***************************************************************************)
EXTENDS Integers, Sequences, FiniteSets

CONSTANTS
  MaxRequests,   \* bound: context frames that reach the proxy
  MaxTokens,     \* bound: pieces of text in all answers together
  MaxErrors      \* bound: exceptions of the services

ASSUME ProxyAssumption == {MaxRequests, MaxTokens, MaxErrors} \subseteq Nat

VARIABLES
  inbox,             \* the context frames waiting in front of the proxy
  fallback_active,
  active,            \* active_llm: "primary" or "fallback"
  backup,            \* the fallback: "none", "made", "started" (set up, StartFrame replayed)
  task,              \* where the three tasks are, with their request
  tokens, errors,    \* how many texts and exceptions there were
  own,               \* the service's own queue
  made,              \* history: how often the factory was called
  served,            \* history: the complete answers to every request
  gone               \* history: requests that an interruption or an error dropped

pvars == <<inbox, fallback_active, active, backup, task, tokens, errors, own,
           made, served, gone>>

Requests == 1..MaxRequests
Tasks == {"main", "own", "side"}
Resting == [step |-> "idle", req |-> 0, text |-> FALSE]
Serving(r) == [step |-> "serving", req |-> r, text |-> FALSE]
NotStarted == active = "fallback" /\ backup # "started"
Dead == NotStarted /\ \A c \in Tasks : task[c].step # "setup"   \* for the rest of the call

ProxyTypeOK ==
  /\ inbox \in Seq(Requests) /\ own \in Seq(Requests)
  /\ fallback_active \in BOOLEAN /\ active \in {"primary", "fallback"}
  /\ backup \in {"none", "made", "started"}
  /\ task \in [Tasks -> [step : {"idle", "serving", "failed", "setup", "requeue"},
                         req : 0..MaxRequests, text : BOOLEAN]]
  /\ tokens \in 0..MaxTokens /\ errors \in 0..MaxErrors
  /\ made \in Nat /\ served \in [Requests -> Nat] /\ gone \subseteq Requests

ProxyInit ==
  /\ inbox = <<>> /\ own = <<>>
  /\ fallback_active = FALSE /\ active = "primary" /\ backup = "none"
  /\ task = [c \in Tasks |-> Resting]
  /\ tokens = 0 /\ errors = 0 /\ made = 0 /\ served = [r \in Requests |-> 0] /\ gone = {}

Goes(c, step) == task' = [task EXCEPT ![c].step = step]
Rests(c) == task' = [task EXCEPT ![c] = Resting]

-----------------------------------------------------------------------------
(* process_frame calls the active service. One that was not set up pushes  *)
(* nothing, and the request is lost.                                       *)
Serve ==
  /\ task["main"].step = "idle" /\ inbox # <<>>
  /\ inbox' = Tail(inbox)
  /\ IF NotStarted
     THEN gone' = gone \cup {Head(inbox)} /\ UNCHANGED task
     ELSE task' = [task EXCEPT !["main"] = Serving(Head(inbox))]
          /\ UNCHANGED gone
  /\ UNCHANGED <<fallback_active, active, backup, tokens, errors, own, made, served>>

(* The service's own task, which runs once the service is set up. *)
OwnServe ==
  /\ task["own"].step = "idle" /\ own # <<>> /\ ~NotStarted
  /\ own' = Tail(own)
  /\ task' = [task EXCEPT !["own"] = Serving(Head(own))]
  /\ UNCHANGED <<inbox, fallback_active, active, backup, tokens, errors, made, served, gone>>

Emit(c) ==
  /\ task[c].step = "serving" /\ tokens < MaxTokens
  /\ task' = [task EXCEPT ![c].text = TRUE] /\ tokens' = tokens + 1
  /\ UNCHANGED <<inbox, fallback_active, active, backup, errors, own, made, served, gone>>

Finish(c) ==
  /\ task[c].step = "serving"
  /\ served' = [served EXCEPT ![task[c].req] = @ + 1]
  /\ Rests(c)
  /\ UNCHANGED <<inbox, fallback_active, active, backup, tokens, errors, own, made, gone>>

(* The service raises: in the proxy's task the exception is caught by the  *)
(* proxy, in its own task the service reports it and drops the request.    *)
Raises(c) ==
  /\ task[c].step = "serving" /\ errors < MaxErrors /\ errors' = errors + 1
  /\ IF c = "main" THEN Goes(c, "failed") /\ UNCHANGED gone
                   ELSE Rests(c) /\ gone' = gone \cup {task[c].req}
  /\ UNCHANGED <<inbox, fallback_active, active, backup, tokens, own, made, served>>

(* A system frame raises, or the connection of the primary does. *)
SideFails ==
  /\ task["side"] = Resting /\ active = "primary" /\ errors < MaxErrors /\ errors' = errors + 1
  /\ Goes("side", "failed")
  /\ UNCHANGED <<inbox, fallback_active, active, backup, tokens, own, made, served, gone>>

-----------------------------------------------------------------------------
(* trigger_llm_fallback, up to the await of setup: a flag is set before    *)
(* the factory is called, which may raise and is never called again.       *)
After(c) == IF c = "main" THEN Goes(c, "requeue") ELSE Rests(c)

(* The factory raises when the other provider has no key, and returns a    *)
(* service otherwise.                                                      *)
FactoryRaises(c) == After(c) /\ UNCHANGED <<active, backup>>
FactoryReturns(c) == active' = "fallback" /\ backup' = "made" /\ Goes(c, "setup")

\* Mutant: the flag is set only once the factory has returned.
Trigger_Late(c) ==
  /\ task[c].step = "failed"
  /\ IF fallback_active THEN After(c) /\ UNCHANGED <<fallback_active, active, backup, made>>
     ELSE /\ made' = made + 1
          /\ \/ FactoryRaises(c) /\ UNCHANGED fallback_active
             \/ FactoryReturns(c) /\ fallback_active' = TRUE
  /\ UNCHANGED <<inbox, tokens, errors, own, served, gone>>
Trigger(c) ==
  /\ task[c].step = "failed"
  /\ IF fallback_active THEN After(c) /\ UNCHANGED <<fallback_active, active, backup, made>>
     ELSE /\ fallback_active' = TRUE /\ made' = made + 1
          /\ FactoryRaises(c) \/ FactoryReturns(c)
  /\ UNCHANGED <<inbox, tokens, errors, own, served, gone>>

(* setup returns, the StartFrame is replayed and the caller is told; or it *)
(* raises, which is logged, and the fallback stays as it is.               *)
Setup(c) ==
  /\ task[c].step = "setup"
  /\ After(c)
  /\ backup' \in {"started", backup}
  /\ UNCHANGED <<inbox, fallback_active, active, tokens, errors, own, made, served, gone>>

\* Mutant: the request that failed is not passed on.
Requeue_Drops ==
  /\ task["main"].step = "requeue"
  /\ Rests("main")
  /\ UNCHANGED <<inbox, fallback_active, active, backup, tokens, errors, own, made, served, gone>>
\* Mutant: it is passed on and given to the service once more as well.
Requeue_Retries ==
  /\ task["main"].step = "requeue"
  /\ own' = Append(own, task["main"].req) /\ Goes("main", "serving")
  /\ UNCHANGED <<inbox, fallback_active, active, backup, tokens, errors, made, served, gone>>
Requeue ==
  /\ task["main"].step = "requeue"
  /\ own' = Append(own, task["main"].req)
  /\ Rests("main")
  /\ UNCHANGED <<inbox, fallback_active, active, backup, tokens, errors, made, served, gone>>

(* An interruption cancels the proxy's task wherever it is, in the middle  *)
(* of a switch too (a CancelledError is no Exception), and, if the service *)
(* was set up, its own task; what waits for them is dropped.               *)
Held(c) == IF task[c].step = "idle" THEN {} ELSE {task[c].req}
Waiting(queue) == {queue[i] : i \in DOMAIN queue}

Interrupted ==
  LET cancelled == IF NotStarted THEN {"main"} ELSE {"main", "own"}
  IN  /\ task' = [c \in Tasks |-> IF c \in cancelled THEN Resting ELSE task[c]]
      /\ gone' = gone \cup Waiting(inbox) \cup Held("main")
                      \cup (IF NotStarted THEN {} ELSE Held("own") \cup Waiting(own))
      /\ inbox' = <<>> /\ own' = IF NotStarted THEN own ELSE <<>>
      /\ UNCHANGED <<fallback_active, active, backup, tokens, errors, made, served>>

(* The steps of the proxy's own code; those of ResilientSTTProcessor are   *)
(* the same, with the audio frame for the request.                         *)
ProxyStep ==
  \/ Serve \/ OwnServe \/ Requeue
  \/ \E c \in {"main", "side"} : Trigger(c) \/ Setup(c)

-----------------------------------------------------------------------------
(***************************************************************************)
(* However many tasks fail at once, one fallback is made ("if not          *)
(* self.fallback_active").                                                 *)
(***************************************************************************)
BackupMadeOnce == made <= 1

(***************************************************************************)
(* No request is answered to its end twice, by the primary and by the      *)
(* fallback or by both tasks of one service.                               *)
(***************************************************************************)
AnsweredOnce == \A r \in Requests : served[r] <= 1
=============================================================================
