----------------------------- MODULE ClientMemory -----------------------------
(***************************************************************************)
(* What the assistant remembers of a client from call to call. The summary *)
(* is read before a call, by the webhook and, if that brought nothing, by  *)
(* the WebSocket endpoint, travels through the call's parameters, and is   *)
(* written back when the session closes: several transactions of several   *)
(* calls, each of which may time out, fail or die with its worker.         *)
(*                                                                         *)
(* A summary is the set of calls it tells of, the empty text is {}, and a  *)
(* client is its phone number, which is unique.                            *)
(***************************************************************************)
EXTENDS Naturals, FiniteSets

CONSTANTS
  Calls, Phones,
  Unknown,     \* "unknown_client", the number of every call that brings none
  NoCall

ASSUME MemoryAssumption == Unknown \in Phones /\ NoCall \notin Calls

VARIABLES
  call,        \* every call: where it is and what it carries
  clients,     \* table clients: the phone numbers with a committed row
  inserting,   \* the call whose open transaction holds the new row of a number
  summaries,   \* table conversation_summaries: number -> summary
  rows,        \* table sessions: the status of the call's row
  saved,       \* history: the calls whose summary was committed
  disturbed    \* history: numbers with a failure, or with two calls at a time

vars == <<call, clients, inserting, summaries, rows, saved, disturbed>>

Hook == {"hook_lookup", "hook_insert"}              \* inside the webhook
Socket == {"ws_lookup", "ws_insert", "ws_read"}     \* inside the fallback prefetch
Closing == {"close_insert", "summarise", "save", "write"}   \* inside on_session_closed
Places == {"new", "answered", "prefetched", "session", "ended"} \cup Hook \cup Socket \cup Closing

(* What a call carries: its number, the id of its client ("new": the row   *)
(* is in its own open transaction, "dangling": it was rolled back), the    *)
(* previous summary and the new one. "tries" counts the webhook's attempts *)
(* and "found" is what save_summary's query said. History: "blind" while   *)
(* no read succeeded, "tagged" when the answer was only the emotion tag,   *)
(* "known" what was stored all the time since the call began.              *)
Call == [at : Places, phone : Phones, client : {"none", "row", "new", "dangling"},
         prev : SUBSET Calls, text : SUBSET Calls, tries : 0..2, found : BOOLEAN,
         blind : BOOLEAN, tagged : BOOLEAN, known : SUBSET Calls]

TypeOK ==
  /\ call \in [Calls -> Call]
  /\ clients \in SUBSET Phones
  /\ inserting \in [Phones -> Calls \cup {NoCall}]
  /\ DOMAIN summaries \in SUBSET Phones
  /\ \A p \in DOMAIN summaries : summaries[p] \in SUBSET Calls
  /\ rows \in [Calls -> {"none", "ACTIVE", "CLOSED"}]
  /\ saved \in SUBSET Calls /\ disturbed \in SUBSET Phones

Phone(c) == call[c].phone
Stored(p) == IF p \in DOMAIN summaries THEN summaries[p] ELSE {}   \* get_summary, None as ""
Free(p) == inserting[p] = NoCall        \* an insert of the same number waits for its end
Live(c) == call[c].at \notin {"new", "ended"}

Fails(c) == disturbed' = disturbed \cup {Phone(c)}

-----------------------------------------------------------------------------
Init ==
  /\ \E number \in [Calls -> Phones] :
       call = [c \in Calls |-> [at |-> "new", phone |-> number[c], client |-> "none",
                 prev |-> {}, text |-> {}, tries |-> 0, found |-> FALSE,
                 blind |-> TRUE, tagged |-> FALSE, known |-> {}]]
  /\ clients = {} /\ summaries = [p \in {} |-> {}]
  /\ inserting = [p \in Phones |-> NoCall]
  /\ rows = [c \in Calls |-> "none"]
  /\ saved = {} /\ disturbed = {}

Begins(c, place) ==
  /\ call[c].at = "new"
  /\ call' = [call EXCEPT ![c].at = place, ![c].tries = 1, ![c].known = Stored(Phone(c))]
  /\ disturbed' = IF place = "prefetched" \/ \E d \in Calls : Live(d) /\ Phone(d) = Phone(c)
                  THEN disturbed \cup {Phone(c)} ELSE disturbed
  /\ UNCHANGED <<clients, inserting, summaries, rows, saved>>

(* The webhook of a call to a ready server, its signature accepted. *)
Webhook(c) == Begins(c, "hook_lookup")

(* A LiveKit session is started without a number and without any prefetch. *)
JoinRoom(c) == Phone(c) = Unknown /\ Begins(c, "prefetched")

(* The TwiML carries what the webhook has got. *)
Answer(c, client, prev, blind) ==
  call' = [call EXCEPT ![c].at = "answered", ![c].client = client, ![c].prev = prev, ![c].blind = blind]

(* An attempt of fetch_db raised: the first one is repeated half a second later. *)
AttemptFails(c) ==
  /\ Fails(c)
  /\ IF call[c].tries = 1 THEN call' = [call EXCEPT ![c].at = "hook_lookup", ![c].tries = 2]
                          ELSE Answer(c, "none", {}, TRUE)

\* Mutant: the summary is left out of the parameters once the client is known.
HookLooksUp_Unread(c) ==
  /\ call[c].at = "hook_lookup"
  /\ IF Phone(c) \in clients THEN Answer(c, "none", {}, FALSE)
     ELSE call' = [call EXCEPT ![c].at = "hook_insert"]
  /\ UNCHANGED <<clients, inserting, summaries, rows, saved, disturbed>>
HookLooksUp(c) ==
  /\ call[c].at = "hook_lookup"
  /\ IF Phone(c) \in clients THEN Answer(c, "row", Stored(Phone(c)), FALSE)
     ELSE call' = [call EXCEPT ![c].at = "hook_insert"]
  /\ UNCHANGED <<clients, inserting, summaries, rows, saved, disturbed>>

(* create_client: the number is unique, so the second of two inserts fails. *)
HookInserts(c) ==
  /\ call[c].at = "hook_insert" /\ Free(Phone(c))
  /\ IF Phone(c) \in clients
     THEN AttemptFails(c) /\ UNCHANGED clients
     ELSE /\ clients' = clients \cup {Phone(c)}
          /\ Answer(c, "row", {}, FALSE)
          /\ UNCHANGED disturbed
  /\ UNCHANGED <<inserting, summaries, rows, saved>>

HookErrs(c) ==
  /\ call[c].at \in Hook
  /\ AttemptFails(c)
  /\ UNCHANGED <<clients, inserting, summaries, rows, saved>>

(* Three seconds are over, perhaps after the database did commit the row. *)
\* Mutant: the wait is bounded only until the insert has been sent.
HookTimesOut_BeforeInsert(c) ==
  /\ call[c].at = "hook_lookup"
  /\ Answer(c, "none", {}, TRUE) /\ Fails(c)
  /\ UNCHANGED <<clients, inserting, summaries, rows, saved>>
HookTimesOut(c) ==
  /\ call[c].at \in Hook
  /\ Answer(c, "none", {}, TRUE) /\ Fails(c)
  /\ clients' \in {clients} \cup (IF call[c].at = "hook_insert" /\ Free(Phone(c))
                                  THEN {clients \cup {Phone(c)}} ELSE {})
  /\ UNCHANGED <<inserting, summaries, rows, saved>>

-----------------------------------------------------------------------------
(* The endpoint asks the database again when the parameters bring no summary. *)
Connect(c) ==
  /\ call[c].at = "answered"
  /\ call' = [call EXCEPT ![c].at =
       IF call[c].prev = {} /\ (call[c].client # "none" \/ Phone(c) # Unknown)
       THEN "ws_lookup" ELSE "prefetched"]
  /\ UNCHANGED <<clients, inserting, summaries, rows, saved, disturbed>>

Prefetched(c, client, prev, blind) ==
  call' = [call EXCEPT ![c].at = "prefetched", ![c].client = client, ![c].prev = prev, ![c].blind = blind]

WsLooksUp(c) ==
  /\ call[c].at = "ws_lookup"
  /\ IF call[c].client = "row" \/ Phone(c) \in clients
     THEN Prefetched(c, "row", Stored(Phone(c)), FALSE)
     ELSE call' = [call EXCEPT ![c].at = "ws_insert"]
  /\ UNCHANGED <<clients, inserting, summaries, rows, saved, disturbed>>

(* After its flush the new id is assigned to the endpoint's variable at once. *)
WsInserts(c) ==
  /\ call[c].at = "ws_insert" /\ Free(Phone(c))
  /\ IF Phone(c) \in clients
     THEN Prefetched(c, "none", {}, TRUE) /\ Fails(c) /\ UNCHANGED inserting
     ELSE /\ call' = [call EXCEPT ![c].at = "ws_read", ![c].client = "new"]
          /\ inserting' = [inserting EXCEPT ![Phone(c)] = c]
          /\ UNCHANGED disturbed
  /\ UNCHANGED <<clients, summaries, rows, saved>>

(* End(c): the transaction of a call ends, and with it the wait for its row. *)
End(c) == inserting' = [p \in Phones |-> IF inserting[p] = c THEN NoCall ELSE inserting[p]]
Created(c) == IF call[c].client = "new" THEN clients \cup {Phone(c)} ELSE clients

WsCommits(c) ==
  /\ call[c].at = "ws_read"
  /\ Prefetched(c, "row", {}, FALSE)
  /\ clients' = Created(c) /\ End(c)
  /\ UNCHANGED <<summaries, rows, saved, disturbed>>

(* An error, or three seconds are over: what was assigned stays assigned.  *)
(* The rollback leaves the id without a row, unless the commit got through.*)
WsFails(c) ==
  /\ call[c].at \in Socket
  /\ \E client \in {"none", "row", "dangling"} :
       /\ \/ client = call[c].client
          \/ client = "dangling" /\ call[c].at = "ws_read"
          \/ client = "row" /\ call[c].at = "ws_read"
          \/ client = "row" /\ call[c].at = "ws_lookup" /\ Phone(c) \in clients
       /\ Prefetched(c, client, {}, TRUE)
       /\ clients' = IF client = "row" THEN Created(c) ELSE clients
  /\ Fails(c) /\ End(c)
  /\ UNCHANGED <<summaries, rows, saved>>

-----------------------------------------------------------------------------
(* run_voice_session writes the session's row; a failure is logged only. *)
BeginSession(c) ==
  /\ call[c].at = "prefetched"
  /\ call' = [call EXCEPT ![c].at = "session"]
  /\ rows' \in {rows} \cup (IF call[c].client = "row" THEN {[rows EXCEPT ![c] = "ACTIVE"]} ELSE {})
  /\ UNCHANGED <<clients, inserting, summaries, saved, disturbed>>

(* SessionClosed is handled in one transaction: first the client. *)
CloseLooksUp(c) ==
  /\ call[c].at = "session"
  /\ call' = [call EXCEPT
       ![c].client = IF @ = "none" /\ Phone(c) \in clients THEN "row" ELSE @,
       ![c].at = IF call[c].client = "none" /\ Phone(c) \notin clients
                 THEN "close_insert" ELSE "summarise"]
  /\ UNCHANGED <<clients, inserting, summaries, rows, saved, disturbed>>

(* The handler raises: everything is rolled back, the call is forgotten. *)
CloseRaises(c) ==
  /\ call' = [call EXCEPT ![c].at = "ended"]
  /\ End(c) /\ Fails(c)
  /\ UNCHANGED <<clients, summaries, rows, saved>>

CloseInserts(c) ==
  /\ call[c].at = "close_insert" /\ Free(Phone(c))
  /\ IF Phone(c) \in clients THEN CloseRaises(c)
     ELSE /\ call' = [call EXCEPT ![c].at = "summarise", ![c].client = "new"]
          /\ inserting' = [inserting EXCEPT ![Phone(c)] = c]
          /\ UNCHANGED <<clients, summaries, rows, saved, disturbed>>

Text(c, text) == call' = [call EXCEPT ![c].at = "save", ![c].text = text]

(* The model combines the previous summary with this call. *)
\* Mutant: the prompt carries the transcript of this call only.
Summarises_Alone(c) ==
  /\ call[c].at = "summarise"
  /\ Text(c, {c})
  /\ UNCHANGED <<clients, inserting, summaries, rows, saved, disturbed>>
Summarises(c) ==
  /\ call[c].at = "summarise"
  /\ Text(c, call[c].prev \cup {c})
  /\ UNCHANGED <<clients, inserting, summaries, rows, saved, disturbed>>

(* An empty answer, or an exception while it is made, cleaned or shown to *)
(* the front ends: the previous summary is taken.                         *)
FallsBack(c) ==
  /\ call[c].at = "summarise"
  /\ Text(c, call[c].prev)
  /\ Fails(c)
  /\ UNCHANGED <<clients, inserting, summaries, rows, saved>>

(* An answer of nothing but the emotion tag is not empty when that is      *)
(* asked, and is empty when the tag has been cut out.                      *)
OnlyTheTag(c) ==
  /\ call[c].at = "summarise"
  /\ call' = [call EXCEPT ![c].at = "save", ![c].text = {}, ![c].tagged = TRUE]
  /\ Fails(c)
  /\ UNCHANGED <<clients, inserting, summaries, rows, saved>>

SaveLooksUp(c) ==
  /\ call[c].at = "save"
  /\ call' = [call EXCEPT ![c].at = "write",
       ![c].found = call[c].client = "row" /\ Phone(c) \in DOMAIN summaries]
  /\ UNCHANGED <<clients, inserting, summaries, rows, saved, disturbed>>

(* Update or insert, close the session's row, commit. The summary of a     *)
(* client is unique and refers to the client's row.                        *)
SaveWrites(c) ==
  /\ call[c].at = "write"
  /\ IF ~call[c].found /\ (Phone(c) \in DOMAIN summaries \/ call[c].client = "dangling")
     THEN CloseRaises(c)
     ELSE /\ summaries' = [p \in DOMAIN summaries \cup {Phone(c)} |->
                             IF p = Phone(c) THEN call[c].text ELSE summaries[p]]
          /\ call' = [d \in Calls |->
               IF d = c THEN [call[c] EXCEPT !.at = "ended"]
               ELSE IF Phone(d) = Phone(c) THEN [call[d] EXCEPT !.known = @ \cap call[c].text]
               ELSE call[d]]
          /\ rows' = [rows EXCEPT ![c] = IF @ = "ACTIVE" THEN "CLOSED" ELSE @]
          /\ saved' = saved \cup {c} /\ clients' = Created(c) /\ End(c)
          /\ UNCHANGED disturbed

(* The database fails inside the handler. *)
CloseFails(c) == call[c].at \in Closing /\ CloseRaises(c)

(* The caller never connects, or the worker dies: open work is rolled back. *)
Dies(c) ==
  /\ Live(c)
  /\ call' = [call EXCEPT ![c].at = "ended"]
  /\ Fails(c) /\ End(c)
  /\ UNCHANGED <<clients, summaries, rows, saved>>

-----------------------------------------------------------------------------
Step(c) ==
  \/ Webhook(c) \/ JoinRoom(c)
  \/ HookLooksUp(c) \/ HookInserts(c) \/ HookErrs(c) \/ HookTimesOut(c)
  \/ Connect(c) \/ WsLooksUp(c) \/ WsInserts(c) \/ WsCommits(c) \/ WsFails(c)
  \/ BeginSession(c) \/ CloseLooksUp(c) \/ CloseInserts(c)
  \/ Summarises(c) \/ FallsBack(c) \/ OnlyTheTag(c)
  \/ SaveLooksUp(c) \/ SaveWrites(c) \/ CloseFails(c) \/ Dies(c)

Next == \E c \in Calls : Step(c)

(* Only the webhook's timer is sure to go on. A language model that never  *)
(* ends its answer may keep a closing call, and its row, for ever.         *)
Spec == Init /\ [][Next]_vars
FairSpec == Spec /\ \A c \in Calls : WF_vars(HookTimesOut(c))

-----------------------------------------------------------------------------
(***************************************************************************)
(* A call that could read the memory, and whose answer was not the bare    *)
(* tag, does not forget what was stored all the time since it began: not   *)
(* through the webhook, the parameters, the second prefetch, the session's *)
(* metadata, the prompt or the fallbacks of the summary.                   *)
(***************************************************************************)
SavesKeepWhatWasKnown ==
  [][\A c \in saved' \ saved :
       ~call[c].blind /\ ~call[c].tagged => call[c].known \subseteq summaries'[Phone(c)]]_vars

(***************************************************************************)
(* When the calls of a client follow each other and nothing fails, its     *)
(* summary tells of every call that has ended.                             *)
(***************************************************************************)
MemoryIsComplete ==
  \A p \in Phones \ disturbed :
    Stored(p) = {c \in Calls : Phone(c) = p /\ call[c].at = "ended"}

(***************************************************************************)
(* The webhook answers, whatever the other calls do: main.py:255 "so we    *)
(* don't block Twilio's 15s webhook timeout". It may wait for a row that a *)
(* closing call inserted and holds until the language model has answered.  *)
(***************************************************************************)
WebhookAnswers == \A c \in Calls : call[c].at \in Hook ~> call[c].at \notin Hook
=============================================================================
