------------------------------ MODULE FrontEnds ------------------------------
(***************************************************************************)
(* The browsers that watch the calls: one list of WebSockets for the whole *)
(* process, and a broadcast that walks it with an await for every send     *)
(* while sockets are appended and removed. A step ends where the code      *)
(* awaits. The broadcasts of other sessions touch the list only when they  *)
(* remove the sockets their sends failed for.                              *)
(***************************************************************************)
EXTENDS Naturals, Sequences, FiniteSets, SequencesExt

CONSTANTS
  Browsers,    \* WebSocket connections to /ws/frontend, each made once
  Nobody

ASSUME FrontEndAssumption == Nobody \notin Browsers

VARIABLES
  frontend_websockets,   \* the list
  browser,     \* every connection: "away", "greeting", "listening", "gone"
  broken,      \* the connections whose sends fail
  cast,        \* the loop: the socket it awaits, the next index, the failed sockets
  reached      \* history: the sockets the loop has come to

fvars == <<frontend_websockets, browser, broken, cast, reached>>

Resting == [ws |-> Nobody, next |-> 1, disconnected |-> {}]
Awaits(ws, next, failed) == [ws |-> ws, next |-> next, disconnected |-> failed]
Sending == cast.ws # Nobody
Listed == ToSet(frontend_websockets)

FrontEndsTypeOK ==
  /\ Listed \subseteq Browsers
  /\ browser \in [Browsers -> {"away", "greeting", "listening", "gone"}]
  /\ broken \in SUBSET Browsers
  /\ cast \in [ws : Browsers \cup {Nobody}, next : Nat, disconnected : SUBSET Browsers]
  /\ reached \in SUBSET Browsers

FrontEndsInit ==
  /\ frontend_websockets = <<>> /\ broken = {}
  /\ browser = [f \in Browsers |-> "away"]
  /\ cast = Resting /\ reached = {}

-----------------------------------------------------------------------------
(* Accepted and appended; the first message is still to be sent. *)
Open(f) ==
  /\ browser[f] = "away"
  /\ browser' = [browser EXCEPT ![f] = "greeting"]
  /\ frontend_websockets' = Append(frontend_websockets, f)
  /\ UNCHANGED <<broken, cast, reached>>

(* transport_mode is sent outside of the try: if that fails, the handler   *)
(* ends and the socket stays in the list.                                  *)
Greeted(f) ==
  /\ browser[f] = "greeting"
  /\ browser' = [browser EXCEPT ![f] = IF f \in broken THEN "gone" ELSE "listening"]
  /\ UNCHANGED <<frontend_websockets, broken, cast, reached>>

Breaks(f) ==
  /\ browser[f] \in {"greeting", "listening"} /\ f \notin broken
  /\ broken' = broken \cup {f}
  /\ UNCHANGED <<frontend_websockets, browser, cast, reached>>

(* "if ws in frontend_websockets: frontend_websockets.remove(ws)" for some *)
(* sockets: the others stay in their order, at the places given.           *)
TakeOut(S) ==
  LET kept == {i \in DOMAIN frontend_websockets : frontend_websockets[i] \notin S}
  IN  IF S \cap Listed = {} THEN UNCHANGED frontend_websockets
      ELSE \E place \in [1..Cardinality(kept) -> kept] :
             /\ \A i, j \in DOMAIN place : i < j => place[i] < place[j]
             /\ frontend_websockets' = [i \in DOMAIN place |-> frontend_websockets[place[i]]]

(* WebSocketDisconnect: the handler takes its socket out of the list. *)
Leave(f) ==
  /\ browser[f] = "listening" /\ f \in broken
  /\ browser' = [browser EXCEPT ![f] = "gone"]
  /\ TakeOut({f})
  /\ UNCHANGED <<broken, cast, reached>>

(* The clean-up at the end of a broadcast of another session. *)
OthersCleanUp(S) ==
  /\ S # {} /\ S \subseteq broken \cap Listed
  /\ TakeOut(S)
  /\ UNCHANGED <<browser, broken, cast, reached>>

-----------------------------------------------------------------------------
(* broadcast_frontend_event: nothing to await in an empty list. *)
StartCast ==
  /\ ~Sending
  /\ IF frontend_websockets = <<>> THEN UNCHANGED <<cast, reached>>
     ELSE /\ cast' = Awaits(Head(frontend_websockets), 2, {})
          /\ reached' = {Head(frontend_websockets)}
  /\ UNCHANGED <<frontend_websockets, browser, broken>>

(* The send returns or raises, and the loop goes on with the next index of *)
(* the list as it is now; at its end the failed sockets are removed.       *)
SendEnds ==
  LET failed == IF cast.ws \in broken THEN cast.disconnected \cup {cast.ws} ELSE cast.disconnected
      ws == frontend_websockets[cast.next]
  IN  /\ Sending
      /\ IF cast.next <= Len(frontend_websockets)
         THEN /\ cast' = Awaits(ws, cast.next + 1, failed)
              /\ reached' = reached \cup {ws}
              /\ UNCHANGED frontend_websockets
         ELSE /\ cast' = Resting /\ reached' = {}
              /\ TakeOut(failed)
      /\ UNCHANGED <<browser, broken>>

(* The task of a broadcast is cancelled in the middle: nothing is removed. *)
StopCast ==
  /\ cast' = Resting /\ reached' = {}
  /\ UNCHANGED <<frontend_websockets, browser, broken>>

BrowserStep ==
  \/ \E f \in Browsers : Open(f) \/ Greeted(f) \/ Breaks(f) \/ Leave(f)
  \/ \E S \in SUBSET Browsers : OthersCleanUp(S)

-----------------------------------------------------------------------------
(***************************************************************************)
(* livekit_router.py:203 "Send to all connected frontends": when the loop  *)
(* awaits its last send, it has come to every socket that is in the list   *)
(* and not broken. A removal shifts the list under the loop's index, and   *)
(* the neighbour of the removed socket is left out.                        *)
(***************************************************************************)
SentToAll ==
  Sending /\ cast.next > Len(frontend_websockets) => Listed \ broken \subseteq reached
=============================================================================
