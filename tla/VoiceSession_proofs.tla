------------------------- MODULE VoiceSession_proofs -------------------------
(***************************************************************************)
(* For any number of events and browsers: a summary is made of the whole   *)
(* call, a session that ends has had its SessionClosed handled and has     *)
(* cleaned up, and every browser is sent the events in their order,        *)
(* whatever happens to the list of browsers; the bus keeps the contract of *)
(* EventBus, and join() never waits for a worker that cannot go on.        *)
(***************************************************************************)
EXTENDS VoiceSession, FiniteSetTheorems, TLAPS

-----------------------------------------------------------------------------
(* The browsers *)

ListOK == frontend_websockets \in Seq(Browsers)
FrontOK ==
  /\ ListOK
  /\ browser \in [Browsers -> {"away", "greeting", "listening", "gone"}]
  /\ broken \in SUBSET Browsers
  /\ cast \in [ws : Browsers \cup {Nobody}, next : Nat, disconnected : SUBSET Browsers]
  /\ reached \in SUBSET Browsers

(* A socket is in the list once, and one the loop has come to is never     *)
(* ahead of it again: a removal moves sockets only towards the beginning.  *)
NoneTwice ==
  /\ \A i, j \in DOMAIN frontend_websockets :
       frontend_websockets[i] = frontend_websockets[j] => i = j
  /\ \A f \in Browsers : browser[f] = "away" => f \notin Listed \cup reached
Behind ==
  Sending => \A i \in DOMAIN frontend_websockets : i >= cast.next => frontend_websockets[i] \notin reached
Onward == Sending => cast.next >= 1
FrontInv == FrontOK /\ NoneTwice /\ Behind /\ Onward

-----------------------------------------------------------------------------
(* The session *)

EventKinds == Kinds \cup {"none", "created", "closed"}
Event == [kind : EventKinds, id : Nat]
Steps == {"none", "lookup", "append", "show", "showing", "read", "summarise"}
Places == {"new", "created", "bus", "ready", "running", "closing", "joining",
           "unsubscribing", "stopping", "deleting", "done", "failed", "aborted"}
Increasing(s) == \A i, j \in DOMAIN s : i < j => s[i] < s[j]

EventsOK ==
  /\ queue \in Seq(Event) /\ handling \in [event : Event, step : Steps] /\ events \in Nat
SubsOK == subs \in Seq({"closed", "utterance", "notice"})
SessionRecord ==
  [state : {"none", "IDLE", "LISTENING", "CLOSED", "deleted"}, history : Seq(Nat)]
StoreOK ==
  /\ store \in SessionRecord /\ transcript \in Seq(Nat) /\ summaries \in Seq(Seq(Nat))
  /\ outcome \in {"none", "missed", "raised", "failed", "made"}
SaidOK == said \in Seq(Nat)
ShownOK == shown \in [Browsers -> Seq(Nat)]
SessionOK ==
  /\ at \in Places /\ worker \in {"none", "running", "ended"}
  /\ SubsOK /\ StoreOK /\ SaidOK /\ ShownOK

Queued == ToSet(queue)
Now == handling.event

(* Ids grow along the queue, and the event in a handler is older. *)
Grows(q) == \A i, j \in DOMAIN q : i < j => q[i].id < q[j].id
IdsGrow ==
  /\ Grows(queue)
  /\ \A e \in Queued : e.id <= events
  /\ Handling => Now.id <= events /\ \A e \in Queued : Now.id < e.id

HandlerOK ==
  /\ handling.step = "none" => Now.kind = "none"
  /\ handling.step = "lookup" => Now.kind \in {"utterance", "tool_only"}
  /\ handling.step = "append" => Now.kind = "utterance"
  /\ handling.step \in {"read", "summarise"} => Now.kind = "closed"
  /\ Sending <=> handling.step = "showing"

(* What a browser was sent is older than what waits, and, but for the      *)
(* browsers the present broadcast has reached, than what is handled.       *)
Shown(f) == ToSet(shown[f])
ShownBefore ==
  \A f \in Browsers :
    /\ Increasing(shown[f])
    /\ \A n \in Shown(f) : n <= events
    /\ \A n \in Shown(f), e \in Queued : n < e.id
    /\ Handling => \A n \in Shown(f) :
         n < Now.id \/ (handling.step = "showing" /\ f \in reached /\ n = Now.id)

Fresh ==
  at \in {"new", "created"} =>
    /\ queue = <<>> /\ ~Handling /\ events = 0 /\ outcome = "none" /\ said = <<>>
    /\ store.history = <<>> /\ \A f \in Browsers : shown[f] = <<>>

(* SessionClosed: not published yet, or in one place, or read by its       *)
(* handler, which then ends in one of its outcomes.                        *)
Unread == outcome = "none" /\ handling.step # "summarise"
Before == {"new", "created", "bus", "ready", "running", "closing", "failed"}
ClosedOnce ==
  /\ \A c, d \in Queued : c.kind = "closed" /\ d.kind = "closed" => c = d
  /\ \A c \in Queued : c.kind = "closed" => Now.kind # "closed" /\ Unread
  /\ handling.step = "read" => Unread
MadeOnce ==
  /\ handling.step = "summarise" => outcome = "none"
  /\ Len(summaries) = IF outcome = "made" THEN 1 ELSE 0
ClosedInTime ==
  /\ at \in Before => (\A e \in Queued : e.kind # "closed") /\ Now.kind # "closed" /\ Unread
  /\ at = "joining" => \/ \E c \in Queued : c.kind = "closed"
                       \/ handling.step = "read" \/ ~Unread
  /\ at \in {"unsubscribing", "stopping", "deleting", "done"} => outcome # "none"
Teardown ==
  /\ at \in {"ready", "running", "closing", "joining"} => subs = Bridges
  /\ Unread /\ subs # Bridges => \A e \in Queued : e.kind = "created"
  /\ at \in {"stopping", "deleting", "done"} => subs = <<>>
  /\ at \in {"deleting", "done"} => worker = "ended" /\ ~Handling
  /\ store.state = "deleted" => at = "done"
  /\ outcome # "missed"

(* The utterances that will come into the history before the summary. *)
Awaited ==
  IF handling.step = "read" THEN {}
  ELSE {n \in Nat : \E e \in Queued :
          /\ e.id = n /\ e.kind = "utterance"
          /\ \A c \in Queued : c.kind = "closed" => e.id < c.id}
InHand == IF handling.step \in {"lookup", "append"} /\ Now.kind = "utterance" THEN {Now.id} ELSE {}
WholeCall ==
  /\ Increasing(said) /\ Increasing(store.history)
  /\ \A n \in ToSet(said) : n <= events
  /\ \A n \in ToSet(store.history) :
       /\ n <= events /\ \A e \in Queued : n < e.id
       /\ handling.step \in {"lookup", "append"} => n < Now.id
  /\ Unread => ToSet(store.history) \cup Awaited \cup InHand = ToSet(said)
  /\ handling.step = "summarise" => transcript = said

SessionInv ==
  /\ EventsOK /\ SessionOK /\ IdsGrow /\ HandlerOK /\ ShownBefore /\ Fresh
  /\ ClosedOnce /\ MadeOnce /\ ClosedInTime /\ Teardown /\ WholeCall /\ SummarySeesWholeCall
IInv == FrontInv /\ SessionInv
-----------------------------------------------------------------------------
(* The list of browsers *)

LEMMA KindsOfRest == Nobody \notin Browsers /\ MaxEvents \in Nat
BY FrontEndAssumption, SessionAssumption

(* An increasing choice of places only moves what it keeps forward: else   *)
(* the first i places would all be among the first i - 1.                  *)
LEMMA PlacesGrow ==
  ASSUME NEW n \in Nat, NEW place \in [1..n -> Nat \ {0}],
         \A i, j \in 1..n : i < j => place[i] < place[j],
         NEW i \in 1..n
  PROVE  i <= place[i]
<1> SUFFICES ASSUME place[i] < i PROVE FALSE
  OBVIOUS
<1> DEFINE first == [j \in 1..i |-> place[j]]
<1>1. first \in [1..i -> 1..(i - 1)]
  <2>1. ASSUME NEW j \in 1..i PROVE place[j] \in 1..(i - 1)
    <3>1. j \in 1..n /\ place[j] \in Nat \ {0} /\ place[i] \in Nat
      OBVIOUS
    <3>2. place[j] <= place[i]
      <4>1. CASE j = i
        BY <3>1, <4>1
      <4>2. CASE j # i
        <5>1. j < i
          BY <4>2
        <5> QED BY <3>1, <5>1
      <4> QED BY <4>1, <4>2
    <3> QED BY <3>1, <3>2
  <2> QED BY <2>1
<1>2. /\ IsFiniteSet(1..i) /\ Cardinality(1..i) = i
      /\ IsFiniteSet(1..(i - 1)) /\ Cardinality(1..(i - 1)) = i - 1
  <2>1. IsFiniteSet(1..i) /\ Cardinality(1..i) = i
    BY FS_Interval
  <2>2. IsFiniteSet(1..(i - 1)) /\ Cardinality(1..(i - 1)) = i - 1
    <3> DEFINE m == i - 1
    <3>1. m \in Int /\ 1 \in Int /\ (IF 1 > m THEN 0 ELSE m - 1 + 1) = m
      OBVIOUS
    <3> HIDE DEF m
    <3>2. IsFiniteSet(1..m) /\ Cardinality(1..m) = m
      BY <3>1, FS_Interval
    <3> QED BY <3>2 DEF m
  <2> QED BY <2>1, <2>2
<1>3. PICK x, y \in 1..i : x # y /\ first[x] = first[y]
  <2>1. i - 1 < i
    OBVIOUS
  <2> HIDE DEF first
  <2> QED BY <1>1, <1>2, <2>1, FS_PigeonHole
<1>4. x \in 1..n /\ y \in 1..n /\ place[x] = place[y] /\ (x < y \/ y < x)
  BY <1>3
<1>5. place[x] < place[y] \/ place[y] < place[x]
  BY <1>4
<1> QED BY <1>4, <1>5

(* Sockets are taken out: what stays keeps its order and comes no later.   *)
LEMMA TakenOut ==
  ASSUME ListOK, NEW S, TakeOut(S)
  PROVE  /\ ListOK'
         /\ \E place \in [DOMAIN frontend_websockets' -> DOMAIN frontend_websockets] :
              /\ \A i \in DOMAIN place :
                   i <= place[i] /\ frontend_websockets'[i] = frontend_websockets[place[i]]
              /\ \A i, j \in DOMAIN place : place[i] = place[j] => i = j
         /\ S \cap Listed = {} => UNCHANGED frontend_websockets
<1> DEFINE kept == {i \in DOMAIN frontend_websockets : frontend_websockets[i] \notin S}
           n == Cardinality(kept)
<1>0. /\ Len(frontend_websockets) \in Nat
      /\ DOMAIN frontend_websockets = 1..Len(frontend_websockets)
      /\ frontend_websockets \in [1..Len(frontend_websockets) -> Browsers]
  BY DEF ListOK
<1>1. CASE S \cap Listed = {}
  <2>1. UNCHANGED frontend_websockets
    BY <1>1 DEF TakeOut
  <2> DEFINE same == [i \in DOMAIN frontend_websockets |-> i]
  <2>2. /\ same \in [DOMAIN frontend_websockets' -> DOMAIN frontend_websockets]
        /\ \A i \in DOMAIN same :
             i <= same[i] /\ frontend_websockets'[i] = frontend_websockets[same[i]]
        /\ \A i, j \in DOMAIN same : same[i] = same[j] => i = j
    BY <1>0, <2>1
  <2> HIDE DEF same
  <2> QED BY <2>1, <2>2 DEF ListOK
<1>2. CASE S \cap Listed # {}
  <2>1. n \in Nat
    <3>1. IsFiniteSet(DOMAIN frontend_websockets)
      BY <1>0, FS_Interval
    <3>2. kept \in SUBSET DOMAIN frontend_websockets
      OBVIOUS
    <3> HIDE DEF kept
    <3> QED BY <3>1, <3>2, FS_Subset, FS_CardinalityType
  <2>2. PICK place \in [1..n -> kept] :
          /\ \A i, j \in DOMAIN place : i < j => place[i] < place[j]
          /\ frontend_websockets' = [i \in DOMAIN place |-> frontend_websockets[place[i]]]
    BY <1>2 DEF TakeOut
  <2>3. kept \subseteq DOMAIN frontend_websockets /\ kept \subseteq Nat \ {0}
    BY <1>0
  <2> HIDE DEF kept, n
  <2>4. DOMAIN place = 1..n /\ place \in [1..n -> Nat \ {0}]
        /\ place \in [1..n -> DOMAIN frontend_websockets]
    BY <2>2, <2>3
  <2>5. \A i, j \in 1..n : i < j => place[i] < place[j]
    BY <2>2, <2>4
  <2>6. \A i \in 1..n : i <= place[i]
    BY <2>1, <2>4, <2>5, PlacesGrow
  <2>7. \A i, j \in 1..n : place[i] = place[j] => i = j
    <3> SUFFICES ASSUME NEW i \in 1..n, NEW j \in 1..n, place[i] = place[j], i # j PROVE FALSE
      OBVIOUS
    <3>1. i < j \/ j < i
      BY <2>1
    <3> QED BY <2>4, <2>5, <3>1
  <2>8. /\ frontend_websockets' = [i \in 1..n |-> frontend_websockets[place[i]]]
        /\ DOMAIN frontend_websockets' = 1..n
    BY <2>2, <2>4
  <2>9. frontend_websockets' \in [1..n -> Browsers]
    BY <1>0, <2>4, <2>8
  <2>10. ListOK'
    BY <2>1, <2>9 DEF ListOK
  <2> QED BY <1>2, <2>4, <2>6, <2>7, <2>8, <2>10
<1> QED BY <1>1, <1>2
Alone ==
  \A i, j \in DOMAIN frontend_websockets : frontend_websockets[i] = frontend_websockets[j] => i = j

LEMMA TakenOutKeeps ==
  ASSUME ListOK, Alone, cast.next \in Nat, NEW S, TakeOut(S)
  PROVE  /\ ListOK' /\ Alone' /\ Listed' \subseteq Listed
         /\ Behind /\ UNCHANGED <<cast, reached>> => Behind'
<1>1. PICK place \in [DOMAIN frontend_websockets' -> DOMAIN frontend_websockets] :
        /\ \A i \in DOMAIN place :
             i <= place[i] /\ frontend_websockets'[i] = frontend_websockets[place[i]]
        /\ \A i, j \in DOMAIN place : place[i] = place[j] => i = j
  BY TakenOut
<1>2. ListOK'
  BY TakenOut
<1>3. DOMAIN place = DOMAIN frontend_websockets'
  OBVIOUS
<1>4. Alone'
  BY <1>1, <1>3 DEF Alone
<1>5. Listed' \subseteq Listed
  BY <1>1, <1>3 DEF Listed, ToSet
<1>6. ASSUME Behind, UNCHANGED <<cast, reached>> PROVE Behind'
  <2> SUFFICES ASSUME Sending', NEW i \in DOMAIN frontend_websockets', i >= cast'.next
               PROVE  frontend_websockets'[i] \notin reached'
    BY DEF Behind
  <2>1. Sending /\ i \in Nat /\ place[i] \in Nat
    BY <1>2, <1>6 DEF Sending, ListOK
  <2>2. place[i] >= i /\ cast'.next = cast.next
    BY <1>1, <1>3, <1>6
  <2>3. place[i] >= cast.next
    BY <2>1, <2>2
  <2> QED BY <1>1, <1>3, <1>6, <2>1, <2>3 DEF Behind
<1> QED BY <1>2, <1>4, <1>5, <1>6

(* Connections come and go while a broadcast waits for a send. *)
LEMMA BrowsersKeepFront ==
  ASSUME FrontInv, BrowserStep
  PROVE  FrontInv' /\ UNCHANGED <<cast, reached>>
<1> USE KindsOfRest
<1>0. /\ ListOK /\ Alone /\ NoneTwice /\ Behind /\ Onward /\ cast.next \in Nat
      /\ Len(frontend_websockets) \in Nat
      /\ DOMAIN frontend_websockets = 1..Len(frontend_websockets)
  BY DEF FrontInv, FrontOK, NoneTwice, Alone, ListOK
<1>1. UNCHANGED <<cast, reached>> /\ Sending' = Sending
  BY DEF BrowserStep, Open, Greeted, Breaks, Leave, OthersCleanUp, Sending
<1>2. FrontOK'
  <2>1. ASSUME NEW f \in Browsers, NEW s \in {"away", "greeting", "listening", "gone"},
               browser' = [browser EXCEPT ![f] = s]
        PROVE  browser' \in [Browsers -> {"away", "greeting", "listening", "gone"}]
    BY <2>1 DEF FrontInv, FrontOK
  <2>2. browser' \in [Browsers -> {"away", "greeting", "listening", "gone"}]
    BY <2>1 DEF BrowserStep, Open, Greeted, Breaks, Leave, OthersCleanUp, FrontInv, FrontOK
  <2>3. ListOK'
    <3>1. ASSUME NEW f \in Browsers, Open(f) PROVE ListOK'
      BY <1>0, <3>1 DEF Open, ListOK
    <3>2. ASSUME NEW f \in Browsers, Greeted(f) \/ Breaks(f) PROVE ListOK'
      BY <1>0, <3>2 DEF Greeted, Breaks, ListOK
    <3>3. ASSUME NEW f \in Browsers, Leave(f) PROVE ListOK'
      BY <1>0, <3>3, TakenOutKeeps DEF Leave
    <3>4. ASSUME NEW S \in SUBSET Browsers, OthersCleanUp(S) PROVE ListOK'
      BY <1>0, <3>4, TakenOutKeeps DEF OthersCleanUp
    <3> QED BY <3>1, <3>2, <3>3, <3>4 DEF BrowserStep
  <2>4. broken' \in SUBSET Browsers
    BY DEF BrowserStep, Open, Greeted, Breaks, Leave, OthersCleanUp, FrontInv, FrontOK
  <2> QED BY <1>1, <2>2, <2>3, <2>4 DEF FrontInv, FrontOK
<1>3. ASSUME NEW f \in Browsers, Open(f) PROVE NoneTwice' /\ Behind' /\ Onward'
  <2> DEFINE n == Len(frontend_websockets) + 1
  <2>1. /\ frontend_websockets' = Append(frontend_websockets, f)
        /\ browser' = [browser EXCEPT ![f] = "greeting"] /\ browser[f] = "away"
    BY <1>3 DEF Open
  <2>2. /\ DOMAIN frontend_websockets' = 1..n /\ n \in Nat /\ Len(frontend_websockets') = n
        /\ frontend_websockets'[n] = f
        /\ \A i \in 1..n : i # n =>
             i \in DOMAIN frontend_websockets /\ frontend_websockets'[i] = frontend_websockets[i]
    BY <1>0, <2>1 DEF ListOK
  <2>3. f \notin Listed /\ f \notin reached
    BY <1>0, <2>1 DEF NoneTwice
  <2>4. \A i \in DOMAIN frontend_websockets : frontend_websockets[i] # f
    BY <2>3 DEF Listed, ToSet
  <2> HIDE DEF n
  <2>5. Listed' \subseteq Listed \cup {f}
    BY <2>2 DEF Listed, ToSet
  <2>6. NoneTwice'
    <3>1. Alone'
      BY <1>0, <2>2, <2>4 DEF Alone
    <3>2. \A g \in Browsers : browser'[g] = "away" => g # f /\ browser[g] = "away"
      BY <2>1 DEF FrontInv, FrontOK
    <3> QED BY <1>0, <1>1, <2>5, <3>1, <3>2 DEF NoneTwice, Alone
  <2>7. Behind'
    BY <1>0, <1>1, <2>2, <2>3 DEF Behind
  <2>8. Onward'
    BY <1>0, <1>1 DEF Onward
  <2> QED BY <2>6, <2>7, <2>8
<1>4. ASSUME NEW f \in Browsers, Greeted(f) \/ Breaks(f) PROVE NoneTwice' /\ Behind' /\ Onward'
  <2>1. UNCHANGED frontend_websockets
    BY <1>4 DEF Greeted, Breaks
  <2>2. \A g \in Browsers : browser'[g] = "away" => browser[g] = "away"
    BY <1>4 DEF Greeted, Breaks, FrontInv, FrontOK
  <2> QED BY <1>0, <1>1, <2>1, <2>2 DEF NoneTwice, Behind, Onward, Listed
<1>5. ASSUME NEW S \in SUBSET Browsers, TakeOut(S),
             \A g \in Browsers : browser'[g] = "away" => browser[g] = "away"
      PROVE  NoneTwice' /\ Behind' /\ Onward'
  <2>1. Alone' /\ Behind' /\ Listed' \subseteq Listed
    BY <1>0, <1>1, <1>5, TakenOutKeeps
  <2>2. NoneTwice'
    BY <1>0, <1>1, <1>5, <2>1 DEF NoneTwice, Alone
  <2>3. Onward'
    BY <1>0, <1>1 DEF Onward
  <2> QED BY <2>1, <2>2, <2>3
<1>6. ASSUME NEW f \in Browsers, Leave(f) PROVE NoneTwice' /\ Behind' /\ Onward'
  <2>1. /\ TakeOut({f}) /\ {f} \in SUBSET Browsers
        /\ \A g \in Browsers : browser'[g] = "away" => browser[g] = "away"
    BY <1>6 DEF Leave, FrontInv, FrontOK
  <2> QED BY <1>5, <2>1
<1>7. ASSUME NEW S \in SUBSET Browsers, OthersCleanUp(S) PROVE NoneTwice' /\ Behind' /\ Onward'
  BY <1>5, <1>7 DEF OthersCleanUp
<1> QED BY <1>1, <1>2, <1>3, <1>4, <1>6, <1>7 DEF BrowserStep, FrontInv

(* A broadcast starts, goes on to the next socket or ends. *)
LEMMA CastKeepsFront ==
  ASSUME FrontInv, StartCast \/ SendEnds \/ StopCast
  PROVE  /\ FrontInv'
         /\ Sending' => /\ cast'.ws \in Browsers /\ cast'.ws \in reached'
                        /\ IF Sending THEN cast'.ws \notin reached /\ reached' = reached \cup {cast'.ws}
                                      ELSE reached' = {cast'.ws}
         /\ StopCast => ~Sending'
<1> USE KindsOfRest
<1>0. /\ ListOK /\ Alone /\ NoneTwice /\ Behind /\ Onward /\ cast.next \in Nat
      /\ Len(frontend_websockets) \in Nat
      /\ DOMAIN frontend_websockets = 1..Len(frontend_websockets)
      /\ cast.disconnected \subseteq Browsers /\ cast.ws \in Browsers \cup {Nobody}
      /\ UNCHANGED browser /\ UNCHANGED broken
  BY DEF FrontInv, FrontOK, NoneTwice, Alone, ListOK, StartCast, SendEnds, StopCast
<1> DEFINE Casts == [ws : Browsers \cup {Nobody}, next : Nat, disconnected : SUBSET Browsers]
<1>1. ASSUME NEW ws \in Browsers \cup {Nobody}, NEW n \in Nat, NEW D \in SUBSET Browsers
      PROVE  /\ Awaits(ws, n, D) \in Casts
             /\ Awaits(ws, n, D).ws = ws /\ Awaits(ws, n, D).next = n
  BY DEF Awaits
<1>2. Resting \in Casts /\ Resting.ws = Nobody
  BY DEF Resting
<1>3. \A i \in DOMAIN frontend_websockets :
        /\ frontend_websockets[i] \in Browsers
        /\ browser[frontend_websockets[i]] # "away"
  BY <1>0 DEF ListOK, NoneTwice, Listed, ToSet
<1>4. ASSUME cast' = Resting, reached' = {}, Alone', ListOK', Listed' \subseteq Listed
      PROVE  FrontInv' /\ ~Sending'
  <2>1. FrontOK'
    BY <1>0, <1>2, <1>4 DEF FrontInv, FrontOK
  <2>2. ~Sending'
    BY <1>2, <1>4 DEF Sending
  <2>3. NoneTwice'
    BY <1>0, <1>4 DEF NoneTwice, Alone
  <2> QED BY <2>1, <2>2, <2>3 DEF FrontInv, Behind, Onward
<1>5. CASE StopCast
  <2>1. ListOK' /\ Alone' /\ Listed' = Listed
    BY <1>0, <1>5 DEF StopCast, ListOK, Alone, Listed, FrontInv, FrontOK
  <2> QED BY <1>4, <1>5, <2>1 DEF StopCast
<1>6. CASE StartCast /\ frontend_websockets = <<>>
  <2>1. UNCHANGED <<frontend_websockets, cast, reached>> /\ ~Sending /\ ~Sending'
    BY <1>6 DEF StartCast, Sending
  <2>2. FrontOK' /\ NoneTwice' /\ Behind' /\ Onward'
    BY <1>0, <2>1 DEF FrontInv, FrontOK, ListOK, NoneTwice, Listed, Behind, Onward
  <2>3. ~StopCast \/ ~Sending'
    BY <2>1
  <2> QED BY <2>1, <2>2 DEF FrontInv
<1>7. CASE StartCast /\ frontend_websockets # <<>>
  <2> DEFINE ws == frontend_websockets[1]
  <2>1. 1 \in DOMAIN frontend_websockets /\ Head(frontend_websockets) = ws
    BY <1>0, <1>7 DEF ListOK
  <2>2. ws \in Browsers /\ browser[ws] # "away"
    BY <1>3, <2>1
  <2>3. /\ cast' = Awaits(ws, 2, {}) /\ reached' = {ws}
        /\ UNCHANGED frontend_websockets
    BY <1>7, <2>1 DEF StartCast
  <2> HIDE DEF ws
  <2>4. cast' \in Casts /\ cast'.ws = ws /\ cast'.next = 2
    BY <1>1, <2>2, <2>3
  <2>5. Sending' /\ ~Sending
    BY <1>7, <2>2, <2>4 DEF Sending, StartCast
  <2>6. FrontOK'
    BY <1>0, <2>2, <2>3, <2>4 DEF FrontInv, FrontOK, ListOK
  <2>7. NoneTwice'
    BY <1>0, <2>2, <2>3 DEF NoneTwice, Listed
  <2>8. Behind'
    BY <1>0, <2>1, <2>3, <2>4 DEF Behind, Alone, ws
  <2>9. Onward'
    BY <2>4 DEF Onward
  <2>10. StopCast => FALSE
    <3>1. StopCast => cast' = Resting
      BY DEF StopCast
    <3> QED BY <1>2, <2>2, <2>4, <3>1
  <2> QED BY <2>2, <2>3, <2>4, <2>5, <2>6, <2>7, <2>8, <2>9, <2>10 DEF FrontInv
<1>8. CASE SendEnds
  <2> DEFINE failed == IF cast.ws \in broken THEN cast.disconnected \cup {cast.ws}
                                             ELSE cast.disconnected
             ws == frontend_websockets[cast.next]
  <2>1. failed \subseteq Browsers /\ Sending
    BY <1>0, <1>8 DEF SendEnds, Sending
  <2>2. CASE cast.next <= Len(frontend_websockets)
    <3>1. cast.next \in DOMAIN frontend_websockets
      BY <1>0, <2>1, <2>2 DEF Onward
    <3>2. ws \in Browsers /\ browser[ws] # "away" /\ ws \notin reached
      BY <1>0, <1>3, <2>1, <3>1 DEF Behind
    <3>3. /\ cast' = Awaits(ws, cast.next + 1, failed) /\ reached' = reached \cup {ws}
          /\ UNCHANGED frontend_websockets
      BY <1>8, <2>2 DEF SendEnds
    <3> HIDE DEF ws, failed
    <3>4. cast' \in Casts /\ cast'.ws = ws /\ cast'.next = cast.next + 1
      <4>1. cast.next + 1 \in Nat /\ ws \in Browsers \cup {Nobody}
        BY <1>0, <3>2
      <4> QED BY <1>1, <2>1, <3>3, <4>1
    <3>5. FrontOK'
      BY <1>0, <3>2, <3>3, <3>4 DEF FrontInv, FrontOK, ListOK
    <3>6. NoneTwice'
      BY <1>0, <3>2, <3>3 DEF NoneTwice, Listed
    <3>7. Behind'
      <4> SUFFICES ASSUME NEW i \in DOMAIN frontend_websockets, i >= cast.next + 1
                   PROVE  frontend_websockets[i] \notin reached \cup {ws}
        BY <3>3, <3>4 DEF Behind
      <4>1. i >= cast.next /\ i # cast.next
        BY <1>0
      <4>2. frontend_websockets[i] \notin reached
        BY <1>0, <2>1, <4>1 DEF Behind
      <4>3. frontend_websockets[i] # ws
        BY <1>0, <3>1, <4>1 DEF Alone, ws
      <4> QED BY <4>2, <4>3
    <3>8. Onward'
      BY <1>0, <2>1, <3>4 DEF Onward
    <3>9. StopCast => FALSE
      <4>1. StopCast => cast' = Resting
        BY DEF StopCast
      <4> QED BY <1>2, <3>2, <3>4, <4>1
    <3> QED BY <2>1, <3>2, <3>3, <3>4, <3>5, <3>6, <3>7, <3>8, <3>9 DEF FrontInv
  <2>3. CASE ~(cast.next <= Len(frontend_websockets))
    <3>1. cast' = Resting /\ reached' = {} /\ TakeOut(failed)
      BY <1>8, <2>3 DEF SendEnds
    <3> HIDE DEF failed
    <3>2. ListOK' /\ Alone' /\ Listed' \subseteq Listed
      BY <1>0, <3>1, TakenOutKeeps
    <3> QED BY <1>4, <3>1, <3>2
  <2> QED BY <2>2, <2>3
<1> QED BY <1>5, <1>6, <1>7, <1>8
-----------------------------------------------------------------------------
(* Sequences *)

LEMMA LastComes ==
  ASSUME NEW S, NEW q \in Seq(S), NEW e \in S
  PROVE  /\ Append(q, e) \in Seq(S) /\ ToSet(Append(q, e)) = ToSet(q) \cup {e}
         /\ Len(Append(q, e)) = Len(q) + 1 /\ DOMAIN Append(q, e) = 1..(Len(q) + 1)
         /\ \A i \in DOMAIN Append(q, e) : \/ i \in DOMAIN q /\ Append(q, e)[i] = q[i]
                                           \/ i = Len(q) + 1 /\ Append(q, e)[i] = e
<1>1. /\ Len(q) \in Nat /\ DOMAIN q = 1..Len(q) /\ Append(q, e) \in Seq(S)
      /\ DOMAIN Append(q, e) = 1..(Len(q) + 1) /\ Len(Append(q, e)) = Len(q) + 1
      /\ \A i \in 1..Len(q) : Append(q, e)[i] = q[i]
      /\ Append(q, e)[Len(q) + 1] = e
  OBVIOUS
<1>2. \A i \in DOMAIN Append(q, e) : i \in 1..Len(q) \/ i = Len(q) + 1
  BY <1>1
<1>3. ToSet(Append(q, e)) = ToSet(q) \cup {e}
  BY <1>1, <1>2 DEF ToSet
<1> QED BY <1>1, <1>2, <1>3

LEMMA NotEmpty ==
  ASSUME NEW S, NEW q \in Seq(S), q # <<>>
  PROVE  Len(q) \in Nat /\ Len(q) >= 1
OBVIOUS

LEMMA IncreasingOn ==
  ASSUME NEW q \in Seq(Nat), NEW n \in Nat, Increasing(q), \A m \in ToSet(q) : m < n
  PROVE  Increasing(Append(q, n))
<1>1. /\ Len(q) \in Nat /\ DOMAIN q = 1..Len(q)
      /\ \A i \in DOMAIN Append(q, n) : \/ i \in DOMAIN q /\ Append(q, n)[i] = q[i]
                                        \/ i = Len(q) + 1 /\ Append(q, n)[i] = n
  BY LastComes
<1>2. \A i \in DOMAIN q : q[i] < n
  BY DEF ToSet
<1> QED BY <1>1, <1>2 DEF Increasing

LEMMA GrowsOn ==
  ASSUME NEW q \in Seq(Event), NEW e \in Event, Grows(q), \A d \in ToSet(q) : d.id < e.id
  PROVE  Grows(Append(q, e))
<1>1. /\ Len(q) \in Nat /\ DOMAIN q = 1..Len(q)
      /\ \A i \in DOMAIN Append(q, e) : \/ i \in DOMAIN q /\ Append(q, e)[i] = q[i]
                                        \/ i = Len(q) + 1 /\ Append(q, e)[i] = e
  BY LastComes
<1>2. \A i \in DOMAIN q : q[i].id < e.id
  BY DEF ToSet
<1> QED BY <1>1, <1>2 DEF Grows

LEMMA HeadLeaves ==
  ASSUME NEW q \in Seq(Event), q # <<>>, Grows(q)
  PROVE  /\ Head(q) \in Event /\ Head(q) \in ToSet(q) /\ Tail(q) \in Seq(Event)
         /\ ToSet(Tail(q)) = ToSet(q) \ {Head(q)} /\ Grows(Tail(q))
         /\ \A e \in ToSet(Tail(q)) : Head(q).id < e.id
<1>1. /\ Len(q) \in Nat /\ Len(q) >= 1 /\ DOMAIN q = 1..Len(q) /\ Head(q) = q[1]
      /\ Head(q) \in Event /\ Tail(q) \in Seq(Event)
      /\ DOMAIN Tail(q) = 1..(Len(q) - 1)
      /\ \A i \in 1..(Len(q) - 1) : Tail(q)[i] = q[i + 1]
  OBVIOUS
<1>2. Grows(Tail(q))
  BY <1>1 DEF Grows
<1>3. Head(q) \in ToSet(q)
  BY <1>1 DEF ToSet
<1>4. ASSUME NEW e \in ToSet(Tail(q)) PROVE e \in ToSet(q) /\ Head(q).id < e.id
  <2>1. PICK i \in 1..(Len(q) - 1) : e = q[i + 1]
    BY <1>1 DEF ToSet
  <2>2. i + 1 \in DOMAIN q /\ 1 \in DOMAIN q /\ 1 < i + 1
    BY <1>1
  <2> QED BY <1>1, <2>1, <2>2 DEF ToSet, Grows
<1>5. \A e \in ToSet(Tail(q)) : e # Head(q)
  <2>1. Head(q).id \in Nat
    BY <1>1 DEF Event
  <2> QED BY <1>4, <2>1
<1>6. ASSUME NEW e \in ToSet(q), e # Head(q) PROVE e \in ToSet(Tail(q))
  <2>1. PICK i \in 1..Len(q) : e = q[i]
    BY <1>1 DEF ToSet
  <2>2. i # 1
    BY <1>1, <1>6, <2>1
  <2>3. i - 1 \in 1..(Len(q) - 1) /\ (i - 1) + 1 = i
    BY <1>1, <2>2
  <2> QED BY <1>1, <2>1, <2>3 DEF ToSet
<1> QED BY <1>1, <1>2, <1>3, <1>4, <1>5, <1>6

(* How many values of an increasing sequence come up to one of its own.    *)
LEMMA RankOf ==
  ASSUME NEW s \in Seq(Nat), Increasing(s), NEW k \in DOMAIN s
  PROVE  LET below == {n \in ToSet(s) : n <= s[k]}
         IN  IsFiniteSet(below) /\ Cardinality(below) = k
<1> DEFINE below == {n \in ToSet(s) : n <= s[k]}
           upto == [i \in 1..k |-> s[i]]
<1>1. /\ Len(s) \in Nat /\ DOMAIN s = 1..Len(s) /\ \A i \in DOMAIN s : s[i] \in Nat
      /\ k \in Nat /\ \A i \in 1..k : i \in DOMAIN s
  OBVIOUS
<1>2. \A i, j \in DOMAIN s : s[i] <= s[j] <=> i <= j
  <2> SUFFICES ASSUME NEW i \in DOMAIN s, NEW j \in DOMAIN s PROVE s[i] <= s[j] <=> i <= j
    OBVIOUS
  <2>1. i < j => s[i] < s[j]
    BY DEF Increasing
  <2>2. j < i => s[j] < s[i]
    BY DEF Increasing
  <2>3. i \in Nat /\ j \in Nat /\ s[i] \in Nat /\ s[j] \in Nat
    BY <1>1
  <2> QED BY <2>1, <2>2, <2>3
<1>3. upto \in [1..k -> below]
  BY <1>1, <1>2 DEF ToSet
<1>4. \A i, j \in 1..k : upto[i] = upto[j] => i = j
  <2> SUFFICES ASSUME NEW i \in 1..k, NEW j \in 1..k, s[i] = s[j] PROVE i = j
    OBVIOUS
  <2>1. i <= j /\ j <= i
    BY <1>1, <1>2
  <2> QED BY <2>1
<1>5. ASSUME NEW n \in below PROVE \E i \in 1..k : upto[i] = n
  <2>1. PICK i \in DOMAIN s : n = s[i]
    BY DEF ToSet
  <2>2. i <= k
    BY <1>2, <2>1
  <2> QED BY <1>1, <2>1, <2>2
<1>6. ExistsBijection(1..k, below)
  <2>1. upto \in Bijection(1..k, below)
    <3> HIDE DEF upto, below
    <3> QED BY <1>3, <1>4, <1>5 DEF Bijection, Injection, Surjection, IsInjective
  <2> HIDE DEF upto, below
  <2> QED BY <2>1 DEF ExistsBijection
<1>7. IsFiniteSet(below) /\ Cardinality(below) = k
  <2> HIDE DEF below
  <2>1. IsFiniteSet(below)
    BY <1>1, <1>6, FS_NatBijection
  <2> QED BY <1>1, <1>6, <2>1, FS_CountingElements
<1> QED BY <1>7

(* An increasing sequence is given by its values. *)
LEMMA SameValues ==
  ASSUME NEW s \in Seq(Nat), NEW t \in Seq(Nat), Increasing(s), Increasing(t), ToSet(s) = ToSet(t)
  PROVE  s = t
<1>1. ASSUME NEW u \in Seq(Nat), NEW v \in Seq(Nat), Increasing(u), Increasing(v),
             ToSet(u) = ToSet(v), NEW k \in DOMAIN u
      PROVE  k \in DOMAIN v /\ v[k] = u[k]
  <2>1. PICK m \in DOMAIN v : v[m] = u[k]
    BY <1>1 DEF ToSet
  <2>2. {n \in ToSet(u) : n <= u[k]} = {n \in ToSet(v) : n <= v[m]}
    BY <1>1, <2>1
  <2>3. k = m
    BY <1>1, <2>2, RankOf
  <2> QED BY <2>1, <2>3
<1>2. /\ Len(s) \in Nat /\ DOMAIN s = 1..Len(s) /\ s = [i \in 1..Len(s) |-> s[i]]
      /\ Len(t) \in Nat /\ DOMAIN t = 1..Len(t) /\ t = [i \in 1..Len(t) |-> t[i]]
  OBVIOUS
<1>3. DOMAIN s = DOMAIN t
  BY <1>1
<1>4. Len(s) = Len(t)
  <2>1. Len(s) \in 1..Len(s) => Len(s) \in 1..Len(t)
    BY <1>2, <1>3
  <2>2. Len(t) \in 1..Len(t) => Len(t) \in 1..Len(s)
    BY <1>2, <1>3
  <2>3. Len(s) \in Nat /\ Len(t) \in Nat
    BY <1>2
  <2> QED BY <2>1, <2>2, <2>3
<1>5. \A i \in DOMAIN s : s[i] = t[i]
  BY <1>1
<1> QED BY <1>2, <1>4, <1>5
-----------------------------------------------------------------------------
(* What a step does to the events *)

LEMMA StepsOn ==
  ASSUME EventsOK, NEW step \in Steps, Step(step)
  PROVE  handling' \in [event : Event, step : Steps] /\ Now' = Now /\ handling'.step = step
BY DEF EventsOK, Step, Now

LEMMA IdleTyped == Idle \in [event : Event, step : Steps] /\ Idle.step = "none" /\ Idle.event.kind = "none"
BY DEF Idle, Event, EventKinds, Steps

LEMMA TakesWhat ==
  ASSUME EventsOK, Takes
  PROVE  /\ handling' \in [event : Event, step : Steps]
         /\ \/ handling' = Idle /\ ~Contains(subs, Handler(Head(queue)))
            \/ /\ Contains(subs, Handler(Head(queue))) /\ Now' = Head(queue)
               /\ handling'.step = CASE Head(queue).kind = "notice" -> "show"
                                     [] Head(queue).kind = "closed" -> "read"
                                     [] OTHER -> "lookup"
         /\ handling'.step \in {"none", "show", "read", "lookup"}
<1> DEFINE e == Head(queue)
           step == CASE e.kind = "notice" -> "show" [] e.kind = "closed" -> "read" [] OTHER -> "lookup"
<1>1. e \in Event
  BY DEF EventsOK, Takes
<1>2. step \in {"show", "read", "lookup"}
  OBVIOUS
<1>3. handling' = IF ~Contains(subs, Handler(e)) THEN Idle ELSE [event |-> e, step |-> step]
  BY DEF Takes
<1> HIDE DEF e, step
<1>4. CASE ~Contains(subs, Handler(e))
  BY <1>3, <1>4, IdleTyped DEF e
<1>5. CASE Contains(subs, Handler(e))
  <2>1. handling' = [event |-> e, step |-> step]
    BY <1>3, <1>5
  <2>2. handling' \in [event : Event, step : Steps] /\ Now' = e /\ handling'.step = step
    BY <1>1, <1>2, <2>1 DEF Now, Steps
  <2> QED BY <1>2, <1>5, <2>2 DEF e, step
<1> QED BY <1>4, <1>5

LEMMA TakenKind ==
  ASSUME EventsOK, SubsOK, Takes, Contains(subs, Handler(Head(queue)))
  PROVE  Head(queue).kind \in {"utterance", "tool_only", "notice", "closed"}
<1>1. PICK i \in 1..Len(subs) : subs[i] = Handler(Head(queue))
  BY DEF Contains
<1>2. Handler(Head(queue)) \in {"closed", "utterance", "notice"}
  BY <1>1 DEF SubsOK
<1> QED BY <1>2 DEF Handler

LEMMA QueuedTyped ==
  ASSUME EventsOK
  PROVE  \A e \in Queued : e \in Event /\ e.id \in Nat
<1>1. \A e \in Queued : e \in Event
  BY DEF EventsOK, Queued, ToSet
<1> QED BY <1>1 DEF Event

(* An event arrives at the end of the queue, with a new id. *)
Arrives ==
  /\ queue' \in Seq(Event) /\ events' = events + 1 /\ UNCHANGED handling
  /\ \E e \in Event : e.id = events + 1 /\ queue' = Append(queue, e)

(* Or the handler goes on. *)
GoesOn ==
  /\ UNCHANGED <<queue, events>>
  /\ handling' \in [event : Event, step : Steps]
  /\ \/ handling' = handling
     \/ handling' = Idle
     \/ Handling /\ Handling' /\ Now' = Now

(* The handler's own steps but the first. *)
HandlerStep == Lookup \/ AppendMessage \/ Show \/ ShowGoesOn \/ CloseReads \/ Summarised

LEMMA HandlerGoesOn ==
  ASSUME EventsOK, HandlerStep
  PROVE  GoesOn
<1>1. Handling /\ UNCHANGED <<queue, events>>
  BY DEF HandlerStep, Handling, Lookup, AppendMessage, Show, ShowGoesOn, CloseReads, Summarised
<1>2. \/ handling' = handling \/ handling' = Idle
      \/ \E step \in {"append", "show", "showing", "summarise"} : Step(step)
  BY DEF HandlerStep, Lookup, AppendMessage, Show, ShowGoesOn, CloseReads, Summarised
<1>3. ASSUME NEW step \in {"append", "show", "showing", "summarise"}, Step(step)
      PROVE  handling' \in [event : Event, step : Steps] /\ Handling' /\ Now' = Now
  <2>1. step \in Steps /\ step # "none"
    BY DEF Steps
  <2> QED BY <1>3, <2>1, StepsOn DEF Handling
<1> QED BY <1>1, <1>2, <1>3, IdleTyped DEF GoesOn, EventsOK

LEMMA ComesIn ==
  ASSUME EventsOK, Close \/ \E kind \in Kinds : Publish(kind)
  PROVE  Arrives
<1>1. ASSUME NEW e \in Event, queue' = Append(queue, e), e.id = events + 1, events' = events + 1,
             UNCHANGED handling
      PROVE  Arrives
  <2>1. queue' \in Seq(Event)
    BY <1>1, LastComes DEF EventsOK
  <2> QED BY <1>1, <2>1 DEF Arrives
<1>2. ASSUME NEW kind \in Kinds, Publish(kind) PROVE Arrives
  <2> DEFINE e == [kind |-> kind, id |-> events + 1]
  <2>1. e \in Event /\ e.id = events + 1
    BY DEF EventsOK, Event, EventKinds
  <2>2. queue' = Append(queue, e) /\ events' = events + 1 /\ UNCHANGED handling
    BY <1>2 DEF Publish
  <2> HIDE DEF e
  <2> QED BY <1>1, <2>1, <2>2
<1>3. CASE Close
  <2> DEFINE e == [kind |-> "closed", id |-> events + 1]
  <2>1. e \in Event /\ e.id = events + 1
    BY DEF EventsOK, Event, EventKinds
  <2>2. queue' = Append(queue, e) /\ events' = events + 1 /\ UNCHANGED handling
    BY <1>3 DEF Close
  <2> HIDE DEF e
  <2> QED BY <1>1, <2>1, <2>2
<1> QED BY <1>2, <1>3

LEMMA Anatomy ==
  ASSUME EventsOK, [Next]_vars
  PROVE  StartBus \/ Arrives \/ Takes \/ GoesOn
<1>4. ASSUME UNCHANGED <<queue, events>>, handling' = handling \/ handling' = Idle PROVE GoesOn
  BY <1>4, IdleTyped DEF GoesOn, EventsOK
<1>5. CASE CreateSession \/ Bridge \/ Run \/ Join \/ Unsubscribe \/ StopBus \/ Delete
  BY <1>4, <1>5 DEF CreateSession, Bridge, Run, Join, Unsubscribe, StopBus, Delete
<1>6. CASE BootFails \/ RunEnds \/ Cancelled \/ (BrowserStep /\ UNCHANGED svars) \/ UNCHANGED vars
  BY <1>4, <1>6 DEF BootFails, RunEnds, Cancelled, svars, vars
<1> QED
  BY <1>5, <1>6, ComesIn, HandlerGoesOn DEF Next, Main, WorkerStep, HandlerStep

LEMMA FrontStep ==
  ASSUME FrontInv, [Next]_vars
  PROVE  FrontInv'
<1>1. UNCHANGED fvars => FrontInv'
  BY DEF fvars, FrontInv, FrontOK, ListOK, NoneTwice, Behind, Onward, Listed, Sending
<1>2. CASE BrowserStep
  BY <1>2, BrowsersKeepFront
<1>3. CASE Show \/ ShowGoesOn
  BY <1>3, CastKeepsFront DEF Show, ShowGoesOn
<1>4. CASE StopBus
  BY <1>1, <1>4, CastKeepsFront DEF StopBus
<1>5. CASE Main /\ ~StopBus
  BY <1>1, <1>5 DEF Main, CreateSession, StartBus, Bridge, Run, Close, Join, Unsubscribe, Delete
<1>6. CASE Takes \/ Lookup \/ AppendMessage \/ CloseReads \/ Summarised
  BY <1>1, <1>6 DEF Takes, Lookup, AppendMessage, CloseReads, Summarised
<1>7. CASE BootFails \/ RunEnds \/ Cancelled \/ UNCHANGED vars
  BY <1>1, <1>7 DEF BootFails, RunEnds, Cancelled, vars
<1>8. ASSUME NEW kind \in Kinds, Publish(kind) PROVE FrontInv'
  BY <1>1, <1>8 DEF Publish
<1> QED BY <1>2, <1>3, <1>4, <1>5, <1>6, <1>7, <1>8 DEF Next, WorkerStep

LEMMA EventsStep ==
  ASSUME EventsOK, IdsGrow, Fresh, [Next]_vars
  PROVE  EventsOK' /\ IdsGrow'
<1>1. CASE StartBus
  <2> DEFINE e == [kind |-> "created", id |-> 0]
  <2>1. /\ queue' = <<e>> /\ UNCHANGED <<handling, events>>
        /\ ~Handling /\ events = 0 /\ e \in Event /\ e.id = 0
    BY <1>1 DEF StartBus, Fresh, Event, EventKinds
  <2> HIDE DEF e
  <2>2. /\ queue' \in Seq(Event) /\ DOMAIN queue' = {1} /\ queue'[1] = e
    BY <2>1
  <2>3. Queued' = {e} /\ Grows(queue)'
    BY <2>2 DEF Queued, ToSet, Grows
  <2>4. ~Handling'
    BY <2>1 DEF Handling
  <2> QED BY <2>1, <2>2, <2>3, <2>4 DEF EventsOK, IdsGrow
<1>2. CASE Arrives
  <2>1. PICK e \in Event : e.id = events + 1 /\ queue' = Append(queue, e)
    BY <1>2 DEF Arrives
  <2>2. queue \in Seq(Event) /\ events \in Nat /\ UNCHANGED handling /\ events' = events + 1
        /\ \A d \in Queued : d.id \in Nat /\ d.id <= events
    <3>1. queue \in Seq(Event) /\ events \in Nat /\ UNCHANGED handling /\ events' = events + 1
      BY <1>2 DEF Arrives, EventsOK
    <3>2. \A d \in Queued : d.id \in Nat
      BY <3>1, QueuedTyped
    <3> QED BY <3>1, <3>2 DEF IdsGrow
  <2>3. Queued' = Queued \cup {e}
    BY <2>1, <2>2, LastComes DEF Queued
  <2>4. Grows(queue')
    BY <2>1, <2>2, GrowsOn DEF IdsGrow, Queued
  <2>5. Now' = Now /\ Handling' = Handling /\ Now.id \in Nat
    BY <2>2 DEF Now, Handling, EventsOK, Event
  <2>6. \A d \in Queued' : d.id <= events'
    BY <2>1, <2>2, <2>3
  <2>7. Handling => Now.id <= events' /\ \A d \in Queued' : Now.id < d.id
    BY <2>1, <2>2, <2>3, <2>5 DEF IdsGrow
  <2>8. EventsOK'
    BY <1>2, <2>2 DEF Arrives, EventsOK
  <2> QED BY <2>4, <2>5, <2>6, <2>7, <2>8 DEF IdsGrow
<1>3. CASE Takes
  <2>1. queue # <<>> /\ queue' = Tail(queue) /\ UNCHANGED events /\ queue \in Seq(Event)
    BY <1>3 DEF Takes, EventsOK
  <2>2. /\ Head(queue) \in Queued /\ Queued' = Queued \ {Head(queue)} /\ queue' \in Seq(Event)
        /\ Grows(queue') /\ \A e \in Queued' : Head(queue).id < e.id
    BY <2>1, HeadLeaves DEF IdsGrow, Queued
  <2>3. handling' \in [event : Event, step : Steps] /\ (Handling' => Now' = Head(queue))
    BY <1>3, TakesWhat, IdleTyped DEF Handling
  <2> QED BY <2>1, <2>2, <2>3 DEF EventsOK, IdsGrow
<1>4. CASE GoesOn
  <2>1. UNCHANGED <<queue, events, Queued>>
    BY <1>4 DEF GoesOn, Queued
  <2>2. Handling' => Now' = Now /\ Handling
    BY <1>4, IdleTyped DEF GoesOn, Handling, Now
  <2> QED BY <1>4, <2>1, <2>2 DEF GoesOn, EventsOK, IdsGrow
<1> QED BY <1>1, <1>2, <1>3, <1>4, Anatomy
-----------------------------------------------------------------------------
(* The session *)

(* What the handler of SessionClosed reads and makes of it. *)
LEMMA ClosingStep ==
  ASSUME EventsOK, StoreOK, [Next]_vars
  PROVE  /\ transcript' \in Seq(Nat) /\ summaries' \in Seq(Seq(Nat))
         /\ outcome' \in {"none", "missed", "raised", "failed", "made"}
         /\ ~CloseReads => UNCHANGED transcript
         /\ ~Summarised => UNCHANGED summaries
         /\ ~CloseReads /\ ~Summarised => UNCHANGED outcome
         /\ outcome # "none" => outcome' # "none"
         /\ handling'.step = "summarise" => handling.step = "summarise" \/ CloseReads
         /\ CloseReads => ~Unread'
         /\ ~Unread => ~Unread' \/ StopBus
<1>0. /\ store.history \in Seq(Nat) /\ transcript \in Seq(Nat) /\ summaries \in Seq(Seq(Nat))
      /\ outcome \in {"none", "missed", "raised", "failed", "made"}
  BY DEF StoreOK, SessionRecord
<1>1. \A step \in {"append", "show", "showing", "summarise"} : Step(step) => handling'.step = step
  BY StepsOn DEF Steps
<1>2. CASE CloseReads
  <2>1. UNCHANGED summaries /\ (transcript' = transcript \/ transcript' = store.history)
    BY <1>2 DEF CloseReads
  <2>2. \/ outcome' \in {"missed", "raised"} /\ handling' = Idle
        \/ outcome' = outcome /\ handling'.step = "summarise"
    BY <1>1, <1>2 DEF CloseReads
  <2>3. handling.step = "read" /\ ~Summarised
    BY <1>2 DEF CloseReads, Summarised
  <2> QED BY <1>0, <1>2, <2>1, <2>2, <2>3, IdleTyped DEF Unread
<1>3. CASE Summarised
  <2>1. /\ UNCHANGED transcript
        /\ summaries' = summaries \/ summaries' = Append(summaries, transcript)
        /\ outcome' \in {"made", "failed"} /\ ~CloseReads
    BY <1>3 DEF Summarised, CloseReads
  <2>2. handling'.step \in {"show", "none"}
    BY <1>1, <1>3, IdleTyped DEF Summarised
  <2>3. Append(summaries, transcript) \in Seq(Seq(Nat))
    BY <1>0, LastComes
  <2> QED BY <1>0, <1>3, <2>1, <2>2, <2>3 DEF Unread
<1>4. CASE ~CloseReads /\ ~Summarised
  <2> USE DEF closing
  <2>1. UNCHANGED closing
    <3>1. CASE BootFails \/ RunEnds \/ Cancelled \/ (BrowserStep /\ UNCHANGED svars) \/ UNCHANGED vars
      BY <3>1 DEF BootFails, RunEnds, Cancelled, svars, vars
    <3>2. CASE Main
      BY <3>2 DEF Main, CreateSession, StartBus, Bridge, Run, Close, Join, Unsubscribe, StopBus, Delete
    <3>3. CASE Takes \/ Lookup \/ AppendMessage \/ Show \/ ShowGoesOn
      BY <3>3 DEF Takes, Lookup, AppendMessage, Show, ShowGoesOn
    <3>4. ASSUME NEW kind \in Kinds, Publish(kind) PROVE UNCHANGED closing
      BY <3>4 DEF Publish
    <3> QED BY <1>4, <3>1, <3>2, <3>3, <3>4 DEF Next, WorkerStep
  <2>2. handling'.step = "summarise" => handling.step = "summarise"
    <3>1. CASE BootFails \/ RunEnds \/ Cancelled \/ (BrowserStep /\ UNCHANGED svars) \/ UNCHANGED vars
      BY <3>1 DEF BootFails, RunEnds, Cancelled, svars, vars
    <3>2. CASE Main
      BY <3>2, IdleTyped
      DEF Main, CreateSession, StartBus, Bridge, Run, Close, Join, Unsubscribe, StopBus, Delete
    <3>3. CASE Takes
      BY <3>3, TakesWhat
    <3>4. CASE Lookup \/ AppendMessage \/ Show \/ ShowGoesOn
      BY <1>1, <3>4, IdleTyped DEF Lookup, AppendMessage, Show, ShowGoesOn
    <3>5. ASSUME NEW kind \in Kinds, Publish(kind) PROVE UNCHANGED handling
      BY <3>5 DEF Publish
    <3> QED BY <1>4, <3>1, <3>2, <3>3, <3>4, <3>5 DEF Next, WorkerStep
  <2>3. handling.step = "summarise" => UNCHANGED handling \/ StopBus
    <3>1. CASE BootFails \/ RunEnds \/ Cancelled \/ (BrowserStep /\ UNCHANGED svars) \/ UNCHANGED vars
      BY <3>1 DEF BootFails, RunEnds, Cancelled, svars, vars
    <3>2. CASE Main
      BY <3>2
      DEF Main, CreateSession, StartBus, Bridge, Run, Close, Join, Unsubscribe, StopBus, Delete
    <3>3. CASE Takes \/ Lookup \/ AppendMessage \/ Show \/ ShowGoesOn
      BY <3>3 DEF Takes, Lookup, AppendMessage, Show, ShowGoesOn, Handling
    <3>4. ASSUME NEW kind \in Kinds, Publish(kind) PROVE UNCHANGED handling
      BY <3>4 DEF Publish
    <3> QED BY <1>4, <3>1, <3>2, <3>3, <3>4 DEF Next, WorkerStep
  <2> QED BY <1>0, <1>4, <2>1, <2>2, <2>3 DEF Unread
<1> QED BY <1>2, <1>3, <1>4

(* What set_state, add_message and delete_session leave of the session. *)
LEMMA StoreStep ==
  ASSUME EventsOK, StoreOK, [Next]_vars
  PROVE  /\ StoreOK'
         /\ CreateSession => store'.history = <<>>
         /\ AppendMessage => store'.history = Append(store.history, Now.id)
         /\ ~CreateSession /\ ~AppendMessage => store'.history = store.history
         /\ store'.state = "deleted" => store.state = "deleted" \/ Delete
<1>0. store.history \in Seq(Nat) /\ Now.id \in Nat /\ store \in SessionRecord
  BY DEF StoreOK, SessionRecord, EventsOK, Now, Event
<1>1. ASSUME NEW state \in {"none", "IDLE", "LISTENING", "CLOSED", "deleted"},
             store' = [store EXCEPT !.state = state]
      PROVE  store' \in SessionRecord /\ store'.history = store.history /\ store'.state = state
  BY <1>0, <1>1 DEF SessionRecord
<1>2. ASSUME AppendMessage
      PROVE  /\ store' \in SessionRecord /\ store'.history = Append(store.history, Now.id)
             /\ store'.state = store.state
  <2> DEFINE longer == Append(store.history, Now.id)
  <2>1. longer \in Seq(Nat)
    BY <1>0
  <2>2. store' = [store EXCEPT !.history = longer]
    BY <1>2 DEF AppendMessage, Now
  <2> HIDE DEF longer
  <2>3. store' \in SessionRecord /\ store'.history = longer /\ store'.state = store.state
    BY <1>0, <2>1, <2>2 DEF SessionRecord
  <2> QED BY <2>3 DEF longer
<1>3. ASSUME NEW state \in {"LISTENING", "CLOSED"}, SetState(state)
      PROVE  /\ store' \in SessionRecord /\ store'.history = store.history
             /\ store'.state = "deleted" => store.state = "deleted"
  BY <1>0, <1>1, <1>3 DEF SetState
<1>4. ASSUME CreateSession
      PROVE  store' \in SessionRecord /\ store'.history = <<>> /\ store'.state # "deleted"
  BY <1>4 DEF CreateSession, NewSession, SessionRecord
<1>5. ASSUME UNCHANGED store PROVE store' \in SessionRecord
  BY <1>0, <1>5
<1>6. ASSUME Delete
      PROVE  store' \in SessionRecord /\ store'.history = store.history
  BY <1>1, <1>6 DEF Delete
<1>7. ASSUME ~CreateSession, ~AppendMessage, ~Run, ~Close, ~Delete
      PROVE  UNCHANGED store
  <2>1. CASE BootFails \/ RunEnds \/ Cancelled \/ (BrowserStep /\ UNCHANGED svars) \/ UNCHANGED vars
    BY <2>1 DEF BootFails, RunEnds, Cancelled, svars, vars
  <2>2. CASE StartBus \/ Bridge \/ Join \/ Unsubscribe \/ StopBus
    BY <2>2 DEF StartBus, Bridge, Join, Unsubscribe, StopBus
  <2>3. CASE Takes \/ Lookup \/ Show \/ ShowGoesOn \/ CloseReads \/ Summarised
    BY <2>3 DEF Takes, Lookup, Show, ShowGoesOn, CloseReads, Summarised
  <2>4. ASSUME NEW kind \in Kinds, Publish(kind) PROVE UNCHANGED store
    BY <2>4 DEF Publish
  <2> QED BY <1>7, <2>1, <2>2, <2>3, <2>4 DEF Next, Main, WorkerStep
<1>8. store' \in SessionRecord /\ (store'.state = "deleted" => store.state = "deleted" \/ Delete)
  BY <1>0, <1>2, <1>3, <1>4, <1>6, <1>7 DEF Run, Close
<1>9. ~CreateSession /\ ~AppendMessage => store'.history = store.history
  BY <1>3, <1>6, <1>7 DEF Run, Close
<1> QED BY <1>2, <1>4, <1>8, <1>9, ClosingStep DEF StoreOK

LEMMA SubsStep ==
  ASSUME SubsOK, [Next]_vars
  PROVE  SubsOK'
<1>1. <<"closed">> \in Seq({"closed", "utterance", "notice"})
      /\ Bridges \in Seq({"closed", "utterance", "notice"})
  BY DEF Bridges
<1>2. CASE StartBus \/ Bridge
  BY <1>1, <1>2 DEF StartBus, Bridge, SubsOK
<1>3. CASE Unsubscribe
  BY <1>3 DEF Unsubscribe, SubsOK
<1>4. UNCHANGED subs => SubsOK'
  BY DEF SubsOK
<1>5. CASE BootFails \/ RunEnds \/ Cancelled \/ (BrowserStep /\ UNCHANGED svars) \/ UNCHANGED vars
  BY <1>4, <1>5 DEF BootFails, RunEnds, Cancelled, svars, vars
<1>6. CASE CreateSession \/ Run \/ Close \/ Join \/ StopBus \/ Delete
  BY <1>4, <1>6 DEF CreateSession, Run, Close, Join, StopBus, Delete
<1>7. CASE WorkerStep
  BY <1>4, <1>7
     DEF WorkerStep, Takes, Lookup, AppendMessage, Show, ShowGoesOn, CloseReads, Summarised
<1>8. ASSUME NEW kind \in Kinds, Publish(kind) PROVE SubsOK'
  BY <1>4, <1>8 DEF Publish
<1> QED BY <1>2, <1>3, <1>5, <1>6, <1>7, <1>8 DEF Next, Main

(* An utterance is said before SessionClosed is published. *)
Says ==
  /\ Publish("utterance") /\ at \in {"running", "closing"}
  /\ said' = Append(said, events + 1)

LEMMA SaidStep ==
  ASSUME EventsOK, SaidOK, [Next]_vars
  PROVE  SaidOK' /\ (UNCHANGED said \/ Says)
<1>1. ASSUME NEW kind \in Kinds, Publish(kind) PROVE UNCHANGED said \/ Says
  BY <1>1 DEF Publish, Says
<1>2. ASSUME BootFails \/ RunEnds \/ Cancelled \/ (BrowserStep /\ UNCHANGED svars) \/ UNCHANGED vars
      PROVE  UNCHANGED said
  BY <1>2 DEF BootFails, RunEnds, Cancelled, svars, vars
<1>3. ASSUME Main PROVE UNCHANGED said
  BY <1>3 DEF Main, CreateSession, StartBus, Bridge, Run, Close, Join, Unsubscribe, StopBus, Delete
<1>4. ASSUME WorkerStep PROVE UNCHANGED said
  BY <1>4
     DEF WorkerStep, Takes, Lookup, AppendMessage, Show, ShowGoesOn, CloseReads, Summarised
<1>5. UNCHANGED said \/ Says
  BY <1>1, <1>2, <1>3, <1>4 DEF Next
<1>6. Says => said' \in Seq(Nat)
  BY DEF Says, SaidOK, EventsOK
<1> QED BY <1>5, <1>6 DEF SaidOK

(* A browser is sent the event that is being handled. *)
Sends(f) ==
  /\ Show \/ ShowGoesOn
  /\ f \in Browsers /\ cast'.ws = f
  /\ shown' = [shown EXCEPT ![f] = Append(@, Now.id)]

LEMMA ShownStep ==
  ASSUME FrontInv, EventsOK, ShownOK, [Next]_vars
  PROVE  ShownOK' /\ (UNCHANGED shown \/ \E f \in Browsers : Sends(f))
<1>1. ASSUME Show \/ ShowGoesOn PROVE UNCHANGED shown \/ \E f \in Browsers : Sends(f)
  <2>1. shown' = Sent(cast'.ws)
    BY <1>1 DEF Show, ShowGoesOn
  <2>2. cast'.ws \in Browsers \cup {Nobody}
    BY FrontStep DEF FrontInv, FrontOK
  <2>3. CASE cast'.ws = Nobody
    BY <2>1, <2>3 DEF Sent
  <2>4. CASE cast'.ws # Nobody
    <3>1. cast'.ws \in Browsers
      BY <2>2, <2>4
    <3> QED BY <1>1, <2>1, <2>4, <3>1 DEF Sent, Sends, Now
  <2> QED BY <2>3, <2>4
<1>2. ASSUME ~Show /\ ~ShowGoesOn PROVE UNCHANGED shown
  <2>1. CASE BootFails \/ RunEnds \/ Cancelled \/ (BrowserStep /\ UNCHANGED svars) \/ UNCHANGED vars
    BY <2>1 DEF BootFails, RunEnds, Cancelled, svars, vars
  <2>2. CASE Main
    BY <2>2 DEF Main, CreateSession, StartBus, Bridge, Run, Close, Join, Unsubscribe, StopBus, Delete
  <2>3. CASE WorkerStep
    BY <1>2, <2>3 DEF WorkerStep, Takes, Lookup, AppendMessage, CloseReads, Summarised
  <2>4. ASSUME NEW kind \in Kinds, Publish(kind) PROVE UNCHANGED shown
    BY <2>4 DEF Publish
  <2> QED BY <2>1, <2>2, <2>3, <2>4 DEF Next
<1>3. ASSUME NEW f \in Browsers, Sends(f) PROVE shown' \in [Browsers -> Seq(Nat)]
  <2>1. Now.id \in Nat /\ shown[f] \in Seq(Nat)
    BY DEF EventsOK, Now, Event, ShownOK
  <2>2. Append(shown[f], Now.id) \in Seq(Nat)
    BY <2>1
  <2>3. shown' = [shown EXCEPT ![f] = Append(shown[f], Now.id)]
    BY <1>3 DEF Sends
  <2> QED BY <2>2, <2>3 DEF ShownOK
<1> QED BY <1>1, <1>2, <1>3 DEF ShownOK

LEMMA SessionTypeStep ==
  ASSUME FrontInv, EventsOK, SessionOK, [Next]_vars
  PROVE  SessionOK'
<1>1. SubsOK' /\ StoreOK' /\ SaidOK' /\ ShownOK'
  BY SubsStep, StoreStep, SaidStep, ShownStep DEF SessionOK
<1>2. at' \in Places /\ worker' \in {"none", "running", "ended"}
  <2>0. at \in Places /\ worker \in {"none", "running", "ended"}
    BY DEF SessionOK
  <2>1. CASE BootFails \/ RunEnds \/ Cancelled \/ (BrowserStep /\ UNCHANGED svars) \/ UNCHANGED vars
    BY <2>0, <2>1 DEF BootFails, RunEnds, Cancelled, svars, vars, Goes, Places
  <2>2. CASE Main
    BY <2>0, <2>2 DEF Main, CreateSession, StartBus, Bridge, Run, Close, Join, Unsubscribe, StopBus,
       Delete, Goes, Places
  <2>3. CASE WorkerStep
    BY <2>0, <2>3 DEF WorkerStep, Takes, Lookup, AppendMessage, Show, ShowGoesOn, CloseReads, Summarised
  <2>4. ASSUME NEW kind \in Kinds, Publish(kind) PROVE UNCHANGED <<at, worker>>
    BY <2>4 DEF Publish
  <2> QED BY <2>0, <2>1, <2>2, <2>3, <2>4 DEF Next
<1> QED BY <1>1, <1>2 DEF SessionOK
-----------------------------------------------------------------------------
(* What the handler does with its event *)

LEMMA HandlerKeeps ==
  ASSUME FrontInv, EventsOK, SubsOK, HandlerOK, [Next]_vars
  PROVE  HandlerOK'
<1> USE KindsOfRest
<1>1. ASSUME UNCHANGED handling, UNCHANGED cast PROVE HandlerOK'
  BY <1>1 DEF HandlerOK, Now, Sending
<1>2. ASSUME handling' = Idle, ~Sending' PROVE HandlerOK'
  BY <1>2, IdleTyped DEF HandlerOK, Now
<1>3. handling.step # "showing" /\ UNCHANGED cast => ~Sending'
  BY DEF HandlerOK, Sending
<1>4. CASE Takes
  <2>1. ~Sending'
    BY <1>3, <1>4 DEF Takes, Handling, fvars
  <2>2. \/ handling' = Idle
        \/ /\ Contains(subs, Handler(Head(queue))) /\ Now' = Head(queue)
           /\ handling'.step = CASE Head(queue).kind = "notice" -> "show"
                                 [] Head(queue).kind = "closed" -> "read"
                                 [] OTHER -> "lookup"
    BY <1>4, TakesWhat
  <2>3. CASE Contains(subs, Handler(Head(queue))) /\ Now' = Head(queue)
             /\ handling'.step = CASE Head(queue).kind = "notice" -> "show"
                                   [] Head(queue).kind = "closed" -> "read"
                                   [] OTHER -> "lookup"
    <3>1. Head(queue).kind \in {"utterance", "tool_only", "notice", "closed"}
      BY <1>4, <2>3, TakenKind
    <3>2. /\ handling'.step = "lookup" => Head(queue).kind \in {"utterance", "tool_only"}
          /\ handling'.step = "read" => Head(queue).kind = "closed"
          /\ handling'.step \in {"lookup", "read", "show"}
      BY <2>3, <3>1
    <3> HIDE DEF Sending
    <3> QED BY <2>1, <2>3, <3>2 DEF HandlerOK
  <2> QED BY <1>2, <2>1, <2>2, <2>3
<1>5. CASE Lookup
  <2>1. /\ handling.step = "lookup" /\ ~Sending' /\ Now.kind \in {"utterance", "tool_only"}
        /\ Refused(Now) <=> Now.kind = "tool_only"
    BY <1>3, <1>5 DEF Lookup, HandlerOK, Refused, fvars
  <2>2. Step("show") \/ handling' = Idle \/ (Step("append") /\ Now.kind = "utterance")
    BY <1>5, <2>1 DEF Lookup, Now
  <2>3. ASSUME Step("show") PROVE HandlerOK'
    <3>1. handling'.step = "show"
      BY <2>3, StepsOn DEF Steps
    <3> QED BY <2>1, <3>1 DEF HandlerOK
  <2>4. ASSUME Step("append"), Now.kind = "utterance" PROVE HandlerOK'
    <3>1. handling'.step = "append" /\ Now' = Now
      BY <2>4, StepsOn DEF Steps
    <3> QED BY <2>1, <2>4, <3>1 DEF HandlerOK
  <2> QED BY <1>2, <2>1, <2>2, <2>3, <2>4
<1>6. CASE AppendMessage
  <2>1. ~Sending' /\ Step("show")
    BY <1>3, <1>6 DEF AppendMessage, fvars
  <2>2. handling'.step = "show"
    BY <2>1, StepsOn DEF Steps
  <2> QED BY <2>1, <2>2 DEF HandlerOK
<1>7. CASE Show
  <2>1. CASE cast'.ws = Nobody
    <3>1. handling' = Idle /\ ~Sending'
      BY <1>7, <2>1 DEF Show, Sending
    <3> QED BY <1>2, <3>1
  <2>2. CASE cast'.ws # Nobody
    <3>1. Step("showing") /\ Sending'
      BY <1>7, <2>2 DEF Show, Sending
    <3>2. handling'.step = "showing"
      BY <3>1, StepsOn DEF Steps
    <3> QED BY <3>1, <3>2 DEF HandlerOK
  <2> QED BY <2>1, <2>2
<1>8. CASE ShowGoesOn
  <2>1. CASE cast'.ws = Nobody
    <3>1. handling' = Idle /\ ~Sending'
      BY <1>8, <2>1 DEF ShowGoesOn, Sending
    <3> QED BY <1>2, <3>1
  <2>2. CASE cast'.ws # Nobody
    <3>1. handling'.step = "showing" /\ Sending'
      BY <1>8, <2>2 DEF ShowGoesOn, Sending
    <3> QED BY <3>1 DEF HandlerOK
  <2> QED BY <2>1, <2>2
<1>9. CASE CloseReads
  <2>1. ~Sending' /\ handling.step = "read" /\ (handling' = Idle \/ Step("summarise"))
    BY <1>3, <1>9 DEF CloseReads, fvars
  <2>2. ASSUME Step("summarise") PROVE HandlerOK'
    <3>1. handling'.step = "summarise" /\ Now' = Now
      BY <2>2, StepsOn DEF Steps
    <3> QED BY <2>1, <3>1 DEF HandlerOK
  <2> QED BY <1>2, <2>1, <2>2
<1>10. CASE Summarised
  <2>1. ~Sending' /\ (handling' = Idle \/ Step("show"))
    BY <1>3, <1>10 DEF Summarised, fvars
  <2>2. ASSUME Step("show") PROVE HandlerOK'
    <3>1. handling'.step = "show"
      BY <2>2, StepsOn DEF Steps
    <3> QED BY <2>1, <3>1 DEF HandlerOK
  <2> QED BY <1>2, <2>1, <2>2
<1>11. CASE StopBus
  <2>1. ~Sending'
    <3>1. CASE Sending
      BY <1>11, <3>1, CastKeepsFront DEF StopBus
    <3>2. CASE ~Sending
      BY <1>11, <3>2 DEF StopBus, Sending, fvars
    <3> QED BY <3>1, <3>2
  <2> QED BY <1>2, <1>11, <2>1 DEF StopBus
<1>12. CASE BrowserStep /\ UNCHANGED svars
  BY <1>1, <1>12, BrowsersKeepFront DEF svars
<1>13. CASE BootFails \/ RunEnds \/ Cancelled \/ UNCHANGED vars
  BY <1>1, <1>13 DEF BootFails, RunEnds, Cancelled, svars, vars, fvars
<1>14. CASE CreateSession \/ StartBus \/ Bridge \/ Run \/ Close \/ Join \/ Unsubscribe \/ Delete
  BY <1>1, <1>14 DEF CreateSession, StartBus, Bridge, Run, Close, Join, Unsubscribe, Delete, fvars
<1>15. ASSUME NEW kind \in Kinds, Publish(kind) PROVE HandlerOK'
  BY <1>1, <1>15 DEF Publish, fvars
<1> QED
  BY <1>4, <1>5, <1>6, <1>7, <1>8, <1>9, <1>10, <1>11, <1>12, <1>13, <1>14, <1>15
  DEF Next, Main, WorkerStep

LEMMA FreshStep ==
  ASSUME Fresh, [Next]_vars
  PROVE  Fresh'
<1>1. CASE CreateSession
  BY <1>1 DEF CreateSession, NewSession, Fresh, Handling, Goes, closing
<1>2. ASSUME at' \notin {"new", "created"} PROVE Fresh'
  BY <1>2 DEF Fresh
<1>3. CASE StartBus \/ Bridge \/ Run \/ Close \/ Join \/ StopBus \/ Delete
  BY <1>2, <1>3 DEF StartBus, Bridge, Run, Close, Join, StopBus, Delete, Goes
<1>4. CASE BootFails \/ RunEnds \/ Cancelled
  BY <1>2, <1>4 DEF BootFails, RunEnds, Cancelled, Goes
<1>5. CASE Unsubscribe
  BY <1>2, <1>5 DEF Unsubscribe, Goes
<1>6. ASSUME NEW kind \in Kinds, Publish(kind) PROVE Fresh'
  BY <1>2, <1>6 DEF Publish
<1>7. CASE WorkerStep
  <2>1. queue # <<>> \/ Handling
    BY <1>7 DEF WorkerStep, Takes, Lookup, AppendMessage, Show, ShowGoesOn, CloseReads, Summarised,
       Handling
  <2>2. UNCHANGED at
    BY <1>7 DEF WorkerStep, Takes, Lookup, AppendMessage, Show, ShowGoesOn, CloseReads, Summarised
  <2> QED BY <2>1, <2>2 DEF Fresh
<1>8. CASE UNCHANGED svars
  BY <1>8 DEF svars, Fresh, Handling, closing
<1> QED BY <1>1, <1>3, <1>4, <1>5, <1>6, <1>7, <1>8 DEF Next, Main, vars

-----------------------------------------------------------------------------
(* What the browsers are sent *)

LEMMA ShownBeforeStep ==
  ASSUME FrontInv, EventsOK, SessionOK, IdsGrow, HandlerOK, ShownBefore, Fresh, [Next]_vars
  PROVE  ShownBefore'
<1> USE KindsOfRest
<1>0. /\ \A f \in Browsers : shown[f] \in Seq(Nat) /\ \A n \in Shown(f) : n \in Nat
      /\ events \in Nat /\ Now.id \in Nat /\ \A e \in Queued : e.id \in Nat
  <2>1. \A f \in Browsers : shown[f] \in Seq(Nat)
    BY DEF SessionOK, ShownOK
  <2>2. ASSUME NEW f \in Browsers PROVE \A n \in Shown(f) : n \in Nat
    BY <2>1 DEF Shown, ToSet
  <2> QED BY <2>1, <2>2, QueuedTyped DEF EventsOK, Now, Event
<1>1. ASSUME UNCHANGED shown, NEW f \in Browsers
      PROVE  Shown(f)' = Shown(f) /\ (Increasing(shown[f])' <=> Increasing(shown[f]))
  BY <1>1 DEF Shown, Increasing
<1>2. CASE StartBus
  <2>1. UNCHANGED shown /\ UNCHANGED events /\ ~Handling' /\ \A f \in Browsers : shown[f] = <<>>
    BY <1>2 DEF StartBus, Fresh, Handling
  <2>2. \A f \in Browsers : Shown(f)' = {}
    BY <2>1 DEF Shown, ToSet
  <2>3. \A f \in Browsers : Increasing(shown[f])'
    BY <2>1 DEF Increasing
  <2> QED BY <2>1, <2>2, <2>3 DEF ShownBefore
<1>3. CASE UNCHANGED shown /\ Arrives /\ UNCHANGED reached
  <2>1. PICK e \in Event : e.id = events + 1 /\ queue' = Append(queue, e)
    BY <1>3 DEF Arrives
  <2>2. Queued' = Queued \cup {e}
    BY <2>1, LastComes DEF Queued, EventsOK
  <2>3. Handling' = Handling /\ Now' = Now /\ handling'.step = handling.step /\ events' = events + 1
    BY <1>3 DEF Arrives, Handling, Now
  <2> SUFFICES ASSUME NEW f \in Browsers
               PROVE  /\ \A n \in Shown(f) : n <= events + 1
                      /\ \A n \in Shown(f), d \in Queued \cup {e} : n < d.id
    BY <1>1, <1>3, <2>2, <2>3 DEF ShownBefore
  <2>4. \A n \in Shown(f) : n <= events /\ \A d \in Queued : n < d.id
    BY DEF ShownBefore
  <2> QED BY <1>0, <2>1, <2>4
<1>4. CASE Takes
  <2>1. /\ UNCHANGED <<shown, events>> /\ queue # <<>> /\ queue' = Tail(queue) /\ ~Handling
    BY <1>4 DEF Takes
  <2>2. Head(queue) \in Queued /\ Queued' \subseteq Queued
    BY <2>1, HeadLeaves DEF IdsGrow, Queued, EventsOK
  <2>3. Handling' => Now' = Head(queue)
    BY <1>4, TakesWhat, IdleTyped DEF Handling
  <2> QED BY <1>1, <2>1, <2>2, <2>3 DEF ShownBefore
<1>5. CASE UNCHANGED shown /\ GoesOn /\ (handling' = handling => UNCHANGED reached)
           /\ (handling' # handling => handling.step # "showing" \/ handling' = Idle)
  <2>1. UNCHANGED <<queue, events>> /\ Queued' = Queued
    BY <1>5 DEF GoesOn, Queued
  <2>2. CASE handling' = handling
    BY <1>1, <1>5, <2>1, <2>2 DEF ShownBefore, Handling, Now
  <2>3. CASE handling' = Idle
    BY <1>1, <1>5, <2>1, <2>3, IdleTyped DEF ShownBefore, Handling
  <2>4. CASE handling' # handling /\ handling' # Idle
    <3>1. Handling /\ Now' = Now /\ handling.step # "showing"
      BY <1>5, <2>4 DEF GoesOn
    <3> QED BY <1>1, <1>5, <2>1, <3>1 DEF ShownBefore
  <2> QED BY <2>2, <2>3, <2>4
<1>6. ASSUME NEW f \in Browsers, Sends(f) PROVE ShownBefore'
  <2>1. /\ Show \/ ShowGoesOn
        /\ cast'.ws = f /\ f # Nobody /\ Sending' /\ Handling /\ UNCHANGED <<queue, events>>
    BY <1>6 DEF Sends, Show, ShowGoesOn, Sending, Handling
  <2>2. handling'.step = "showing" /\ Now' = Now
    <3>1. CASE Show
      <4>1. Step("showing")
        BY <2>1, <3>1 DEF Show
      <4> QED BY <4>1, StepsOn DEF Steps
    <3>2. CASE ShowGoesOn
      BY <2>1, <3>2 DEF ShowGoesOn, Now
    <3> QED BY <2>1, <3>1, <3>2
  <2>3. /\ f \in reached'
        /\ IF Sending THEN f \notin reached /\ reached' = reached \cup {f} ELSE reached' = {f}
    BY <2>1, CastKeepsFront DEF Show, ShowGoesOn
  <2>4. /\ shown'[f] = Append(shown[f], Now.id) /\ \A g \in Browsers \ {f} : shown'[g] = shown[g]
    BY <1>6 DEF Sends, SessionOK, ShownOK
  <2>5. \A n \in Shown(f) : n < Now.id
    <3>1. Sending \/ handling.step # "showing"
      BY DEF HandlerOK
    <3> QED BY <2>1, <2>3, <3>1 DEF ShownBefore
  <2>6. Shown(f)' = Shown(f) \cup {Now.id} /\ Increasing(shown[f])'
    <3>1. Increasing(Append(shown[f], Now.id))
      BY <1>0, <2>5, IncreasingOn DEF ShownBefore, Shown
    <3>2. ToSet(Append(shown[f], Now.id)) = Shown(f) \cup {Now.id}
      BY <1>0, LastComes DEF Shown
    <3> QED BY <2>4, <3>1, <3>2 DEF Shown
  <2>7. Queued' = Queued /\ Handling'
    BY <2>1, <2>2 DEF Queued, Handling
  <2>8. ASSUME NEW g \in Browsers \ {f}
        PROVE  Shown(g)' = Shown(g) /\ Increasing(shown[g])'
    BY <2>4 DEF Shown, Increasing, ShownBefore
  <2>9. Now.id <= events /\ \A e \in Queued : Now.id < e.id
    BY <2>1 DEF IdsGrow
  <2>10. ASSUME NEW g \in Browsers \ {f}, NEW n \in Shown(g)
         PROVE  n < Now.id \/ (g \in reached' /\ n = Now.id)
    <3>1. n < Now.id \/ (handling.step = "showing" /\ g \in reached /\ n = Now.id)
      BY <2>1, <2>10 DEF ShownBefore
    <3>2. handling.step = "showing" => reached \subseteq reached'
      BY <2>3 DEF HandlerOK
    <3> QED BY <3>1, <3>2
  <2>11. ASSUME NEW g \in Browsers
         PROVE  /\ Increasing(shown[g])'
                /\ \A n \in Shown(g)' : n <= events /\ \A e \in Queued : n < e.id
                /\ \A n \in Shown(g)' : n < Now.id \/ (g \in reached' /\ n = Now.id)
    <3>1. CASE g = f
      <4>1. ASSUME NEW n \in Shown(f)' PROVE n <= events /\ (\A e \in Queued : n < e.id)
                                             /\ (n < Now.id \/ n = Now.id)
        BY <2>5, <2>6, <2>9, <4>1 DEF ShownBefore
      <4> QED BY <2>3, <2>6, <3>1, <4>1
    <3>2. CASE g # f
      BY <2>8, <2>10, <3>2 DEF ShownBefore
    <3> QED BY <3>1, <3>2
  <2> QED BY <2>1, <2>2, <2>7, <2>11 DEF ShownBefore
<1>7. CASE UNCHANGED shown
  <2>1. CASE Show \/ ShowGoesOn
    <3>1. ASSUME cast'.ws # Nobody PROVE FALSE
      <4>1. cast'.ws \in Browsers
        BY <3>1, FrontStep DEF FrontInv, FrontOK
      <4>2. shown' = [shown EXCEPT ![cast'.ws] = Append(@, Now.id)]
        BY <2>1, <3>1 DEF Show, ShowGoesOn, Sent, Now
      <4>3. shown[cast'.ws] = Append(shown[cast'.ws], Now.id) /\ shown[cast'.ws] \in Seq(Nat)
        BY <1>0, <1>7, <4>1, <4>2 DEF SessionOK, ShownOK
      <4>4. Len(shown[cast'.ws]) = Len(shown[cast'.ws]) + 1 /\ Len(shown[cast'.ws]) \in Nat
        BY <1>0, <4>3, LastComes
      <4> QED BY <4>4
    <3>2. handling' = Idle
      BY <2>1, <3>1 DEF Show, ShowGoesOn
    <3>3. GoesOn /\ Handling
      BY <2>1, HandlerGoesOn DEF HandlerStep, Show, ShowGoesOn, Handling
    <3> QED BY <1>5, <1>7, <3>2, <3>3, IdleTyped DEF Handling
  <2>2. CASE Lookup \/ AppendMessage \/ CloseReads \/ Summarised
    <3>1. GoesOn /\ handling.step # "showing" /\ UNCHANGED reached
      BY <2>2, HandlerGoesOn DEF HandlerStep, Lookup, AppendMessage, CloseReads, Summarised, fvars
    <3> QED BY <1>5, <1>7, <3>1
  <2>3. CASE StopBus
    <3>1. GoesOn
      BY <2>3, IdleTyped DEF StopBus, GoesOn, EventsOK
    <3>2. handling' = Idle
      BY <2>3 DEF StopBus
    <3>3. handling' = handling => UNCHANGED reached
      <4>1. ASSUME handling' = handling PROVE ~Sending
        BY <3>2, <4>1, IdleTyped DEF HandlerOK
      <4> QED BY <2>3, <4>1 DEF StopBus, fvars
    <3> QED BY <1>5, <1>7, <3>1, <3>2, <3>3
  <2>4. ASSUME UNCHANGED <<handling, queue, events, reached>> PROVE ShownBefore'
    BY <1>5, <1>7, <2>4 DEF GoesOn, EventsOK
  <2>5. CASE CreateSession \/ Bridge \/ Run \/ Join \/ Unsubscribe \/ Delete
    BY <2>4, <2>5 DEF CreateSession, Bridge, Run, Join, Unsubscribe, Delete, fvars
  <2>6. CASE BootFails \/ RunEnds \/ Cancelled \/ (BrowserStep /\ UNCHANGED svars) \/ UNCHANGED vars
    BY <2>4, <2>6, BrowsersKeepFront DEF BootFails, RunEnds, Cancelled, svars, vars, fvars
  <2>7. CASE Close
    <3>1. UNCHANGED reached
      BY <2>7 DEF Close, fvars
    <3> QED BY <1>3, <1>7, <2>7, <3>1, ComesIn
  <2>8. ASSUME NEW kind \in Kinds, Publish(kind) PROVE ShownBefore'
    <3>1. UNCHANGED reached
      BY <2>8 DEF Publish, fvars
    <3> QED BY <1>3, <1>7, <2>8, <3>1, ComesIn
  <2> QED
    BY <1>2, <1>4, <2>1, <2>2, <2>3, <2>5, <2>6, <2>7, <2>8 DEF Next, Main, WorkerStep
<1> QED BY <1>6, <1>7, ShownStep DEF SessionOK
-----------------------------------------------------------------------------
(* SessionClosed and the teardown *)

(* What the rest of the main task and of the browsers leaves alone. *)
Elsewhere ==
  \/ CreateSession \/ Bridge \/ Run \/ Join \/ Unsubscribe \/ Delete
  \/ BootFails \/ RunEnds \/ Cancelled \/ (BrowserStep /\ UNCHANGED svars) \/ UNCHANGED vars

LEMMA Cases ==
  ASSUME [Next]_vars
  PROVE  \/ StartBus \/ Close \/ (\E kind \in Kinds : Publish(kind)) \/ StopBus \/ Takes
         \/ HandlerStep \/ Elsewhere
BY DEF Next, Main, WorkerStep, HandlerStep, Elsewhere

LEMMA ElsewhereKeeps ==
  ASSUME Elsewhere
  PROVE  UNCHANGED <<queue, handling, events, said, closing, worker>> /\ Unread' = Unread
BY DEF closing, Unread, Elsewhere, CreateSession, Bridge, Run, Join, Unsubscribe, Delete, BootFails, RunEnds,
   Cancelled, svars, vars

LEMMA HandlerLeaves ==
  ASSUME EventsOK, HandlerStep
  PROVE  /\ UNCHANGED <<at, subs, queue, worker, events, said>> /\ Handling
         /\ handling'.step # "read" /\ (Handling' => Now' = Now)
         /\ handling'.step \in {"lookup", "append"} => Lookup /\ handling.step = "lookup"
<1>1. UNCHANGED <<at, subs, queue, worker, events, said>> /\ Handling
  BY DEF HandlerStep, Lookup, AppendMessage, Show, ShowGoesOn, CloseReads, Summarised, Handling
<1>2. Handling' => Now' = Now
  BY HandlerGoesOn, IdleTyped DEF GoesOn, Handling, Now
<1>3. \/ handling'.step \in {"none", "show", "showing", "summarise"}
      \/ handling'.step = "append" /\ Lookup
  <2>1. \A step \in {"append", "show", "showing", "summarise"} : Step(step) => handling'.step = step
    BY StepsOn DEF Steps
  <2>2. CASE Lookup
    BY <2>1, <2>2, IdleTyped DEF Lookup
  <2>3. CASE ~Lookup
    BY <2>1, <2>3, IdleTyped
       DEF HandlerStep, AppendMessage, Show, ShowGoesOn, CloseReads, Summarised
  <2> QED BY <2>2, <2>3
<1>4. Lookup => handling.step = "lookup"
  BY DEF Lookup
<1> QED BY <1>1, <1>2, <1>3, <1>4

LEMMA PublishAdds ==
  ASSUME EventsOK, NEW kind \in Kinds, Publish(kind)
  PROVE  \E e \in Event : /\ e.kind = kind /\ e.id = events + 1 /\ Queued' = Queued \cup {e}
                          /\ events' = events + 1 /\ queue' # <<>>
<1> DEFINE e == [kind |-> kind, id |-> events + 1]
<1>1. e \in Event /\ e.kind = kind /\ e.id = events + 1
  BY DEF EventsOK, Event, EventKinds
<1>2. queue' = Append(queue, e) /\ events' = events + 1
  BY DEF Publish
<1> HIDE DEF e
<1>3. Queued' = Queued \cup {e} /\ Len(queue') = Len(queue) + 1 /\ Len(queue) \in Nat
  BY <1>1, <1>2, LastComes DEF EventsOK, Queued
<1>4. queue' # <<>>
  BY <1>3
<1> QED BY <1>1, <1>2, <1>3, <1>4

LEMMA CloseAdds ==
  ASSUME EventsOK, Close
  PROVE  \E e \in Event : /\ e.kind = "closed" /\ e.id = events + 1 /\ Queued' = Queued \cup {e}
                          /\ events' = events + 1
<1> DEFINE e == [kind |-> "closed", id |-> events + 1]
<1>1. e \in Event /\ e.kind = "closed" /\ e.id = events + 1
  BY DEF EventsOK, Event, EventKinds
<1>2. queue' = Append(queue, e) /\ events' = events + 1
  BY DEF Close
<1> HIDE DEF e
<1>3. Queued' = Queued \cup {e}
  BY <1>1, <1>2, LastComes DEF EventsOK, Queued
<1> QED BY <1>1, <1>2, <1>3

LEMMA TakesHead ==
  ASSUME EventsOK, SubsOK, IdsGrow, HandlerOK, Takes
  PROVE  \E e \in Queued :
           /\ Queued' = Queued \ {e} /\ e \in Event /\ \A d \in Queued' : e.id < d.id
           /\ \/ handling'.step = "none" /\ Now'.kind = "none" /\ ~Contains(subs, Handler(e))
              \/ /\ Now' = e /\ Contains(subs, Handler(e))
                 /\ e.kind \in {"utterance", "tool_only", "notice", "closed"}
                 /\ handling'.step = CASE e.kind = "notice" -> "show"
                                       [] e.kind = "closed" -> "read"
                                       [] OTHER -> "lookup"
           /\ handling'.step # "summarise"
           /\ ~Handling /\ worker = "running" /\ UNCHANGED <<at, subs, events, said, closing, store, worker>>
<1> DEFINE e == Head(queue)
<1>1. queue # <<>> /\ queue' = Tail(queue) /\ ~Handling /\ worker = "running"
      /\ UNCHANGED <<at, subs, events, said, closing, store, worker>>
  BY DEF Takes
<1>2. e \in Queued /\ Queued' = Queued \ {e} /\ e \in Event /\ \A d \in Queued' : e.id < d.id
  BY <1>1, HeadLeaves DEF EventsOK, IdsGrow, Queued
<1>3. \/ handling' = Idle /\ ~Contains(subs, Handler(e))
      \/ /\ Contains(subs, Handler(e)) /\ Now' = e
         /\ handling'.step = CASE e.kind = "notice" -> "show"
                               [] e.kind = "closed" -> "read"
                               [] OTHER -> "lookup"
  BY TakesWhat
<1>4. Contains(subs, Handler(e)) => e.kind \in {"utterance", "tool_only", "notice", "closed"}
  BY TakenKind
<1>5. handling' = Idle => handling'.step = "none" /\ Now'.kind = "none"
  BY IdleTyped DEF Now
<1>6. handling'.step # "summarise"
  BY TakesWhat
<1> HIDE DEF e
<1> QED BY <1>1, <1>2, <1>3, <1>4, <1>5, <1>6

LEMMA StopLeaves ==
  ASSUME StopBus
  PROVE  /\ UNCHANGED <<queue, subs, store, events, said, closing>> /\ handling' = Idle
         /\ at = "stopping" /\ at' = "deleting" /\ worker' = "ended"
BY DEF StopBus, Goes

LEMMA StartLeaves ==
  ASSUME StartBus, Fresh
  PROVE  /\ UNCHANGED <<handling, store, events, said, closing>>
         /\ Unread' /\ said = <<>> /\ store.history = <<>> /\ ~Handling /\ events = 0
         /\ at = "created" /\ at' = "bus" /\ subs' = <<"closed">> /\ worker' = "running"
         /\ Queued' = {[kind |-> "created", id |-> 0]}
<1> DEFINE e == [kind |-> "created", id |-> 0]
<1>1. queue' = <<e>>
  BY DEF StartBus
<1>2. DOMAIN queue' = {1} /\ queue'[1] = e
  BY <1>1
<1>3. Queued' = {e}
  <2> HIDE DEF e
  <2> QED BY <1>2 DEF Queued, ToSet
<1> QED BY <1>3 DEF StartBus, Fresh, Goes, closing, Unread, Handling

(* The main task goes through its places in one order. *)
LEMMA PlacesFollow ==
  ASSUME [Next]_vars
  PROVE  /\ at' \in Before => at \in Before
         /\ at' = "joining" => at = "joining" \/ Close
         /\ at' = "unsubscribing" => at = "unsubscribing" \/ Join
         /\ at' = "stopping" => at = "stopping" \/ (Unsubscribe /\ subs = <<>> /\ UNCHANGED subs)
         /\ at' = "deleting" => at = "deleting" \/ StopBus
         /\ at' = "done" => at = "done" \/ Delete
         /\ at = "done" => at' = "done"
         /\ at' \in {"ready", "running", "closing"} =>
              at \in {"ready", "running", "closing"} \/ Bridge
<1>1. CASE BootFails \/ RunEnds \/ Cancelled
  BY <1>1 DEF BootFails, RunEnds, Cancelled, Goes, Before
<1>2. CASE CreateSession \/ StartBus \/ Bridge \/ Run
  BY <1>2 DEF CreateSession, StartBus, Bridge, Run, Goes, Before
<1>3. CASE Close \/ Join \/ StopBus \/ Delete
  BY <1>3 DEF Close, Join, StopBus, Delete, Goes, Before
<1>4. CASE Unsubscribe
  BY <1>4 DEF Unsubscribe, Goes, Before
<1>5. CASE UNCHANGED at
  BY <1>5
<1>6. ASSUME WorkerStep \/ UNCHANGED svars \/ (\E kind \in Kinds : Publish(kind)) PROVE UNCHANGED at
  BY <1>6 DEF WorkerStep, Takes, Lookup, AppendMessage, Show, ShowGoesOn, CloseReads, Summarised,
     Publish, svars
<1> QED BY <1>1, <1>2, <1>3, <1>4, <1>5, <1>6 DEF Next, Main, vars

(* Once SessionClosed is read it stays so: stop() comes after join(). *)
LEMMA UnreadStep ==
  ASSUME EventsOK, StoreOK, ClosedInTime, [Next]_vars, Unread'
  PROVE  Unread /\ ~CloseReads
<1>1. StopBus => ~Unread'
  <2>1. StopBus => outcome # "none"
    BY DEF StopBus, ClosedInTime
  <2> QED BY <2>1, ClosingStep DEF Unread
<1> QED BY <1>1, ClosingStep

LEMMA ClosedOnceStep ==
  ASSUME EventsOK, SessionOK, IdsGrow, HandlerOK, Fresh, ClosedOnce, ClosedInTime, [Next]_vars
  PROVE  ClosedOnce'
<1>0. SubsOK /\ StoreOK
  BY DEF SessionOK
<1>1. CASE StartBus
  <2>1. Now'.kind = "none" /\ handling'.step = "none" /\ Queued' = {[kind |-> "created", id |-> 0]}
    BY <1>1, StartLeaves DEF HandlerOK, Handling, Now
  <2> QED BY <2>1 DEF ClosedOnce
<1>2. ASSUME NEW kind \in Kinds, Publish(kind) PROVE ClosedOnce'
  <2>1. PICK e \in Event : e.kind = kind /\ Queued' = Queued \cup {e}
    BY <1>2, PublishAdds
  <2>2. e.kind # "closed" /\ UNCHANGED handling /\ Now' = Now /\ Unread' = Unread
    BY <1>2, <2>1 DEF Kinds, Publish, Now, Unread, closing
  <2> QED BY <2>1, <2>2 DEF ClosedOnce
<1>3. CASE Close
  <2>1. PICK e \in Event : e.kind = "closed" /\ Queued' = Queued \cup {e}
    BY <1>3, CloseAdds
  <2>2. UNCHANGED handling /\ Now' = Now /\ Unread' = Unread /\ at \in Before
    BY <1>3 DEF Close, Now, Before, Unread, closing
  <2> QED BY <2>1, <2>2 DEF ClosedOnce, ClosedInTime
<1>4. CASE Takes
  <2>1. PICK e \in Queued :
          /\ Queued' = Queued \ {e} /\ UNCHANGED closing /\ handling'.step # "summarise"
          /\ \/ handling'.step = "none" /\ Now'.kind = "none"
             \/ Now' = e /\ (handling'.step = "read" => e.kind = "closed")
    BY <1>0, <1>4, TakesHead
  <2>2. Unread => Unread'
    BY <2>1 DEF Unread, closing
  <2> QED BY <2>1, <2>2 DEF ClosedOnce
<1>5. CASE HandlerStep /\ ~CloseReads
  <2>1. Queued' = Queued /\ handling'.step # "read" /\ (Handling' => Now' = Now)
    BY <1>5, HandlerLeaves DEF Queued
  <2>2. ~Handling' => Now'.kind = "none"
    <3>1. handling' = Idle \/ Handling'
      BY <1>5, HandlerGoesOn DEF GoesOn, HandlerStep, Lookup, AppendMessage, Show, ShowGoesOn,
         Summarised, Handling
    <3> QED BY <3>1, IdleTyped DEF Now
  <2>3. Now.kind # "closed" /\ Unread => Unread'
    <3>1. Summarised => Now.kind = "closed"
      BY DEF Summarised, HandlerOK
    <3> QED BY <1>0, <1>5, <3>1, ClosingStep DEF Unread
  <2> QED BY <2>1, <2>2, <2>3 DEF ClosedOnce
<1>6. CASE CloseReads
  <2>1. Queued' = Queued /\ handling'.step # "read" /\ Now.kind = "closed"
    BY <1>6, HandlerLeaves DEF HandlerStep, Queued, CloseReads, HandlerOK
  <2>2. \A c \in Queued : c.kind # "closed"
    BY <2>1 DEF ClosedOnce
  <2> QED BY <2>1, <2>2 DEF ClosedOnce
<1>7. CASE StopBus
  <2>1. Queued' = Queued /\ handling' = Idle /\ at = "stopping"
    BY <1>7, StopLeaves DEF Queued
  <2>2. handling'.step = "none" /\ ~Unread
    BY <2>1, IdleTyped DEF ClosedInTime, Unread
  <2> QED BY <2>1, <2>2 DEF ClosedOnce
<1>8. CASE Elsewhere
  <2>1. Queued' = Queued /\ UNCHANGED handling /\ Unread' = Unread /\ Now' = Now
    BY <1>8, ElsewhereKeeps DEF Queued, Now
  <2> QED BY <2>1 DEF ClosedOnce
<1> QED BY <1>1, <1>2, <1>3, <1>4, <1>5, <1>6, <1>7, <1>8, Cases

LEMMA MadeOnceStep ==
  ASSUME EventsOK, StoreOK, ClosedOnce, MadeOnce, [Next]_vars
  PROVE  MadeOnce'
<1>0. transcript \in Seq(Nat) /\ summaries \in Seq(Seq(Nat))
  BY DEF StoreOK
<1>1. CASE Summarised
  <2>1. handling.step = "summarise" /\ outcome = "none" /\ Len(summaries) = 0
    BY <1>1 DEF Summarised, MadeOnce
  <2>2. handling'.step # "summarise"
    <3>1. Step("show") => handling'.step = "show"
      BY StepsOn DEF Steps
    <3> QED BY <1>1, <3>1, IdleTyped DEF Summarised
  <2>3. Len(Append(summaries, transcript)) = 1
    BY <1>0, <2>1, LastComes
  <2>4. \/ outcome' = "made" /\ summaries' = Append(summaries, transcript)
        \/ outcome' = "failed" /\ summaries' = summaries
    BY <1>1 DEF Summarised
  <2> QED BY <2>1, <2>2, <2>3, <2>4 DEF MadeOnce
<1>2. CASE CloseReads
  <2>1. outcome = "none" /\ summaries' = summaries
    BY <1>2 DEF CloseReads, ClosedOnce, Unread
  <2>2. (outcome' \in {"raised", "missed"} /\ handling' = Idle) \/ outcome' = "none"
    BY <1>2, <2>1 DEF CloseReads
  <2> QED BY <2>1, <2>2, IdleTyped DEF MadeOnce
<1>3. CASE ~Summarised /\ ~CloseReads
  BY <1>3, ClosingStep DEF MadeOnce
<1> QED BY <1>1, <1>2, <1>3

LEMMA ClosedInTimeStep ==
  ASSUME EventsOK, SessionOK, IdsGrow, HandlerOK, Fresh, ClosedOnce, ClosedInTime, Teardown,
         [Next]_vars
  PROVE  ClosedInTime'
<1>0. SubsOK /\ StoreOK
  BY DEF SessionOK
<1>1. (~Unread => ~Unread') /\ (outcome # "none" => outcome' # "none")
  BY <1>0, UnreadStep, ClosingStep
<1>2. at' \in {"unsubscribing", "stopping", "deleting", "done"} => outcome' # "none"
  <2>1. CASE Join
    <3>1. queue = <<>> /\ ~Handling /\ at = "joining"
      <4>1. Len(queue) \in Nat /\ Unfinished = 0 /\ at = "joining"
        BY <2>1 DEF EventsOK, Join
      <4>2. Len(queue) = 0 /\ ~Handling
        BY <4>1 DEF Unfinished
      <4> QED BY <4>1, <4>2 DEF EventsOK
    <3>2. Queued = {}
      BY <3>1 DEF Queued, ToSet
    <3> QED BY <1>1, <3>1, <3>2 DEF ClosedInTime, Handling, Unread
  <2>2. at' \in {"unsubscribing", "stopping", "deleting", "done"} =>
          at \in {"unsubscribing", "stopping", "deleting", "done"} \/ Join
    BY PlacesFollow DEF Unsubscribe, StopBus, Delete
  <2> QED BY <1>1, <2>1, <2>2 DEF ClosedInTime
<1>3. ASSUME at' \in Before
      PROVE  (\A e \in Queued' : e.kind # "closed") /\ Now'.kind # "closed" /\ Unread'
  <2>0. /\ at \in Before /\ \A e \in Queued : e.kind # "closed"
        /\ Now.kind # "closed" /\ Unread
    BY <1>3, PlacesFollow DEF ClosedInTime
  <2>1. CASE StartBus
    BY <2>0, <2>1, StartLeaves DEF Now
  <2>2. ASSUME NEW kind \in Kinds, Publish(kind)
        PROVE  (\A e \in Queued' : e.kind # "closed") /\ Now'.kind # "closed" /\ Unread'
    <3>1. PICK e \in Event : e.kind = kind /\ Queued' = Queued \cup {e}
      BY <2>2, PublishAdds
    <3>2. e.kind # "closed" /\ Now' = Now /\ Unread' = Unread
      BY <2>2, <3>1 DEF Kinds, Publish, Now, Unread, closing
    <3> QED BY <2>0, <3>1, <3>2
  <2>3. ~Close /\ ~StopBus
    BY <1>3 DEF Close, StopBus, Goes, Before
  <2>4. CASE Takes
    <3>1. PICK e \in Queued :
            /\ Queued' = Queued \ {e} /\ UNCHANGED closing /\ handling'.step # "summarise"
            /\ (handling'.step = "none" /\ Now'.kind = "none") \/ Now' = e
      BY <1>0, <2>4, TakesHead
    <3> QED BY <2>0, <3>1 DEF Unread, closing
  <2>5. CASE HandlerStep
    <3>1. ~CloseReads /\ ~Summarised
      BY <2>0 DEF CloseReads, Summarised, HandlerOK
    <3>2. Queued' = Queued /\ (Handling' => Now' = Now)
      BY <2>5, HandlerLeaves DEF Queued
    <3>3. handling' = Idle \/ Handling'
      BY <2>5, <3>1, HandlerGoesOn DEF GoesOn, HandlerStep, Lookup, AppendMessage, Show, ShowGoesOn,
         Handling
    <3>4. Unread'
      BY <1>0, <2>0, <3>1, ClosingStep DEF Unread
    <3> QED BY <2>0, <3>2, <3>3, <3>4, IdleTyped DEF Now
  <2>6. CASE Elsewhere
    BY <2>0, <2>6, ElsewhereKeeps DEF Queued, Now
  <2> QED BY <2>1, <2>2, <2>3, <2>4, <2>5, <2>6, Cases
<1>4. ASSUME at' = "joining"
      PROVE  (\E c \in Queued' : c.kind = "closed") \/ handling'.step = "read" \/ ~Unread'
  <2>1. CASE Close
    BY <2>1, CloseAdds
  <2>2. CASE at = "joining" /\ Unread
    <3>0. (\E c \in Queued : c.kind = "closed") \/ handling.step = "read"
      BY <2>2 DEF ClosedInTime
    <3>1. ~StartBus /\ ~StopBus /\ ~Close
      BY <2>2 DEF StartBus, StopBus, Close
    <3>2. ASSUME NEW kind \in Kinds, Publish(kind)
          PROVE  (\E c \in Queued' : c.kind = "closed") \/ handling'.step = "read"
      <4>1. Queued \subseteq Queued' /\ UNCHANGED handling
        BY <3>2, PublishAdds DEF Publish
      <4> QED BY <3>0, <4>1
    <3>3. CASE Takes
      <4>1. PICK e \in Queued :
              /\ Queued' = Queued \ {e} /\ ~Handling
              /\ \/ handling'.step = "none" /\ ~Contains(subs, Handler(e))
                 \/ e.kind = "closed" => handling'.step = "read"
        BY <1>0, <3>3, TakesHead
      <4>2. e.kind = "closed" => Contains(subs, Handler(e))
        <5>1. subs = Bridges
          BY <2>2 DEF Teardown
        <5>2. Len(Bridges) = 3 /\ Bridges[1] = "closed" /\ 1 \in 1..3
          BY DEF Bridges
        <5> QED BY <5>1, <5>2 DEF Contains, Handler
      <4> QED BY <3>0, <4>1, <4>2 DEF Handling
    <3>4. CASE HandlerStep /\ ~CloseReads
      <4>1. Queued' = Queued
        BY <3>4, HandlerLeaves DEF Queued
      <4>2. \/ handling.step # "read" \/ ~HandlerStep
        BY <3>4 DEF HandlerStep, Lookup, AppendMessage, Show, ShowGoesOn, Summarised
      <4> QED BY <3>0, <3>4, <4>1, <4>2
    <3>5. CASE CloseReads
      BY <1>0, <3>5, ClosingStep
    <3>6. CASE Elsewhere
      BY <3>0, <3>6, ElsewhereKeeps DEF Queued
    <3> QED BY <3>1, <3>2, <3>3, <3>4, <3>5, <3>6, Cases
  <2> QED BY <1>1, <1>4, <2>1, <2>2, PlacesFollow
<1> QED BY <1>2, <1>3, <1>4 DEF ClosedInTime

LEMMA TeardownStep ==
  ASSUME EventsOK, SessionOK, IdsGrow, HandlerOK, Fresh, ClosedOnce, ClosedInTime, Teardown,
         [Next]_vars
  PROVE  Teardown'
<1>0. SubsOK /\ StoreOK
  BY DEF SessionOK
<1>1. UNCHANGED subs \/ StartBus \/ Bridge \/ Unsubscribe
  <2>1. CASE Elsewhere
    BY <2>1 DEF Elsewhere, CreateSession, Run, Join, Delete, BootFails, RunEnds, Cancelled, svars, vars
  <2>2. CASE ~Elsewhere
    BY <2>2, Cases, HandlerLeaves DEF Close, Publish, StopBus, Takes
  <2> QED BY <2>1, <2>2
<1>2. at' \in {"ready", "running", "closing", "joining"} => subs' = Bridges
  <2>1. CASE Bridge
    BY <2>1 DEF Bridge
  <2>2. CASE at \in {"ready", "running", "closing", "joining"}
    BY <1>1, <2>2 DEF StartBus, Bridge, Unsubscribe, Teardown
  <2>3. CASE Close
    BY <2>3 DEF Close, Teardown
  <2> QED BY <2>1, <2>2, <2>3, PlacesFollow
<1>3. ASSUME Unread', subs' # Bridges PROVE \A e \in Queued' : e.kind = "created"
  <2>1. CASE StartBus
    BY <2>1, StartLeaves
  <2>2. CASE ~StartBus
    <3>1. Unread
      BY <1>0, <1>3, UnreadStep
    <3>2. ~Unsubscribe /\ ~Bridge
      BY <1>3, <3>1 DEF Unsubscribe, Bridge, ClosedInTime, Unread
    <3>3. subs # Bridges /\ \A e \in Queued : e.kind = "created"
      BY <1>1, <1>3, <2>2, <3>1, <3>2 DEF Teardown
    <3>4. ~Close /\ \A kind \in Kinds : ~Publish(kind)
      BY <3>1, <3>3 DEF Close, Publish, Teardown, ClosedInTime, Unread
    <3>5. Queued' \subseteq Queued
      <4>1. CASE Takes
        BY <1>0, <4>1, TakesHead
      <4>2. CASE ~Takes
        BY <2>2, <3>4, <4>2, Cases, HandlerLeaves, StopLeaves, ElsewhereKeeps DEF Queued
      <4> QED BY <4>1, <4>2
    <3> QED BY <3>3, <3>5
  <2> QED BY <2>1, <2>2
<1>4. at' \in {"stopping", "deleting", "done"} => subs' = <<>>
  <2>1. CASE at \in {"stopping", "deleting", "done"}
    BY <1>1, <2>1 DEF StartBus, Bridge, Unsubscribe, Teardown
  <2>2. CASE at \notin {"stopping", "deleting", "done"}
    BY <2>2, PlacesFollow DEF StopBus, Delete
  <2> QED BY <2>1, <2>2
<1>5. ASSUME at' \in {"deleting", "done"} PROVE worker' = "ended" /\ ~Handling'
  <2>1. CASE StopBus
    BY <2>1, StopLeaves, IdleTyped DEF Handling
  <2>2. CASE ~StopBus
    <3>1. at \in {"deleting", "done"}
      BY <1>5, <2>2, PlacesFollow DEF Delete
    <3>2. worker = "ended" /\ ~Handling
      BY <3>1 DEF Teardown
    <3>3. ~Takes /\ ~HandlerStep /\ ~StartBus
      BY <3>1, <3>2, HandlerLeaves DEF Takes, StartBus
    <3>4. UNCHANGED <<worker, handling>>
      BY <2>2, <3>3, Cases, ElsewhereKeeps DEF Close, Publish
    <3> QED BY <3>2, <3>4 DEF Handling
  <2> QED BY <2>1, <2>2
<1>6. store'.state = "deleted" => at' = "done"
  <2>1. store'.state = "deleted" => store.state = "deleted" \/ Delete
    BY <1>0, StoreStep
  <2> QED BY <2>1, PlacesFollow DEF Teardown, Delete, Goes
<1>7. outcome' # "missed"
  <2>1. CASE CloseReads
    <3>1. at # "done"
      BY <2>1 DEF CloseReads, Handling, Teardown
    <3> QED BY <2>1, <3>1 DEF CloseReads, Teardown
  <2>2. CASE Summarised
    BY <2>2 DEF Summarised
  <2>3. CASE ~CloseReads /\ ~Summarised
    BY <1>0, <2>3, ClosingStep DEF Teardown
  <2> QED BY <2>1, <2>2, <2>3
<1> QED BY <1>2, <1>3, <1>4, <1>5, <1>6, <1>7 DEF Teardown

-----------------------------------------------------------------------------
(* The summary *)

(* What was published is said at most once, and with the last number. *)
SaidInOrder == Increasing(said) /\ \A n \in ToSet(said) : n <= events
(* The history is older than everything that may still come into it. *)
HistoryInOrder ==
  /\ Increasing(store.history)
  /\ \A n \in ToSet(store.history) :
       /\ n <= events /\ \A e \in Queued : n < e.id
       /\ handling.step \in {"lookup", "append"} => n < Now.id
Recorded == Unread => ToSet(store.history) \cup Awaited \cup InHand = ToSet(said)
Transcribed == handling.step = "summarise" => transcript = said

LEMMA SaidInOrderStep ==
  ASSUME EventsOK, SessionOK, Fresh, SaidInOrder, [Next]_vars
  PROVE  SaidInOrder'
<1>0. said \in Seq(Nat) /\ events \in Nat /\ \A n \in ToSet(said) : n \in Nat
  <2>1. said \in Seq(Nat)
    BY DEF SessionOK, SaidOK
  <2> QED BY <2>1 DEF EventsOK, ToSet
<1>1. events' \in Nat /\ events' >= events
  <2>1. Arrives => events' = events + 1
    BY DEF Arrives
  <2>2. Takes \/ GoesOn \/ StartBus => events' = events
    BY DEF Takes, GoesOn, StartBus
  <2> QED BY <1>0, <2>1, <2>2, Anatomy
<1>2. CASE UNCHANGED said
  BY <1>0, <1>1, <1>2 DEF SaidInOrder
<1>3. CASE Says
  <2>1. said' = Append(said, events + 1) /\ events' = events + 1
    BY <1>3 DEF Says, Publish
  <2>2. \A n \in ToSet(said) : n < events + 1
    BY <1>0 DEF SaidInOrder
  <2>3. ToSet(said') = ToSet(said) \cup {events + 1}
    BY <1>0, <2>1, LastComes
  <2>4. Increasing(said')
    BY <1>0, <2>1, <2>2, IncreasingOn DEF SaidInOrder
  <2> QED BY <1>0, <2>1, <2>2, <2>3, <2>4 DEF SaidInOrder
<1> QED BY <1>2, <1>3, SaidStep DEF SessionOK

LEMMA HistoryInOrderStep ==
  ASSUME EventsOK, SessionOK, IdsGrow, HandlerOK, Fresh, HistoryInOrder, [Next]_vars
  PROVE  HistoryInOrder'
<1>0. /\ SubsOK /\ StoreOK /\ store.history \in Seq(Nat) /\ events \in Nat /\ Now.id \in Nat
      /\ \A n \in ToSet(store.history) : n \in Nat
      /\ \A e \in Queued : e.id \in Nat
  <2>1. SubsOK /\ StoreOK /\ store.history \in Seq(Nat)
    BY DEF SessionOK, StoreOK, SessionRecord
  <2> QED BY <2>1, QueuedTyped DEF EventsOK, Now, Event, ToSet
<1>1. CASE store'.history = <<>>
  <2>1. ToSet(store'.history) = {} /\ Increasing(store'.history)
    BY <1>1 DEF ToSet, Increasing
  <2> QED BY <2>1 DEF HistoryInOrder
<1>2. CASE AppendMessage
  <2>1. /\ handling.step = "append" /\ UNCHANGED <<queue, events>>
        /\ store'.history = Append(store.history, Now.id)
        /\ handling'.step \notin {"lookup", "append"}
    BY <1>0, <1>2, StoreStep, HandlerLeaves DEF AppendMessage, HandlerStep, Lookup
  <2>2. Now.id <= events /\ \A e \in Queued : Now.id < e.id
    BY <2>1 DEF IdsGrow, Handling
  <2>3. \A n \in ToSet(store.history) : n < Now.id
    BY <2>1 DEF HistoryInOrder
  <2>4. Increasing(store'.history) /\ ToSet(store'.history) = ToSet(store.history) \cup {Now.id}
    <3>1. Increasing(store.history)
      BY DEF HistoryInOrder
    <3>2. Increasing(Append(store.history, Now.id))
      BY <1>0, <2>3, <3>1, IncreasingOn
    <3>3. ToSet(Append(store.history, Now.id)) = ToSet(store.history) \cup {Now.id}
      BY <1>0, LastComes
    <3> QED BY <2>1, <3>2, <3>3
  <2>5. Queued' = Queued
    BY <2>1 DEF Queued
  <2> QED BY <2>1, <2>2, <2>4, <2>5 DEF HistoryInOrder
<1>3. CASE store'.history = store.history /\ ~AppendMessage
  <2> SUFFICES ASSUME NEW n \in ToSet(store.history)
               PROVE  /\ n <= events' /\ \A e \in Queued' : n < e.id
                      /\ handling'.step \in {"lookup", "append"} => n < Now'.id
    BY <1>3 DEF HistoryInOrder
  <2>0. n \in Nat /\ n <= events /\ (\A e \in Queued : n < e.id)
        /\ (handling.step \in {"lookup", "append"} => n < Now.id)
    BY <1>0 DEF HistoryInOrder
  <2>1. CASE StartBus
    <3>1. store.history = <<>>
      BY <2>1 DEF StartBus, Fresh
    <3> QED BY <3>1 DEF ToSet
  <2>2. ASSUME Close \/ \E kind \in Kinds : Publish(kind)
        PROVE  /\ n <= events' /\ \A e \in Queued' : n < e.id
               /\ handling'.step \in {"lookup", "append"} => n < Now'.id
    <3>1. UNCHANGED handling /\ Now' = Now
      BY <2>2 DEF Close, Publish, Now
    <3>2. events' = events + 1 /\ \E e \in Event : e.id = events + 1 /\ Queued' = Queued \cup {e}
      BY <2>2, CloseAdds, PublishAdds
    <3> QED BY <1>0, <2>0, <3>1, <3>2
  <2>3. CASE Takes
    <3>1. PICK e \in Queued :
            /\ Queued' = Queued \ {e} /\ UNCHANGED events
            /\ handling'.step = "none" \/ Now' = e
      BY <1>0, <2>3, TakesHead
    <3> QED BY <2>0, <3>1
  <2>4. CASE HandlerStep
    <3>1. UNCHANGED <<queue, events>> /\ (handling'.step \in {"lookup", "append"} =>
            handling.step = "lookup" /\ Now' = Now)
      BY <2>4, HandlerLeaves DEF Handling
    <3> QED BY <2>0, <3>1 DEF Queued
  <2>5. CASE StopBus
    <3>1. UNCHANGED <<queue, events>> /\ handling'.step = "none"
      BY <2>5, StopLeaves, IdleTyped
    <3> QED BY <2>0, <3>1 DEF Queued
  <2>6. CASE Elsewhere
    <3>1. UNCHANGED <<queue, events, handling>>
      BY <2>6, ElsewhereKeeps
    <3> QED BY <2>0, <3>1 DEF Queued, Now
  <2> QED BY <2>1, <2>2, <2>3, <2>4, <2>5, <2>6, Cases
<1> QED BY <1>0, <1>1, <1>2, <1>3, StoreStep

(* The queue as the summary sees it: e comes before SessionClosed. *)
Waits(e) == e.kind = "utterance" /\ \A c \in Queued : c.kind = "closed" => e.id < c.id

LEMMA AwaitedIs ==
  ASSUME EventsOK, EventsOK'
  PROVE  /\ handling.step # "read" => Awaited = {e.id : e \in {d \in Queued : Waits(d)}}
         /\ handling'.step # "read" => Awaited' = {e.id : e \in {d \in Queued' : Waits(d)'}}
<1>1. \A e \in Queued : e.id \in Nat
  BY QueuedTyped
<1>2. \A e \in Queued' : e.id \in Nat
  <2>1. \A e \in Queued' : e \in Event
    BY DEF EventsOK, Queued, ToSet
  <2> QED BY <2>1 DEF Event
<1>3. handling.step # "read" => Awaited = {e.id : e \in {d \in Queued : Waits(d)}}
  BY <1>1 DEF Awaited, Waits
<1>4. handling'.step # "read" => Awaited' = {e.id : e \in {d \in Queued' : Waits(d)'}}
  BY <1>2 DEF Awaited, Waits
<1> QED BY <1>3, <1>4

LEMMA RecordedStep ==
  ASSUME EventsOK, EventsOK', SessionOK, IdsGrow, HandlerOK, Fresh, ClosedOnce, ClosedInTime, Teardown,
         Recorded, SummarySeesWholeCall, SaidInOrder, HistoryInOrder, [Next]_vars,
         Unread, Unread'
  PROVE  ToSet(store'.history) \cup Awaited' \cup InHand' = ToSet(said')
<1>0. /\ SubsOK /\ StoreOK /\ store.history \in Seq(Nat) /\ said \in Seq(Nat)
      /\ events \in Nat /\ Now.id \in Nat
      /\ \A e \in Queued : e.id \in Nat /\ e.id <= events
      /\ ToSet(store.history) \cup Awaited \cup InHand = ToSet(said)
      /\ ToSet(<<>>) = {}
  <2>1. SubsOK /\ StoreOK /\ store.history \in Seq(Nat)
    BY DEF SessionOK, StoreOK, SessionRecord
  <2>2. said \in Seq(Nat) /\ events \in Nat /\ Now.id \in Nat
    BY DEF SessionOK, SaidOK, EventsOK, Now, Event
  <2>3. \A e \in Queued : e.id \in Nat /\ e.id <= events
    BY QueuedTyped DEF IdsGrow
  <2>4. ToSet(<<>>) = {}
    BY DEF ToSet
  <2>5. ToSet(store.history) \cup Awaited \cup InHand = ToSet(said)
    BY DEF Recorded
  <2> QED BY <2>1, <2>2, <2>3, <2>4, <2>5
<1>1. CASE StartBus
  <2>1. /\ Queued' = {[kind |-> "created", id |-> 0]} /\ UNCHANGED <<store, said, handling>>
        /\ store.history = <<>> /\ said = <<>> /\ handling.step = "none"
    BY <1>1, StartLeaves DEF Handling
  <2>2. Awaited' = {} /\ InHand' = {}
    BY <2>1 DEF Awaited, InHand
  <2> QED BY <1>0, <2>1, <2>2
<1>2. ASSUME NEW kind \in Kinds, Publish(kind)
      PROVE  ToSet(store'.history) \cup Awaited' \cup InHand' = ToSet(said')
  <2>1. PICK e \in Event : e.kind = kind /\ e.id = events + 1 /\ Queued' = Queued \cup {e}
    BY <1>2, PublishAdds
  <2>2. /\ UNCHANGED <<store, handling>> /\ kind # "closed"
        /\ at \in {"running", "closing", "joining", "unsubscribing", "stopping", "deleting"}
        /\ said' = IF kind = "utterance" /\ at \in {"running", "closing"}
                   THEN Append(said, events + 1) ELSE said
    BY <1>2 DEF Publish, Kinds
  <2>3. InHand' = InHand
    BY <2>2 DEF InHand, Now
  <2>4. CASE at \in {"running", "closing"}
    <3>1. (\A c \in Queued : c.kind # "closed") /\ Now.kind # "closed"
      BY <2>4 DEF ClosedInTime, Before
    <3>2. handling.step # "read" /\ handling'.step # "read"
      BY <2>2, <3>1 DEF HandlerOK
    <3>3. \A d \in Queued : Waits(d)' <=> Waits(d)
      BY <2>1, <2>2, <3>1 DEF Waits
    <3>4. Waits(e)' <=> kind = "utterance"
      BY <2>1, <2>2, <3>1 DEF Waits
    <3>5. Awaited' = Awaited \cup (IF kind = "utterance" THEN {events + 1} ELSE {})
      BY <2>1, <3>2, <3>3, <3>4, AwaitedIs
    <3>6. ToSet(said') = ToSet(said) \cup (IF kind = "utterance" THEN {events + 1} ELSE {})
      <4>1. CASE kind = "utterance"
        <5>1. said' = Append(said, events + 1) /\ events + 1 \in Nat
          BY <1>0, <2>2, <2>4, <4>1
        <5>2. said \in Seq(Nat)
          BY <1>0
        <5>3. ToSet(Append(said, events + 1)) = ToSet(said) \cup {events + 1}
          BY <5>1, <5>2, LastComes
        <5> QED BY <4>1, <5>1, <5>3
      <4>2. CASE kind # "utterance"
        BY <2>2, <4>2
      <4> QED BY <4>1, <4>2
    <3> QED BY <1>0, <2>2, <2>3, <3>5, <3>6
  <2>5. CASE at \notin {"running", "closing"}
    <3>1. (\E c \in Queued : c.kind = "closed") \/ handling.step = "read"
      BY <2>2, <2>5 DEF ClosedInTime, Unread
    <3>2. Awaited' = Awaited
      <4>1. CASE handling.step = "read"
        BY <2>2, <4>1 DEF Awaited
      <4>2. CASE handling.step # "read"
        <5>1. PICK c \in Queued : c.kind = "closed"
          BY <3>1, <4>2
        <5>2. c.id \in Nat /\ c.id <= events /\ ~(e.id < c.id)
          BY <1>0, <2>1, <5>1
        <5>3. ~Waits(e)'
          BY <2>1, <5>1, <5>2 DEF Waits
        <5>4. \A d \in Queued : Waits(d)' <=> Waits(d)
          BY <2>1, <2>2 DEF Waits
        <5>5. handling'.step # "read"
          BY <2>2, <4>2
        <5> QED BY <2>1, <4>2, <5>3, <5>4, <5>5, AwaitedIs
      <4> QED BY <4>1, <4>2
    <3> QED BY <1>0, <2>2, <2>3, <2>5, <3>2
  <2> QED BY <2>4, <2>5
<1>3. CASE Close
  <2>1. PICK c \in Event : c.kind = "closed" /\ c.id = events + 1 /\ Queued' = Queued \cup {c}
    BY <1>3, CloseAdds
  <2>2. UNCHANGED <<handling, said>> /\ store'.history = store.history
    BY <1>0, <1>3, StoreStep DEF Close, CreateSession, AppendMessage, Goes
  <2>3. InHand' = InHand
    BY <2>2 DEF InHand, Now
  <2>4. \A d \in Queued : Waits(d)' <=> Waits(d)
    BY <1>0, <2>1 DEF Waits
  <2>5. ~Waits(c)'
    BY <2>1 DEF Waits
  <2>6. Awaited' = Awaited
    <3>1. CASE handling.step = "read"
      BY <2>2, <3>1 DEF Awaited
    <3>2. CASE handling.step # "read"
      BY <2>1, <2>2, <2>4, <2>5, <3>2, AwaitedIs
    <3> QED BY <3>1, <3>2
  <2> QED BY <1>0, <2>2, <2>3, <2>6
<1>4. CASE Takes
  <2>1. PICK e \in Queued :
          /\ Queued' = Queued \ {e} /\ e \in Event /\ \A d \in Queued' : e.id < d.id
          /\ \/ handling'.step = "none" /\ Now'.kind = "none" /\ ~Contains(subs, Handler(e))
             \/ /\ Now' = e /\ Contains(subs, Handler(e))
                /\ e.kind \in {"utterance", "tool_only", "notice", "closed"}
                /\ handling'.step = CASE e.kind = "notice" -> "show"
                                      [] e.kind = "closed" -> "read"
                                      [] OTHER -> "lookup"
          /\ ~Handling /\ UNCHANGED <<subs, said, store>>
    BY <1>0, <1>4, TakesHead
  <2>2. handling.step = "none" /\ InHand = {}
    BY <2>1 DEF Handling, InHand
  <2>3. CASE e.kind = "closed"
    <3>1. Contains(subs, Handler(e))
      <4>1. subs = Bridges
        BY <2>3 DEF Teardown
      <4> QED BY <2>3, <4>1 DEF Contains, Bridges, Handler
    <3>2. handling'.step = "read"
      BY <2>1, <2>3, <3>1
    <3>3. Awaited' = {} /\ InHand' = {}
      BY <3>2 DEF Awaited, InHand
    <3>4. \A d \in Queued : ~Waits(d)
      BY <1>0, <2>1, <2>3 DEF Waits
    <3>5. Awaited = {}
      BY <2>2, <3>4, AwaitedIs
    <3> QED BY <1>0, <2>1, <2>2, <3>3, <3>5
  <2>4. CASE e.kind # "closed"
    <3>1. handling'.step # "read"
      BY <2>1, <2>4
    <3>2. \A d \in Queued' : Waits(d)' <=> Waits(d)
      BY <2>1, <2>4 DEF Waits
    <3>3. CASE e.kind = "utterance"
      <4>1. Contains(subs, Handler(e))
        <5>1. subs = Bridges
          BY <3>3 DEF Teardown
        <5>2. Handler(e) = "utterance" /\ Len(Bridges) = 3 /\ Bridges[2] = "utterance"
          BY <3>3 DEF Handler, Bridges
        <5> QED BY <5>1, <5>2 DEF Contains
      <4>2. handling'.step = "lookup" /\ Now' = e
        BY <2>1, <3>3, <4>1
      <4>3. InHand' = {e.id}
        BY <3>3, <4>2 DEF InHand
      <4>4. Waits(e)
        BY <2>1, <3>3 DEF Waits
      <4>5. Awaited = Awaited' \cup {e.id}
        BY <2>1, <2>2, <3>1, <3>2, <4>4, AwaitedIs
      <4> QED BY <1>0, <2>1, <2>2, <4>3, <4>5
    <3>4. CASE e.kind # "utterance"
      <4>1. InHand' = {}
        BY <2>1, <3>4 DEF InHand
      <4>2. ~Waits(e)
        BY <3>4 DEF Waits
      <4>3. Awaited' = Awaited
        BY <2>1, <2>2, <3>1, <3>2, <4>2, AwaitedIs
      <4> QED BY <1>0, <2>1, <2>2, <4>1, <4>3
    <3> QED BY <3>3, <3>4
  <2> QED BY <2>3, <2>4
<1>5. CASE CloseReads
  BY <1>0, <1>5, UnreadStep
<1>6. CASE HandlerStep /\ ~CloseReads
  <2>1. /\ UNCHANGED <<queue, said>> /\ handling.step # "read" /\ handling'.step # "read"
        /\ handling'.step \in {"lookup", "append"} => Lookup /\ Now' = Now
    <3>1. handling.step # "read"
      BY <1>6 DEF HandlerStep, Lookup, AppendMessage, Show, ShowGoesOn, Summarised
    <3> QED BY <1>6, <3>1, HandlerLeaves DEF Handling
  <2>2. Awaited' = Awaited
    BY <2>1 DEF Awaited, Queued
  <2>3. CASE Lookup
    <3>1. store' = store /\ handling.step = "lookup" /\ store.state # "deleted"
      BY <2>3 DEF Lookup, Teardown, ClosedInTime, Unread
    <3>2. InHand' = InHand
      <4>1. CASE Now.kind = "utterance"
        <5>1. Step("append")
          BY <2>3, <3>1, <4>1 DEF Lookup, Refused, Now
        <5>2. handling'.step = "append" /\ Now' = Now
          BY <5>1, StepsOn DEF Steps
        <5> QED BY <3>1, <4>1, <5>2 DEF InHand
      <4>2. CASE Now.kind # "utterance"
        BY <2>1, <4>2 DEF InHand
      <4> QED BY <4>1, <4>2
    <3> QED BY <1>0, <2>1, <2>2, <3>1, <3>2
  <2>4. CASE AppendMessage
    <3>1. InHand = {Now.id}
      BY <2>4 DEF AppendMessage, HandlerOK, InHand
    <3>2. InHand' = {}
      BY <2>1, <2>4 DEF InHand, Lookup, AppendMessage
    <3>3. store'.history = Append(store.history, Now.id)
      BY <1>0, <2>4, StoreStep
    <3>4. ToSet(Append(store.history, Now.id)) = ToSet(store.history) \cup {Now.id}
      <4>1. store.history \in Seq(Nat) /\ Now.id \in Nat
        BY <1>0
      <4> QED BY <4>1, LastComes
    <3> QED BY <1>0, <2>1, <2>2, <3>1, <3>2, <3>3, <3>4
  <2>5. CASE Show \/ ShowGoesOn \/ Summarised
    <3>1. store' = store /\ handling.step \notin {"lookup", "append"}
      BY <2>5 DEF Show, ShowGoesOn, Summarised
    <3>2. InHand = {} /\ InHand' = {}
      BY <2>1, <3>1 DEF InHand, Lookup
    <3> QED BY <1>0, <2>1, <2>2, <3>1, <3>2
  <2> QED BY <1>6, <2>3, <2>4, <2>5 DEF HandlerStep
<1>7. CASE StopBus
  BY <1>7, StopLeaves DEF ClosedInTime, Unread
<1>8. CASE Elsewhere
  <2>1. UNCHANGED <<queue, handling, said>>
    BY <1>8, ElsewhereKeeps
  <2>2. Awaited' = Awaited /\ InHand' = InHand
    BY <2>1 DEF Awaited, InHand, Queued, Now
  <2>3. store'.history = store.history
    <3>1. CASE CreateSession
      BY <1>0, <3>1, StoreStep DEF CreateSession, Fresh
    <3>2. CASE ~CreateSession
      <4>1. ~AppendMessage
        <5>1. AppendMessage => handling.step = "append" /\ Step("show")
          BY DEF AppendMessage
        <5>2. AppendMessage => handling'.step = "show"
          BY <5>1, StepsOn DEF Steps
        <5> QED BY <2>1, <5>1, <5>2
      <4> QED BY <1>0, <3>2, <4>1, StoreStep
    <3> QED BY <3>1, <3>2
  <2> QED BY <1>0, <2>1, <2>2, <2>3
<1> QED BY <1>1, <1>2, <1>3, <1>4, <1>5, <1>6, <1>7, <1>8, Cases

LEMMA TranscribedStep ==
  ASSUME EventsOK, SessionOK, ClosedOnce, ClosedInTime, Recorded, Transcribed, SaidInOrder,
         HistoryInOrder, [Next]_vars
  PROVE  Transcribed'
<1>0. StoreOK /\ store.history \in Seq(Nat) /\ said \in Seq(Nat)
  BY DEF SessionOK, StoreOK, SessionRecord, SaidOK
<1>1. CASE CloseReads
  <2>1. handling.step = "read" /\ Unread /\ said' = said
    BY <1>1 DEF CloseReads, ClosedOnce
  <2>2. Awaited = {} /\ InHand = {}
    BY <2>1 DEF Awaited, InHand
  <2>3. store.history = said
    BY <1>0, <2>1, <2>2, SameValues DEF Recorded, SaidInOrder, HistoryInOrder
  <2>4. handling'.step = "summarise" => transcript' = store.history
    BY <1>1, IdleTyped DEF CloseReads
  <2> QED BY <2>1, <2>3, <2>4 DEF Transcribed
<1>2. CASE ~CloseReads
  <2>1. UNCHANGED transcript /\ (handling'.step = "summarise" => handling.step = "summarise")
    BY <1>0, <1>2, ClosingStep
  <2>2. Says => handling.step # "summarise"
    BY DEF Says, ClosedInTime, Before, Unread
  <2> QED BY <2>1, <2>2, SaidStep DEF SessionOK, Transcribed
<1> QED BY <1>1, <1>2

LEMMA SummaryStep ==
  ASSUME EventsOK, SessionOK, MadeOnce, ClosedInTime, Transcribed, SummarySeesWholeCall, [Next]_vars
  PROVE  SummarySeesWholeCall'
<1>0. StoreOK /\ transcript \in Seq(Nat) /\ summaries \in Seq(Seq(Nat))
  BY DEF SessionOK, StoreOK
<1>1. CASE Summarised
  <2>1. /\ handling.step = "summarise" /\ said' = said
        /\ summaries' = Append(summaries, transcript) \/ summaries' = summaries
    BY <1>1 DEF Summarised
  <2>2. transcript = said
    BY <2>1 DEF Transcribed
  <2>3. DOMAIN summaries = {}
    BY <1>0, <2>1 DEF MadeOnce
  <2>4. \A i \in DOMAIN Append(summaries, transcript) : Append(summaries, transcript)[i] = transcript
    BY <1>0, <2>3, LastComes
  <2> QED BY <2>1, <2>2, <2>3, <2>4 DEF SummarySeesWholeCall
<1>2. CASE ~Summarised
  <2>1. summaries' = summaries
    BY <1>0, <1>2, ClosingStep
  <2>2. Says => DOMAIN summaries = {}
    <3>1. Says => outcome = "none"
      BY DEF Says, ClosedInTime, Before, Unread
    <3> QED BY <1>0, <3>1 DEF MadeOnce
  <2> QED BY <2>1, <2>2, SaidStep DEF SessionOK, SummarySeesWholeCall
<1> QED BY <1>1, <1>2

LEMMA WholeCallStep ==
  ASSUME EventsOK, EventsOK', SessionOK, IdsGrow, HandlerOK, Fresh, ClosedOnce, MadeOnce,
         ClosedInTime, Teardown, WholeCall, SummarySeesWholeCall, [Next]_vars
  PROVE  WholeCall' /\ SummarySeesWholeCall'
<1>1. Recorded /\ Transcribed /\ SaidInOrder /\ HistoryInOrder
  BY DEF WholeCall, Recorded, Transcribed, SaidInOrder, HistoryInOrder
<1>2. SaidInOrder' /\ HistoryInOrder' /\ Transcribed'
  BY <1>1, SaidInOrderStep, HistoryInOrderStep, TranscribedStep
<1>3. Unread' => Unread
  BY UnreadStep DEF SessionOK
<1>4. Recorded'
  BY <1>1, <1>3, RecordedStep DEF Recorded
<1>5. WholeCall'
  BY <1>2, <1>4 DEF WholeCall, Recorded, Transcribed, SaidInOrder, HistoryInOrder
<1> QED BY <1>1, <1>5, SummaryStep

-----------------------------------------------------------------------------
(* The invariant *)

LEMMA InvInit == Init => IInv
<1> SUFFICES ASSUME Init PROVE IInv
  OBVIOUS
<1> USE DEF Init, FrontEndsInit
<1>0. ToSet(<<>>) = {} /\ DOMAIN <<>> = {}
  BY DEF ToSet
<1>1. FrontInv
  <2>1. ListOK /\ cast \in [ws : Browsers \cup {Nobody}, next : Nat, disconnected : SUBSET Browsers]
        /\ ~Sending
    BY DEF ListOK, Resting, Sending
  <2>2. FrontOK
    BY <2>1 DEF FrontOK
  <2> QED BY <1>0, <2>1, <2>2 DEF FrontInv, NoneTwice, Behind, Onward, Listed
<1>2. EventsOK
  BY IdleTyped DEF EventsOK
<1>3. SessionOK
  <2>1. store \in SessionRecord
    BY DEF SessionRecord
  <2> QED BY <2>1 DEF SessionOK, SubsOK, StoreOK, SaidOK, ShownOK, Places
<1>4. Queued = {} /\ ~Handling /\ handling.step = "none" /\ Now.kind = "none" /\ ~Sending
  BY <1>0, IdleTyped DEF Queued, Handling, Now, Sending, Resting
<1>5. IdsGrow /\ HandlerOK
  BY <1>0, <1>4 DEF IdsGrow, Grows, HandlerOK
<1>6. ShownBefore
  BY <1>0, <1>4 DEF ShownBefore, Shown, Increasing
<1>7. Fresh /\ ClosedOnce /\ MadeOnce /\ ClosedInTime
  BY <1>4 DEF Fresh, ClosedOnce, MadeOnce, ClosedInTime, Before, Unread
<1>8. Teardown
  BY <1>4 DEF Teardown
<1>9. WholeCall /\ SummarySeesWholeCall
  <2>1. Awaited = {} /\ InHand = {}
    BY <1>4 DEF Awaited, InHand
  <2> QED BY <1>0, <1>4, <2>1 DEF WholeCall, Increasing, SummarySeesWholeCall
<1> QED BY <1>1, <1>2, <1>3, <1>5, <1>6, <1>7, <1>8, <1>9 DEF IInv, SessionInv

LEMMA InvStep == IInv /\ [Next]_vars => IInv'
<1> SUFFICES ASSUME IInv, [Next]_vars PROVE IInv'
  OBVIOUS
<1>0. FrontInv /\ SessionInv
  BY DEF IInv
<1> USE <1>0
<1>1. FrontInv'
  BY FrontStep
<1>2. EventsOK' /\ IdsGrow'
  BY EventsStep DEF SessionInv
<1>3. SessionOK'
  BY SessionTypeStep DEF SessionInv
<1>4. HandlerOK'
  BY HandlerKeeps DEF SessionInv, SessionOK
<1>5. ShownBefore'
  BY ShownBeforeStep DEF SessionInv
<1>6. Fresh'
  BY FreshStep DEF SessionInv
<1>7. ClosedOnce' /\ MadeOnce' /\ ClosedInTime' /\ Teardown'
  BY ClosedOnceStep, MadeOnceStep, ClosedInTimeStep, TeardownStep DEF SessionInv, SessionOK
<1>8. WholeCall' /\ SummarySeesWholeCall'
  BY <1>2, WholeCallStep DEF SessionInv
<1> QED BY <1>1, <1>2, <1>3, <1>4, <1>5, <1>6, <1>7, <1>8 DEF IInv, SessionInv

LEMMA Invariance == Spec => []IInv
BY InvInit, InvStep, PTL DEF Spec

-----------------------------------------------------------------------------
(***************************************************************************)
(* main.py:793 "Wait for SessionClosed to be processed": a summary is made *)
(* of every utterance published before SessionClosed, in their order, for  *)
(* a call of any length.                                                   *)
(***************************************************************************)
THEOREM SummarySeesWholeCallCorrect == Spec => []SummarySeesWholeCall
<1>1. IInv => SummarySeesWholeCall
  BY DEF IInv, SessionInv
<1> QED BY <1>1, Invariance, PTL

(***************************************************************************)
(* A session that comes to the end of its teardown has had its             *)
(* SessionClosed handled while it was in the store, with one summary made  *)
(* unless on_session_closed raised (main.py:494) or the language model     *)
(* failed (main.py:571), and leaves no worker, subscription or broadcast.  *)
(***************************************************************************)
THEOREM EndsCleanCorrect == Spec => []EndsClean
<1>1. IInv => EndsClean
  <2> SUFFICES ASSUME IInv, at = "done"
               PROVE  /\ outcome \in {"raised", "failed", "made"}
                      /\ Len(summaries) = IF outcome = "made" THEN 1 ELSE 0
                      /\ worker = "ended" /\ subs = <<>> /\ ~Sending
    BY DEF EndsClean
  <2>1. outcome \in {"raised", "failed", "made"}
    BY DEF IInv, SessionInv, SessionOK, StoreOK, ClosedInTime, Teardown
  <2>2. Len(summaries) = IF outcome = "made" THEN 1 ELSE 0
    BY DEF IInv, SessionInv, MadeOnce
  <2>3. worker = "ended" /\ subs = <<>> /\ ~Handling
    BY DEF IInv, SessionInv, Teardown
  <2>4. ~Sending
    BY <2>3 DEF IInv, SessionInv, HandlerOK, Handling
  <2> QED BY <2>1, <2>2, <2>3, <2>4
<1> QED BY <1>1, Invariance, PTL

(***************************************************************************)
(* Every browser is sent the events of a session in their order and none   *)
(* twice, for any number of browsers that come, break and leave.           *)
(***************************************************************************)
THEOREM ShownInOrderCorrect == Spec => []ShownInOrder
<1>1. IInv => ShownInOrder
  BY DEF IInv, SessionInv, ShownBefore, Increasing, ShownInOrder
<1> QED BY <1>1, Invariance, PTL

-----------------------------------------------------------------------------
(* The bus of a session keeps the contract that EventBus was shown to keep *)

Bus == INSTANCE BusContract WITH
         waiting <- queue,
         hand <- IF Handling THEN {Now} ELSE {},
         unfinished <- Unfinished

LEMMA HandlerIsInHand ==
  ASSUME EventsOK, GoesOn
  PROVE  [Bus!Next]_(Bus!vars)
<1>1. queue' = queue /\ Len(queue) \in Nat
  BY DEF GoesOn, EventsOK
<1>2. CASE handling' = handling \/ (Handling /\ Handling' /\ Now' = Now)
  BY <1>1, <1>2 DEF Bus!vars, Unfinished, Handling, Now
<1>3. CASE handling' = Idle
  <2>1. ~Handling'
    BY <1>3, IdleTyped DEF Handling
  <2>2. CASE ~Handling
    BY <1>1, <2>1, <2>2 DEF Bus!vars, Unfinished
  <2>3. CASE Handling
    <3>1. Unfinished' = Unfinished - 1
      BY <1>1, <2>1, <2>3 DEF Unfinished
    <3>2. Bus!Finish
      BY <1>1, <2>1, <2>3, <3>1 DEF Bus!Finish
    <3> QED BY <3>2 DEF Bus!Next
  <2> QED BY <2>2, <2>3
<1> QED BY <1>2, <1>3 DEF GoesOn

LEMMA WorkerTakesHead ==
  ASSUME EventsOK, Takes
  PROVE  [Bus!Next]_(Bus!vars)
<1>1. ~Handling /\ queue # <<>> /\ queue' = Tail(queue)
  BY DEF Takes
<1>2. Len(queue) \in Nat /\ Len(queue') = Len(queue) - 1
  BY <1>1 DEF EventsOK
<1>3. \/ handling' = Idle
      \/ Now' = Head(queue) /\ handling'.step # "none"
  BY TakesWhat
<1>4. CASE handling' = Idle
  <2>1. ~Handling' /\ Unfinished' = Unfinished - 1
    BY <1>1, <1>2, <1>4, IdleTyped DEF Handling, Unfinished
  <2>2. Bus!Take
    BY <1>1, <2>1 DEF Bus!Take
  <2> QED BY <2>2 DEF Bus!Next
<1>5. CASE Now' = Head(queue) /\ handling'.step # "none"
  <2>1. Handling' /\ Unfinished' = Unfinished
    BY <1>1, <1>2, <1>5 DEF Handling, Unfinished
  <2>2. Bus!Take
    BY <1>1, <1>5, <2>1 DEF Bus!Take
  <2> QED BY <2>2 DEF Bus!Next
<1> QED BY <1>3, <1>4, <1>5

LEMMA EventIsPut ==
  ASSUME EventsOK, UNCHANGED handling, NEW e \in Event, queue' = Append(queue, e)
  PROVE  [Bus!Next]_(Bus!vars)
<1>1. Len(queue') = Len(queue) + 1 /\ \A i \in DOMAIN queue : queue'[i] = queue[i]
  BY DEF EventsOK
<1>2. Len(queue) \in Nat
  BY DEF EventsOK
<1>3. Handling' = Handling /\ Now' = Now /\ Unfinished' = Unfinished + 1
  BY <1>1, <1>2 DEF Handling, Now, Unfinished
<1>4. Bus!Put
  BY <1>1, <1>3 DEF Bus!Put
<1> QED BY <1>4 DEF Bus!Next

LEMMA BusStep == IInv /\ [Next]_vars => [Bus!Next]_(Bus!vars)
<1> SUFFICES ASSUME IInv, [Next]_vars PROVE [Bus!Next]_(Bus!vars)
  OBVIOUS
<1>1. EventsOK /\ Fresh
  BY DEF IInv, SessionInv
<1>2. CASE StartBus
  <2> DEFINE e == [kind |-> "created", id |-> 0]
  <2>1. queue = <<>> /\ UNCHANGED handling /\ queue' = <<e>>
    BY <1>1, <1>2 DEF StartBus, Fresh
  <2>2. e \in Event
    BY DEF Event, EventKinds
  <2> HIDE DEF e
  <2>3. queue' = Append(queue, e)
    BY <2>1
  <2> QED BY <1>1, <2>1, <2>2, <2>3, EventIsPut
<1>3. CASE Arrives
  BY <1>1, <1>3, EventIsPut DEF Arrives
<1> QED BY <1>1, <1>2, <1>3, Anatomy, WorkerTakesHead, HandlerIsInHand

(***************************************************************************)
(* The bus as this module cuts it down promises its session no less than   *)
(* EventBus does: the same contract holds of both, so what is shown of the *)
(* teardown's join() rests on nothing EventBus does not keep.              *)
(***************************************************************************)
THEOREM SessionBusKeepsContract == Spec => Bus!Spec
<1>1. Init => Bus!Init
  BY IdleTyped DEF Init, Bus!Init, Handling, Unfinished
<1> QED BY <1>1, BusStep, Invariance, PTL DEF Spec, Bus!Spec

-----------------------------------------------------------------------------
(* join() has no timeout: the session depends on a worker that can go on *)

WorkerLives ==
  at \in {"bus", "ready", "running", "closing", "joining", "unsubscribing", "stopping"}
    => worker = "running"

(* One of the steps of the worker has all that it waits for. *)
CanGoOn ==
  \/ worker = "running" /\ ~Handling /\ queue # <<>>
  \/ handling.step \in {"lookup", "append", "read", "summarise"}
  \/ handling.step = "show" /\ ~Sending
  \/ handling.step = "showing" /\ Sending
JoinNeverStuck == at = "joining" /\ Unfinished # 0 => CanGoOn

LEMMA WorkerLivesStep == WorkerLives /\ [Next]_vars => WorkerLives'
<1> SUFFICES ASSUME WorkerLives, [Next]_vars PROVE WorkerLives'
  OBVIOUS
<1>1. CASE CreateSession \/ StartBus \/ Bridge \/ Run
  BY <1>1 DEF CreateSession, StartBus, Bridge, Run, Goes, WorkerLives
<1>2. CASE Close \/ Join \/ Unsubscribe \/ StopBus \/ Delete
  BY <1>2 DEF Close, Join, Unsubscribe, StopBus, Delete, Goes, WorkerLives
<1>3. CASE BootFails \/ RunEnds \/ Cancelled
  BY <1>3 DEF BootFails, RunEnds, Cancelled, Goes, WorkerLives
<1>4. CASE WorkerStep
  BY <1>4 DEF WorkerStep, Takes, Lookup, AppendMessage, Show, ShowGoesOn, CloseReads, Summarised,
     WorkerLives
<1>5. ASSUME NEW kind \in Kinds, Publish(kind) PROVE WorkerLives'
  BY <1>5 DEF Publish, WorkerLives
<1>6. CASE UNCHANGED svars \/ UNCHANGED vars
  BY <1>6 DEF svars, vars, WorkerLives
<1> QED BY <1>1, <1>2, <1>3, <1>4, <1>5, <1>6 DEF Next, Main

(***************************************************************************)
(* While the teardown waits in queue.join() and something is unfinished,   *)
(* the worker or the handler it is in can make its next step: no exception *)
(* of a handler, no missing subscriber and no broadcast stops it for good  *)
(* (main.py:793).  That it does go on then is left to fairness.            *)
(***************************************************************************)
THEOREM JoinNeverStuckCorrect == Spec => []JoinNeverStuck
<1>1. Init => WorkerLives
  BY DEF Init, WorkerLives
<1>2. IInv /\ WorkerLives => JoinNeverStuck
  <2> SUFFICES ASSUME IInv, WorkerLives, at = "joining", Unfinished # 0 PROVE CanGoOn
    BY DEF JoinNeverStuck
  <2>1. handling.step \in Steps /\ (Sending <=> handling.step = "showing")
    BY DEF IInv, SessionInv, EventsOK, HandlerOK
  <2>2. CASE Handling
    BY <2>1, <2>2 DEF Handling, Steps, CanGoOn
  <2>3. CASE ~Handling
    <3>1. queue # <<>>
      BY <2>3 DEF Unfinished
    <3> QED BY <2>3, <3>1 DEF WorkerLives, CanGoOn
  <2> QED BY <2>2, <2>3
<1> QED BY <1>1, <1>2, WorkerLivesStep, Invariance, PTL DEF Spec

-----------------------------------------------------------------------------
(* Types and bounds: every number in a history is that of an event *)

Numbered ==
  /\ events <= MaxEvents + 1 /\ (at \in Before => events <= MaxEvents)
  /\ \A e \in Queued : e.kind # "created" => e.id >= 1
  /\ handling.step \in {"lookup", "append"} => Now.id >= 1
  /\ \A n \in ToSet(store.history) : n >= 1
NumberedRead == ToSet(transcript) \subseteq 1..(MaxEvents + 1)

LEMMA NumberedStep == IInv /\ Numbered /\ [Next]_vars => Numbered'
<1> SUFFICES ASSUME IInv, Numbered, [Next]_vars PROVE Numbered'
  OBVIOUS
<1>0. /\ EventsOK /\ EventsOK' /\ SessionOK /\ IdsGrow /\ HandlerOK /\ Fresh /\ events \in Nat
      /\ SubsOK /\ MaxEvents \in Nat
  BY EventsStep, KindsOfRest DEF IInv, SessionInv, EventsOK, SessionOK
<1>1. at' \in Before => at \in Before
  BY PlacesFollow
<1>2. CASE StartBus
  <2>1. /\ UNCHANGED <<handling, store, events>> /\ at = "created"
        /\ Queued' = {[kind |-> "created", id |-> 0]}
    BY <1>0, <1>2, StartLeaves
  <2> QED BY <2>1 DEF Numbered, Before, Now
<1>3. CASE Close
  <2>1. PICK e \in Event : e.id = events + 1 /\ Queued' = Queued \cup {e} /\ events' = events + 1
    BY <1>0, <1>3, CloseAdds
  <2>2. at = "closing" /\ at' = "joining" /\ store'.history = store.history /\ UNCHANGED handling
    BY <1>0, <1>3 DEF Close, Goes, SetState, SessionOK, StoreOK, SessionRecord
  <2>3. events <= MaxEvents /\ e.id >= 1 /\ "joining" \notin Before
    BY <1>0, <2>1, <2>2 DEF Numbered, Before
  <2> QED BY <1>0, <2>1, <2>2, <2>3 DEF Numbered, Now
<1>4. ASSUME NEW kind \in Kinds, Publish(kind) PROVE Numbered'
  <2>1. PICK e \in Event : e.id = events + 1 /\ Queued' = Queued \cup {e} /\ events' = events + 1
    BY <1>0, <1>4, PublishAdds
  <2>2. events < MaxEvents /\ UNCHANGED <<at, store, handling>>
    BY <1>4 DEF Publish
  <2>3. e.id >= 1
    BY <1>0, <2>1
  <2> QED BY <1>0, <2>1, <2>2, <2>3 DEF Numbered, Now
<1>5. CASE Takes
  <2>1. PICK e \in Queued :
          /\ Queued' = Queued \ {e}
          /\ \/ handling'.step = "none"
             \/ Now' = e /\ e.kind \in {"utterance", "tool_only", "notice", "closed"}
          /\ UNCHANGED <<at, events, store>>
    BY <1>0, <1>5, TakesHead
  <2> QED BY <2>1 DEF Numbered
<1>6. CASE HandlerStep
  <2>1. /\ UNCHANGED <<at, queue, events>> /\ (Handling' => Now' = Now)
        /\ handling'.step \in {"lookup", "append"} => handling.step = "lookup"
    BY <1>0, <1>6, HandlerLeaves
  <2>2. handling'.step \in {"lookup", "append"} => Now'.id >= 1
    BY <2>1 DEF Numbered, Handling
  <2>3. \A n \in ToSet(store'.history) : n >= 1
    <3>1. CASE AppendMessage
      <4>1. /\ store.history \in Seq(Nat) /\ Now.id \in Nat /\ Now.id >= 1
            /\ store'.history = Append(store.history, Now.id)
        BY <1>0, <3>1, StoreStep
        DEF AppendMessage, EventsOK, Event, Now, SessionOK, StoreOK, SessionRecord, Numbered
      <4>2. ToSet(store'.history) = ToSet(store.history) \cup {Now.id}
        BY <4>1, LastComes
      <4> QED BY <4>1, <4>2 DEF Numbered
    <3>2. CASE ~AppendMessage
      <4>1. store' = store
        BY <1>6, <3>2 DEF HandlerStep, Lookup, Show, ShowGoesOn, CloseReads, Summarised
      <4> QED BY <4>1 DEF Numbered
    <3> QED BY <3>1, <3>2
  <2> QED BY <2>1, <2>2, <2>3 DEF Numbered, Queued
<1>7. CASE StopBus
  <2>1. UNCHANGED <<queue, store, events>> /\ handling'.step = "none"
    BY <1>7, StopLeaves, IdleTyped
  <2> QED BY <1>1, <2>1 DEF Numbered, Queued
<1>8. CASE Elsewhere
  <2>1. UNCHANGED <<queue, handling, events>>
    BY <1>8, ElsewhereKeeps
  <2>2. ToSet(store'.history) \subseteq ToSet(store.history)
    <3>1. CASE CreateSession
      <4>1. store'.history = store.history
        BY <1>0, <3>1, StoreStep DEF CreateSession, Fresh, SessionOK
      <4> QED BY <4>1
    <3>2. CASE ~CreateSession
      <4>1. store'.history = store.history
        BY <1>0, <1>8, <3>2
        DEF Elsewhere, Bridge, Run, SetState, Join, Unsubscribe, Delete, BootFails, RunEnds,
            Cancelled, svars, vars, SessionOK, StoreOK, SessionRecord
      <4> QED BY <4>1
    <3> QED BY <3>1, <3>2
  <2> QED BY <1>1, <2>1, <2>2 DEF Numbered, Queued, Now
<1> QED BY <1>2, <1>3, <1>4, <1>5, <1>6, <1>7, <1>8, Cases

LEMMA NumberedHistory ==
  ASSUME IInv, Numbered
  PROVE  ToSet(store.history) \subseteq 1..(MaxEvents + 1)
<1>1. \A n \in ToSet(store.history) : n \in Nat /\ n <= events
  BY DEF IInv, SessionInv, SessionOK, StoreOK, SessionRecord, ToSet, WholeCall
<1>2. events \in Nat /\ events <= MaxEvents + 1 /\ MaxEvents \in Nat
  BY KindsOfRest DEF IInv, SessionInv, EventsOK, Numbered
<1> QED BY <1>1, <1>2 DEF Numbered

LEMMA NumberedReadStep == IInv /\ Numbered /\ NumberedRead /\ [Next]_vars => NumberedRead'
<1> SUFFICES ASSUME IInv, Numbered, NumberedRead, [Next]_vars PROVE NumberedRead'
  OBVIOUS
<1>1. CASE CloseReads
  <2>1. transcript' = transcript \/ transcript' = store.history
    BY <1>1 DEF CloseReads
  <2> QED BY <2>1, NumberedHistory DEF NumberedRead
<1>2. CASE ~CloseReads
  BY <1>2, ClosingStep DEF NumberedRead, IInv, SessionInv, SessionOK
<1> QED BY <1>1, <1>2

LEMMA NumberedTypes == IInv /\ Numbered /\ NumberedRead => TypeOK
<1> SUFFICES ASSUME IInv, Numbered, NumberedRead PROVE TypeOK
  OBVIOUS
<1>0. /\ FrontOK /\ EventsOK /\ SessionOK /\ StoreOK /\ SubsOK /\ MaxEvents \in Nat
  BY KindsOfRest DEF IInv, FrontInv, SessionInv, SessionOK
<1>1. FrontEndsTypeOK
  <2>1. Listed \subseteq Browsers
    BY <1>0 DEF FrontOK, ListOK, Listed, ToSet
  <2> QED BY <1>0, <2>1 DEF FrontEndsTypeOK, FrontOK
<1>2. ToSet(store.history) \subseteq 1..(MaxEvents + 1)
  BY NumberedHistory
<1>3. ToSet(subs) \subseteq ToSet(Bridges)
  <2>1. ToSet(Bridges) = {"closed", "utterance", "notice"}
    <3>1. /\ DOMAIN Bridges = {1, 2, 3}
          /\ Bridges[1] = "closed" /\ Bridges[2] = "utterance" /\ Bridges[3] = "notice"
      BY DEF Bridges
    <3> QED BY <3>1 DEF ToSet
  <2>2. \A i \in DOMAIN subs : subs[i] \in {"closed", "utterance", "notice"}
    BY <1>0 DEF SubsOK
  <2>3. ToSet(subs) \subseteq {"closed", "utterance", "notice"}
    BY <2>2 DEF ToSet
  <2> QED BY <2>1, <2>3
<1>4. at \in Places /\ worker \in {"none", "running", "ended"} /\ handling.step \in Steps
  BY <1>0 DEF SessionOK, EventsOK
<1>5. store.state \in {"none", "IDLE", "LISTENING", "CLOSED", "deleted"}
  BY <1>0 DEF StoreOK, SessionRecord
<1>6. events \in 0..(MaxEvents + 1)
  BY <1>0 DEF EventsOK, Numbered
<1>7. outcome \in {"none", "missed", "raised", "failed", "made"}
  BY <1>0 DEF StoreOK
<1> QED BY <1>1, <1>2, <1>3, <1>4, <1>5, <1>6, <1>7 DEF TypeOK, Places, Steps, NumberedRead

(***************************************************************************)
(* Type correctness of the whole session: a history only holds numbers of  *)
(* events that were published, and no bound of the model is passed.        *)
(***************************************************************************)
THEOREM SessionTypeCorrect == Spec => []TypeOK
<1>1. Init => Numbered /\ NumberedRead
  <2>1. ToSet(<<>>) = {}
    BY DEF ToSet
  <2> QED BY <2>1, IdleTyped, KindsOfRest DEF Init, Numbered, NumberedRead, Queued
<1> QED BY <1>1, NumberedStep, NumberedReadStep, NumberedTypes, Invariance, PTL DEF Spec
=============================================================================
