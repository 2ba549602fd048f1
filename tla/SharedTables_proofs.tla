------------------------ MODULE SharedTables_proofs ------------------------
(***************************************************************************)
(* What calls and workers do to the tables they share. For any number of   *)
(* workers, connections and streams, a stream without a failed claim and   *)
(* without a call older than two hours is served by one connection at a    *)
(* time; for any number of calls and telephone numbers, a call that read   *)
(* the memory of its client saves it again with the new summary.           *)
(***************************************************************************)
EXTENDS StreamClaims, ClientMemory, FiniteSetTheorems, TLAPS

(* The claims of streams *)

(* Exclusion alone is not inductive: that nobody else can claim the stream *)
(* rests on its row being there, fresh, and made by the one that serves.   *)
RowOfItsSession(s) ==
  s \notin faulty /\ ServersOf(s) # {} => s \in claims \ aged /\ ServersOf(s) = {holder[s]}
RowsOutliveSessions == \A s \in Streams : RowOfItsSession(s)

StreamIInv == StreamTypeOK /\ RowsOutliveSessions

(* Every step keeps the type. *)
LEMMA StreamTypeStep == StreamTypeOK /\ [StreamNext]_streamVars => StreamTypeOK'
<1> SUFFICES ASSUME StreamTypeOK, [StreamNext]_streamVars PROVE StreamTypeOK'
  OBVIOUS
<1> USE StreamAssumption DEF StreamTypeOK, StreamPlaces
<1>1. ASSUME NEW w \in Workers, StartUp(w) PROVE StreamTypeOK'
  BY <1>1 DEF StartUp
<1>2. ASSUME NEW w \in Workers, ShutDown(w) PROVE StreamTypeOK'
  BY <1>2 DEF ShutDown
<1>3. ASSUME NEW w \in Workers, Crash(w) PROVE StreamTypeOK'
  <2> DEFINE Records == [at : StreamPlaces, worker : Workers, stream : Streams \cup {NoStream}]
             Lost(r) == [r EXCEPT !.at = "ended", !.stream = NoStream]
  <2>1. \A r \in Records : Lost(r) \in Records
    OBVIOUS
  <2>2. conn' = [c \in Conns |-> IF conn[c].worker = w /\ conn[c].at # "none"
                                THEN Lost(conn[c]) ELSE conn[c]]
    BY <1>3 DEF Crash
  <2> HIDE DEF Lost
  <2>3. conn' \in [Conns -> Records]
    BY <2>1, <2>2
  <2>4. /\ up' = up \ {w} /\ cleaning' = cleaning \ {w} /\ stops' = stops + 1
        /\ UNCHANGED <<claims, aged, holder, faulty>>
    BY <1>3 DEF Crash
  <2> QED BY <2>3, <2>4
<1>4. ASSUME NEW w \in Workers, CleanUp(w) PROVE StreamTypeOK'
  BY <1>4 DEF CleanUp, Delete
<1>5. ASSUME NEW c \in Conns, Connection(c) PROVE StreamTypeOK'
  <2>1. CASE Accept(c) \/ NoStart(c) \/ BadParameters(c) \/ EnterSession(c) \/ LeaveSession(c)
    BY <2>1 DEF Accept, NoStart, BadParameters, EnterSession, LeaveSession, At, Ends
  <2>2. CASE Release(c) \/ ReleaseFails(c)
    BY <2>2 DEF Release, ReleaseFails, Ends, Delete
  <2>3. CASE \E s \in Streams : Claim(c, s) \/ Reject(c, s) \/ ClaimFails(c, s)
    BY <2>3 DEF Claim, Reject, ClaimFails, Ends, Insert
  <2> QED BY <1>5, <2>1, <2>2, <2>3 DEF Connection
<1>6. ASSUME NEW s \in Streams, Age(s) PROVE StreamTypeOK'
  BY <1>6 DEF Age
<1>7. CASE UNCHANGED streamVars
  BY <1>7 DEF streamVars
<1> QED BY <1>1, <1>2, <1>3, <1>4, <1>5, <1>6, <1>7 DEF StreamNext

(* A step that only takes servers away from a stream, and touches neither  *)
(* its row nor its history, keeps the row of its session.                  *)
LEMMA FewerServers ==
  ASSUME NEW s \in Streams, RowOfItsSession(s), ServersOf(s)' \subseteq ServersOf(s),
         s \in claims => s \in claims', s \in aged' => s \in aged,
         holder'[s] = holder[s], s \in faulty => s \in faulty'
  PROVE  RowOfItsSession(s)'
BY DEF RowOfItsSession

(* No connection but c moves, and c does not serve: no stream gains. *)
LEMMA OneStops ==
  ASSUME StreamTypeOK, NEW c \in Conns, NEW s \in Streams,
         \A d \in Conns \ {c} : conn'[d] = conn[d],
         conn'[c].at \in {"none", "accepted", "ended"}
  PROVE  ServersOf(s)' = ServersOf(s) \ {c}
BY DEF ServersOf, Serving, StreamTypeOK

(* No step takes the row from the only session of a healthy stream. *)
LEMMA RowStep == StreamIInv /\ [StreamNext]_streamVars => RowsOutliveSessions'
<1> SUFFICES ASSUME StreamTypeOK, RowsOutliveSessions, [StreamNext]_streamVars, NEW s \in Streams
             PROVE  RowOfItsSession(s)'
  BY DEF StreamIInv, RowsOutliveSessions
<1>0. RowOfItsSession(s)
  BY DEF RowsOutliveSessions
<1>1. ASSUME NEW w \in Workers, StartUp(w) \/ ShutDown(w) PROVE RowOfItsSession(s)'
  BY <1>0, <1>1 DEF StartUp, ShutDown, RowOfItsSession, ServersOf, Serving
<1>2. ASSUME NEW w \in Workers, Crash(w) PROVE RowOfItsSession(s)'
  <2>1. ServersOf(s)' \subseteq ServersOf(s)
    BY <1>2 DEF Crash, ServersOf, Serving, StreamTypeOK
  <2> QED BY <1>0, <1>2, <2>1, FewerServers DEF Crash
<1>3. ASSUME NEW w \in Workers, CleanUp(w) PROVE RowOfItsSession(s)'
  BY <1>0, <1>3 DEF CleanUp, Delete, RowOfItsSession, ServersOf, Serving
<1>4. ASSUME NEW t \in Streams, Age(t) PROVE RowOfItsSession(s)'
  <2>1. ServersOf(s)' = ServersOf(s)
    BY <1>4 DEF Age, ServersOf, Serving
  <2> QED BY <1>0, <1>4, <2>1 DEF Age, RowOfItsSession
<1>5. ASSUME NEW c \in Conns, Connection(c) PROVE RowOfItsSession(s)'
  <2>1. CASE Accept(c) \/ NoStart(c) \/ BadParameters(c) \/ ReleaseFails(c)
    <3>1. ServersOf(s)' = ServersOf(s) \ {c}
      BY <2>1, OneStops DEF Accept, NoStart, BadParameters, ReleaseFails, At, Ends, StreamTypeOK
    <3> QED BY <1>0, <2>1, <3>1, FewerServers DEF Accept, NoStart, BadParameters, ReleaseFails
  <2>2. CASE EnterSession(c) \/ LeaveSession(c)
    <3>1. ServersOf(s)' = ServersOf(s)
      BY <2>2 DEF EnterSession, LeaveSession, At, ServersOf, Serving, StreamTypeOK
    <3> QED BY <1>0, <2>2, <3>1, FewerServers DEF EnterSession, LeaveSession
  <2>3. CASE Release(c)
    <3>1. ServersOf(s)' = ServersOf(s) \ {c}
      BY <2>3, OneStops DEF Release, Ends, StreamTypeOK
    <3>2. CASE conn[c].stream = s
      \* c was the only server, so none is left
      <4>1. c \in ServersOf(s)
        BY <2>3, <3>2 DEF Release, ServersOf, Serving
      <4>2. s \notin faulty => ServersOf(s)' = {}
        BY <1>0, <3>1, <4>1 DEF RowOfItsSession
      <4> QED BY <2>3, <4>2 DEF RowOfItsSession, Release
    <3>3. CASE conn[c].stream # s
      BY <1>0, <2>3, <3>1, <3>3, FewerServers DEF Release, Delete, StreamTypeOK
    <3> QED BY <3>2, <3>3
  <2>4. ASSUME NEW t \in Streams, Claim(c, t) PROVE RowOfItsSession(s)'
    <3>1. \A d \in Conns \ {c} : conn'[d] = conn[d]
      BY <2>4 DEF Claim, StreamTypeOK
    <3>2. conn'[c].at = "claimed" /\ conn'[c].stream = t /\ c \notin ServersOf(s)
      BY <2>4 DEF Claim, StreamTypeOK, ServersOf, Serving
    <3>3. CASE s = t
      <4>1. s \notin faulty => ServersOf(s) = {}
        BY <1>0, <2>4, <3>3 DEF Claim, RowOfItsSession
      <4>2. s \notin faulty => ServersOf(s)' = {c}
        BY <3>1, <3>2, <3>3, <4>1 DEF ServersOf, Serving
      <4>3. s \in claims' \ aged' /\ holder'[s] = c /\ faulty' = faulty
        BY <2>4, <3>3 DEF Claim, Insert, StreamTypeOK
      <4> QED BY <4>2, <4>3 DEF RowOfItsSession
    <3>4. CASE s # t
      <4>1. ServersOf(s)' = ServersOf(s)
        BY <3>1, <3>2, <3>4 DEF ServersOf, Serving
      <4> QED BY <1>0, <2>4, <3>4, <4>1, FewerServers DEF Claim, Insert, StreamTypeOK
    <3> QED BY <3>3, <3>4
  <2>5. ASSUME NEW t \in Streams, Reject(c, t) PROVE RowOfItsSession(s)'
    <3>1. ServersOf(s)' = ServersOf(s) \ {c}
      BY <2>5, OneStops DEF Reject, Ends, StreamTypeOK
    <3> QED BY <1>0, <2>5, <3>1, FewerServers DEF Reject
  <2>6. ASSUME NEW t \in Streams, ClaimFails(c, t) PROVE RowOfItsSession(s)'
    <3>1. CASE s = t
      BY <2>6, <3>1 DEF ClaimFails, RowOfItsSession
    <3>2. CASE s # t
      <4>1. ServersOf(s)' = ServersOf(s)
        BY <2>6, <3>2 DEF ClaimFails, ServersOf, Serving, StreamTypeOK
      <4> QED BY <1>0, <2>6, <3>2, <4>1, FewerServers DEF ClaimFails, Insert, StreamTypeOK
    <3> QED BY <3>1, <3>2
  <2> QED BY <1>5, <2>1, <2>2, <2>3, <2>4, <2>5, <2>6 DEF Connection
<1>6. CASE UNCHANGED streamVars
  BY <1>0, <1>6 DEF streamVars, RowOfItsSession, ServersOf, Serving
<1> QED BY <1>1, <1>2, <1>3, <1>4, <1>5, <1>6 DEF StreamNext

(* The strengthening holds in every reachable state. *)
THEOREM StreamInvariant == StreamSpec => []StreamIInv
<1>1. StreamInit => StreamIInv
  BY StreamAssumption DEF StreamInit, StreamIInv, StreamTypeOK, StreamPlaces,
     RowsOutliveSessions, RowOfItsSession, ServersOf, Serving
<1>2. StreamIInv /\ [StreamNext]_streamVars => StreamIInv'
  BY StreamTypeStep, RowStep DEF StreamIInv
<1> QED BY <1>1, <1>2, PTL DEF StreamSpec

(* The table and the handlers keep their type. *)
THEOREM StreamTypeCorrect == StreamSpec => []StreamTypeOK
BY StreamInvariant, PTL DEF StreamIInv

(* A healthy stream is never served twice at once: main.py:313. *)
THEOREM OneSessionPerStreamCorrect == StreamSpec => []OneSessionPerStream
<1>1. StreamIInv => OneSessionPerStream
  <2> SUFFICES ASSUME StreamIInv, NEW s \in Streams \ faulty PROVE Cardinality(ServersOf(s)) <= 1
    BY DEF OneSessionPerStream
  <2>1. ServersOf(s) = {} \/ ServersOf(s) = {holder[s]}
    BY DEF StreamIInv, RowsOutliveSessions, RowOfItsSession
  <2>2. CASE ServersOf(s) = {}
    <3>1. Cardinality(ServersOf(s)) = 0
      BY <2>2, FS_EmptySet
    <3> QED BY <3>1
  <2>3. CASE ServersOf(s) = {holder[s]}
    <3>1. Cardinality(ServersOf(s)) = 1
      BY <2>3, FS_Singleton
    <3> QED BY <3>1
  <2> QED BY <2>1, <2>2, <2>3
<1> QED BY <1>1, StreamInvariant, PTL

-----------------------------------------------------------------------------
(* The memory of clients *)

Carried == {"answered", "prefetched", "session", "close_insert", "summarise"}

(* A call's id names a committed row, or the row of its own transaction,   *)
(* unless a rollback has taken that away; whoever gets to the end has one. *)
IdIsRight(c) ==
  /\ call[c].at = "new" => call[c].client = "none"
  /\ call[c].client = "row" => Phone(c) \in clients
  /\ Live(c) /\ call[c].client = "new" => inserting[Phone(c)] = c
  /\ call[c].at = "ws_read" => call[c].client = "new"
  /\ call[c].at \in {"summarise", "save", "write"} => call[c].client # "none"
  /\ call[c].at = "write" /\ call[c].found => call[c].client = "row"

(* What was stored since the call began is still stored, and every carrier *)
(* of the summary has it: the parameters, the session, the new text.       *)
KnownIsCarried(c) ==
  /\ call[c].at = "new" => call[c].blind
  /\ Live(c) => call[c].known \subseteq Stored(Phone(c))
  /\ call[c].at \in Carried /\ ~call[c].blind => call[c].known \subseteq call[c].prev
  /\ call[c].at \in {"save", "write"} /\ ~call[c].blind /\ ~call[c].tagged =>
       call[c].known \subseteq call[c].text

(* A number without a committed row has no summary. *)
SummariesHaveClients == DOMAIN summaries \subseteq clients
InsertedIsNew == \A p \in Phones : ~Free(p) => p \notin clients
CallsAreRight == \A c \in Calls : IdIsRight(c) /\ KnownIsCarried(c)

MemoryIInv == TypeOK /\ SummariesHaveClients /\ InsertedIsNew /\ CallsAreRight

(* A call with one field replaced is a call. *)
LEMMA FieldTyped ==
  ASSUME NEW r \in Call
  PROVE  /\ \A place \in Places : [r EXCEPT !.at = place] \in Call
         /\ \A client \in {"none", "row", "new", "dangling"} : [r EXCEPT !.client = client] \in Call
         /\ \A prev \in SUBSET Calls : [r EXCEPT !.prev = prev] \in Call
         /\ \A blind \in BOOLEAN : [r EXCEPT !.blind = blind] \in Call
         /\ \A known \in SUBSET Calls : [r EXCEPT !.known = known] \in Call
         /\ \A text \in SUBSET Calls : [r EXCEPT !.text = text] \in Call
         /\ \A tries \in 0..2 : [r EXCEPT !.tries = tries] \in Call
         /\ \A found \in BOOLEAN : [r EXCEPT !.found = found] \in Call
         /\ \A tagged \in BOOLEAN : [r EXCEPT !.tagged = tagged] \in Call
BY DEF Call

(* A call that is answered, or has read the memory again, has its type. *)
LEMMA CarriesTyped ==
  ASSUME call \in [Calls -> Call], NEW c \in Calls, NEW place \in Places,
         NEW client \in {"none", "row", "new", "dangling"}, NEW prev \in SUBSET Calls,
         NEW blind \in BOOLEAN,
         call' = [call EXCEPT ![c].at = place, ![c].client = client, ![c].prev = prev,
                              ![c].blind = blind]
  PROVE  call' \in [Calls -> Call]
<1> DEFINE r1 == [call[c] EXCEPT !.at = place]
           r2 == [r1 EXCEPT !.client = client]
           r3 == [r2 EXCEPT !.prev = prev]
           r4 == [r3 EXCEPT !.blind = blind]
<1>1. r1 \in Call
  BY FieldTyped
<1>2. r2 \in Call
  <2> HIDE DEF r1
  <2> QED BY <1>1, FieldTyped
<1>3. r3 \in Call
  <2> HIDE DEF r2
  <2> QED BY <1>2, FieldTyped
<1>4. r4 \in Call
  <2> HIDE DEF r3
  <2> QED BY <1>3, FieldTyped
<1>5. call' = [call EXCEPT ![c] = r4]
  OBVIOUS
<1> HIDE DEF r4
<1> QED BY <1>4, <1>5

(* Every step keeps the type. *)
LEMMA MemoryTypeStep == TypeOK /\ [Next]_vars => TypeOK'
<1> SUFFICES ASSUME TypeOK, [Next]_vars PROVE TypeOK'
  OBVIOUS
<1>1. ASSUME NEW c \in Calls, Step(c) PROVE TypeOK'
  <2> USE MemoryAssumption DEF TypeOK
  <2>0. Phone(c) \in Phones /\ Stored(Phone(c)) \in SUBSET Calls
    BY DEF Phone, Stored, Call
  <2>a. \A client \in {"none", "row", "new", "dangling"}, prev \in SUBSET Calls, blind \in BOOLEAN :
          Answer(c, client, prev, blind) \/ Prefetched(c, client, prev, blind) =>
            call' \in [Calls -> Call]
    <3> TAKE client \in {"none", "row", "new", "dangling"}, prev \in SUBSET Calls, blind \in BOOLEAN
    <3>1. "answered" \in Places /\ "prefetched" \in Places
      BY DEF Places
    <3>2. call \in [Calls -> Call]
      OBVIOUS
    <3> HIDE DEF TypeOK, Call, Places
    <3>3. ASSUME Answer(c, client, prev, blind) PROVE call' \in [Calls -> Call]
      BY <3>1, <3>2, <3>3, CarriesTyped DEF Answer
    <3>4. ASSUME Prefetched(c, client, prev, blind) PROVE call' \in [Calls -> Call]
      BY <3>1, <3>2, <3>4, CarriesTyped DEF Prefetched
    <3> QED BY <3>3, <3>4
  <2>d. \A place \in Places : call' = [call EXCEPT ![c].at = place] => call' \in [Calls -> Call]
    <3> TAKE place \in Places
    <3>1. [call[c] EXCEPT !.at = place] \in Call
      BY FieldTyped
    <3>2. call \in [Calls -> Call]
      OBVIOUS
    <3> HIDE DEF TypeOK, Call, Places
    <3> QED BY <3>1, <3>2
  <2>b. AttemptFails(c) => call' \in [Calls -> Call] /\ disturbed' \in SUBSET Phones
    <3>1. CASE call[c].tries = 1
      <4> DEFINE r1 == [call[c] EXCEPT !.at = "hook_lookup"]
                 r2 == [r1 EXCEPT !.tries = 2]
      <4>1. r1 \in Call
        BY FieldTyped DEF Places, Hook
      <4>2. r2 \in Call
        <5> HIDE DEF r1
        <5>1. 2 \in 0..2
          OBVIOUS
        <5>2. \A tries \in 0..2 : [r1 EXCEPT !.tries = tries] \in Call
          BY <4>1, FieldTyped
        <5> QED BY <5>1, <5>2
      <4>3. AttemptFails(c) => call' = [call EXCEPT ![c] = r2]
        BY <3>1 DEF AttemptFails
      <4> HIDE DEF r2
      <4>4. AttemptFails(c) => call' \in [Calls -> Call]
        BY <4>2, <4>3
      <4> QED BY <2>0, <4>4 DEF AttemptFails, Fails
    <3>2. CASE call[c].tries # 1
      BY <2>0, <2>a, <3>2 DEF AttemptFails, Fails
    <3> QED BY <3>1, <3>2
  <2>1. CASE Webhook(c) \/ JoinRoom(c)
    <3>1. ASSUME NEW place \in Places, Begins(c, place) PROVE TypeOK'
      <4> DEFINE r1 == [call[c] EXCEPT !.at = place]
                 r2 == [r1 EXCEPT !.tries = 1]
                 r3 == [r2 EXCEPT !.known = Stored(Phone(c))]
      <4>1. r1 \in Call
        BY FieldTyped
      <4>2. r2 \in Call
        <5> HIDE DEF r1
        <5>1. 1 \in 0..2
          OBVIOUS
        <5>2. \A tries \in 0..2 : [r1 EXCEPT !.tries = tries] \in Call
          BY <4>1, FieldTyped
        <5> QED BY <5>1, <5>2
      <4>3. r3 \in Call
        <5> HIDE DEF r2
        <5> QED BY <2>0, <4>2, FieldTyped
      <4>4. call' = [call EXCEPT ![c] = r3]
        BY <3>1 DEF Begins
      <4> HIDE DEF r3
      <4>5. call' \in [Calls -> Call]
        BY <4>3, <4>4
      <4> QED BY <2>0, <3>1, <4>5 DEF Begins
    <3> QED BY <2>1, <3>1 DEF Webhook, JoinRoom, Places, Hook
  <2>2. CASE HookLooksUp(c)
    <3>1. CASE Phone(c) \in clients
      BY <2>0, <2>2, <2>a, <3>1 DEF HookLooksUp
    <3>2. CASE Phone(c) \notin clients
      BY <2>2, <3>2 DEF HookLooksUp, Call, Places, Hook
    <3> QED BY <3>1, <3>2
  <2>3. CASE HookInserts(c)
    BY <2>0, <2>3, <2>a, <2>b DEF HookInserts
  <2>4. CASE HookErrs(c) \/ HookTimesOut(c)
    BY <2>0, <2>4, <2>a, <2>b DEF HookErrs, HookTimesOut, Fails
  <2>5. CASE Connect(c)
    BY <2>5 DEF Connect, Call, Places, Socket
  <2>6. CASE WsLooksUp(c)
    <3>1. CASE call[c].client = "row" \/ Phone(c) \in clients
      BY <2>0, <2>6, <2>a, <3>1 DEF WsLooksUp
    <3>2. CASE ~(call[c].client = "row" \/ Phone(c) \in clients)
      BY <2>6, <3>2 DEF WsLooksUp, Call, Places, Socket
    <3> QED BY <3>1, <3>2
  <2>7. CASE WsInserts(c)
    <3>1. CASE Phone(c) \in clients
      BY <2>0, <2>7, <2>a, <3>1 DEF WsInserts, Fails
    <3>2. CASE Phone(c) \notin clients
      <4> DEFINE r1 == [call[c] EXCEPT !.at = "ws_read"]
                 r2 == [r1 EXCEPT !.client = "new"]
      <4>1. r1 \in Call
        BY FieldTyped DEF Places, Socket
      <4>2. r2 \in Call
        <5> HIDE DEF r1
        <5> QED BY <4>1, FieldTyped
      <4>3. call' = [call EXCEPT ![c] = r2]
        BY <2>7, <3>2 DEF WsInserts
      <4> HIDE DEF r2
      <4>4. call' \in [Calls -> Call]
        BY <4>2, <4>3
      <4> QED BY <2>7, <2>0, <3>2, <4>4 DEF WsInserts
    <3> QED BY <3>1, <3>2
  <2>8. CASE WsCommits(c) \/ WsFails(c)
    <3>1. call' \in [Calls -> Call]
      <4>1. "row" \in {"none", "row", "new", "dangling"} /\ {} \in SUBSET Calls
        OBVIOUS
      <4>2. \E client \in {"none", "row", "new", "dangling"}, blind \in BOOLEAN :
              Prefetched(c, client, {}, blind)
        BY <2>8, <4>1 DEF WsCommits, WsFails
      <4> QED BY <2>a, <4>1, <4>2
    <3>2. inserting' \in [Phones -> Calls \cup {NoCall}]
      BY <2>8 DEF WsCommits, WsFails, End
    <3> QED BY <2>0, <2>8, <3>1, <3>2 DEF WsCommits, WsFails, Created, Fails
  <2>9. CASE BeginSession(c)
    <3>1. call' \in [Calls -> Call]
      BY <2>d, <2>9 DEF BeginSession, Places
    <3>2. rows' \in [Calls -> {"none", "ACTIVE", "CLOSED"}]
      BY <2>9 DEF BeginSession
    <3> QED BY <2>9, <3>1, <3>2 DEF BeginSession
  <2>10. CASE CloseLooksUp(c)
    <3> DEFINE client == IF call[c].client = "none" /\ Phone(c) \in clients THEN "row" ELSE call[c].client
               place == IF call[c].client = "none" /\ Phone(c) \notin clients
                        THEN "close_insert" ELSE "summarise"
               r1 == [call[c] EXCEPT !.client = client]
               r2 == [r1 EXCEPT !.at = place]
    <3>1. client \in {"none", "row", "new", "dangling"} /\ place \in Places
      BY DEF Call, Places, Closing
    <3>2. call' = [call EXCEPT ![c] = r2]
      BY <2>10 DEF CloseLooksUp
    <3> HIDE DEF client, place
    <3>3. r1 \in Call
      BY <3>1, FieldTyped
    <3>4. r2 \in Call
      <4> HIDE DEF r1
      <4> QED BY <3>1, <3>3, FieldTyped
    <3> HIDE DEF r2
    <3>5. call' \in [Calls -> Call]
      BY <3>2, <3>4
    <3> QED BY <2>10, <3>5 DEF CloseLooksUp
  <2>11. CASE CloseInserts(c) \/ CloseFails(c) \/ Dies(c)
    <3>1. ASSUME CloseRaises(c) \/ Dies(c) PROVE TypeOK'
      <4>1. call' \in [Calls -> Call]
        BY <2>d, <3>1 DEF CloseRaises, Dies, Places
      <4>2. inserting' \in [Phones -> Calls \cup {NoCall}]
        BY <3>1 DEF CloseRaises, Dies, End
      <4> QED BY <2>0, <3>1, <4>1, <4>2 DEF CloseRaises, Dies, Fails
    <3>2. ASSUME CloseInserts(c), ~CloseRaises(c) PROVE TypeOK'
      <4> DEFINE r1 == [call[c] EXCEPT !.at = "summarise"]
                 r2 == [r1 EXCEPT !.client = "new"]
      <4>1. r1 \in Call
        BY FieldTyped DEF Places, Closing
      <4>2. r2 \in Call
        <5> HIDE DEF r1
        <5> QED BY <4>1, FieldTyped
      <4>3. call' = [call EXCEPT ![c] = r2]
        BY <3>2 DEF CloseInserts
      <4> HIDE DEF r2
      <4>4. call' \in [Calls -> Call]
        BY <4>2, <4>3
      <4> QED BY <2>0, <3>2, <4>4 DEF CloseInserts
    <3> QED BY <2>11, <3>1, <3>2 DEF CloseFails
  <2>12. CASE Summarises(c) \/ FallsBack(c) \/ OnlyTheTag(c) \/ SaveLooksUp(c)
    BY <2>0, <2>12 DEF Summarises, FallsBack, OnlyTheTag, SaveLooksUp, Text, Fails,
                      Call, Places, Closing
  <2>13. CASE SaveWrites(c)
    <3>1. CASE CloseRaises(c)
      BY <2>0, <2>13, <3>1 DEF CloseRaises, End, Fails, Call, Places
    <3>2. CASE ~CloseRaises(c)
      <4>1. call' \in [Calls -> Call]
        <5> DEFINE Known(r) == [r EXCEPT !.known = @ \cap call[c].text]
        <5>1. \A d \in Calls : Known(call[d]) \in Call
          BY DEF Call
        <5>2. call' = [d \in Calls |->
                IF d = c THEN [call[c] EXCEPT !.at = "ended"]
                ELSE IF Phone(d) = Phone(c) THEN Known(call[d]) ELSE call[d]]
          BY <2>13, <3>2 DEF SaveWrites
        <5>3. [call[c] EXCEPT !.at = "ended"] \in Call
          BY DEF Call, Places
        <5> HIDE DEF Known
        <5> QED BY <5>1, <5>2, <5>3
      <4>2. /\ DOMAIN summaries' \in SUBSET Phones
            /\ \A p \in DOMAIN summaries' : summaries'[p] \in SUBSET Calls
        BY <2>0, <2>13, <3>2 DEF SaveWrites, Call
      <4>3. /\ rows' \in [Calls -> {"none", "ACTIVE", "CLOSED"}]
            /\ clients' \in SUBSET Phones /\ saved' \in SUBSET Calls
            /\ inserting' \in [Phones -> Calls \cup {NoCall}] /\ disturbed' \in SUBSET Phones
        BY <2>0, <2>13, <3>2 DEF SaveWrites, Created, End
      <4> QED BY <4>1, <4>2, <4>3
    <3> QED BY <3>1, <3>2
  <2> QED BY <1>1, <2>1, <2>2, <2>3, <2>4, <2>5, <2>6, <2>7, <2>8, <2>9, <2>10, <2>11, <2>12, <2>13
          DEF Step
<1>2. CASE UNCHANGED vars
  BY <1>2 DEF vars, TypeOK
<1> QED BY <1>1, <1>2 DEF Next

(* A call is disturbed in what it carries only by its own steps, as long   *)
(* as rows are added, no summary changes and its insert stays open.        *)
LEMMA OtherCall ==
  ASSUME NEW d \in Calls, IdIsRight(d), KnownIsCarried(d),
         call'[d] = call[d], clients \subseteq clients', summaries' = summaries,
         inserting[Phone(d)] = d => inserting'[Phone(d)] = d
  PROVE  IdIsRight(d)' /\ KnownIsCarried(d)'
BY DEF IdIsRight, KnownIsCarried, Phone, Stored, Live

(* A step of one call that leaves the summaries alone keeps the invariant  *)
(* if that call stays right and if no insert of another call is touched.   *)
LEMMA OwnStep ==
  ASSUME MemoryIInv, NEW c \in Calls, IdIsRight(c)', KnownIsCarried(c)', InsertedIsNew',
         \A d \in Calls \ {c} : call'[d] = call[d],
         \A d \in Calls \ {c} : inserting[Phone(d)] = d => inserting'[Phone(d)] = d,
         clients \subseteq clients', summaries' = summaries
  PROVE  (SummariesHaveClients /\ InsertedIsNew /\ CallsAreRight)'
<1>1. SummariesHaveClients'
  BY DEF MemoryIInv, SummariesHaveClients
<1>2. ASSUME NEW d \in Calls PROVE IdIsRight(d)' /\ KnownIsCarried(d)'
  <2>1. CASE d = c
    BY <2>1
  <2>2. CASE d # c
    BY <2>2, OtherCall DEF MemoryIInv, CallsAreRight
  <2> QED BY <2>1, <2>2
<1> QED BY <1>1, <1>2 DEF CallsAreRight

(* When nothing is inserted or committed, only the call itself is left. *)
LEMMA QuietStep ==
  ASSUME MemoryIInv, NEW c \in Calls, IdIsRight(c)', KnownIsCarried(c)',
         \A d \in Calls \ {c} : call'[d] = call[d],
         UNCHANGED <<clients, inserting, summaries>>
  PROVE  (SummariesHaveClients /\ InsertedIsNew /\ CallsAreRight)'
<1>1. InsertedIsNew'
  BY DEF MemoryIInv, InsertedIsNew, Free
<1> QED BY <1>1, OwnStep

(* The end of a transaction: what it inserted is committed or rolled back. *)
LEMMA EndStep ==
  ASSUME MemoryIInv, NEW c \in Calls, IdIsRight(c)', KnownIsCarried(c)', End(c),
         \A d \in Calls \ {c} : call'[d] = call[d],
         clients \subseteq clients', clients' \subseteq Created(c), Live(c), summaries' = summaries
  PROVE  (SummariesHaveClients /\ InsertedIsNew /\ CallsAreRight)'
<1>1. \A d \in Calls \ {c} : inserting[Phone(d)] = d => inserting'[Phone(d)] = d
  BY DEF End, MemoryIInv, TypeOK, Phone, Call
<1>2. InsertedIsNew'
  <2> SUFFICES ASSUME NEW p \in Phones, inserting'[p] # NoCall PROVE p \notin clients'
    BY DEF InsertedIsNew, Free
  <2>1. inserting[p] # NoCall /\ inserting[p] # c
    BY DEF End
  <2>2. p \notin clients
    BY <2>1 DEF MemoryIInv, InsertedIsNew, Free
  <2>3. call[c].client = "new" => inserting[Phone(c)] = c
    BY DEF MemoryIInv, CallsAreRight, IdIsRight
  <2> QED BY <2>1, <2>2, <2>3 DEF Created
<1> QED BY <1>1, <1>2, OwnStep

(* A call whose row is still to be committed knows of nothing. *)
LEMMA NewKnowsNothing ==
  ASSUME MemoryIInv, NEW c \in Calls, Live(c), Phone(c) \notin clients
  PROVE  call[c].known = {}
BY DEF MemoryIInv, CallsAreRight, KnownIsCarried, Stored, SummariesHaveClients

(* The new summary is committed: the calls of the same client that are on  *)
(* the line know no more than what it kept.                                *)
LEMMA SavedStep ==
  ASSUME MemoryIInv, NEW c \in Calls, SaveWrites(c), ~CloseRaises(c)
  PROVE  (SummariesHaveClients /\ InsertedIsNew /\ CallsAreRight)'
<1>0. /\ TypeOK /\ Phone(c) \in Phones /\ IdIsRight(c)
      /\ call[c].text \in SUBSET Calls /\ Live(c)
  BY DEF MemoryIInv, CallsAreRight, TypeOK, Call, Phone, SaveWrites, Live
<1>1. /\ summaries' = [p \in DOMAIN summaries \cup {Phone(c)} |->
                        IF p = Phone(c) THEN call[c].text ELSE summaries[p]]
      /\ call' = [d \in Calls |->
           IF d = c THEN [call[c] EXCEPT !.at = "ended"]
           ELSE IF Phone(d) = Phone(c) THEN [call[d] EXCEPT !.known = @ \cap call[c].text]
           ELSE call[d]]
      /\ clients' = Created(c) /\ End(c)
  BY DEF SaveWrites
<1>2. clients \subseteq clients' /\ Phone(c) \in clients'
  <2>1. call[c].client \in {"row", "new"}
    BY <1>0 DEF SaveWrites, IdIsRight, TypeOK, Call
  <2> QED BY <1>0, <1>1, <2>1 DEF Created, IdIsRight
<1>3. SummariesHaveClients'
  BY <1>1, <1>2 DEF MemoryIInv, SummariesHaveClients
<1>4. InsertedIsNew'
  <2> SUFFICES ASSUME NEW p \in Phones, inserting'[p] # NoCall PROVE p \notin clients'
    BY DEF InsertedIsNew, Free
  <2>1. inserting[p] # NoCall /\ inserting[p] # c
    BY <1>1 DEF End
  <2>2. p \notin clients
    BY <2>1 DEF MemoryIInv, InsertedIsNew, Free
  <2>3. call[c].client = "new" => inserting[Phone(c)] = c
    BY <1>0 DEF IdIsRight
  <2> QED BY <1>1, <2>1, <2>2, <2>3 DEF Created
<1>5. ASSUME NEW d \in Calls PROVE IdIsRight(d)' /\ KnownIsCarried(d)'
  <2>0. /\ IdIsRight(d) /\ KnownIsCarried(d) /\ call[d] \in Call /\ call[c] \in Call
        /\ Phone(d) \in Phones
    BY <1>0 DEF MemoryIInv, CallsAreRight, TypeOK, Phone, Call
  <2>1. CASE d = c
    <3>1. call'[c].at = "ended" /\ call'[c].client = call[c].client /\ Phone(c)' = Phone(c)
      BY <1>1, <2>0, <2>1 DEF Call, Phone
    <3> QED BY <1>2, <2>0, <2>1, <3>1 DEF IdIsRight, KnownIsCarried, Live, Carried
  <2>2. CASE d # c /\ Phone(d) = Phone(c)
    <3>1. call'[d] = [call[d] EXCEPT !.known = @ \cap call[c].text]
      BY <1>1, <2>2
    <3>2. /\ call'[d].known = call[d].known \cap call[c].text
          /\ call'[d].at = call[d].at /\ call'[d].client = call[d].client
          /\ call'[d].found = call[d].found /\ call'[d].blind = call[d].blind
          /\ call'[d].prev = call[d].prev /\ call'[d].text = call[d].text
          /\ call'[d].tagged = call[d].tagged /\ Phone(d)' = Phone(d)
      BY <2>0, <3>1 DEF Call, Phone
    <3>3. Stored(Phone(d))' = call[c].text
      BY <1>1, <2>2, <3>2 DEF Stored
    <3>4. inserting[Phone(d)] = d => inserting'[Phone(d)] = d
      BY <1>1, <2>0, <2>2 DEF End
    <3>5. KnownIsCarried(d)'
      BY <2>0, <3>2, <3>3 DEF KnownIsCarried, Live
    <3> QED BY <1>2, <2>0, <3>2, <3>4, <3>5 DEF IdIsRight, Live
  <2>3. CASE d # c /\ Phone(d) # Phone(c)
    <3>1. call'[d] = call[d]
      BY <1>1, <2>3
    <3>2. Phone(d)' = Phone(d) /\ Stored(Phone(d))' = Stored(Phone(d))
      BY <1>1, <2>3, <3>1 DEF Stored, Phone
    <3>3. inserting[Phone(d)] = d => inserting'[Phone(d)] = d
      BY <1>1, <2>0, <2>3 DEF End
    <3> QED BY <1>2, <2>0, <3>1, <3>2, <3>3 DEF IdIsRight, KnownIsCarried, Live
  <2> QED BY <2>1, <2>2, <2>3
<1> QED BY <1>3, <1>4, <1>5 DEF CallsAreRight

(* No step breaks the invariant. *)
LEMMA CallsStep == MemoryIInv /\ [Next]_vars => (SummariesHaveClients /\ InsertedIsNew /\ CallsAreRight)'
<1> SUFFICES ASSUME MemoryIInv, [Next]_vars
             PROVE  (SummariesHaveClients /\ InsertedIsNew /\ CallsAreRight)'
  OBVIOUS
<1>1. ASSUME NEW c \in Calls, Step(c) PROVE (SummariesHaveClients /\ InsertedIsNew /\ CallsAreRight)'
  <2>0. /\ TypeOK /\ IdIsRight(c) /\ KnownIsCarried(c)
        /\ Phone(c) \in Phones /\ call[c].known \subseteq Calls
    BY DEF MemoryIInv, CallsAreRight, TypeOK, Call, Phone
  <2> USE DEF Hook, Socket, Closing, Carried
  <2> DEFINE Mine == IdIsRight(c)' /\ KnownIsCarried(c)'
             Others == \A d \in Calls \ {c} : call'[d] = call[d]
  <2>1. CASE Webhook(c) \/ JoinRoom(c)
    <3>1. PICK place \in {"hook_lookup", "prefetched"} : Begins(c, place)
      BY <2>1 DEF Webhook, JoinRoom
    <3>2. call'[c].at = place /\ call'[c].known = Stored(Phone(c)) /\ call'[c].client = "none"
          /\ call'[c].blind /\ Phone(c)' = Phone(c) /\ Stored(Phone(c))' = Stored(Phone(c))
      BY <2>0, <3>1 DEF Begins, TypeOK, Call, IdIsRight, KnownIsCarried, Phone, Stored
    <3>3. Mine
      BY <3>2 DEF IdIsRight, KnownIsCarried, Live
    <3>4. Others
      BY <2>0, <3>1 DEF Begins, TypeOK
    <3> QED BY <3>1, <3>3, <3>4, QuietStep DEF Begins
  <2>2. CASE HookLooksUp(c)
    <3>1. Mine
      BY <2>0, <2>2 DEF HookLooksUp, Answer, TypeOK, Call, IdIsRight,
         KnownIsCarried, Phone, Stored, Live
    <3>2. Others
      BY <2>0, <2>2 DEF HookLooksUp, Answer, TypeOK
    <3> QED BY <2>2, <3>1, <3>2, QuietStep DEF HookLooksUp
  <2>3. ASSUME AttemptFails(c), Live(c), UNCHANGED <<clients, inserting, summaries>>
        PROVE  (SummariesHaveClients /\ InsertedIsNew /\ CallsAreRight)'
    <3>1. Mine
      BY <2>0, <2>3 DEF AttemptFails, Answer, TypeOK, Call, IdIsRight,
         KnownIsCarried, Phone, Stored, Live
    <3>2. Others
      BY <2>0, <2>3 DEF AttemptFails, Answer, TypeOK
    <3> QED BY <2>3, <3>1, <3>2, QuietStep
  <2>4. ASSUME Free(Phone(c)), Live(c), Phone(c) \notin clients, clients' = clients \cup {Phone(c)},
               UNCHANGED <<inserting, summaries>>,
               Answer(c, "row", {}, FALSE) \/ Answer(c, "none", {}, TRUE)
        PROVE  (SummariesHaveClients /\ InsertedIsNew /\ CallsAreRight)'
    <3>0. call[c].known = {}
      BY <2>4, NewKnowsNothing
    <3>1. Mine
      BY <2>0, <2>4, <3>0 DEF Answer, TypeOK, Call, IdIsRight, KnownIsCarried,
         Phone, Stored, Live
    <3>2. Others
      BY <2>0, <2>4 DEF Answer, TypeOK
    <3>3. InsertedIsNew'
      BY <2>4 DEF MemoryIInv, InsertedIsNew, Free
    <3> QED BY <2>4, <3>1, <3>2, <3>3, OwnStep
  <2>5. CASE HookInserts(c)
    <3>1. CASE Phone(c) \in clients
      BY <2>3, <2>5, <3>1 DEF HookInserts, Live
    <3>2. CASE Phone(c) \notin clients
      BY <2>4, <2>5, <3>2 DEF HookInserts, Live
    <3> QED BY <3>1, <3>2
  <2>6. CASE HookErrs(c)
    BY <2>3, <2>6 DEF HookErrs, Live
  <2>7. CASE HookTimesOut(c)
    <3>1. CASE clients' = clients
      <4>1. Mine
        BY <2>0, <2>7, <3>1 DEF HookTimesOut, Answer, TypeOK, Call, IdIsRight,
           KnownIsCarried, Phone, Stored, Live
      <4>2. Others
        BY <2>0, <2>7 DEF HookTimesOut, Answer, TypeOK
      <4> QED BY <2>7, <3>1, <4>1, <4>2, QuietStep DEF HookTimesOut
    <3>2. CASE clients' # clients
      BY <2>4, <2>7, <3>2 DEF HookTimesOut, Live
    <3> QED BY <3>1, <3>2
  <2>8. CASE Connect(c)
    <3>1. Mine
      BY <2>0, <2>8 DEF Connect, TypeOK, Call, IdIsRight, KnownIsCarried, Phone, Stored, Live
    <3>2. Others
      BY <2>0, <2>8 DEF Connect, TypeOK
    <3> QED BY <2>8, <3>1, <3>2, QuietStep DEF Connect
  <2>9. CASE WsLooksUp(c)
    <3>1. Mine
      BY <2>0, <2>9 DEF WsLooksUp, Prefetched, TypeOK, Call, IdIsRight,
         KnownIsCarried, Phone, Stored, Live
    <3>2. Others
      BY <2>0, <2>9 DEF WsLooksUp, Prefetched, TypeOK
    <3> QED BY <2>9, <3>1, <3>2, QuietStep DEF WsLooksUp
  <2>10. ASSUME Free(Phone(c)), Live(c), Phone(c) \notin clients, UNCHANGED <<clients, summaries>>,
                inserting' = [inserting EXCEPT ![Phone(c)] = c], Mine, Others
         PROVE  (SummariesHaveClients /\ InsertedIsNew /\ CallsAreRight)'
    <3>1. InsertedIsNew'
      BY <2>0, <2>10 DEF MemoryIInv, InsertedIsNew, Free, TypeOK
    <3>2. \A d \in Calls \ {c} : inserting[Phone(d)] = d => inserting'[Phone(d)] = d
      BY <2>0, <2>10, MemoryAssumption DEF Free, TypeOK
    <3> QED BY <2>10, <3>1, <3>2, OwnStep
  <2>11. CASE WsInserts(c)
    <3>1. CASE Phone(c) \in clients
      <4>1. Mine
        BY <2>0, <2>11, <3>1 DEF WsInserts, Prefetched, TypeOK, Call,
           IdIsRight, KnownIsCarried,
                                Phone, Stored, Live
      <4>2. Others
        BY <2>0, <2>11, <3>1 DEF WsInserts, Prefetched, TypeOK
      <4> QED BY <2>11, <3>1, <4>1, <4>2, QuietStep DEF WsInserts
    <3>2. CASE Phone(c) \notin clients
      <4>1. Mine
        BY <2>0, <2>11, <3>2 DEF WsInserts, TypeOK, Call, IdIsRight, KnownIsCarried,
                                Phone, Stored, Live
      <4>2. Others
        BY <2>0, <2>11, <3>2 DEF WsInserts, TypeOK
      <4> QED BY <2>10, <2>11, <3>2, <4>1, <4>2 DEF WsInserts, Live
    <3> QED BY <3>1, <3>2
  <2>12. CASE WsCommits(c)
    <3>1. call[c].client = "new" /\ call[c].known = {}
      <4>1. call[c].client = "new" /\ inserting[Phone(c)] = c
        BY <2>0, <2>12 DEF WsCommits, IdIsRight, Live
      <4>2. Phone(c) \notin clients
        BY <2>0, <4>1, MemoryAssumption DEF MemoryIInv, InsertedIsNew, Free
      <4> QED BY <2>12, <4>1, <4>2, NewKnowsNothing DEF WsCommits, Live
    <3>2. Mine
      BY <2>0, <2>12, <3>1 DEF WsCommits, Prefetched, Created, TypeOK, Call, IdIsRight,
                              KnownIsCarried, Phone, Stored, Live
    <3>3. Others
      BY <2>0, <2>12 DEF WsCommits, Prefetched, TypeOK
    <3> QED BY <2>12, <3>2, <3>3, EndStep DEF WsCommits, Created, Live
  <2>13. CASE WsFails(c)
    <3>1. Mine
      BY <2>0, <2>13 DEF WsFails, Prefetched, Created, TypeOK, Call, IdIsRight,
                        KnownIsCarried, Phone, Stored, Live
    <3>2. Others
      BY <2>0, <2>13 DEF WsFails, Prefetched, TypeOK
    <3> QED BY <2>13, <3>1, <3>2, EndStep DEF WsFails, Created, Live
  <2>14. CASE BeginSession(c)
    <3>1. Mine
      BY <2>0, <2>14 DEF BeginSession, TypeOK, Call, IdIsRight,
                       KnownIsCarried, Phone, Stored, Live
    <3>2. Others
      BY <2>0, <2>14 DEF BeginSession, TypeOK
    <3> QED BY <2>14, <3>1, <3>2, QuietStep DEF BeginSession
  <2>15. CASE CloseLooksUp(c)
    <3>1. Mine
      BY <2>0, <2>15 DEF CloseLooksUp, TypeOK, Call, IdIsRight,
                       KnownIsCarried, Phone, Stored, Live
    <3>2. Others
      BY <2>0, <2>15 DEF CloseLooksUp, TypeOK
    <3> QED BY <2>15, <3>1, <3>2, QuietStep DEF CloseLooksUp
  <2>16. ASSUME CloseRaises(c) \/ Dies(c), Live(c)
         PROVE  (SummariesHaveClients /\ InsertedIsNew /\ CallsAreRight)'
    <3>1. Mine
      <4>1. call'[c] = [call[c] EXCEPT !.at = "ended"]
        BY <2>0, <2>16 DEF CloseRaises, Dies, TypeOK
      <4>2. call'[c].at = "ended" /\ call'[c].client = call[c].client
            /\ call'[c].phone = call[c].phone
        BY <2>0, <4>1 DEF TypeOK, Call
      <4> QED BY <2>0, <2>16, <4>2 DEF CloseRaises, Dies, TypeOK, Call, IdIsRight,
                    KnownIsCarried, Phone, Stored, Live
    <3>2. Others
      BY <2>0, <2>16 DEF CloseRaises, Dies, TypeOK
    <3> QED BY <2>16, <3>1, <3>2, EndStep DEF CloseRaises, Dies, Created
  <2>17. CASE CloseInserts(c)
    <3>1. CASE Phone(c) \in clients
      BY <2>16, <2>17, <3>1 DEF CloseInserts, Live
    <3>2. CASE Phone(c) \notin clients
      <4>1. Mine
        <5>1. /\ call'[c].at = "summarise" /\ call'[c].client = "new"
              /\ call'[c].phone = call[c].phone /\ call'[c].known = call[c].known
              /\ call'[c].prev = call[c].prev /\ call'[c].blind = call[c].blind
          BY <2>0, <2>17, <3>2 DEF CloseInserts, TypeOK, Call
        <5>2. inserting'[Phone(c)] = c /\ call[c].at = "close_insert" /\ UNCHANGED summaries
          BY <2>0, <2>17, <3>2 DEF CloseInserts, TypeOK
        <5> QED BY <2>0, <5>1, <5>2 DEF IdIsRight, KnownIsCarried, Phone, Stored, Live
      <4>2. Others
        BY <2>0, <2>17, <3>2 DEF CloseInserts, TypeOK
      <4> QED BY <2>10, <2>17, <3>2, <4>1, <4>2 DEF CloseInserts, Live
    <3> QED BY <3>1, <3>2
  <2>18. CASE CloseFails(c) \/ Dies(c)
    BY <2>16, <2>18 DEF CloseFails, Dies, Live
  <2>19. CASE Summarises(c)
    <3>1. Mine
      BY <2>0, <2>19 DEF Summarises, Text, TypeOK, Call, IdIsRight,
                       KnownIsCarried, Phone, Stored, Live
    <3>2. Others
      BY <2>0, <2>19 DEF Summarises, Text, TypeOK
    <3> QED BY <2>19, <3>1, <3>2, QuietStep DEF Summarises
  <2>20. CASE FallsBack(c)
    <3>1. Mine
      BY <2>0, <2>20 DEF FallsBack, Text, TypeOK, Call, IdIsRight,
                       KnownIsCarried, Phone, Stored, Live
    <3>2. Others
      BY <2>0, <2>20 DEF FallsBack, Text, TypeOK
    <3> QED BY <2>20, <3>1, <3>2, QuietStep DEF FallsBack
  <2>21. CASE OnlyTheTag(c)
    <3>1. Mine
      BY <2>0, <2>21 DEF OnlyTheTag, TypeOK, Call, IdIsRight,
                       KnownIsCarried, Phone, Stored, Live
    <3>2. Others
      BY <2>0, <2>21 DEF OnlyTheTag, TypeOK
    <3> QED BY <2>21, <3>1, <3>2, QuietStep DEF OnlyTheTag
  <2>22. CASE SaveLooksUp(c)
    <3>1. Mine
      BY <2>0, <2>22 DEF SaveLooksUp, TypeOK, Call, IdIsRight,
                       KnownIsCarried, Phone, Stored, Live
    <3>2. Others
      BY <2>0, <2>22 DEF SaveLooksUp, TypeOK
    <3> QED BY <2>22, <3>1, <3>2, QuietStep DEF SaveLooksUp
  <2>23. CASE SaveWrites(c)
    <3>1. CASE CloseRaises(c)
      BY <2>16, <2>23, <3>1 DEF SaveWrites, Live
    <3>2. CASE ~CloseRaises(c)
      BY <2>23, <3>2, SavedStep
    <3> QED BY <3>1, <3>2
  <2> QED BY <1>1, <2>1, <2>2, <2>5, <2>6, <2>7, <2>8, <2>9, <2>11, <2>12, <2>13, <2>14, <2>15,
             <2>17, <2>18, <2>19, <2>20, <2>21, <2>22, <2>23 DEF Step
<1>2. CASE UNCHANGED vars
  BY <1>2, OtherCall DEF vars, MemoryIInv, CallsAreRight, SummariesHaveClients, InsertedIsNew, Free
<1> QED BY <1>1, <1>2 DEF Next

(* The strengthening holds in every reachable state. *)
THEOREM MemoryInvariant == Spec => []MemoryIInv
<1>1. Init => MemoryIInv
  <2> SUFFICES ASSUME Init PROVE MemoryIInv
    OBVIOUS
  <2>1. TypeOK
    BY MemoryAssumption DEF Init, TypeOK, Call, Places
  <2>2. SummariesHaveClients /\ InsertedIsNew
    BY DEF Init, SummariesHaveClients, InsertedIsNew
  <2>3. CallsAreRight
    BY DEF Init, CallsAreRight, IdIsRight, KnownIsCarried, Live, Carried, Phone
  <2> QED BY <2>1, <2>2, <2>3 DEF MemoryIInv
<1>2. MemoryIInv /\ [Next]_vars => MemoryIInv'
  BY MemoryTypeStep, CallsStep DEF MemoryIInv
<1> QED BY <1>1, <1>2, PTL DEF Spec

(* The type of every call and table holds in every reachable state. *)
THEOREM MemoryTypeCorrect == Spec => []TypeOK
<1>1. MemoryIInv => TypeOK
  BY DEF MemoryIInv
<1> QED BY <1>1, MemoryInvariant, PTL

(* What is saved for a call that read the memory contains what was known:  *)
(* only one step saves, and what it writes is the text the invariant knows.*)
LEMMA SaveKeeps ==
  ASSUME MemoryIInv, Next, NEW c \in saved' \ saved
  PROVE  ~call[c].blind /\ ~call[c].tagged => call[c].known \subseteq summaries'[Phone(c)]
<1>1. PICK d \in Calls : Step(d)
  BY DEF Next
<1>2. SaveWrites(d) /\ ~CloseRaises(d)
  BY <1>1 DEF Step, Webhook, JoinRoom, Begins, HookLooksUp, HookInserts,
     HookErrs, HookTimesOut,
     Connect, WsLooksUp, WsInserts, WsCommits, WsFails, BeginSession, CloseLooksUp, CloseInserts,
     CloseRaises, Summarises, FallsBack, OnlyTheTag, SaveLooksUp, CloseFails, Dies
<1>3. d = c /\ summaries'[Phone(c)] = call[c].text /\ call[c].at = "write"
  BY <1>2 DEF SaveWrites
<1> QED BY <1>1, <1>3 DEF MemoryIInv, CallsAreRight, KnownIsCarried

(* For any number of calls and numbers, a call that could read the memory  *)
(* does not forget what was stored all the time since it began.            *)
THEOREM SavesKeepWhatWasKnownCorrect == Spec => SavesKeepWhatWasKnown
<1>1. MemoryIInv /\ [Next]_vars =>
        [\A c \in saved' \ saved :
           ~call[c].blind /\ ~call[c].tagged => call[c].known \subseteq summaries'[Phone(c)]]_vars
  BY SaveKeeps
<1> QED BY <1>1, MemoryInvariant, PTL DEF Spec, SavesKeepWhatWasKnown

-----------------------------------------------------------------------------
(* The memory of a client whose calls follow each other and fail in nothing *)

EndedCalls(p) == {c \in Calls : Phone(c) = p /\ call[c].at = "ended"}

(* A call with a failure disturbs its number, so an undisturbed one got    *)
(* its client and its summary from the webhook or the endpoint's lookup,   *)
(* and nobody has written since: it is the only call of its number.        *)
Follows(c) ==
  /\ \A d \in Calls : Live(d) /\ Phone(d) = Phone(c) => d = c
  /\ call[c].at \notin Hook => call[c].client = "row"
  /\ call[c].at \notin {"ws_insert", "ws_read", "close_insert"}
  /\ call[c].at \in {"answered", "prefetched", "session", "summarise"} => call[c].prev = Stored(Phone(c))
  /\ call[c].at \in {"save", "write"} => call[c].text = Stored(Phone(c)) \cup {c}

Orderly(p) ==
  p \notin disturbed =>
    /\ Stored(p) = EndedCalls(p)
    /\ \A c \in Calls : Phone(c) = p /\ Live(c) => Follows(c)
InOrder == \A p \in Phones : Orderly(p)

Writes(c) == SaveWrites(c) /\ ~CloseRaises(c)

(* What a step of a call leaves alone. *)
LEMMA MemoryFrame ==
  ASSUME TypeOK, NEW c \in Calls, Step(c), ~Writes(c)
  PROVE  /\ UNCHANGED summaries
         /\ \A d \in Calls \ {c} : call'[d] = call[d]
         /\ call'[c].phone = call[c].phone
         /\ disturbed' = disturbed \/ Fails(c)
         /\ call[c].at # "ended"
<1> USE DEF TypeOK, Call, Hook, Socket, Closing
<1>1. CASE Webhook(c) \/ JoinRoom(c)
  BY <1>1 DEF Webhook, JoinRoom, Begins, Fails
<1>2. CASE HookLooksUp(c) \/ HookInserts(c) \/ HookErrs(c)
  BY <1>2 DEF HookLooksUp, HookInserts, HookErrs, AttemptFails, Answer, Fails
<1>3. CASE HookTimesOut(c)
  BY <1>3 DEF HookTimesOut, Answer, Fails
<1>4. CASE Connect(c) \/ WsLooksUp(c) \/ WsInserts(c)
  BY <1>4 DEF Connect, WsLooksUp, WsInserts, Prefetched, Fails
<1>5. CASE WsCommits(c) \/ WsFails(c)
  BY <1>5 DEF WsCommits, WsFails, Prefetched, Fails
<1>6. CASE BeginSession(c) \/ CloseLooksUp(c)
  BY <1>6 DEF BeginSession, CloseLooksUp
<1>7. CASE CloseRaises(c) /\ call[c].at # "ended"
  <2>1. call' = [call EXCEPT ![c].at = "ended"] /\ Fails(c) /\ UNCHANGED summaries
    BY <1>7 DEF CloseRaises
  <2> QED BY <1>7, <2>1
<1>8. CASE CloseInserts(c)
  <2>1. CASE Phone(c) \in clients
    BY <1>7, <1>8, <2>1 DEF CloseInserts
  <2>2. CASE Phone(c) \notin clients
    BY <1>8, <2>2 DEF CloseInserts
  <2> QED BY <2>1, <2>2
<1>9. CASE Summarises(c) \/ FallsBack(c) \/ OnlyTheTag(c) \/ SaveLooksUp(c)
  BY <1>9 DEF Summarises, FallsBack, OnlyTheTag, SaveLooksUp, Text, Fails
<1>10. CASE CloseFails(c)
  BY <1>7, <1>10 DEF CloseFails
<1>11. CASE Dies(c)
  BY <1>11 DEF Dies, Live, Fails
<1>12. CASE SaveWrites(c)
  BY <1>7, <1>12 DEF SaveWrites, Writes
<1> QED BY <1>1, <1>2, <1>3, <1>4, <1>5, <1>6, <1>8, <1>9, <1>10, <1>11, <1>12 DEF Step

(* What a committed summary changes. *)
LEMMA WriteChanges ==
  ASSUME TypeOK, NEW c \in Calls, Writes(c)
  PROVE  /\ call[c].at = "write" /\ call'[c].at = "ended" /\ call'[c].phone = call[c].phone
         /\ Stored(Phone(c))' = call[c].text /\ UNCHANGED disturbed
         /\ \A q \in Phones \ {Phone(c)} : Stored(q)' = Stored(q)
         /\ \A d \in Calls \ {c} :
              /\ call'[d].at = call[d].at /\ call'[d].phone = call[d].phone
              /\ call'[d].client = call[d].client /\ call'[d].prev = call[d].prev
              /\ call'[d].text = call[d].text
<1>1. /\ call[c].at = "write" /\ UNCHANGED disturbed
      /\ summaries' = [p \in DOMAIN summaries \cup {Phone(c)} |->
                         IF p = Phone(c) THEN call[c].text ELSE summaries[p]]
      /\ call' = [d \in Calls |->
           IF d = c THEN [call[c] EXCEPT !.at = "ended"]
           ELSE IF Phone(d) = Phone(c) THEN [call[d] EXCEPT !.known = @ \cap call[c].text]
           ELSE call[d]]
  BY DEF Writes, SaveWrites
<1>2. \A d \in Calls : call[d] \in Call
  BY DEF TypeOK
<1>3. call'[c] = [call[c] EXCEPT !.at = "ended"]
  BY <1>1
<1>4. call'[c].at = "ended" /\ call'[c].phone = call[c].phone
  BY <1>2, <1>3 DEF Call
<1>5. ASSUME NEW d \in Calls \ {c}
      PROVE  /\ call'[d].at = call[d].at /\ call'[d].phone = call[d].phone
             /\ call'[d].client = call[d].client /\ call'[d].prev = call[d].prev
             /\ call'[d].text = call[d].text
  <2>1. call'[d] = call[d] \/ call'[d] = [call[d] EXCEPT !.known = @ \cap call[c].text]
    BY <1>1
  <2> QED BY <1>2, <2>1 DEF Call
<1>6. Stored(Phone(c))' = call[c].text
  BY <1>1, <1>4 DEF Stored, Phone
<1>7. \A q \in Phones \ {Phone(c)} : Stored(q)' = Stored(q)
  BY <1>1 DEF Stored
<1> QED BY <1>1, <1>4, <1>5, <1>6, <1>7

(* A number whose calls do nothing stays as it is. *)
LEMMA OtherNumbers ==
  ASSUME NEW p \in Phones, Orderly(p), Stored(p)' = Stored(p),
         p \in disturbed => p \in disturbed',
         \A d \in Calls : call'[d].phone = call[d].phone,
         \A d \in Calls : Phone(d) = p =>
           /\ call'[d].at = call[d].at /\ call'[d].client = call[d].client
           /\ call'[d].prev = call[d].prev /\ call'[d].text = call[d].text
  PROVE  Orderly(p)'
<1>1. \A d \in Calls : Phone(d)' = Phone(d)
  BY DEF Phone
<1>2. EndedCalls(p)' = EndedCalls(p)
  BY <1>1 DEF EndedCalls
<1>3. \A d \in Calls : Phone(d) = p => (Live(d)' <=> Live(d))
  BY DEF Live
<1>4. ASSUME NEW d \in Calls, Phone(d) = p, Live(d), Follows(d) PROVE Follows(d)'
  BY <1>1, <1>3, <1>4 DEF Follows
<1> QED BY <1>1, <1>2, <1>3, <1>4 DEF Orderly

(* The only call of an undisturbed number goes on. *)
LEMMA GoesOnAlone ==
  ASSUME TypeOK, NEW c \in Calls, NEW p \in Phones, Phone(c) = p, Orderly(p), p \notin disturbed,
         UNCHANGED summaries,
         \A d \in Calls \ {c} : call'[d] = call[d],
         call'[c].phone = call[c].phone, call'[c].at \notin {"new", "ended"}, call[c].at # "ended",
         \A d \in Calls \ {c} : Phone(d) = p => ~Live(d),
         call'[c].at \notin Hook => call'[c].client = "row",
         call'[c].at \notin {"ws_insert", "ws_read", "close_insert"},
         call'[c].at \in {"answered", "prefetched", "session", "summarise"} => call'[c].prev = Stored(p),
         call'[c].at \in {"save", "write"} => call'[c].text = Stored(p) \cup {c}
  PROVE  Orderly(p)'
<1>1. Stored(p)' = Stored(p) /\ \A d \in Calls : Phone(d)' = Phone(d)
  BY DEF Stored, Phone
<1>2. EndedCalls(p)' = EndedCalls(p)
  BY <1>1 DEF EndedCalls
<1>3. \A d \in Calls : Phone(d) = p /\ Live(d)' => d = c
  BY DEF Live
<1>4. Follows(c)'
  BY <1>1, <1>3 DEF Follows
<1> QED BY <1>1, <1>2, <1>3, <1>4 DEF Orderly

LEMMA OwnNumber ==
  ASSUME MemoryIInv, NEW c \in Calls, Step(c), ~Writes(c), Orderly(Phone(c))
  PROVE  Orderly(Phone(c))'
<1> DEFINE p == Phone(c)
<1>0. /\ TypeOK /\ IdIsRight(c) /\ p \in Phones /\ call[c] \in Call
      /\ UNCHANGED summaries /\ \A d \in Calls \ {c} : call'[d] = call[d]
      /\ call'[c].phone = call[c].phone /\ call[c].at # "ended" /\ Phone(c)' = p
  <2>1. TypeOK /\ IdIsRight(c)
    BY DEF MemoryIInv, CallsAreRight
  <2> QED BY <2>1, MemoryFrame DEF TypeOK, Call, Phone
<1>1. CASE Fails(c) \/ p \in disturbed
  <2>1. p \in disturbed'
    BY <1>0, <1>1, MemoryFrame DEF Fails
  <2> QED BY <1>0, <2>1 DEF Orderly
<1>2. CASE ~Fails(c) /\ p \notin disturbed
  <2>0. Live(c) => Follows(c) /\ \A d \in Calls \ {c} : Phone(d) = p => ~Live(d)
    BY <1>2 DEF Orderly, Follows
  <2> DEFINE Alone == \A d \in Calls \ {c} : Phone(d) = p => ~Live(d)
             Next_ == /\ call'[c].at \notin {"new", "ended"}
                      /\ call'[c].at \notin Hook => call'[c].client = "row"
                      /\ call'[c].at \notin {"ws_insert", "ws_read", "close_insert"}
                      /\ call'[c].at \in {"answered", "prefetched", "session", "summarise"}
                           => call'[c].prev = Stored(p)
                      /\ call'[c].at \in {"save", "write"} => call'[c].text = Stored(p) \cup {c}
  <2>1. SUFFICES Alone /\ Next_
    BY <1>0, <1>2, <2>1, GoesOnAlone
  <2>2. CASE Webhook(c) \/ JoinRoom(c)
    <3>1. PICK place \in {"hook_lookup", "prefetched"} : Begins(c, place)
      BY <2>2 DEF Webhook, JoinRoom
    <3>2. disturbed' = disturbed
      BY <1>0, <1>2, MemoryFrame
    <3>3. place = "hook_lookup" /\ ~\E d \in Calls : Live(d) /\ Phone(d) = p
      BY <1>2, <3>1, <3>2 DEF Begins
    <3>4. call'[c].at = "hook_lookup"
      BY <1>0, <3>1, <3>3 DEF Begins, TypeOK
    <3> QED BY <3>3, <3>4 DEF Hook
  <2>3. CASE HookLooksUp(c)
    <3>1. Live(c)
      BY <2>3 DEF HookLooksUp, Live
    <3>2. CASE p \in clients
      <4>1. call'[c].at = "answered" /\ call'[c].client = "row" /\ call'[c].prev = Stored(p)
        BY <1>0, <2>3, <3>2 DEF HookLooksUp, Answer, TypeOK, Call
      <4> QED BY <2>0, <3>1, <4>1
    <3>3. CASE p \notin clients
      <4>1. call'[c].at = "hook_insert"
        BY <1>0, <2>3, <3>3 DEF HookLooksUp, TypeOK, Call
      <4> QED BY <2>0, <3>1, <4>1 DEF Hook
    <3> QED BY <3>2, <3>3
  <2>4. CASE HookInserts(c)
    <3>1. Live(c) /\ p \notin clients
      BY <1>2, <2>4 DEF HookInserts, AttemptFails, Live
    <3>2. Stored(p) = {}
      BY <3>1 DEF MemoryIInv, SummariesHaveClients, Stored
    <3>3. call'[c].at = "answered" /\ call'[c].client = "row" /\ call'[c].prev = {}
      BY <1>0, <2>4, <3>1 DEF HookInserts, Answer, TypeOK, Call
    <3> QED BY <2>0, <3>1, <3>2, <3>3
  <2>5. CASE Connect(c)
    <3>1. Live(c) /\ call[c].client = "row" /\ call[c].prev = Stored(p) /\ Follows(c)
      BY <2>0, <2>5 DEF Connect, Live, Follows, Hook
    <3>2. call'[c].at \in {"ws_lookup", "prefetched"}
          /\ call'[c].client = call[c].client /\ call'[c].prev = call[c].prev
      BY <1>0, <2>5 DEF Connect, TypeOK, Call
    <3> QED BY <2>0, <3>1, <3>2
  <2>6. CASE WsLooksUp(c)
    <3>1. Live(c) /\ call[c].client = "row"
      BY <2>0, <2>6 DEF WsLooksUp, Live, Follows, Hook
    <3>2. call'[c].at = "prefetched" /\ call'[c].client = "row" /\ call'[c].prev = Stored(p)
      BY <1>0, <2>6, <3>1 DEF WsLooksUp, Prefetched, TypeOK, Call
    <3> QED BY <2>0, <3>1, <3>2
  <2>7. CASE WsInserts(c) \/ WsCommits(c) \/ CloseInserts(c)
    BY <2>0, <2>7 DEF WsInserts, WsCommits, CloseInserts, Live, Follows
  <2>8. CASE BeginSession(c)
    <3>1. Live(c) /\ call[c].client = "row" /\ call[c].prev = Stored(p)
      BY <2>0, <2>8 DEF BeginSession, Live, Follows, Hook
    <3>2. call'[c].at = "session" /\ call'[c].client = call[c].client /\ call'[c].prev = call[c].prev
      BY <1>0, <2>8 DEF BeginSession, TypeOK, Call
    <3> QED BY <2>0, <3>1, <3>2
  <2>9. CASE CloseLooksUp(c)
    <3>1. Live(c) /\ call[c].client = "row" /\ call[c].prev = Stored(p)
      BY <2>0, <2>9 DEF CloseLooksUp, Live, Follows, Hook
    <3>2. call'[c].at = "summarise" /\ call'[c].client = "row" /\ call'[c].prev = call[c].prev
      BY <1>0, <2>9, <3>1 DEF CloseLooksUp, TypeOK, Call
    <3> QED BY <2>0, <3>1, <3>2
  <2>10. CASE Summarises(c)
    <3>1. Live(c) /\ call[c].client = "row" /\ call[c].prev = Stored(p)
      BY <2>0, <2>10 DEF Summarises, Live, Follows, Hook
    <3>2. call'[c].at = "save" /\ call'[c].client = call[c].client /\ call'[c].text = call[c].prev \cup {c}
      BY <1>0, <2>10 DEF Summarises, Text, TypeOK, Call
    <3> QED BY <2>0, <3>1, <3>2
  <2>11. CASE SaveLooksUp(c)
    <3>1. Live(c) /\ call[c].client = "row" /\ call[c].text = Stored(p) \cup {c}
      BY <2>0, <2>11 DEF SaveLooksUp, Live, Follows, Hook
    <3>2. call'[c].at = "write" /\ call'[c].client = call[c].client /\ call'[c].text = call[c].text
      BY <1>0, <2>11 DEF SaveLooksUp, TypeOK, Call
    <3> QED BY <2>0, <3>1, <3>2
  <2>12. CASE HookErrs(c) \/ HookTimesOut(c) \/ WsFails(c) \/ FallsBack(c) \/ OnlyTheTag(c)
              \/ CloseFails(c) \/ Dies(c)
    BY <1>2, <2>12 DEF HookErrs, AttemptFails, HookTimesOut, WsFails, FallsBack, OnlyTheTag,
       CloseFails, CloseRaises, Dies
  <2>13. CASE SaveWrites(c)
    BY <1>2, <2>13 DEF SaveWrites, Writes, CloseRaises
  <2> QED BY <2>2, <2>3, <2>4, <2>5, <2>6, <2>7, <2>8, <2>9, <2>10, <2>11, <2>12, <2>13 DEF Step
<1> QED BY <1>1, <1>2

(* The only call of an undisturbed number ends, and is in the summary. *)
LEMMA OwnNumberWritten ==
  ASSUME MemoryIInv, NEW c \in Calls, Writes(c), Orderly(Phone(c))
  PROVE  Orderly(Phone(c))'
<1> DEFINE p == Phone(c)
<1>0. TypeOK /\ p \in Phones
  BY DEF MemoryIInv, TypeOK, Call, Phone
<1>1. CASE p \in disturbed
  <2>1. Phone(c)' = p /\ p \in disturbed'
    BY <1>0, <1>1, WriteChanges DEF Phone
  <2> QED BY <2>1 DEF Orderly
<1>2. CASE p \notin disturbed
  <2>1. Live(c) /\ call[c].at = "write"
    BY <1>0, WriteChanges DEF Live
  <2>2. Follows(c) /\ Stored(p) = EndedCalls(p)
    BY <1>2, <2>1 DEF Orderly
  <2>3. Stored(p)' = EndedCalls(p) \cup {c}
    BY <1>0, <2>1, <2>2, WriteChanges DEF Follows
  <2>4. \A d \in Calls : Phone(d)' = Phone(d)
    BY <1>0, WriteChanges DEF Phone
  <2>5. \A d \in Calls \ {c} : call'[d].at = call[d].at
    BY <1>0, WriteChanges
  <2>6. call'[c].at = "ended"
    BY <1>0, WriteChanges
  <2>7. EndedCalls(p)' = EndedCalls(p) \cup {c}
    BY <2>1, <2>4, <2>5, <2>6 DEF EndedCalls
  <2>8. \A d \in Calls : Phone(d) = p => ~Live(d)'
    BY <2>2, <2>5, <2>6 DEF Follows, Live
  <2>9. Phone(c)' = p
    BY <2>4
  <2> QED BY <2>3, <2>4, <2>7, <2>8, <2>9 DEF Orderly
<1> QED BY <1>1, <1>2

LEMMA OrderStep == MemoryIInv /\ InOrder /\ [Next]_vars => InOrder'
<1> SUFFICES ASSUME MemoryIInv, InOrder, [Next]_vars, NEW p \in Phones PROVE Orderly(p)'
  BY DEF InOrder
<1>0. TypeOK /\ Orderly(p)
  BY DEF MemoryIInv, InOrder
<1>1. ASSUME NEW c \in Calls, Step(c) PROVE Orderly(p)'
  <2>1. CASE Phone(c) = p
    <3>1. Orderly(Phone(c))'
      BY <1>0, <1>1, <2>1, OwnNumber, OwnNumberWritten
    <3>2. Phone(c)' = p
      BY <1>0, <1>1, <2>1, MemoryFrame, WriteChanges DEF Phone
    <3> QED BY <3>1, <3>2 DEF Orderly, EndedCalls, Stored
  <2>2. CASE Phone(c) # p
    <3>1. CASE Writes(c)
      <4>1. Stored(p)' = Stored(p) /\ disturbed' = disturbed
        BY <1>0, <2>2, <3>1, WriteChanges
      <4>2. \A d \in Calls : call'[d].phone = call[d].phone
        BY <1>0, <3>1, WriteChanges
      <4>3. \A d \in Calls : Phone(d) = p =>
              /\ call'[d].at = call[d].at /\ call'[d].client = call[d].client
              /\ call'[d].prev = call[d].prev /\ call'[d].text = call[d].text
        BY <1>0, <2>2, <3>1, WriteChanges
      <4> QED BY <1>0, <4>1, <4>2, <4>3, OtherNumbers
    <3>2. CASE ~Writes(c)
      <4>1. Stored(p)' = Stored(p) /\ (p \in disturbed => p \in disturbed')
        BY <1>0, <1>1, <3>2, MemoryFrame DEF Stored, Fails
      <4>2. \A d \in Calls : call'[d].phone = call[d].phone
        BY <1>0, <1>1, <3>2, MemoryFrame
      <4>3. \A d \in Calls : Phone(d) = p => call'[d] = call[d]
        BY <1>0, <1>1, <2>2, <3>2, MemoryFrame
      <4> QED BY <1>0, <4>1, <4>2, <4>3, OtherNumbers
    <3> QED BY <3>1, <3>2
  <2> QED BY <2>1, <2>2
<1>2. CASE UNCHANGED vars
  <2>1. Stored(p)' = Stored(p) /\ call' = call /\ disturbed' = disturbed
    BY <1>2 DEF vars, Stored
  <2> QED BY <1>0, <2>1, OtherNumbers
<1> QED BY <1>1, <1>2 DEF Next

(***************************************************************************)
(* When the calls of a client follow each other and nothing fails, its     *)
(* summary tells of every call that has ended: through the webhook, the    *)
(* parameters, the second prefetch, the prompt and the write, for any      *)
(* number of calls.                                                        *)
(***************************************************************************)
THEOREM MemoryIsCompleteCorrect == Spec => []MemoryIsComplete
<1>1. Init => InOrder
  BY DEF Init, InOrder, Orderly, EndedCalls, Stored, Live, Phone
<1>2. InOrder => MemoryIsComplete
  BY DEF InOrder, Orderly, EndedCalls, MemoryIsComplete
<1> QED BY <1>1, <1>2, OrderStep, MemoryInvariant, PTL DEF Spec
=============================================================================
