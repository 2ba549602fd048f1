----------------------------- MODULE StreamClaims -----------------------------
(***************************************************************************)
(* Who may serve a Twilio stream. Every WebSocket connection of any worker *)
(* inserts a row into active_streams before it serves the stream and       *)
(* deletes it afterwards; a background task of every worker deletes the    *)
(* rows older than two hours. The table is all the workers share.          *)
(***************************************************************************)
EXTENDS Naturals, FiniteSets

CONSTANTS
  Workers,     \* server processes
  Conns,       \* WebSocket connections, each made once
  Streams,     \* stream sids of Twilio
  NoStream, NoConn,
  MaxStops     \* bound: crashes and shut-downs of workers in one behaviour

ASSUME StreamAssumption == /\ NoStream \notin Streams /\ NoConn \notin Conns
                           /\ MaxStops \in Nat

VARIABLES
  up,        \* the workers whose start-up has marked them ready
  cleaning,  \* the workers whose clean-up loop runs
  conn,      \* every connection: where its handler is, on which worker and stream
  claims,    \* active_streams: its primary keys
  aged,      \* the rows that are older than two hours
  holder,    \* history: the connection whose insert made the row
  faulty,    \* history: streams with a claim that failed, or that aged under a live call
  stops

streamVars == <<up, cleaning, conn, claims, aged, holder, faulty, stops>>

StreamPlaces == {"none", "accepted", "claimed", "session", "closing", "ended"}

(* A handler that passed the claim and has not yet come to the release. *)
Serving(c) == conn[c].at \in {"claimed", "session", "closing"}
ServersOf(s) == {c \in Conns : Serving(c) /\ conn[c].stream = s}

StreamTypeOK ==
  /\ up \in SUBSET Workers /\ cleaning \in SUBSET Workers
  /\ conn \in [Conns -> [at : StreamPlaces, worker : Workers, stream : Streams \cup {NoStream}]]
  /\ claims \in SUBSET Streams /\ aged \in SUBSET Streams
  /\ holder \in [Streams -> Conns \cup {NoConn}]
  /\ faulty \in SUBSET Streams
  /\ stops \in Nat

At(c, place) == conn' = [conn EXCEPT ![c].at = place]
Ends(c) == conn' = [conn EXCEPT ![c].at = "ended", ![c].stream = NoStream]

Insert(c, s) ==
  /\ claims' = claims \cup {s} /\ aged' = aged \ {s}
  /\ holder' = [holder EXCEPT ![s] = c]
Delete(S) ==
  /\ claims' = claims \ S /\ aged' = aged \ S
  /\ holder' = [s \in Streams |-> IF s \in S THEN NoConn ELSE holder[s]]

-----------------------------------------------------------------------------
StreamInit ==
  /\ up = {} /\ cleaning = {} /\ stops = 0
  /\ conn \in [Conns -> [at : {"none"}, worker : Workers, stream : {NoStream}]]
  /\ claims = {} /\ aged = {} /\ faulty = {}
  /\ holder = [s \in Streams |-> NoConn]

(* lifespan: whatever the four bounded database steps did, the worker is   *)
(* marked ready, and then its clean-up loop starts and finds it ready.     *)
\* Mutant: the loop starts before the mark, and ends at once.
StartUp_LoopFirst(w) ==
  /\ w \notin up
  /\ up' = up \cup {w} /\ cleaning' = IF w \in up THEN cleaning \cup {w} ELSE cleaning
  /\ UNCHANGED <<conn, claims, aged, holder, faulty, stops>>
StartUp(w) ==
  /\ w \notin up
  /\ up' = up \cup {w} /\ cleaning' = cleaning \cup {w}
  /\ UNCHANGED <<conn, claims, aged, holder, faulty, stops>>

(* The end of lifespan, when the server has let its connections finish. *)
ShutDown(w) ==
  /\ w \in up /\ stops < MaxStops
  /\ \A c \in Conns : conn[c].worker = w => conn[c].at \in {"none", "ended"}
  /\ up' = up \ {w} /\ cleaning' = cleaning \ {w} /\ stops' = stops + 1
  /\ UNCHANGED <<conn, claims, aged, holder, faulty>>

(* The process dies: its handlers end where they are, its rows stay. *)
Crash(w) ==
  /\ w \in up /\ stops < MaxStops
  /\ up' = up \ {w} /\ cleaning' = cleaning \ {w} /\ stops' = stops + 1
  /\ conn' = [c \in Conns |-> IF conn[c].worker = w /\ conn[c].at # "none"
                              THEN [conn[c] EXCEPT !.at = "ended", !.stream = NoStream]
                              ELSE conn[c]]
  /\ UNCHANGED <<claims, aged, holder, faulty>>

-----------------------------------------------------------------------------
Accept(c) ==
  /\ conn[c].at = "none" /\ conn[c].worker \in up
  /\ At(c, "accepted")
  /\ UNCHANGED <<up, cleaning, claims, aged, holder, faulty, stops>>

(* Five messages without a start, or an exception while waiting for it. *)
NoStart(c) ==
  /\ conn[c].at = "accepted"
  /\ Ends(c)
  /\ UNCHANGED <<up, cleaning, claims, aged, holder, faulty, stops>>

(* The start message names the stream; the primary key admits one row for it. *)
Claim(c, s) ==
  /\ conn[c].at = "accepted" /\ s \notin claims
  /\ conn' = [conn EXCEPT ![c].stream = s, ![c].at = "claimed"]
  /\ Insert(c, s)
  /\ UNCHANGED <<up, cleaning, faulty, stops>>

(* IntegrityError: "Already claimed by another worker. Rejecting." *)
Reject(c, s) ==
  /\ conn[c].at = "accepted" /\ s \in claims
  /\ Ends(c)
  /\ UNCHANGED <<up, cleaning, claims, aged, holder, faulty, stops>>

(* Any other error, with the row written or not: "Proceeding anyway..." *)
ClaimFails(c, s) ==
  /\ conn[c].at = "accepted"
  /\ conn' = [conn EXCEPT ![c].stream = s, ![c].at = "claimed"]
  /\ faulty' = faulty \cup {s}
  /\ \/ UNCHANGED <<claims, aged, holder>>
     \/ s \notin claims /\ Insert(c, s)
  /\ UNCHANGED <<up, cleaning, stops>>

(* A parameter of the start message that cannot be read, after the claim:  *)
(* the handler returns and keeps the row.                                  *)
BadParameters(c) ==
  /\ conn[c].at = "claimed"
  /\ Ends(c)
  /\ UNCHANGED <<up, cleaning, claims, aged, holder, faulty, stops>>

EnterSession(c) ==
  /\ conn[c].at = "claimed"
  /\ At(c, "session")
  /\ UNCHANGED <<up, cleaning, claims, aged, holder, faulty, stops>>

LeaveSession(c) ==
  /\ conn[c].at = "session"
  /\ At(c, "closing")
  /\ UNCHANGED <<up, cleaning, claims, aged, holder, faulty, stops>>

(* The delete names the stream only, not the worker that claimed it. *)
Release(c) ==
  /\ conn[c].at = "closing"
  /\ Ends(c)
  /\ Delete({conn[c].stream})
  /\ UNCHANGED <<up, cleaning, faulty, stops>>

ReleaseFails(c) ==
  /\ conn[c].at = "closing"
  /\ Ends(c)
  /\ UNCHANGED <<up, cleaning, claims, aged, holder, faulty, stops>>

-----------------------------------------------------------------------------
(* Two hours pass for a row; its call may still be on the line. *)
Age(s) ==
  /\ s \in claims \ aged
  /\ aged' = aged \cup {s}
  /\ faulty' = IF ServersOf(s) # {} THEN faulty \cup {s} ELSE faulty
  /\ UNCHANGED <<up, cleaning, conn, claims, holder, stops>>

(* One turn of the loop; an error is logged and the next turn tries again. *)
\* Mutant: the loop forgets the sign of the interval and deletes every row.
CleanUp_All(w) ==
  /\ w \in cleaning /\ claims # {}
  /\ Delete(claims)
  /\ UNCHANGED <<up, cleaning, conn, faulty, stops>>
CleanUp(w) ==
  /\ w \in cleaning /\ aged # {}
  /\ Delete(aged)
  /\ UNCHANGED <<up, cleaning, conn, faulty, stops>>

-----------------------------------------------------------------------------
Connection(c) ==
  \/ Accept(c) \/ NoStart(c) \/ BadParameters(c) \/ EnterSession(c)
  \/ LeaveSession(c) \/ Release(c) \/ ReleaseFails(c)
  \/ \E s \in Streams : Claim(c, s) \/ Reject(c, s) \/ ClaimFails(c, s)

StreamNext ==
  \/ \E w \in Workers : StartUp(w) \/ ShutDown(w) \/ Crash(w) \/ CleanUp(w)
  \/ \E c \in Conns : Connection(c)
  \/ \E s \in Streams : Age(s)

(* The container restarts a dead worker, time passes, and a turn of the    *)
(* loop that fails is repeated until one succeeds.                         *)
StreamFairness ==
  /\ \A w \in Workers : WF_streamVars(StartUp(w)) /\ WF_streamVars(CleanUp(w))
  /\ \A s \in Streams : WF_streamVars(Age(s))

StreamSpec == StreamInit /\ [][StreamNext]_streamVars
StreamFairSpec == StreamSpec /\ StreamFairness

-----------------------------------------------------------------------------
(***************************************************************************)
(* A stream is served by one connection (main.py:313 "Prevention of        *)
(* duplicate session creation via Postgres atomic insert"), whatever other *)
(* connections, workers and clean-ups do and although a release deletes by *)
(* stream alone: only a claim that failed, or a call older than two hours, *)
(* lets a second one in.                                                   *)
(***************************************************************************)
OneSessionPerStream ==
  \A s \in Streams \ faulty : Cardinality(ServersOf(s)) <= 1

(***************************************************************************)
(* A claim whose handler is gone, by a crash, a failed release or an early *)
(* return, does not lock its stream out for ever.                          *)
(***************************************************************************)
OrphansAreCleaned ==
  \A s \in Streams : s \in claims /\ ServersOf(s) = {} ~> s \notin claims
=============================================================================
