---------------------------- MODULE EventBus_proofs ----------------------------
(***************************************************************************)
(* For any events, subscribers, priorities and publishers: join() counts   *)
(* what is unfinished, queued events are handled in the order they were    *)
(* published, an event is given to its whole snapshot in order, and the    *)
(* bus keeps the contract its owner relies on.                             *)
(***************************************************************************)
EXTENDS EventBus, FiniteSetTheorems, TLAPS

-----------------------------------------------------------------------------
(* Sorting: Entries is defined by how many come before *)

Ordering(S, R) ==
  /\ \A i \in S : <<i, i>> \notin R
  /\ \A i, j \in S : i # j => <<i, j>> \in R \/ <<j, i>> \in R
  /\ \A i, j, k \in S : <<i, j>> \in R /\ <<j, k>> \in R => <<i, k>> \in R
Ahead(S, R, i) == {j \in S : <<j, i>> \in R}
Rank(S, R, i) == Cardinality(Ahead(S, R, i))

LEMMA AheadIsFinite ==
  ASSUME NEW S, IsFiniteSet(S), NEW R, NEW i \in S
  PROVE  IsFiniteSet(Ahead(S, R, i)) /\ Rank(S, R, i) \in Nat
<1>1. Ahead(S, R, i) \subseteq S
  BY DEF Ahead
<1>2. IsFiniteSet(Ahead(S, R, i))
  BY <1>1, FS_Subset
<1> QED BY <1>2, FS_CardinalityType DEF Rank

LEMMA RanksGrow ==
  ASSUME NEW S, IsFiniteSet(S), NEW R, Ordering(S, R), NEW i \in S, NEW j \in S, <<i, j>> \in R
  PROVE  Rank(S, R, i) < Rank(S, R, j)
<1> DEFINE A == Ahead(S, R, i)
           B == Ahead(S, R, j)
<1>1. A \subseteq B
  BY DEF Ahead, Ordering
<1>2. i \in B /\ i \notin A
  BY DEF Ahead, Ordering
<1>3. IsFiniteSet(A) /\ IsFiniteSet(B)
  BY AheadIsFinite
<1> HIDE DEF A, B
<1>4. IsFiniteSet(A \cup {i}) /\ Cardinality(A \cup {i}) = Cardinality(A) + 1
  BY <1>2, <1>3, FS_AddElement
<1>5. A \cup {i} \subseteq B
  BY <1>1, <1>2
<1>6. Cardinality(A \cup {i}) <= Cardinality(B)
  BY <1>3, <1>5, FS_Subset
<1>7. Cardinality(A) \in Nat /\ Cardinality(B) \in Nat
  BY <1>3, FS_CardinalityType
<1> QED BY <1>4, <1>6, <1>7 DEF Rank, A, B

(* Every rank below the number of places is somebody's. *)
LEMMA EveryRankIsTaken ==
  ASSUME NEW S, IsFiniteSet(S), NEW R, Ordering(S, R), NEW k \in 1..Cardinality(S)
  PROVE  \E i \in S : Rank(S, R, i) = k - 1
<1> DEFINE n == Cardinality(S)
           rank == [i \in S |-> Rank(S, R, i)]
           Rest == (0..(n - 1)) \ {k - 1}
<1>1. n \in Nat /\ k \in 1..n
  BY FS_CardinalityType
<1>2. \A i \in S : rank[i] \in Nat /\ rank[i] < n
  <2> SUFFICES ASSUME NEW i \in S PROVE Rank(S, R, i) \in Nat /\ Rank(S, R, i) < n
    OBVIOUS
  <2>1. Ahead(S, R, i) \subseteq S \ {i}
    BY DEF Ahead, Ordering
  <2>2. IsFiniteSet(S \ {i}) /\ Cardinality(S \ {i}) = n - 1
    BY FS_RemoveElement
  <2>3. Cardinality(Ahead(S, R, i)) <= Cardinality(S \ {i})
    BY <2>1, <2>2, FS_Subset
  <2>4. Rank(S, R, i) \in Nat
    BY AheadIsFinite
  <2> QED BY <1>1, <2>2, <2>3, <2>4 DEF Rank
<1>3. SUFFICES ASSUME \A i \in S : rank[i] # k - 1 PROVE FALSE
  OBVIOUS
<1>4. IsFiniteSet(Rest) /\ Cardinality(Rest) = n - 1
  <2>1. IsFiniteSet(0..(n - 1)) /\ Cardinality(0..(n - 1)) = n
    <3> DEFINE m == n - 1
    <3>1. m \in Int /\ 0 <= m /\ m - 0 + 1 = n
      BY <1>1
    <3> HIDE DEF m, n
    <3>2. IsFiniteSet(0..m) /\ Cardinality(0..m) = n
      BY <3>1, FS_Interval
    <3> QED BY <3>2 DEF m
  <2>2. k - 1 \in 0..(n - 1)
    BY <1>1
  <2> HIDE DEF n
  <2> QED BY <2>1, <2>2, FS_RemoveElement
<1>5. rank \in [S -> Rest]
  BY <1>1, <1>2, <1>3
<1>6. Cardinality(Rest) < Cardinality(S)
  BY <1>1, <1>4
<1>7. PICK i \in S, j \in S : i # j /\ rank[i] = rank[j]
  <2> HIDE DEF rank, Rest
  <2> QED BY <1>4, <1>5, <1>6, FS_PigeonHole
<1>8. Rank(S, R, i) < Rank(S, R, j) \/ Rank(S, R, j) < Rank(S, R, i)
  BY <1>7, RanksGrow DEF Ordering
<1> QED BY <1>2, <1>7, <1>8

(* Hence Entries lists the entries of its places, one after the other.     *)
LEMMA EntriesListed ==
  ASSUME NEW S, S \subseteq DOMAIN registry, IsFiniteSet(S), registry \in Seq(Subscribers),
         NEW R, Ordering(S, R)
  PROVE  /\ Entries(S, R) \in Seq(Subscribers)
         /\ Len(Entries(S, R)) = Cardinality(S)
         /\ \E at \in [1..Cardinality(S) -> S] :
              /\ Entries(S, R) = [k \in 1..Cardinality(S) |-> registry[at[k]]]
              /\ \A k, l \in 1..Cardinality(S) : k < l => <<at[k], at[l]>> \in R
<1> DEFINE n == Cardinality(S)
           At(k) == CHOOSE i \in S : Cardinality({j \in S : <<j, i>> \in R}) = k - 1
           at == [k \in 1..n |-> At(k)]
<1>1. n \in Nat
  BY FS_CardinalityType
<1>2. ASSUME NEW k \in 1..n PROVE at[k] \in S /\ Rank(S, R, at[k]) = k - 1
  <2>1. \E i \in S : Cardinality({j \in S : <<j, i>> \in R}) = k - 1
    <3>1. PICK i \in S : Rank(S, R, i) = k - 1
      BY EveryRankIsTaken
    <3> QED BY <3>1 DEF Rank, Ahead
  <2>2. at[k] \in S /\ Cardinality({j \in S : <<j, at[k]>> \in R}) = k - 1
    BY <2>1
  <2> QED BY <2>2 DEF Rank, Ahead
<1>3. Entries(S, R) = [k \in 1..n |-> registry[at[k]]]
  <2>1. Entries(S, R) = [k \in 1..n |-> registry[At(k)]]
    BY DEF Entries
  <2> HIDE DEF At
  <2> QED BY <2>1
<1> HIDE DEF At, at, n
<1>4. at \in [1..n -> S]
  <2>1. at = [k \in 1..n |-> at[k]]
    BY DEF at
  <2> QED BY <1>2, <2>1
<1>5. ASSUME NEW k \in 1..n, NEW l \in 1..n, k < l PROVE <<at[k], at[l]>> \in R
  <2>1. at[k] # at[l]
    BY <1>1, <1>2, <1>5
  <2>2. <<at[l], at[k]>> \notin R
    <3>1. ~(Rank(S, R, at[l]) < Rank(S, R, at[k]))
      BY <1>1, <1>2, <1>5
    <3> QED BY <1>2, <3>1, RanksGrow
  <2> QED BY <1>2, <2>1, <2>2 DEF Ordering
<1>6. \A k \in 1..n : registry[at[k]] \in Subscribers
  <2>1. \A i \in DOMAIN registry : registry[i] \in Subscribers
    OBVIOUS
  <2> QED BY <1>2, <2>1
<1>7. Entries(S, R) \in Seq(Subscribers) /\ Len(Entries(S, R)) = n
  BY <1>1, <1>3, <1>6
<1> QED BY <1>3, <1>4, <1>5, <1>7 DEF n

Sorted(s) == \A i, j \in DOMAIN s : i < j => Priority[s[i]] <= Priority[s[j]]

LEMMA PlacesAreFinite ==
  ASSUME registry \in Seq(Subscribers), NEW S, S \subseteq DOMAIN registry
  PROVE  IsFiniteSet(S)
<1>1. Len(registry) \in Nat /\ DOMAIN registry = 1..Len(registry)
  OBVIOUS
<1>2. IsFiniteSet(1..Len(registry))
  BY <1>1, FS_Interval
<1> QED BY <1>1, <1>2, FS_Subset

(* The subscribers of an event are taken in priority order. *)
LEMMA MatchingSorted ==
  ASSUME registry \in Seq(Subscribers), NEW e \in Events
  PROVE  Matching(e) \in Seq(Subscribers) /\ Sorted(Matching(e))
<1> DEFINE S == {i \in DOMAIN registry : e \in Interest[registry[i]]}
<1>1. S \subseteq DOMAIN registry /\ IsFiniteSet(S)
  BY PlacesAreFinite
<1>2. \A i \in DOMAIN registry : i \in Nat /\ registry[i] \in Subscribers /\ Priority[registry[i]] \in Nat
  BY BusAssumption
<1>3. \A i, j \in DOMAIN registry : <<i, j>> \in SortedBefore <=>
        \/ Priority[registry[i]] < Priority[registry[j]]
        \/ Priority[registry[i]] = Priority[registry[j]] /\ i < j
  BY DEF SortedBefore
<1>4. Ordering(S, SortedBefore)
  <2> DEFINE P(i) == Priority[registry[i]]
  <2>1. \A i \in DOMAIN registry : i \in Nat /\ P(i) \in Nat
    BY <1>2
  <2>2. \A i, j \in DOMAIN registry : <<i, j>> \in SortedBefore <=> P(i) < P(j) \/ (P(i) = P(j) /\ i < j)
    BY <1>3
  <2> HIDE DEF P
  <2>3. \A i \in S : <<i, i>> \notin SortedBefore
    BY <1>1, <2>1, <2>2
  <2>4. \A i, j \in S : i # j => <<i, j>> \in SortedBefore \/ <<j, i>> \in SortedBefore
    BY <1>1, <2>1, <2>2
  <2>5. ASSUME NEW i \in S, NEW j \in S, NEW k \in S, <<i, j>> \in SortedBefore, <<j, k>> \in SortedBefore
        PROVE  <<i, k>> \in SortedBefore
    <3>1. i \in DOMAIN registry /\ j \in DOMAIN registry /\ k \in DOMAIN registry
      BY <1>1
    <3>2. P(i) < P(j) \/ (P(i) = P(j) /\ i < j)
      BY <2>2, <2>5, <3>1
    <3>3. P(j) < P(k) \/ (P(j) = P(k) /\ j < k)
      BY <2>2, <2>5, <3>1
    <3>4. P(i) < P(k) \/ (P(i) = P(k) /\ i < k)
      BY <2>1, <3>1, <3>2, <3>3
    <3> QED BY <2>2, <3>1, <3>4
  <2> HIDE DEF S
  <2> QED BY <2>3, <2>4, <2>5 DEF Ordering
<1>5. Matching(e) = Entries(S, SortedBefore)
  BY DEF Matching
<1> DEFINE n == Cardinality(S)
<1>6. n \in Nat
  BY <1>1, FS_CardinalityType
<1> HIDE DEF S
<1>7. Matching(e) \in Seq(Subscribers)
  BY <1>1, <1>4, <1>5, EntriesListed
<1>8. PICK at \in [1..n -> S] :
        /\ Matching(e) = [k \in 1..n |-> registry[at[k]]]
        /\ \A k, l \in 1..n : k < l => <<at[k], at[l]>> \in SortedBefore
  BY <1>1, <1>4, <1>5, EntriesListed
<1>9. ASSUME NEW k \in 1..n, NEW l \in 1..n, k < l
      PROVE  Priority[registry[at[k]]] <= Priority[registry[at[l]]]
  <2>1. at[k] \in DOMAIN registry /\ at[l] \in DOMAIN registry /\ <<at[k], at[l]>> \in SortedBefore
    BY <1>1, <1>8, <1>9
  <2> QED BY <1>2, <1>3, <2>1
<1>10. DOMAIN Matching(e) = 1..n /\ \A k \in 1..n : Matching(e)[k] = registry[at[k]]
  BY <1>8
<1> QED BY <1>7, <1>9, <1>10 DEF Sorted

LEMMA WithoutListed ==
  ASSUME registry \in Seq(Subscribers), NEW ids
  PROVE  Without(ids) \in Seq(Subscribers)
<1> DEFINE S == {i \in DOMAIN registry : registry[i] \notin ids}
<1>1. S \subseteq DOMAIN registry /\ IsFiniteSet(S) /\ \A i \in DOMAIN registry : i \in Nat
  BY PlacesAreFinite
<1>2. \A i, j \in DOMAIN registry : <<i, j>> \in ListedBefore <=> i < j
  BY DEF ListedBefore
<1>3. Ordering(S, ListedBefore)
  BY <1>1, <1>2 DEF Ordering
<1>4. Without(ids) = Entries(S, ListedBefore)
  BY DEF Without
<1> HIDE DEF S
<1> QED BY <1>1, <1>3, <1>4, EntriesListed

-----------------------------------------------------------------------------
(* The invariant *)

Deliveries == [event : Events \cup {"none"}, todo : Seq(Subscribers), once : SUBSET Once, failed : BOOLEAN]
DeliveryOK == delivery \in [Tasks -> Deliveries]
PlainOK ==
  /\ registry \in Seq(Subscribers) /\ queue \in Seq(Events) /\ unfinished \in Int
  /\ worker \in WorkerState /\ fate \in [Events -> Fate]
  /\ snapshot \in [Events -> Seq(Subscribers)]
  /\ order \in Seq(Events) /\ called \in [Events -> Seq(Subscribers)] /\ handled \in Seq(Events)
BusOK == PlainOK /\ DeliveryOK

(* c is how far the calls have come in the snapshot s, whose rest is todo; *)
(* the first of todo is the one whose handler runs.                        *)
Prefix(c, s) == Len(c) <= Len(s) /\ \A i \in 1..Len(c) : c[i] = s[i]
Remains(c, s, todo) ==
  /\ Len(todo) >= 1 /\ Len(c) + Len(todo) = Len(s) + 1
  /\ \A i \in 1..Len(todo) : todo[i] = s[Len(c) + i - 1]
Carries(t, e) == delivery[t] # Idle /\ delivery[t].event = e

(* One task delivers an event, and its calls are a beginning of the        *)
(* snapshot, which is in priority order.                                   *)
GivenSoFar(e) ==
  /\ Sorted(snapshot[e]) /\ Prefix(called[e], snapshot[e])
  /\ fate[e] \in {"new", "queued"} => called[e] = <<>>
  /\ fate[e] \in {"done", "failed"} => Len(called[e]) = Len(snapshot[e])
Delivering ==
  \A t \in Tasks : delivery[t] # Idle =>
    /\ delivery[t].event \in Events /\ fate[delivery[t].event] = "running"
    /\ Remains(called[delivery[t].event], snapshot[delivery[t].event], delivery[t].todo)
    /\ \A u \in Tasks : Carries(u, delivery[t].event) => u = t
Given == Delivering /\ \A e \in Events : GivenSoFar(e)

(* The queue is the end of what was published; the worker is busy with the *)
(* event before it, and the publishers with events that never were in it.  *)
Taken == Len(order) - Len(queue)
Queueing ==
  /\ \A k, l \in DOMAIN order : order[k] = order[l] => k = l
  /\ \A k \in DOMAIN order : fate[order[k]] # "new"
  /\ Len(queue) <= Len(order)
  /\ \A i \in DOMAIN queue : queue[i] = order[Taken + i] /\ fate[queue[i]] = "queued"
  /\ Busy(Worker) => Taken >= 1 /\ delivery[Worker].event = order[Taken]
  /\ \A p \in Publishers : Busy(p) => \A k \in DOMAIN order : order[k] # delivery[p].event
  /\ \A i \in DOMAIN handled : fate[handled[i]] \notin {"new", "queued"}

IInv == BusOK /\ JoinIsExact /\ Given /\ Queueing /\ QueueOrder
-----------------------------------------------------------------------------
(* Types *)

LEMMA DeliveryTyped ==
  ASSUME NEW e \in Events \cup {"none"}, NEW todo \in Seq(Subscribers), NEW once \in SUBSET Once,
         NEW failed \in BOOLEAN
  PROVE  /\ Delivery(e, todo, once, failed) \in Deliveries
         /\ Delivery(e, todo, once, failed).event = e
         /\ Delivery(e, todo, once, failed).todo = todo
         /\ Delivery(e, todo, once, failed).failed = failed
BY DEF Delivery, Deliveries

LEMMA NewDelivery ==
  ASSUME NEW e \in Events, NEW todo \in Seq(Subscribers)
  PROVE  /\ Delivery(e, todo, {}, FALSE) \in Deliveries
         /\ Delivery(e, todo, {}, FALSE).event = e
         /\ Delivery(e, todo, {}, FALSE).todo = todo
BY DEF Delivery, Deliveries

LEMMA IdleTyped == Idle \in Deliveries /\ Idle.todo = <<>>
BY DEF Idle, Delivery, Deliveries

LEMMA Appended ==
  ASSUME NEW S, NEW q \in Seq(S), NEW e \in S
  PROVE  /\ Append(q, e) \in Seq(S) /\ Len(q) \in Nat /\ Len(Append(q, e)) = Len(q) + 1
         /\ DOMAIN q = 1..Len(q) /\ DOMAIN Append(q, e) = 1..(Len(q) + 1)
         /\ \A i \in 1..Len(q) : Append(q, e)[i] = q[i]
         /\ Append(q, e)[Len(q) + 1] = e
OBVIOUS

LEMMA FirstTaken ==
  ASSUME NEW S, NEW q \in Seq(S), q # <<>>
  PROVE  /\ Head(q) \in S /\ Tail(q) \in Seq(S) /\ Head(q) = q[1]
         /\ Len(q) \in Nat /\ Len(q) >= 1 /\ Len(Tail(q)) = Len(q) - 1
         /\ DOMAIN q = 1..Len(q) /\ DOMAIN Tail(q) = 1..(Len(q) - 1)
         /\ \A i \in 1..(Len(q) - 1) : Tail(q)[i] = q[i + 1]
OBVIOUS

(* The delivery of an event begins: nobody hears it, or the first is called. *)
Heard(t, e, subscribers) ==
  /\ subscribers # <<>>
  /\ fate' = [fate EXCEPT ![e] = "running"]
  /\ delivery' = [delivery EXCEPT ![t] = Delivery(e, subscribers, {}, FALSE)]
  /\ called' = [called EXCEPT ![e] = Append(called[e], Head(subscribers))]
  /\ handled' = Append(handled, e)
Unheard(e, subscribers) ==
  /\ subscribers = <<>>
  /\ fate' = [fate EXCEPT ![e] = "unheard"]
  /\ UNCHANGED <<delivery, called, handled>>

LEMMA BeginIs ==
  ASSUME BusOK, NEW t \in Tasks, NEW e \in Events, Begin(t, e)
  PROVE  \E subscribers \in Seq(Subscribers) :
           /\ subscribers = Matching(e) /\ Sorted(subscribers)
           /\ snapshot' = [snapshot EXCEPT ![e] = subscribers]
           /\ Heard(t, e, subscribers) \/ Unheard(e, subscribers)
<1>1. Matching(e) \in Seq(Subscribers) /\ Sorted(Matching(e))
  BY MatchingSorted DEF BusOK, PlainOK
<1> QED BY <1>1 DEF Begin, Calls, Heard, Unheard

LEMMA BeginTyped ==
  ASSUME BusOK, NEW t \in Tasks, NEW e \in Events, Begin(t, e)
  PROVE  /\ fate' \in [Events -> Fate] /\ snapshot' \in [Events -> Seq(Subscribers)]
         /\ called' \in [Events -> Seq(Subscribers)] /\ handled' \in Seq(Events) /\ DeliveryOK'
<1>1. PICK subscribers \in Seq(Subscribers) :
        /\ snapshot' = [snapshot EXCEPT ![e] = subscribers]
        /\ Heard(t, e, subscribers) \/ Unheard(e, subscribers)
  BY BeginIs
<1>2. /\ snapshot \in [Events -> Seq(Subscribers)] /\ fate \in [Events -> Fate]
      /\ called \in [Events -> Seq(Subscribers)] /\ handled \in Seq(Events)
      /\ delivery \in [Tasks -> Deliveries]
  BY DEF BusOK, PlainOK, DeliveryOK
<1>3. snapshot' \in [Events -> Seq(Subscribers)]
  BY <1>1, <1>2
<1>4. CASE Unheard(e, subscribers)
  BY <1>2, <1>3, <1>4 DEF Unheard, Fate, DeliveryOK
<1>5. CASE Heard(t, e, subscribers)
  <2>1. Head(subscribers) \in Subscribers
    BY <1>5, FirstTaken DEF Heard
  <2>2. Append(called[e], Head(subscribers)) \in Seq(Subscribers) /\ Append(handled, e) \in Seq(Events)
    BY <1>2, <2>1, Appended
  <2>3. Delivery(e, subscribers, {}, FALSE) \in Deliveries
    BY DeliveryTyped
  <2>4. delivery' \in [Tasks -> Deliveries]
    BY <1>2, <1>5, <2>3 DEF Heard
  <2>5. fate' \in [Events -> Fate]
    BY <1>2, <1>5 DEF Heard, Fate
  <2>6. called' \in [Events -> Seq(Subscribers)] /\ handled' \in Seq(Events)
    BY <1>2, <1>5, <2>2 DEF Heard
  <2> QED BY <1>3, <2>4, <2>5, <2>6 DEF DeliveryOK
<1> QED BY <1>1, <1>4, <1>5

(* A handler that ends leaves the rest of its delivery. *)
LEMMA DeliverIs ==
  ASSUME BusOK, Given, NEW t \in Tasks, Deliver(t)
  PROVE  \E d \in Deliveries :
           /\ delivery[t] # Idle /\ d.event = delivery[t].event /\ d.event \in Events
           /\ d.todo = Tail(delivery[t].todo) /\ GoOn(t, d)
           /\ UNCHANGED <<queue, worker, snapshot, order>>
<1> DEFINE b == delivery[t]
           s == Head(b.todo)
<1>1. Ending(t) /\ b # Idle
  BY DEF Deliver, HandlerReturns, HandlerRaises, Ending, Busy
<1>2. b \in Deliveries /\ b.event \in Events /\ b.todo \in Seq(Subscribers) /\ Len(b.todo) >= 1
      /\ b.once \in SUBSET Once /\ b.failed \in BOOLEAN
  BY <1>1 DEF BusOK, DeliveryOK, Deliveries, Given, Delivering, Remains
<1>3. Tail(b.todo) \in Seq(Subscribers)
  <2>1. b.todo # <<>>
    BY <1>2
  <2> QED BY <1>2, <2>1, FirstTaken
<1>4. b.once \cup ({s} \cap Once) \in SUBSET Once
  BY <1>2
<1>5. CASE HandlerReturns(t)
  <2> DEFINE d == Delivery(b.event, Tail(b.todo), b.once \cup ({s} \cap Once), b.failed)
  <2>1. d \in Deliveries /\ d.event = b.event /\ d.todo = Tail(b.todo)
    <3> HIDE DEF b, s
    <3>1. b.event \in Events \cup {"none"}
      BY <1>2
    <3> QED BY <1>2, <1>3, <1>4, <3>1 DEF Delivery, Deliveries
  <2>2. GoOn(t, d)
    BY <1>5 DEF HandlerReturns
  <2> HIDE DEF d
  <2> QED BY <1>1, <1>2, <2>1, <2>2 DEF Ending
<1>6. CASE HandlerRaises(t)
  <2> DEFINE d == Delivery(b.event, Tail(b.todo), b.once, TRUE)
  <2>1. d \in Deliveries /\ d.event = b.event /\ d.todo = Tail(b.todo)
    <3> HIDE DEF b, s
    <3>1. b.event \in Events \cup {"none"} /\ TRUE \in BOOLEAN
      BY <1>2
    <3> QED BY <1>2, <1>3, <3>1 DEF Delivery, Deliveries
  <2>2. GoOn(t, d)
    BY <1>6 DEF HandlerRaises
  <2> HIDE DEF d
  <2> QED BY <1>1, <1>2, <2>1, <2>2 DEF Ending
<1> QED BY <1>5, <1>6 DEF Deliver

LEMMA GoOnTyped ==
  ASSUME BusOK, NEW t \in Tasks, NEW d \in Deliveries, d.event \in Events, GoOn(t, d)
  PROVE  /\ registry' \in Seq(Subscribers) /\ unfinished' \in Int /\ fate' \in [Events -> Fate]
         /\ called' \in [Events -> Seq(Subscribers)] /\ handled' \in Seq(Events) /\ DeliveryOK'
<1>1. /\ registry \in Seq(Subscribers) /\ unfinished \in Int /\ fate \in [Events -> Fate]
      /\ called \in [Events -> Seq(Subscribers)] /\ handled \in Seq(Events)
      /\ delivery \in [Tasks -> Deliveries]
  BY DEF BusOK, PlainOK, DeliveryOK
<1>2. CASE d.todo = <<>>
  <2>1. Finish(t, d) /\ UNCHANGED <<called, handled>>
    BY <1>2 DEF GoOn
  <2>2. registry' \in Seq(Subscribers)
    BY <1>1, <2>1, WithoutListed DEF Finish
  <2>3. delivery' \in [Tasks -> Deliveries]
    BY <1>1, <2>1, IdleTyped DEF Finish
  <2>4. fate' \in [Events -> Fate] /\ unfinished' \in Int
    BY <1>1, <2>1 DEF Finish, TaskDone, Fate
  <2> QED BY <1>1, <2>1, <2>2, <2>3, <2>4 DEF DeliveryOK
<1>3. CASE d.todo # <<>>
  <2>1. /\ delivery' = [delivery EXCEPT ![t] = d] /\ UNCHANGED <<registry, unfinished, fate>>
        /\ called' = [called EXCEPT ![d.event] = Append(called[d.event], Head(d.todo))]
        /\ handled' = Append(handled, d.event)
    BY <1>3 DEF GoOn, Calls
  <2>2. d.todo \in Seq(Subscribers)
    BY DEF Deliveries
  <2>3. Head(d.todo) \in Subscribers
    BY <1>3, <2>2, FirstTaken
  <2>4. Append(called[d.event], Head(d.todo)) \in Seq(Subscribers) /\ Append(handled, d.event) \in Seq(Events)
    BY <1>1, <2>3, Appended
  <2> QED BY <1>1, <2>1, <2>4 DEF DeliveryOK
<1> QED BY <1>2, <1>3

(* The steps, by what they do to deliveries *)
Begins(t, e) ==
  \/ t \in Publishers /\ Publish(t, e)
  \/ t = Worker /\ WorkerTakes /\ e = Head(queue)

LEMMA BeginsIs ==
  ASSUME BusOK, Queueing, NEW t \in Tasks, NEW e \in Events, Begins(t, e)
  PROVE  /\ Begin(t, e) /\ delivery[t] = Idle /\ fate[e] \in {"new", "queued"}
         /\ UNCHANGED <<registry, worker, order>>
<1>1. CASE t \in Publishers /\ Publish(t, e)
  BY <1>1 DEF Publish, Busy
<1>2. CASE t = Worker /\ WorkerTakes /\ e = Head(queue)
  <2>1. Begin(t, e) /\ delivery[t] = Idle /\ UNCHANGED <<registry, worker, order>>
    BY <1>2 DEF WorkerTakes, Busy
  <2>2. queue # <<>> /\ queue \in Seq(Events)
    BY <1>2 DEF WorkerTakes, BusOK, PlainOK
  <2>3. e = queue[1] /\ 1 \in DOMAIN queue
    BY <1>2, <2>2, FirstTaken
  <2> QED BY <2>1, <2>3 DEF Queueing
<1> QED BY <1>1, <1>2 DEF Begins

LEMMA StepIs ==
  ASSUME BusOK, Next
  PROVE  \/ \E s \in Subscribers : Subscribe(s) \/ Unsubscribe(s)
         \/ \E e \in Events : PublishSync(e)
         \/ \E t \in Tasks, e \in Events : Begins(t, e)
         \/ \E t \in Tasks : Deliver(t)
         \/ Start \/ StopCancels \/ WorkerEnds \/ StopReturns
<1>1. ASSUME NEW p \in Publishers, NEW e \in Events, Publish(p, e)
      PROVE  \E t \in Tasks, x \in Events : Begins(t, x)
  BY <1>1 DEF Tasks, Begins
<1>2. ASSUME WorkerTakes PROVE \E t \in Tasks, x \in Events : Begins(t, x)
  <2>1. queue # <<>> /\ queue \in Seq(Events)
    BY <1>2 DEF WorkerTakes, BusOK, PlainOK
  <2>2. Head(queue) \in Events /\ Worker \in Tasks
    BY <2>1, FirstTaken DEF Tasks
  <2> QED BY <1>2, <2>2 DEF Begins
<1> QED BY <1>1, <1>2 DEF Next

(* The actions that leave deliveries and the queue alone. *)
Aside ==
  /\ UNCHANGED <<queue, unfinished, delivery, fate, snapshot, order, called, handled>>
  /\ registry' \in Seq(Subscribers) /\ worker' \in WorkerState

LEMMA AsideIs ==
  ASSUME BusOK,
         \/ \E s \in Subscribers : Subscribe(s) \/ Unsubscribe(s)
         \/ Start \/ StopCancels \/ StopReturns \/ UNCHANGED vars
  PROVE  Aside
<1>1. registry \in Seq(Subscribers) /\ worker \in WorkerState
  BY DEF BusOK, PlainOK
<1>2. ASSUME NEW s \in Subscribers, Subscribe(s) PROVE Aside
  <2>1. registry' = Append(registry, s) /\ worker' = worker
    BY <1>2 DEF Subscribe
  <2>2. registry' \in Seq(Subscribers)
    BY <1>1, <2>1, Appended
  <2> QED BY <1>1, <1>2, <2>1, <2>2 DEF Aside, Subscribe
<1>3. ASSUME NEW s \in Subscribers, Unsubscribe(s) PROVE Aside
  <2>1. registry' \in Seq(Subscribers)
    BY <1>1, <1>3, WithoutListed DEF Unsubscribe
  <2> QED BY <1>1, <1>3, <2>1 DEF Aside, Unsubscribe
<1>4. CASE Start \/ StopCancels \/ StopReturns
  BY <1>1, <1>4 DEF Aside, Start, StopCancels, StopReturns, WorkerState
<1>5. CASE UNCHANGED vars
  BY <1>1, <1>5 DEF Aside, vars, bus
<1> QED BY <1>2, <1>3, <1>4, <1>5

(* A stop drops the delivery the worker was busy with. *)
Drops ==
  /\ delivery[Worker] # Idle
  /\ delivery' = [delivery EXCEPT ![Worker] = Idle]
  /\ fate' = [fate EXCEPT ![delivery[Worker].event] = "dropped"]
  /\ unfinished' = unfinished - 1

LEMMA WorkerEndsIs ==
  ASSUME WorkerEnds
  PROVE  /\ Drops \/ (delivery[Worker] = Idle /\ UNCHANGED <<delivery, fate, unfinished>>)
         /\ worker' = "done" /\ UNCHANGED <<registry, queue, snapshot, order, called, handled>>
BY DEF WorkerEnds, Drops, TaskDone, Busy

LEMMA TypeStep ==
  ASSUME BusOK, Given, Queueing, [Next]_vars
  PROVE  BusOK'
<1>1. PlainOK /\ DeliveryOK
  BY DEF BusOK
<1>2. ASSUME Aside PROVE BusOK'
  BY <1>1, <1>2 DEF Aside, BusOK, PlainOK, DeliveryOK
<1>3. ASSUME NEW e \in Events, PublishSync(e) PROVE BusOK'
  <2>1. Append(queue, e) \in Seq(Events) /\ Append(order, e) \in Seq(Events)
    BY <1>1, Appended DEF PlainOK
  <2>2. fate' \in [Events -> Fate] /\ unfinished' \in Int
    BY <1>1, <1>3 DEF PublishSync, PlainOK, Fate
  <2> QED BY <1>1, <1>3, <2>1, <2>2 DEF PublishSync, BusOK, PlainOK, DeliveryOK
<1>4. ASSUME NEW t \in Tasks, NEW e \in Events, Begins(t, e) PROVE BusOK'
  <2>1. Begin(t, e) /\ UNCHANGED <<registry, worker, order>>
    BY <1>4, BeginsIs
  <2>2. /\ fate' \in [Events -> Fate] /\ snapshot' \in [Events -> Seq(Subscribers)]
        /\ called' \in [Events -> Seq(Subscribers)] /\ handled' \in Seq(Events) /\ DeliveryOK'
    BY <2>1, BeginTyped
  <2>3. queue' \in Seq(Events) /\ unfinished' \in Int
    <3>1. CASE t \in Publishers /\ Publish(t, e)
      BY <1>1, <3>1 DEF Publish, PlainOK
    <3>2. CASE t = Worker /\ WorkerTakes
      <4>1. queue # <<>> /\ queue' = Tail(queue)
        BY <3>2 DEF WorkerTakes
      <4>2. queue' \in Seq(Events)
        BY <1>1, <4>1, FirstTaken DEF PlainOK
      <4>3. unfinished' \in Int
        BY <1>1, <3>2 DEF WorkerTakes, PlainOK
      <4> QED BY <4>2, <4>3
    <3> QED BY <1>4, <3>1, <3>2 DEF Begins
  <2> QED BY <1>1, <2>1, <2>2, <2>3 DEF BusOK, PlainOK
<1>5. ASSUME NEW t \in Tasks, Deliver(t) PROVE BusOK'
  <2>1. PICK d \in Deliveries :
          d.event \in Events /\ GoOn(t, d) /\ UNCHANGED <<queue, worker, snapshot, order>>
    BY <1>5, DeliverIs
  <2>2. /\ registry' \in Seq(Subscribers) /\ unfinished' \in Int /\ fate' \in [Events -> Fate]
        /\ called' \in [Events -> Seq(Subscribers)] /\ handled' \in Seq(Events) /\ DeliveryOK'
    BY <2>1, GoOnTyped
  <2> QED BY <1>1, <2>1, <2>2 DEF BusOK, PlainOK
<1>6. ASSUME WorkerEnds PROVE BusOK'
  <2>1. /\ Drops \/ (delivery[Worker] = Idle /\ UNCHANGED <<delivery, fate, unfinished>>)
        /\ worker' = "done" /\ UNCHANGED <<registry, queue, snapshot, order, called, handled>>
    BY <1>6, WorkerEndsIs
  <2>2. fate' \in [Events -> Fate] /\ unfinished' \in Int
    <3>1. CASE Drops
      <4>1. fate \in [Events -> Fate] /\ unfinished \in Int /\ "dropped" \in Fate
        BY <1>1 DEF PlainOK, Fate
      <4>2. fate' = [fate EXCEPT ![delivery[Worker].event] = "dropped"]
        BY <3>1 DEF Drops
      <4>3. fate' \in [Events -> Fate]
        BY <4>1, <4>2
      <4>4. unfinished' \in Int
        BY <3>1, <4>1 DEF Drops
      <4> QED BY <4>3, <4>4
    <3> QED BY <1>1, <2>1, <3>1 DEF PlainOK
  <2>4. worker' \in WorkerState
    BY <2>1 DEF WorkerState
  <2>3. DeliveryOK'
    BY <1>1, <2>1, IdleTyped DEF Drops, DeliveryOK
  <2> QED BY <1>1, <2>1, <2>2, <2>3, <2>4 DEF BusOK, PlainOK
<1> QED BY <1>2, <1>3, <1>4, <1>5, <1>6, StepIs, AsideIs

-----------------------------------------------------------------------------
(* What the join counts *)

LEMMA NotIdle ==
  ASSUME NEW d \in Deliveries, d.todo # <<>>
  PROVE  d # Idle
BY IdleTyped

LEMMA CountStep ==
  ASSUME BusOK, JoinIsExact, Given, Queueing, [Next]_vars
  PROVE  JoinIsExact'
<1>1. /\ queue \in Seq(Events) /\ unfinished \in Int /\ Len(queue) \in Nat
      /\ delivery \in [Tasks -> Deliveries] /\ Worker \in Tasks /\ Worker \notin Publishers
  BY BusAssumption DEF BusOK, PlainOK, DeliveryOK, Tasks
<1>2. ASSUME Aside PROVE JoinIsExact'
  BY <1>2 DEF Aside, JoinIsExact, Busy
<1>3. ASSUME NEW e \in Events, PublishSync(e) PROVE JoinIsExact'
  <2>1. Len(Append(queue, e)) = Len(queue) + 1
    BY <1>1, Appended
  <2> QED BY <1>1, <1>3, <2>1 DEF PublishSync, JoinIsExact, Busy
<1>4. ASSUME NEW t \in Tasks, NEW e \in Events, Begins(t, e) PROVE JoinIsExact'
  <2>1. PICK subscribers \in Seq(Subscribers) :
          subscribers = Matching(e) /\ (Heard(t, e, subscribers) \/ Unheard(e, subscribers))
    <3>1. Begin(t, e)
      BY <1>4, BeginsIs
    <3> QED BY <3>1, BeginIs
  <2>2. CASE t \in Publishers /\ Publish(t, e)
    <3>1. t # Worker /\ UNCHANGED <<queue, unfinished>>
      BY <1>1, <2>2 DEF Publish
    <3>2. delivery'[Worker] = delivery[Worker]
      BY <1>1, <2>1, <3>1 DEF Heard, Unheard
    <3> QED BY <3>1, <3>2 DEF JoinIsExact, Busy
  <2>3. CASE t = Worker /\ WorkerTakes /\ e = Head(queue)
    <3>1. queue # <<>> /\ ~Busy(Worker) /\ queue' = Tail(queue)
          /\ unfinished' = IF Matching(Head(queue)) = <<>> THEN unfinished - 1 ELSE unfinished
      BY <2>3 DEF WorkerTakes
    <3>2. Len(queue') = Len(queue) - 1
      BY <1>1, <3>1, FirstTaken
    <3>3. CASE Unheard(e, subscribers)
      <4>1. unfinished' = unfinished - 1 /\ delivery' = delivery
        BY <2>1, <2>3, <3>1, <3>3 DEF Unheard
      <4> QED BY <1>1, <3>1, <3>2, <4>1 DEF JoinIsExact, Busy
    <3>4. CASE Heard(t, e, subscribers)
      <4>1. unfinished' = unfinished
        BY <2>1, <2>3, <3>1, <3>4 DEF Heard
      <4>2. Delivery(e, subscribers, {}, FALSE) # Idle
        <5>1. Delivery(e, subscribers, {}, FALSE) \in Deliveries
              /\ Delivery(e, subscribers, {}, FALSE).todo = subscribers
          BY NewDelivery
        <5> QED BY <3>4, <5>1, NotIdle DEF Heard
      <4>3. delivery'[Worker] = Delivery(e, subscribers, {}, FALSE)
        BY <1>1, <2>3, <3>4 DEF Heard
      <4> QED BY <1>1, <3>1, <3>2, <4>1, <4>2, <4>3 DEF JoinIsExact, Busy
    <3> QED BY <2>1, <3>3, <3>4
  <2> QED BY <1>4, <2>2, <2>3 DEF Begins
<1>5. ASSUME NEW t \in Tasks, Deliver(t) PROVE JoinIsExact'
  <2>1. PICK d \in Deliveries : delivery[t] # Idle /\ GoOn(t, d) /\ UNCHANGED queue
    BY <1>5, DeliverIs
  <2>2. CASE d.todo = <<>>
    <3>1. /\ delivery' = [delivery EXCEPT ![t] = Idle]
          /\ unfinished' = IF t = Worker THEN unfinished - 1 ELSE unfinished
      BY <2>1, <2>2 DEF GoOn, Finish, TaskDone
    <3>2. CASE t = Worker
      <4>1. delivery'[Worker] = Idle /\ unfinished' = unfinished - 1
        BY <1>1, <3>1, <3>2
      <4> QED BY <1>1, <2>1, <3>2, <4>1 DEF JoinIsExact, Busy
    <3>3. CASE t # Worker
      <4>1. delivery'[Worker] = delivery[Worker] /\ unfinished' = unfinished
        BY <1>1, <3>1, <3>3
      <4> QED BY <2>1, <4>1 DEF JoinIsExact, Busy
    <3> QED BY <3>2, <3>3
  <2>3. CASE d.todo # <<>>
    <3>1. delivery' = [delivery EXCEPT ![t] = d] /\ unfinished' = unfinished
      BY <2>1, <2>3 DEF GoOn
    <3>2. d # Idle
      BY <2>3, NotIdle
    <3>3. delivery'[Worker] # Idle <=> delivery[Worker] # Idle
      BY <1>1, <2>1, <3>1, <3>2
    <3> QED BY <2>1, <3>1, <3>3 DEF JoinIsExact, Busy
  <2> QED BY <2>2, <2>3
<1>6. ASSUME WorkerEnds PROVE JoinIsExact'
  <2>1. Drops \/ (delivery[Worker] = Idle /\ UNCHANGED <<delivery, unfinished>>)
    BY <1>6, WorkerEndsIs
  <2>2. queue' = queue
    BY <1>6 DEF WorkerEnds
  <2>3. CASE Drops
    <3>1. delivery'[Worker] = Idle /\ delivery[Worker] # Idle /\ unfinished' = unfinished - 1
      BY <1>1, <2>3 DEF Drops
    <3> QED BY <1>1, <2>2, <3>1 DEF JoinIsExact, Busy
  <2> QED BY <2>1, <2>2, <2>3 DEF JoinIsExact, Busy
<1> QED BY <1>2, <1>3, <1>4, <1>5, <1>6, StepIs, AsideIs

-----------------------------------------------------------------------------
(* How far a delivery has come *)

(* One more call, with the first of what is left. *)
LEMMA OneMore ==
  ASSUME NEW c \in Seq(Subscribers), NEW s \in Seq(Subscribers), NEW todo \in Seq(Subscribers),
         Prefix(c, s), todo # <<>>, Len(c) + Len(todo) = Len(s),
         \A i \in 1..Len(todo) : todo[i] = s[Len(c) + i]
  PROVE  /\ Prefix(Append(c, Head(todo)), s)
         /\ Remains(Append(c, Head(todo)), s, todo)
<1> DEFINE a == Append(c, Head(todo))
<1>1. /\ Head(todo) \in Subscribers /\ Head(todo) = todo[1]
      /\ Len(todo) \in Nat /\ Len(todo) >= 1 /\ Len(c) \in Nat /\ Len(s) \in Nat
  BY FirstTaken
<1>2. Len(a) = Len(c) + 1 /\ (\A i \in 1..Len(c) : a[i] = c[i]) /\ a[Len(c) + 1] = todo[1]
  BY <1>1, Appended
<1> HIDE DEF a
<1>3. Prefix(a, s)
  <2>1. a[Len(c) + 1] = s[Len(c) + 1]
    BY <1>1, <1>2
  <2>2. Len(a) <= Len(s)
    BY <1>1, <1>2
  <2>3. ASSUME NEW i \in 1..Len(a) PROVE a[i] = s[i]
    <3>1. i \in 1..Len(c) \/ i = Len(c) + 1
      BY <1>1, <1>2
    <3> QED BY <1>2, <2>1, <3>1 DEF Prefix
  <2> QED BY <2>2, <2>3 DEF Prefix
<1>4. Remains(a, s, todo)
  <2>1. \A i \in 1..Len(todo) : todo[i] = s[Len(a) + i - 1]
    <3>1. \A i \in 1..Len(todo) : Len(a) + i - 1 = Len(c) + i
      BY <1>1, <1>2
    <3> QED BY <3>1
  <2> QED BY <1>1, <1>2, <2>1 DEF Remains
<1> QED BY <1>3, <1>4 DEF a

LEMMA GivenBegin ==
  ASSUME BusOK, Given, NEW t \in Tasks, NEW e \in Events, Begin(t, e),
         delivery[t] = Idle, fate[e] \in {"new", "queued"}
  PROVE  Given'
<1>1. PICK s \in Seq(Subscribers) :
        /\ Sorted(s) /\ snapshot' = [snapshot EXCEPT ![e] = s]
        /\ Heard(t, e, s) \/ Unheard(e, s)
  BY BeginIs
<1>2. /\ fate \in [Events -> Fate] /\ snapshot \in [Events -> Seq(Subscribers)]
      /\ called \in [Events -> Seq(Subscribers)] /\ delivery \in [Tasks -> Deliveries]
      /\ called[e] = <<>>
  BY DEF BusOK, PlainOK, DeliveryOK, Given, GivenSoFar
<1>3. \A u \in Tasks : delivery[u] # Idle => delivery[u].event # e
  BY DEF Given, Delivering
<1>4. /\ snapshot'[e] = s
      /\ \A x \in Events : x # e => snapshot'[x] = snapshot[x] /\ called'[x] = called[x] /\ fate'[x] = fate[x]
  BY <1>1, <1>2 DEF Heard, Unheard
<1>5. CASE Unheard(e, s)
  <2>1. delivery' = delivery /\ called'[e] = <<>> /\ fate'[e] = "unheard"
    BY <1>2, <1>5 DEF Unheard
  <2>2. Delivering'
    BY <1>3, <1>4, <2>1 DEF Given, Delivering, Carries
  <2>3. GivenSoFar(e)'
    <3>1. Prefix(<<>>, s)
      BY DEF Prefix
    <3> QED BY <1>1, <1>4, <2>1, <3>1 DEF GivenSoFar
  <2>4. \A x \in Events : x # e => GivenSoFar(x)'
    BY <1>4 DEF Given, GivenSoFar
  <2> QED BY <2>2, <2>3, <2>4 DEF Given
<1>6. CASE Heard(t, e, s)
  <2>1. /\ s # <<>> /\ fate'[e] = "running" /\ called'[e] = Append(<<>>, Head(s))
        /\ delivery'[t] = Delivery(e, s, {}, FALSE)
        /\ \A u \in Tasks : u # t => delivery'[u] = delivery[u]
    BY <1>2, <1>6 DEF Heard
  <2>2. delivery'[t].event = e /\ delivery'[t].todo = s
    <3>1. Delivery(e, s, {}, FALSE).event = e /\ Delivery(e, s, {}, FALSE).todo = s
      BY NewDelivery
    <3> QED BY <2>1, <3>1
  <2>3. Prefix(called'[e], s) /\ Remains(called'[e], s, s)
    <3>1. Prefix(<<>>, s) /\ Len(<<>>) + Len(s) = Len(s) /\ <<>> \in Seq(Subscribers)
          /\ \A i \in 1..Len(s) : s[i] = s[Len(<<>>) + i]
      BY DEF Prefix
    <3> QED BY <2>1, <3>1, OneMore
  <2>4. Delivering'
    <3> SUFFICES ASSUME NEW u \in Tasks, delivery'[u] # Idle
                 PROVE  /\ delivery'[u].event \in Events /\ fate'[delivery'[u].event] = "running"
                        /\ Remains(called'[delivery'[u].event], snapshot'[delivery'[u].event], delivery'[u].todo)
                        /\ \A v \in Tasks : (delivery'[v] # Idle /\ delivery'[v].event = delivery'[u].event) => v = u
      BY DEF Delivering, Carries
    <3>1. CASE u = t
      BY <1>3, <1>4, <2>1, <2>2, <2>3, <3>1
    <3>2. CASE u # t
      <4>1. delivery'[u] = delivery[u] /\ delivery[u].event # e /\ delivery[u].event \in Events
        BY <1>3, <2>1, <3>2 DEF Given, Delivering
      <4>2. fate'[delivery[u].event] = "running"
            /\ Remains(called'[delivery[u].event], snapshot'[delivery[u].event], delivery[u].todo)
        BY <1>4, <4>1 DEF Given, Delivering
      <4>3. ASSUME NEW v \in Tasks, delivery'[v] # Idle, delivery'[v].event = delivery[u].event PROVE v = u
        <5>1. v # t
          BY <2>2, <4>1, <4>3
        <5>2. delivery'[v] = delivery[v] /\ delivery[u] # Idle
          BY <2>1, <4>1, <5>1
        <5> QED BY <4>3, <5>2 DEF Given, Delivering, Carries
      <4> QED BY <4>1, <4>2, <4>3
    <3> QED BY <3>1, <3>2
  <2>5. GivenSoFar(e)'
    BY <1>1, <1>4, <2>1, <2>3 DEF GivenSoFar
  <2>6. \A x \in Events : x # e => GivenSoFar(x)'
    BY <1>4 DEF Given, GivenSoFar
  <2> QED BY <2>4, <2>5, <2>6 DEF Given
<1> QED BY <1>1, <1>5, <1>6

(* A delivery that is no longer carried leaves the others as they were. *)
LEMMA GivenEnd ==
  ASSUME BusOK, Given, NEW t \in Tasks, delivery[t] # Idle, NEW f \in {"done", "failed", "dropped"},
         f # "dropped" => Len(delivery[t].todo) = 1,
         delivery' = [delivery EXCEPT ![t] = Idle],
         fate' = [fate EXCEPT ![delivery[t].event] = f], UNCHANGED <<snapshot, called>>
  PROVE  Given'
<1> PICK e \in Events : e = delivery[t].event
  BY DEF Given, Delivering
<1>1. /\ fate \in [Events -> Fate] /\ delivery \in [Tasks -> Deliveries] /\ delivery[t].event = e
      /\ Remains(called[e], snapshot[e], delivery[t].todo) /\ GivenSoFar(e)
      /\ \A u \in Tasks : Carries(u, e) => u = t
  BY DEF BusOK, PlainOK, DeliveryOK, Given, Delivering
<1>2. /\ fate'[e] = f /\ (\A x \in Events : x # e => fate'[x] = fate[x])
      /\ delivery'[t] = Idle /\ \A u \in Tasks : u # t => delivery'[u] = delivery[u]
  BY <1>1
<1>3. Delivering'
  <2> SUFFICES ASSUME NEW u \in Tasks, delivery'[u] # Idle
               PROVE  /\ delivery'[u].event \in Events /\ fate'[delivery'[u].event] = "running"
                      /\ Remains(called[delivery'[u].event], snapshot[delivery'[u].event], delivery'[u].todo)
                      /\ \A v \in Tasks : (delivery'[v] # Idle /\ delivery'[v].event = delivery'[u].event) => v = u
    BY DEF Delivering, Carries
  <2>1. u # t /\ delivery'[u] = delivery[u]
    BY <1>2
  <2>2. delivery[u].event # e
    BY <1>1, <2>1 DEF Carries
  <2> QED BY <1>2, <2>1, <2>2 DEF Given, Delivering, Carries
<1>4. GivenSoFar(e)'
  <2>1. /\ Sorted(snapshot[e]) /\ Prefix(called[e], snapshot[e])
    BY <1>1 DEF GivenSoFar
  <2>2. f # "dropped" => Len(called[e]) = Len(snapshot[e])
    <3>1. called[e] \in Seq(Subscribers) /\ snapshot[e] \in Seq(Subscribers)
      BY <1>1 DEF BusOK, PlainOK
    <3>2. Len(called[e]) \in Nat /\ Len(snapshot[e]) \in Nat
      BY <3>1
    <3>3. Len(called[e]) + Len(delivery[t].todo) = Len(snapshot[e]) + 1
      BY <1>1 DEF Remains
    <3>4. ASSUME Len(delivery[t].todo) = 1 PROVE Len(called[e]) = Len(snapshot[e])
      <4>1. Len(called[e]) + 1 = Len(snapshot[e]) + 1
        BY <3>3, <3>4
      <4> QED BY <3>2, <4>1
    <3> QED BY <3>4
  <2> QED BY <1>2, <2>1, <2>2 DEF GivenSoFar
<1>5. \A x \in Events : x # e => GivenSoFar(x)'
  BY <1>2 DEF Given, GivenSoFar
<1> QED BY <1>3, <1>4, <1>5 DEF Given

(* A handler that ends lets the next one be called. *)
LEMMA GivenGoOn ==
  ASSUME BusOK, Given, NEW t \in Tasks, Deliver(t)
  PROVE  Given'
<1>1. PICK d \in Deliveries :
        /\ delivery[t] # Idle /\ d.event = delivery[t].event /\ d.event \in Events
        /\ d.todo = Tail(delivery[t].todo) /\ GoOn(t, d) /\ UNCHANGED snapshot
  BY DeliverIs
<1> DEFINE e == d.event
           b == delivery[t]
<1>2. /\ fate \in [Events -> Fate] /\ delivery \in [Tasks -> Deliveries]
      /\ called \in [Events -> Seq(Subscribers)] /\ snapshot \in [Events -> Seq(Subscribers)]
      /\ b.todo \in Seq(Subscribers)
  BY DEF BusOK, PlainOK, DeliveryOK, Deliveries
<1>3. /\ fate[e] = "running" /\ Remains(called[e], snapshot[e], b.todo) /\ GivenSoFar(e)
      /\ \A u \in Tasks : Carries(u, e) => u = t
  BY <1>1 DEF Given, Delivering
<1>4. /\ Len(b.todo) \in Nat /\ Len(b.todo) >= 1 /\ d.todo \in Seq(Subscribers)
      /\ Len(d.todo) = Len(b.todo) - 1
      /\ \A i \in 1..(Len(b.todo) - 1) : d.todo[i] = b.todo[i + 1]
  <2>1. Len(b.todo) >= 1
    BY <1>3 DEF Remains
  <2>2. b.todo # <<>>
    BY <1>2, <2>1
  <2> QED BY <1>1, <1>2, <2>2, FirstTaken
<1>5. CASE d.todo = <<>>
  <2>1. Finish(t, d) /\ UNCHANGED called
    BY <1>1, <1>5 DEF GoOn
  <2>2. Len(b.todo) = 1
    BY <1>4, <1>5
  <2>3. delivery' = [delivery EXCEPT ![t] = Idle]
        /\ fate' = [fate EXCEPT ![delivery[t].event] = IF d.failed THEN "failed" ELSE "done"]
    BY <1>1, <2>1 DEF Finish
  <2>4. CASE d.failed
    <3>1. fate' = [fate EXCEPT ![delivery[t].event] = "failed"]
      BY <2>3, <2>4
    <3> QED BY <1>1, <2>1, <2>2, <2>3, <3>1, GivenEnd
  <2>5. CASE ~d.failed
    <3>1. fate' = [fate EXCEPT ![delivery[t].event] = "done"]
      BY <2>3, <2>5
    <3> QED BY <1>1, <2>1, <2>2, <2>3, <3>1, GivenEnd
  <2> QED BY <2>4, <2>5
<1>6. CASE d.todo # <<>>
  <2>1. delivery' = [delivery EXCEPT ![t] = d] /\ fate' = fate
        /\ called' = [called EXCEPT ![e] = Append(called[e], Head(d.todo))]
    BY <1>1, <1>6 DEF GoOn, Calls
  <2>2. /\ delivery'[t] = d /\ called'[e] = Append(called[e], Head(d.todo))
        /\ \A u \in Tasks : u # t => delivery'[u] = delivery[u]
        /\ \A x \in Events : x # e => called'[x] = called[x]
    BY <1>1, <1>2, <2>1
  <2>3. Prefix(called'[e], snapshot[e]) /\ Remains(called'[e], snapshot[e], d.todo)
    <3>1. called[e] \in Seq(Subscribers) /\ snapshot[e] \in Seq(Subscribers)
      BY <1>1, <1>2
    <3>2. Len(called[e]) \in Nat /\ Len(snapshot[e]) \in Nat
      BY <3>1
    <3>3. Len(called[e]) + Len(b.todo) = Len(snapshot[e]) + 1
          /\ \A i \in 1..Len(b.todo) : b.todo[i] = snapshot[e][Len(called[e]) + i - 1]
      BY <1>3 DEF Remains
    <3>4. Len(called[e]) + Len(d.todo) = Len(snapshot[e])
      <4>1. Len(b.todo) \in Nat /\ Len(d.todo) = Len(b.todo) - 1 /\ Len(called[e]) + Len(b.todo) = Len(snapshot[e]) + 1
        BY <1>4, <3>3
      <4>2. \A k, m, n \in Nat : n + m = k + 1 => n + (m - 1) = k
        OBVIOUS
      <4>3. Len(called[e]) + (Len(b.todo) - 1) = Len(snapshot[e])
        BY <3>2, <4>1, <4>2
      <4> QED BY <4>1, <4>3
    <3>5. ASSUME NEW i \in 1..Len(d.todo) PROVE d.todo[i] = snapshot[e][Len(called[e]) + i]
      <4>1. i \in 1..(Len(b.todo) - 1) /\ i + 1 \in 1..Len(b.todo)
            /\ Len(called[e]) + (i + 1) - 1 = Len(called[e]) + i
        BY <1>4, <3>2
      <4>2. d.todo[i] = b.todo[i + 1] /\ b.todo[i + 1] = snapshot[e][Len(called[e]) + (i + 1) - 1]
        BY <1>4, <3>3, <4>1
      <4> QED BY <4>1, <4>2
    <3>6. Prefix(called[e], snapshot[e])
      BY <1>3 DEF GivenSoFar
    <3> HIDE DEF e, b
    <3>7. Prefix(Append(called[e], Head(d.todo)), snapshot[e])
          /\ Remains(Append(called[e], Head(d.todo)), snapshot[e], d.todo)
      BY <1>4, <1>6, <3>1, <3>4, <3>5, <3>6, OneMore
    <3> QED BY <2>2, <3>7
  <2>4. Delivering'
    <3> SUFFICES ASSUME NEW u \in Tasks, delivery'[u] # Idle
                 PROVE  /\ delivery'[u].event \in Events /\ fate'[delivery'[u].event] = "running"
                        /\ Remains(called'[delivery'[u].event], snapshot[delivery'[u].event], delivery'[u].todo)
                        /\ \A v \in Tasks : (delivery'[v] # Idle /\ delivery'[v].event = delivery'[u].event) => v = u
      BY <1>1 DEF Delivering, Carries
    <3>1. CASE u = t
      <4>1. \A v \in Tasks : (delivery'[v] # Idle /\ delivery'[v].event = e) => v = t
        BY <1>3, <2>2 DEF Carries
      <4>2. delivery'[u].event = e /\ delivery'[u].todo = d.todo /\ e \in Events
        BY <1>1, <2>2, <3>1
      <4>3. fate'[e] = "running" /\ Remains(called'[e], snapshot[e], d.todo)
        BY <1>3, <2>1, <2>3
      <4> HIDE DEF e
      <4> QED BY <3>1, <4>1, <4>2, <4>3
    <3>2. CASE u # t
      <4>1. delivery'[u] = delivery[u] /\ delivery[u].event # e
        BY <1>3, <2>2, <3>2 DEF Carries
      <4>2. /\ delivery[u].event \in Events /\ fate'[delivery[u].event] = "running"
            /\ Remains(called'[delivery[u].event], snapshot[delivery[u].event], delivery[u].todo)
        BY <2>1, <2>2, <4>1 DEF Given, Delivering
      <4>3. \A v \in Tasks : (delivery'[v] # Idle /\ delivery'[v].event = delivery[u].event) => v = u
        BY <2>2, <4>1 DEF Given, Delivering, Carries
      <4> QED BY <4>1, <4>2, <4>3
    <3> QED BY <3>1, <3>2
  <2>5. \A x \in Events : GivenSoFar(x)'
    <3> SUFFICES ASSUME NEW x \in Events
                 PROVE  /\ Sorted(snapshot[x]) /\ Prefix(called'[x], snapshot[x])
                        /\ fate[x] \in {"new", "queued"} => called'[x] = <<>>
                        /\ fate[x] \in {"done", "failed"} => Len(called'[x]) = Len(snapshot[x])
      BY <1>1, <2>1 DEF GivenSoFar
    <3>1. CASE x = e
      BY <1>3, <2>3, <3>1 DEF GivenSoFar
    <3>2. CASE x # e
      BY <2>2, <3>2 DEF Given, GivenSoFar
    <3> QED BY <3>1, <3>2
  <2> QED BY <2>4, <2>5 DEF Given
<1> QED BY <1>5, <1>6

LEMMA GivenStep ==
  ASSUME BusOK, Given, Queueing, [Next]_vars
  PROVE  Given'
<1>1. ASSUME Aside PROVE Given'
  BY <1>1 DEF Aside, Given, Delivering, GivenSoFar, Carries
<1>2. ASSUME NEW e \in Events, PublishSync(e) PROVE Given'
  <2>1. /\ fate \in [Events -> Fate] /\ fate[e] = "new" /\ fate' = [fate EXCEPT ![e] = "queued"]
        /\ UNCHANGED <<delivery, snapshot, called>>
    BY <1>2 DEF PublishSync, BusOK, PlainOK
  <2>2. Delivering'
    BY <2>1 DEF Given, Delivering, Carries
  <2>3. \A x \in Events : GivenSoFar(x)'
    BY <2>1 DEF Given, GivenSoFar
  <2> QED BY <2>2, <2>3 DEF Given
<1>3. ASSUME NEW t \in Tasks, NEW e \in Events, Begins(t, e) PROVE Given'
  <2>1. Begin(t, e) /\ delivery[t] = Idle /\ fate[e] \in {"new", "queued"}
    BY <1>3, BeginsIs
  <2> QED BY <2>1, GivenBegin
<1>4. ASSUME NEW t \in Tasks, Deliver(t) PROVE Given'
  BY <1>4, GivenGoOn
<1>5. ASSUME WorkerEnds PROVE Given'
  <2>1. /\ Drops \/ (delivery[Worker] = Idle /\ UNCHANGED <<delivery, fate, unfinished>>)
        /\ UNCHANGED <<snapshot, called>>
    BY <1>5, WorkerEndsIs
  <2>2. CASE Drops
    BY <2>1, <2>2, GivenEnd DEF Drops, Tasks
  <2>3. CASE UNCHANGED <<delivery, fate, unfinished>>
    BY <2>1, <2>3 DEF Given, Delivering, GivenSoFar, Carries
  <2> QED BY <2>1, <2>2, <2>3
<1> QED BY <1>1, <1>2, <1>3, <1>4, <1>5, StepIs, AsideIs

-----------------------------------------------------------------------------
(* The order of the queue *)

(* What was handled has left the queue. *)
LEMMA HandledIsTaken ==
  ASSUME BusOK, Queueing, NEW i \in DOMAIN handled, NEW k \in DOMAIN order, order[k] = handled[i]
  PROVE  k <= Taken
<1>1. Len(order) \in Nat /\ Len(queue) \in Nat /\ k \in 1..Len(order) /\ DOMAIN queue = 1..Len(queue)
  BY DEF BusOK, PlainOK
<1>2. SUFFICES ASSUME ~(k <= Taken) PROVE FALSE
  OBVIOUS
<1> DEFINE i0 == k - Taken
<1>3. i0 \in DOMAIN queue /\ Taken + i0 = k
  BY <1>1, <1>2 DEF Taken, Queueing
<1>4. queue[i0] = order[Taken + i0] /\ fate[queue[i0]] = "queued"
  BY <1>3 DEF Queueing
<1>5. fate[handled[i]] = "queued"
  BY <1>3, <1>4
<1> QED BY <1>5 DEF Queueing

(* One more call of an event that nothing handled came after. *)
LEMMA CallKeepsOrder ==
  ASSUME BusOK, QueueOrder, NEW x \in Events, handled' = Append(handled, x), order' = order,
         \A i \in DOMAIN handled, k, l \in DOMAIN order : order[k] = handled[i] /\ order[l] = x => k <= l,
         \A k, l \in DOMAIN order : order[k] = order[l] => k = l
  PROVE  QueueOrder'
<1> DEFINE n == Len(handled)
<1>1. /\ n \in Nat /\ DOMAIN handled = 1..n /\ DOMAIN handled' = 1..(n + 1)
      /\ (\A i \in 1..n : handled'[i] = handled[i]) /\ handled'[n + 1] = x
      /\ \A k \in DOMAIN order : k \in Nat
  <2>1. handled \in Seq(Events) /\ order \in Seq(Events)
    BY DEF BusOK, PlainOK
  <2> QED BY <2>1, Appended
<1> HIDE DEF n
<1> SUFFICES ASSUME NEW i \in DOMAIN handled', NEW j \in DOMAIN handled', NEW k \in DOMAIN order, NEW l \in DOMAIN order,
                    i < j, order[k] = handled'[i], order[l] = handled'[j]
             PROVE  k <= l
  BY DEF QueueOrder
<1>2. i \in 1..n /\ (j \in 1..n \/ j = n + 1)
  BY <1>1
<1>3. CASE j \in 1..n
  BY <1>1, <1>2, <1>3 DEF QueueOrder
<1>4. CASE j = n + 1
  BY <1>1, <1>2, <1>4
<1> QED BY <1>2, <1>3, <1>4

(* A delivery of e begins, goes on, ends or is dropped; if the worker's,   *)
(* e is the last event that left the queue, else one that never was in it. *)
Handles(t, e, handling) ==
  /\ fate'[e] \notin {"new", "queued"} /\ \A x \in Events : x # e => fate'[x] = fate[x]
  /\ delivery'[t] # Idle => delivery'[t].event = e
  /\ \A u \in Tasks : u # t => delivery'[u] = delivery[u]
  /\ handled' = IF handling THEN Append(handled, e) ELSE handled
Onward(t, e) ==
  /\ order' = order /\ queue' \in Seq(Events) /\ Len(queue') <= Len(order)
  /\ Taken <= Taken' /\ (t # Worker => Taken' = Taken)
  /\ \A i \in DOMAIN queue' : queue'[i] = order[Taken' + i] /\ fate[queue'[i]] = "queued" /\ queue'[i] # e
  /\ t = Worker => Taken' >= 1 /\ order[Taken'] = e
  /\ t # Worker => \A k \in DOMAIN order : order[k] # e

LEMMA OnwardStep ==
  ASSUME BusOK, Queueing, QueueOrder, NEW t \in Tasks, NEW e \in Events,
         NEW handling \in BOOLEAN, Handles(t, e, handling), Onward(t, e)
  PROVE  Queueing' /\ QueueOrder'
<1>1. /\ order \in Seq(Events) /\ handled \in Seq(Events) /\ queue \in Seq(Events) /\ queue' \in Seq(Events)
      /\ order' = order /\ Worker \in Tasks /\ \A p \in Publishers : p \in Tasks /\ p # Worker
  BY BusAssumption DEF BusOK, PlainOK, Onward, Tasks
<1>2. /\ (\A i \in DOMAIN queue' : queue'[i] \in Events) /\ (\A k \in DOMAIN order : order[k] \in Events)
      /\ (\A i \in DOMAIN handled : handled[i] \in Events)
      /\ Len(handled) \in Nat /\ DOMAIN handled = 1..Len(handled)
  BY <1>1
<1>3. Taken \in Int /\ Taken' \in Int /\ (\A k \in DOMAIN order : k \in Int) /\ DOMAIN order = 1..Len(order)
      /\ Taken' <= Len(order)
  <2>1. Len(order) \in Nat /\ Len(queue) \in Nat /\ Len(queue') \in Nat
    BY <1>1
  <2> QED BY <1>1, <2>1 DEF Taken
<1>4. \A i \in DOMAIN handled' : fate'[handled'[i]] \notin {"new", "queued"}
  <2>1. \A i \in DOMAIN handled : fate'[handled[i]] \notin {"new", "queued"}
    BY <1>2 DEF Queueing, Handles
  <2>2. CASE ~handling
    BY <2>1, <2>2 DEF Handles
  <2>3. CASE handling
    <3>1. /\ DOMAIN handled' = 1..(Len(handled) + 1) /\ handled'[Len(handled) + 1] = e
          /\ \A i \in 1..Len(handled) : handled'[i] = handled[i]
      BY <1>1, <2>3, Appended DEF Handles
    <3>2. \A i \in 1..(Len(handled) + 1) : i \in 1..Len(handled) \/ i = Len(handled) + 1
      BY <1>2
    <3>3. fate'[e] \notin {"new", "queued"}
      BY DEF Handles
    <3> QED BY <1>2, <2>1, <3>1, <3>2, <3>3
  <2> QED BY <2>2, <2>3
<1>5. Queueing'
  <2>1. \A k \in DOMAIN order : fate'[order[k]] # "new"
    BY <1>2 DEF Queueing, Handles
  <2>2. \A i \in DOMAIN queue' : queue'[i] = order[Taken' + i] /\ fate'[queue'[i]] = "queued"
    BY <1>2 DEF Handles, Onward
  <2>3. delivery'[Worker] # Idle => Taken' >= 1 /\ delivery'[Worker].event = order[Taken']
    <3>1. CASE t = Worker
      BY <3>1 DEF Handles, Onward
    <3>2. CASE t # Worker
      BY <1>1, <3>2 DEF Handles, Onward, Queueing, Busy
    <3> QED BY <3>1, <3>2
  <2>4. ASSUME NEW p \in Publishers, delivery'[p] # Idle, NEW k \in DOMAIN order
        PROVE  order[k] # delivery'[p].event
    <3>1. CASE t = p
      <4>1. t # Worker /\ delivery'[p].event = e
        BY <1>1, <2>4, <3>1 DEF Handles
      <4> QED BY <4>1 DEF Onward
    <3>2. CASE t # p
      <4>1. delivery'[p] = delivery[p]
        BY <1>1, <3>2 DEF Handles
      <4> QED BY <2>4, <4>1 DEF Queueing, Busy
    <3> QED BY <3>1, <3>2
  <2>5. /\ \A k, l \in DOMAIN order : order[k] = order[l] => k = l
        /\ Len(queue') <= Len(order)
    BY DEF Queueing, Onward
  <2> HIDE DEF Taken
  <2> QED BY <1>1, <1>4, <2>1, <2>2, <2>3, <2>4, <2>5 DEF Queueing, Busy
<1>6. QueueOrder'
  <2>1. CASE ~handling
    BY <1>1, <2>1 DEF QueueOrder, Handles
  <2>2. CASE handling
    <3>1. ASSUME NEW i \in DOMAIN handled, NEW k \in DOMAIN order, NEW l \in DOMAIN order,
                 order[k] = handled[i], order[l] = e
          PROVE  k <= l
      <4>1. t = Worker /\ Taken' >= 1 /\ order[Taken'] = e
        BY <3>1 DEF Onward
      <4>2. l = Taken'
        BY <1>3, <3>1, <4>1 DEF Queueing
      <4>3. k <= Taken /\ Taken <= Taken'
        BY <3>1, HandledIsTaken DEF Onward
      <4> HIDE DEF Taken
      <4> QED BY <1>3, <4>2, <4>3
    <3>2. handled' = Append(handled, e)
      BY <2>2 DEF Handles
    <3> QED BY <1>1, <3>1, <3>2, CallKeepsOrder DEF Queueing
  <2> QED BY <2>1, <2>2
<1> QED BY <1>5, <1>6

(* A task that is busy stays with its event, which nobody else has. *)
LEMMA BusyOnward ==
  ASSUME BusOK, Given, Queueing, NEW t \in Tasks, NEW e \in Events,
         delivery[t] # Idle, delivery[t].event = e, UNCHANGED <<queue, order>>
  PROVE  Onward(t, e)
<1>1. /\ order \in Seq(Events) /\ queue \in Seq(Events) /\ fate[e] = "running"
      /\ Len(order) \in Nat /\ Len(queue) \in Nat
  BY DEF BusOK, PlainOK, Given, Delivering
<1>2. Taken' = Taken /\ Taken \in Int
  BY <1>1 DEF Taken
<1>3. \A i \in DOMAIN queue : queue[i] = order[Taken + i] /\ fate[queue[i]] = "queued" /\ queue[i] # e
  BY <1>1 DEF Queueing
<1>4. t = Worker => Taken >= 1 /\ order[Taken] = e
  BY DEF Queueing, Busy
<1>5. t # Worker => \A k \in DOMAIN order : order[k] # e
  BY DEF Queueing, Busy, Tasks
<1>6. Taken <= Taken
  BY <1>2
<1> HIDE DEF Taken
<1> QED BY <1>1, <1>2, <1>3, <1>4, <1>5, <1>6 DEF Queueing, Onward

(* The event that begins was never in the queue, or was its first. *)
LEMMA BeginsOnward ==
  ASSUME BusOK, Queueing, NEW t \in Tasks, NEW e \in Events, Begins(t, e)
  PROVE  Onward(t, e)
<1>1. /\ order \in Seq(Events) /\ queue \in Seq(Events) /\ order' = order
      /\ Len(order) \in Nat /\ Len(queue) \in Nat /\ Len(queue) <= Len(order)
      /\ DOMAIN order = 1..Len(order) /\ DOMAIN queue = 1..Len(queue)
  BY BeginsIs DEF BusOK, PlainOK, Queueing
<1>2. CASE t \in Publishers /\ Publish(t, e)
  <2>1. t # Worker /\ queue' = queue /\ fate[e] = "new"
    BY <1>2, BusAssumption DEF Publish
  <2>2. Taken' = Taken /\ Taken \in Int
    BY <1>1, <2>1 DEF Taken
  <2>3. \A i \in DOMAIN queue : queue[i] = order[Taken + i] /\ fate[queue[i]] = "queued" /\ queue[i] # e
    BY <2>1 DEF Queueing
  <2>4. \A k \in DOMAIN order : order[k] # e
    BY <2>1 DEF Queueing
  <2>5. Taken <= Taken
    BY <2>2
  <2> HIDE DEF Taken
  <2> QED BY <1>1, <2>1, <2>2, <2>3, <2>4, <2>5 DEF Onward
<1>3. CASE t = Worker /\ WorkerTakes /\ e = Head(queue)
  <2>1. queue # <<>> /\ queue' = Tail(queue)
    BY <1>3 DEF WorkerTakes
  <2>2. /\ queue' \in Seq(Events) /\ e = queue[1] /\ Len(queue) >= 1 /\ Len(queue') = Len(queue) - 1
        /\ DOMAIN queue' = 1..(Len(queue) - 1) /\ \A i \in 1..(Len(queue) - 1) : queue'[i] = queue[i + 1]
    BY <1>1, <1>3, <2>1, FirstTaken
  <2>3. Taken \in Int /\ Taken >= 0 /\ Taken' = Taken + 1 /\ Taken + Len(queue) = Len(order)
    BY <1>1, <2>2 DEF Taken
  <2>4. \A i \in DOMAIN queue : queue[i] = order[Taken + i] /\ fate[queue[i]] = "queued"
    BY DEF Queueing
  <2> HIDE DEF Taken
  <2>5. order[Taken'] = e
    BY <1>1, <2>2, <2>3, <2>4
  <2>6. ASSUME NEW i \in DOMAIN queue'
        PROVE  queue'[i] = order[Taken' + i] /\ fate[queue'[i]] = "queued" /\ queue'[i] # e
    <3>1. i + 1 \in DOMAIN queue /\ queue'[i] = queue[i + 1] /\ Taken + (i + 1) = Taken' + i
      <4>1. i \in 1..(Len(queue) - 1)
        BY <2>2
      <4>2. i + 1 \in 1..Len(queue)
        BY <1>1, <4>1
      <4>3. Taken + (i + 1) = Taken' + i
        BY <2>3, <4>1
      <4> QED BY <1>1, <2>2, <4>1, <4>2, <4>3
    <3>2. queue'[i] = order[Taken' + i] /\ fate[queue'[i]] = "queued"
      BY <2>4, <3>1
    <3>3. Taken' + i \in DOMAIN order /\ Taken' \in DOMAIN order /\ Taken' + i # Taken'
      BY <1>1, <2>2, <2>3, <3>1
    <3>4. queue'[i] # e
      BY <2>5, <3>2, <3>3 DEF Queueing
    <3> QED BY <3>2, <3>4
  <2>7. Len(queue') <= Len(order) /\ Taken <= Taken' /\ Taken' >= 1
    BY <1>1, <2>2, <2>3
  <2> QED BY <1>1, <1>3, <2>2, <2>5, <2>6, <2>7 DEF Onward
<1> QED BY <1>2, <1>3 DEF Begins

LEMMA BeginsHandles ==
  ASSUME BusOK, Queueing, NEW t \in Tasks, NEW e \in Events, Begins(t, e)
  PROVE  \E handling \in BOOLEAN : Handles(t, e, handling)
<1>1. Begin(t, e) /\ delivery[t] = Idle
  BY BeginsIs
<1>2. PICK s \in Seq(Subscribers) : Heard(t, e, s) \/ Unheard(e, s)
  BY <1>1, BeginIs
<1>3. fate \in [Events -> Fate] /\ delivery \in [Tasks -> Deliveries]
  BY DEF BusOK, PlainOK, DeliveryOK
<1>4. CASE Unheard(e, s)
  <2>1. Handles(t, e, FALSE)
    BY <1>1, <1>3, <1>4 DEF Unheard, Handles
  <2> QED BY <2>1
<1>5. CASE Heard(t, e, s)
  <2>1. /\ delivery'[t] = Delivery(e, s, {}, FALSE) /\ handled' = Append(handled, e)
        /\ fate'[e] = "running" /\ (\A x \in Events : x # e => fate'[x] = fate[x])
        /\ \A u \in Tasks : u # t => delivery'[u] = delivery[u]
    BY <1>3, <1>5 DEF Heard
  <2>2. Delivery(e, s, {}, FALSE).event = e
    BY NewDelivery
  <2>3. Handles(t, e, TRUE)
    BY <2>1, <2>2 DEF Handles
  <2> QED BY <2>3
<1> QED BY <1>2, <1>4, <1>5

LEMMA DeliverHandles ==
  ASSUME BusOK, Given, NEW t \in Tasks, Deliver(t)
  PROVE  /\ delivery[t] # Idle /\ delivery[t].event \in Events /\ UNCHANGED <<queue, order>>
         /\ \E handling \in BOOLEAN : Handles(t, delivery[t].event, handling)
<1>1. PICK d \in Deliveries :
        /\ delivery[t] # Idle /\ d.event = delivery[t].event /\ d.event \in Events
        /\ GoOn(t, d) /\ UNCHANGED <<queue, order>>
  BY DeliverIs
<1>2. PICK e \in Events : e = d.event /\ e = delivery[t].event
  BY <1>1
<1>3. fate \in [Events -> Fate] /\ delivery \in [Tasks -> Deliveries] /\ fate[e] = "running"
  BY <1>1, <1>2 DEF BusOK, PlainOK, DeliveryOK, Given, Delivering
<1>4. CASE d.todo = <<>>
  <2>1. Finish(t, d) /\ handled' = handled
    BY <1>1, <1>4 DEF GoOn
  <2>2. delivery'[t] = Idle /\ \A u \in Tasks : u # t => delivery'[u] = delivery[u]
    BY <1>3, <2>1 DEF Finish
  <2>3. fate'[e] \in {"failed", "done"} /\ \A x \in Events : x # e => fate'[x] = fate[x]
    BY <1>2, <1>3, <2>1 DEF Finish
  <2>4. Handles(t, e, FALSE)
    BY <2>1, <2>2, <2>3 DEF Handles
  <2> QED BY <1>1, <1>2, <2>4
<1>5. CASE d.todo # <<>>
  <2>1. delivery' = [delivery EXCEPT ![t] = d] /\ fate' = fate /\ handled' = Append(handled, e)
    BY <1>1, <1>2, <1>5 DEF GoOn, Calls
  <2>2. delivery'[t] = d /\ \A u \in Tasks : u # t => delivery'[u] = delivery[u]
    BY <1>3, <2>1
  <2>3. Handles(t, e, TRUE)
    BY <1>2, <1>3, <2>1, <2>2 DEF Handles
  <2> QED BY <1>1, <1>2, <2>3
<1> QED BY <1>4, <1>5

LEMMA PublishSyncStep ==
  ASSUME BusOK, Given, Queueing, QueueOrder, NEW e \in Events, PublishSync(e)
  PROVE  Queueing' /\ QueueOrder'
<1> DEFINE n == Len(order)
           m == Len(queue)
<1>1. /\ fate[e] = "new" /\ fate' = [fate EXCEPT ![e] = "queued"] /\ queue' = Append(queue, e)
      /\ order' = Append(order, e) /\ UNCHANGED <<delivery, handled>>
  BY DEF PublishSync
<1>2. /\ order \in Seq(Events) /\ queue \in Seq(Events) /\ handled \in Seq(Events) /\ fate \in [Events -> Fate]
      /\ (\A k \in DOMAIN order : order[k] \in Events) /\ (\A i \in DOMAIN queue : queue[i] \in Events)
      /\ \A i \in DOMAIN handled : handled[i] \in Events
  BY DEF BusOK, PlainOK
<1>3. /\ n \in Nat /\ DOMAIN order = 1..n /\ DOMAIN order' = 1..(n + 1) /\ order'[n + 1] = e
      /\ Len(order') = n + 1 /\ \A k \in 1..n : order'[k] = order[k]
  BY <1>1, <1>2, Appended
<1>4. /\ m \in Nat /\ DOMAIN queue = 1..m /\ DOMAIN queue' = 1..(m + 1) /\ queue'[m + 1] = e
      /\ Len(queue') = m + 1 /\ (\A i \in 1..m : queue'[i] = queue[i]) /\ m <= n
  BY <1>1, <1>2, Appended DEF Queueing
<1> HIDE DEF n, m
<1>5. /\ fate'[e] = "queued" /\ (\A x \in Events : x # e => fate'[x] = fate[x])
      /\ \A k \in 1..(n + 1) : k \in 1..n \/ k = n + 1
  BY <1>1, <1>2, <1>3
<1>6. Taken' = Taken /\ Taken = n - m /\ Taken \in Int
  BY <1>3, <1>4 DEF Taken, n, m
<1>7. (\A k \in 1..n : order[k] # e) /\ (\A i \in DOMAIN handled : handled[i] # e)
  BY <1>1, <1>3 DEF Queueing
<1>8. Queueing'
  <2>1. \A k, l \in DOMAIN order' : order'[k] = order'[l] => k = l
    BY <1>3, <1>5, <1>7 DEF Queueing
  <2>2. \A k \in DOMAIN order' : fate'[order'[k]] # "new"
    BY <1>2, <1>3, <1>5, <1>7 DEF Queueing
  <2>3. ASSUME NEW i \in DOMAIN queue'
        PROVE  queue'[i] = order'[Taken + i] /\ fate'[queue'[i]] = "queued"
    <3>1. CASE i = m + 1
      BY <1>3, <1>4, <1>5, <1>6, <3>1
    <3>2. CASE i \in 1..m
      <4>1. Taken + i \in 1..n
        BY <1>3, <1>4, <1>6, <3>2
      <4>2. queue[i] = order[Taken + i] /\ fate[queue[i]] = "queued" /\ queue[i] # e
        BY <1>1, <1>4, <3>2 DEF Queueing
      <4> QED BY <1>2, <1>3, <1>4, <1>5, <3>2, <4>1, <4>2
    <3> QED BY <1>4, <3>1, <3>2
  <2>4. delivery[Worker] # Idle => Taken >= 1 /\ delivery[Worker].event = order'[Taken]
    <3>1. ASSUME delivery[Worker] # Idle PROVE Taken >= 1 /\ delivery[Worker].event = order[Taken]
      BY <3>1 DEF Queueing, Busy
    <3>2. ASSUME Taken >= 1 PROVE order'[Taken] = order[Taken]
      BY <1>3, <1>4, <1>6, <3>2
    <3> QED BY <3>1, <3>2
  <2>5. ASSUME NEW p \in Publishers, delivery[p] # Idle, NEW k \in DOMAIN order'
        PROVE  order'[k] # delivery[p].event
    <3>1. CASE k = n + 1
      <4>1. fate[delivery[p].event] = "running"
        BY <2>5 DEF Given, Delivering, Tasks
      <4> QED BY <1>1, <1>3, <3>1, <4>1
    <3>2. CASE k \in 1..n
      BY <1>3, <2>5, <3>2 DEF Queueing, Busy
    <3> QED BY <1>3, <1>5, <3>1, <3>2
  <2>6. \A i \in DOMAIN handled : fate'[handled[i]] \notin {"new", "queued"}
    BY <1>2, <1>5, <1>7 DEF Queueing
  <2>7. Len(queue') <= Len(order')
    BY <1>3, <1>4
  <2> HIDE DEF Taken
  <2> QED BY <1>1, <1>6, <2>1, <2>2, <2>3, <2>4, <2>5, <2>6, <2>7 DEF Queueing, Busy
<1>9. QueueOrder'
  <2> SUFFICES ASSUME NEW i \in DOMAIN handled, NEW j \in DOMAIN handled, NEW k \in DOMAIN order', NEW l \in DOMAIN order',
                      i < j, order'[k] = handled[i], order'[l] = handled[j]
               PROVE  k <= l
    BY <1>1 DEF QueueOrder
  <2>1. k \in 1..n /\ l \in 1..n
    BY <1>3, <1>5, <1>7
  <2> QED BY <1>3, <2>1 DEF QueueOrder
<1> QED BY <1>8, <1>9

LEMMA QueueStep ==
  ASSUME BusOK, Given, Queueing, QueueOrder, [Next]_vars
  PROVE  Queueing' /\ QueueOrder'
<1>1. ASSUME Aside PROVE Queueing' /\ QueueOrder'
  BY <1>1 DEF Aside, Queueing, QueueOrder, Taken, Busy
<1>2. ASSUME NEW e \in Events, PublishSync(e) PROVE Queueing' /\ QueueOrder'
  BY <1>2, PublishSyncStep
<1>3. ASSUME NEW t \in Tasks, NEW e \in Events, Begins(t, e) PROVE Queueing' /\ QueueOrder'
  BY <1>3, BeginsOnward, BeginsHandles, OnwardStep
<1>4. ASSUME NEW t \in Tasks, Deliver(t) PROVE Queueing' /\ QueueOrder'
  BY <1>4, DeliverHandles, BusyOnward, OnwardStep
<1>5. ASSUME WorkerEnds PROVE Queueing' /\ QueueOrder'
  <2>1. /\ Drops \/ UNCHANGED <<delivery, fate>>
        /\ UNCHANGED <<queue, order, handled>>
    BY <1>5, WorkerEndsIs
  <2>2. CASE UNCHANGED <<delivery, fate>>
    BY <2>1, <2>2 DEF Queueing, QueueOrder, Taken, Busy
  <2>3. CASE Drops
    <3>1. Worker \in Tasks /\ delivery[Worker] # Idle /\ delivery[Worker].event \in Events
      BY <2>3 DEF Drops, Tasks, Given, Delivering
    <3>2. PICK e \in Events : e = delivery[Worker].event
      BY <3>1
    <3>3. fate \in [Events -> Fate] /\ delivery \in [Tasks -> Deliveries]
      BY DEF BusOK, PlainOK, DeliveryOK
    <3>4. Handles(Worker, e, FALSE)
      BY <2>1, <2>3, <3>1, <3>2, <3>3 DEF Drops, Handles
    <3>5. Onward(Worker, e)
      BY <2>1, <3>1, <3>2, BusyOnward
    <3> QED BY <3>1, <3>4, <3>5, OnwardStep
  <2> QED BY <2>1, <2>2, <2>3
<1> QED BY <1>1, <1>2, <1>3, <1>4, <1>5, StepIs, AsideIs

-----------------------------------------------------------------------------
LEMMA InvInit == Init => IInv
<1> SUFFICES ASSUME Init PROVE IInv
  OBVIOUS
<1>1. /\ registry = <<>> /\ queue = <<>> /\ unfinished = 0 /\ worker = "none" /\ order = <<>> /\ handled = <<>>
      /\ delivery = [t \in Tasks |-> Idle] /\ fate = [e \in Events |-> "new"]
      /\ snapshot = [e \in Events |-> <<>>] /\ called = [e \in Events |-> <<>>]
  BY DEF Init
<1>2. PlainOK
  BY <1>1 DEF PlainOK, WorkerState, Fate
<1>3. DeliveryOK
  BY <1>1, IdleTyped DEF DeliveryOK
<1>4. \A t \in Tasks : delivery[t] = Idle
  BY <1>1
<1>5. Worker \in Tasks /\ Publishers \subseteq Tasks
  BY DEF Tasks
<1>6. JoinIsExact
  BY <1>1, <1>4, <1>5 DEF JoinIsExact, Busy
<1>7. Given
  <2>1. Delivering
    BY <1>4 DEF Delivering
  <2>2. \A e \in Events : GivenSoFar(e)
    BY <1>1 DEF GivenSoFar, Sorted, Prefix
  <2> QED BY <2>1, <2>2 DEF Given
<1>8. Queueing
  BY <1>1, <1>4, <1>5 DEF Queueing, Busy
<1>9. QueueOrder
  BY <1>1 DEF QueueOrder
<1> QED BY <1>2, <1>3, <1>6, <1>7, <1>8, <1>9 DEF IInv, BusOK

LEMMA InvStep == IInv /\ [Next]_vars => IInv'
BY TypeStep, CountStep, GivenStep, QueueStep DEF IInv

LEMMA Invariance == Spec => []IInv
BY InvInit, InvStep, PTL DEF Spec

(* Every variable of the bus keeps its type; above all the queue's count   *)
(* of unfinished tasks never goes below zero, where task_done would raise. *)
THEOREM BusTypeCorrect == Spec => []TypeOK
<1>1. ASSUME IInv PROVE TypeOK
  <2>1. PlainOK /\ DeliveryOK /\ JoinIsExact
    BY <1>1 DEF IInv, BusOK
  <2>2. unfinished \in Nat
    BY <2>1 DEF PlainOK, JoinIsExact
  <2>3. \A t \in Tasks : /\ delivery[t].event \in Events \cup {"none"} /\ delivery[t].todo \in Seq(Subscribers)
                         /\ delivery[t].once \subseteq Once /\ delivery[t].failed \in BOOLEAN
    BY <2>1 DEF DeliveryOK, Deliveries
  <2> QED BY <2>1, <2>2, <2>3 DEF PlainOK, TypeOK
<1> QED BY <1>1, Invariance, PTL

(* join() waits for exactly the events that are queued or being handled by *)
(* the worker, whatever handlers raise and whenever stop() cancels.        *)
THEOREM JoinIsExactCorrect == Spec => []JoinIsExact
<1>1. IInv => JoinIsExact
  BY DEF IInv
<1> QED BY <1>1, Invariance, PTL

(* The handlers of events published from synchronous code are called in    *)
(* the order of publication, across stops and restarts of the worker.      *)
THEOREM QueueOrderCorrect == Spec => []QueueOrder
<1>1. IInv => QueueOrder
  BY DEF IInv
<1> QED BY <1>1, Invariance, PTL

LEMMA PrefixIs ==
  ASSUME NEW c \in Seq(Subscribers), NEW s \in Seq(Subscribers), Prefix(c, s)
  PROVE  IsPrefix(c, s) /\ (Len(c) = Len(s) => c = s)
<1>1. Len(c) \in Nat /\ Len(s) \in Nat /\ Len(c) <= Len(s) /\ \A i \in 1..Len(c) : c[i] = s[i]
  BY DEF Prefix
<1>2. c = SubSeq(s, 1, Len(c))
  <2> DEFINE p == SubSeq(s, 1, Len(c))
  <2>1. p \in Seq(Subscribers) /\ Len(p) = Len(c) /\ \A i \in 1..Len(c) : p[i] = s[i]
    BY <1>1
  <2> HIDE DEF p
  <2>2. c = p
    BY <1>1, <2>1
  <2> QED BY <2>2 DEF p
<1>3. Len(c) = Len(s) => c = s
  BY <1>1
<1> QED BY <1>1, <1>2, <1>3 DEF IsPrefix

(* A failing handler, a change of the registry or a stop never leaves a    *)
(* gap in a delivery, doubles a call or breaks the order of priorities.    *)
THEOREM EveryoneIsCalledCorrect == Spec => []EveryoneIsCalled
<1>1. ASSUME IInv PROVE EveryoneIsCalled
  <2> SUFFICES ASSUME NEW e \in Events
               PROVE  /\ IsPrefix(called[e], snapshot[e])
                      /\ fate[e] \in {"done", "failed"} => called[e] = snapshot[e]
                      /\ \A i, j \in DOMAIN called[e] :
                           i < j => Priority[called[e][i]] <= Priority[called[e][j]]
    BY DEF EveryoneIsCalled
  <2>1. called[e] \in Seq(Subscribers) /\ snapshot[e] \in Seq(Subscribers) /\ GivenSoFar(e)
    BY <1>1 DEF IInv, BusOK, PlainOK, Given
  <2>2. Sorted(snapshot[e]) /\ Prefix(called[e], snapshot[e])
    BY <2>1 DEF GivenSoFar
  <2>3. IsPrefix(called[e], snapshot[e]) /\ (Len(called[e]) = Len(snapshot[e]) => called[e] = snapshot[e])
    BY <2>1, <2>2, PrefixIs
  <2>4. fate[e] \in {"done", "failed"} => called[e] = snapshot[e]
    BY <2>1, <2>3 DEF GivenSoFar
  <2>5. ASSUME NEW i \in DOMAIN called[e], NEW j \in DOMAIN called[e], i < j
        PROVE  Priority[called[e][i]] <= Priority[called[e][j]]
    <3>1. /\ i \in DOMAIN snapshot[e] /\ called[e][i] = snapshot[e][i]
          /\ j \in DOMAIN snapshot[e] /\ called[e][j] = snapshot[e][j]
      BY <2>1, <2>2 DEF Prefix
    <3> QED BY <2>2, <2>5, <3>1 DEF Sorted
  <2> QED BY <2>3, <2>4, <2>5
<1> QED BY <1>1, Invariance, PTL

-----------------------------------------------------------------------------
(* What the owner relies on *)

LEMMA OwnerSeesNothing ==
  ASSUME UNCHANGED <<queue, unfinished>>, delivery'[Worker] = delivery[Worker]
  PROVE  [Contract!Next]_(Contract!vars)
BY DEF Contract!vars, Busy

LEMMA BeginsTaken ==
  ASSUME IInv, NEW t \in Tasks, NEW e \in Events, Begins(t, e)
  PROVE  [Contract!Next]_(Contract!vars)
<1>1. /\ queue \in Seq(Events) /\ delivery \in [Tasks -> Deliveries]
      /\ Worker \in Tasks /\ Worker \notin Publishers
  BY BusAssumption DEF IInv, BusOK, PlainOK, DeliveryOK, Tasks
<1>2. PICK subscribers \in Seq(Subscribers) :
        subscribers = Matching(e) /\ (Heard(t, e, subscribers) \/ Unheard(e, subscribers))
  <2>1. Begin(t, e)
    BY BeginsIs DEF IInv
  <2> QED BY <2>1, BeginIs DEF IInv
<1>3. CASE t \in Publishers /\ Publish(t, e)
  <2>1. t # Worker /\ UNCHANGED <<queue, unfinished>>
    BY <1>1, <1>3 DEF Publish
  <2>2. delivery'[Worker] = delivery[Worker]
    BY <1>1, <1>2, <2>1 DEF Heard, Unheard
  <2> QED BY <2>1, <2>2, OwnerSeesNothing
<1>4. CASE t = Worker /\ WorkerTakes /\ e = Head(queue)
  <2>1. /\ queue # <<>> /\ delivery[Worker] = Idle /\ queue' = Tail(queue)
        /\ unfinished' = IF Matching(Head(queue)) = <<>> THEN unfinished - 1 ELSE unfinished
    BY <1>4 DEF WorkerTakes, Busy
  <2>2. CASE Unheard(e, subscribers)
    <3>1. unfinished' = unfinished - 1 /\ delivery' = delivery
      BY <1>2, <1>4, <2>1, <2>2 DEF Unheard
    <3>2. Contract!Take
      BY <2>1, <3>1 DEF Contract!Take, Busy
    <3> QED BY <3>2 DEF Contract!Next
  <2>3. CASE Heard(t, e, subscribers)
    <3>1. unfinished' = unfinished
      BY <1>2, <1>4, <2>1, <2>3 DEF Heard
    <3>2. /\ Delivery(e, subscribers, {}, FALSE) \in Deliveries
          /\ Delivery(e, subscribers, {}, FALSE).todo = subscribers
          /\ Delivery(e, subscribers, {}, FALSE).event = e
      BY NewDelivery
    <3>3. Delivery(e, subscribers, {}, FALSE) # Idle
      BY <2>3, <3>2, NotIdle DEF Heard
    <3>4. delivery'[Worker] = Delivery(e, subscribers, {}, FALSE)
      BY <1>1, <1>4, <2>3 DEF Heard
    <3>5. delivery'[Worker] # Idle /\ delivery'[Worker].event = Head(queue)
      BY <1>4, <3>2, <3>3, <3>4
    <3>6. Contract!Take
      BY <2>1, <3>1, <3>5 DEF Contract!Take, Busy
    <3> QED BY <3>6 DEF Contract!Next
  <2> QED BY <1>2, <2>2, <2>3
<1> QED BY <1>3, <1>4 DEF Begins

LEMMA DeliverFinishes ==
  ASSUME IInv, NEW t \in Tasks, Deliver(t)
  PROVE  [Contract!Next]_(Contract!vars)
<1>1. delivery \in [Tasks -> Deliveries] /\ Worker \in Tasks
  BY DEF IInv, BusOK, DeliveryOK, Tasks
<1>2. PICK d \in Deliveries :
        delivery[t] # Idle /\ d.event = delivery[t].event /\ GoOn(t, d) /\ UNCHANGED queue
  BY DeliverIs DEF IInv
<1>3. CASE d.todo = <<>>
  <2>1. /\ delivery' = [delivery EXCEPT ![t] = Idle]
        /\ unfinished' = IF t = Worker THEN unfinished - 1 ELSE unfinished
    BY <1>2, <1>3 DEF GoOn, Finish, TaskDone
  <2>2. CASE t = Worker
    <3>1. delivery'[Worker] = Idle /\ unfinished' = unfinished - 1
      BY <1>1, <2>1, <2>2
    <3>2. Contract!Finish
      BY <1>2, <2>2, <3>1 DEF Contract!Finish, Busy
    <3> QED BY <3>2 DEF Contract!Next
  <2>3. CASE t # Worker
    <3>1. delivery'[Worker] = delivery[Worker] /\ unfinished' = unfinished
      BY <1>1, <2>1, <2>3
    <3> QED BY <1>2, <3>1, OwnerSeesNothing
  <2> QED BY <2>2, <2>3
<1>4. CASE d.todo # <<>>
  <2>1. delivery' = [delivery EXCEPT ![t] = d] /\ UNCHANGED <<queue, unfinished>>
    BY <1>2, <1>4 DEF GoOn
  <2>2. CASE t = Worker
    <3>1. delivery'[Worker] # Idle /\ delivery'[Worker].event = delivery[Worker].event
      BY <1>1, <1>2, <1>4, <2>1, <2>2, NotIdle
    <3> QED BY <1>2, <2>1, <2>2, <3>1 DEF Contract!vars, Busy
  <2>3. CASE t # Worker
    <3>1. delivery'[Worker] = delivery[Worker]
      BY <1>1, <2>1, <2>3
    <3> QED BY <2>1, <3>1, OwnerSeesNothing
  <2> QED BY <2>2, <2>3
<1> QED BY <1>3, <1>4

LEMMA ContractStep == IInv /\ [Next]_vars => [Contract!Next]_(Contract!vars)
<1> SUFFICES ASSUME IInv, [Next]_vars PROVE [Contract!Next]_(Contract!vars)
  OBVIOUS
<1>1. /\ queue \in Seq(Events) /\ BusOK
      /\ delivery \in [Tasks -> Deliveries] /\ Worker \in Tasks
  BY DEF IInv, BusOK, PlainOK, DeliveryOK, Tasks
<1>2. ASSUME Aside PROVE [Contract!Next]_(Contract!vars)
  BY <1>2, OwnerSeesNothing DEF Aside
<1>3. ASSUME NEW e \in Events, PublishSync(e) PROVE [Contract!Next]_(Contract!vars)
  <2>1. queue' = Append(queue, e) /\ unfinished' = unfinished + 1 /\ delivery' = delivery
    BY <1>3 DEF PublishSync
  <2>2. Len(queue') = Len(queue) + 1 /\ \A i \in DOMAIN queue : queue'[i] = queue[i]
    BY <1>1, <2>1, Appended
  <2>3. Contract!Put
    BY <2>1, <2>2 DEF Contract!Put, Busy
  <2> QED BY <2>3 DEF Contract!Next
<1>4. ASSUME WorkerEnds PROVE [Contract!Next]_(Contract!vars)
  <2>1. /\ Drops \/ UNCHANGED <<delivery, unfinished>>
        /\ UNCHANGED queue
    BY <1>4, WorkerEndsIs
  <2>2. ASSUME Drops PROVE Contract!Finish
    <3>1. /\ delivery[Worker] # Idle /\ delivery'[Worker] = Idle
          /\ unfinished' = unfinished - 1
      BY <1>1, <2>2 DEF Drops
    <3> QED BY <2>1, <3>1 DEF Contract!Finish, Busy
  <2> QED BY <2>1, <2>2, OwnerSeesNothing DEF Contract!Next
<1> QED BY <1>1, <1>2, <1>3, <1>4, BeginsTaken, DeliverFinishes, StepIs, AsideIs

(* However tasks that await publish() interleave with the worker, and      *)
(* whenever it is stopped and started again, its owner sees one queue,     *)
(* one event in hand, and a count that falls once for each event.          *)
THEOREM KeepsBusContractCorrect == Spec => KeepsBusContract
<1>1. Init => Contract!Init
  <2> SUFFICES ASSUME Init PROVE Contract!Init
    OBVIOUS
  <2>1. queue = <<>> /\ unfinished = 0 /\ delivery[Worker] = Idle
    BY DEF Init, Tasks
  <2> QED BY <2>1 DEF Contract!Init, Busy
<1> QED BY <1>1, ContractStep, Invariance, PTL DEF Spec, KeepsBusContract, Contract!Spec
=============================================================================
