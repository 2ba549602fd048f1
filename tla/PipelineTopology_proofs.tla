----------------------- MODULE PipelineTopology_proofs -----------------------
(***************************************************************************)
(* Whatever the pipeline, the scheduler's order is topological and         *)
(* complete, and the search of the graph refuses exactly the edges that    *)
(* close a cycle.  The scheduler's counters are what makes its order       *)
(* right: a node's in_degree is the number of its parents that are not in  *)
(* the order yet, and it is zero exactly when the node is in the queue or  *)
(* in the order.  The search is right because the nodes it has left are    *)
(* closed under their edges and have no cycle.                             *)
(***************************************************************************)
EXTENDS PipelineScheduler, FiniteSetTheorems, TLAPS

Pending(n) == {p \in nodes : <<p, n>> \in edges /\ p \notin Elements(order)}

Counted == \A n \in nodes : in_degree[n] = Cardinality(Pending(n))

Placed ==
  /\ \A n \in nodes : in_degree[n] = 0 <=> n \in Elements(queue) \cup Elements(order)
  /\ Elements(queue) \cap Elements(order) = {}
  /\ Distinct(queue)

IInv ==
  /\ TypeOK
  /\ Acyclic(nodes, edges)
  /\ Counted
  /\ Placed
  /\ OrderIsTopological

-----------------------------------------------------------------------------
(* Appending adds one element, and keeps a sequence without repetition so. *)
LEMMA Appending ==
  ASSUME NEW S, NEW s \in Seq(S), NEW x \in S
  PROVE  /\ Append(s, x) \in Seq(S)
         /\ Elements(Append(s, x)) = Elements(s) \cup {x}
         /\ Distinct(s) /\ x \notin Elements(s) => Distinct(Append(s, x))
<1>1. Append(s, x) \in Seq(S) /\ Len(Append(s, x)) = Len(s) + 1
  OBVIOUS
<1>2. \A i \in 1 .. Len(s) : Append(s, x)[i] = s[i]
  OBVIOUS
<1>3. Append(s, x)[Len(s) + 1] = x
  OBVIOUS
<1>4. DOMAIN s = 1 .. Len(s) /\ DOMAIN Append(s, x) = 1 .. Len(s) + 1 /\ Len(s) \in Nat
  BY <1>1
<1>5. Elements(Append(s, x)) = Elements(s) \cup {x}
  <2>1. \A i \in 1 .. Len(s) + 1 : i \in 1 .. Len(s) \/ i = Len(s) + 1
    BY <1>4
  <2>2. \A i \in 1 .. Len(s) : i \in 1 .. Len(s) + 1
    BY <1>4
  <2>3. Len(s) + 1 \in 1 .. Len(s) + 1
    BY <1>4
  <2> QED
    BY <1>2, <1>3, <1>4, <2>1, <2>2, <2>3 DEF Elements
<1>6. Distinct(s) /\ x \notin Elements(s) => Distinct(Append(s, x))
  <2>1. \A i \in 1 .. Len(s) + 1 : i \in 1 .. Len(s) \/ i = Len(s) + 1
    BY <1>4
  <2> QED
    BY <1>2, <1>3, <1>4, <2>1 DEF Distinct, Elements
<1> QED
  BY <1>1, <1>5, <1>6

(* Taking the head of a queue without repetition removes that element. *)
LEMMA Taking ==
  ASSUME NEW S, NEW s \in Seq(S), s # <<>>, Distinct(s)
  PROVE  /\ Head(s) \in S
         /\ Tail(s) \in Seq(S)
         /\ Head(s) \in Elements(s)
         /\ Elements(Tail(s)) = Elements(s) \ {Head(s)}
         /\ Distinct(Tail(s))
<1>1. Len(s) \in Nat /\ Len(s) > 0 /\ DOMAIN s = 1 .. Len(s) /\ Head(s) = s[1]
  OBVIOUS
<1>2. Tail(s) \in Seq(S) /\ Len(Tail(s)) = Len(s) - 1
  OBVIOUS
<1>3. DOMAIN Tail(s) = 1 .. Len(s) - 1
  BY <1>1, <1>2
<1>4. \A i \in 1 .. Len(s) - 1 : Tail(s)[i] = s[i + 1]
  BY <1>1
<1>5. \A i \in 1 .. Len(s) - 1 : i + 1 \in DOMAIN s /\ i + 1 # 1
  BY <1>1
<1>6. \A j \in DOMAIN s : j = 1 \/ (j - 1 \in 1 .. Len(s) - 1 /\ (j - 1) + 1 = j)
  BY <1>1
<1>7. 1 \in DOMAIN s
  BY <1>1
<1>8. Elements(Tail(s)) = Elements(s) \ {Head(s)}
  BY <1>1, <1>3, <1>4, <1>5, <1>6, <1>7 DEF Elements, Distinct
<1>9. Distinct(Tail(s))
  <2> SUFFICES ASSUME NEW i \in 1 .. Len(s) - 1, NEW j \in 1 .. Len(s) - 1,
                      Tail(s)[i] = Tail(s)[j]
               PROVE  i = j
    BY <1>3 DEF Distinct
  <2>1. i + 1 = j + 1
    BY <1>4, <1>5 DEF Distinct
  <2> QED
    BY <2>1, <1>1
<1>10. Head(s) \in S
  BY <1>1, <1>7
<1>11. Head(s) \in Elements(s)
  BY <1>1, <1>7 DEF Elements
<1> QED
  BY <1>2, <1>8, <1>9, <1>10, <1>11

(* Two sequences without repetition and without a common element, joined. *)
LEMMA Joining ==
  ASSUME NEW S, NEW s \in Seq(S), NEW t \in Seq(S), Distinct(s), Distinct(t),
         Elements(s) \cap Elements(t) = {}
  PROVE  /\ s \o t \in Seq(S)
         /\ Elements(s \o t) = Elements(s) \cup Elements(t)
         /\ Distinct(s \o t)
<1>1. /\ s \o t \in Seq(S)
      /\ Len(s) \in Nat /\ Len(t) \in Nat
      /\ DOMAIN s = 1 .. Len(s)
      /\ DOMAIN t = 1 .. Len(t)
      /\ DOMAIN (s \o t) = 1 .. Len(s) + Len(t)
  OBVIOUS
<1>2. \A i \in DOMAIN s : i \in DOMAIN (s \o t) /\ (s \o t)[i] = s[i]
  OBVIOUS
<1>3. \A i \in DOMAIN t : Len(s) + i \in DOMAIN (s \o t) /\ (s \o t)[Len(s) + i] = t[i]
  OBVIOUS
<1>4. \A k \in DOMAIN (s \o t) :
        \/ k \in DOMAIN s
        \/ (k - Len(s) \in DOMAIN t /\ k = Len(s) + (k - Len(s)))
  BY <1>1
<1>5. Elements(s \o t) = Elements(s) \cup Elements(t)
  <2>1. Elements(s \o t) \subseteq Elements(s) \cup Elements(t)
    BY <1>2, <1>3, <1>4 DEF Elements
  <2>2. Elements(s) \subseteq Elements(s \o t)
    BY <1>2 DEF Elements
  <2>3. Elements(t) \subseteq Elements(s \o t)
    BY <1>3 DEF Elements
  <2> QED
    BY <2>1, <2>2, <2>3
<1>6. Distinct(s \o t)
  <2> SUFFICES ASSUME NEW i \in DOMAIN (s \o t), NEW j \in DOMAIN (s \o t),
                      (s \o t)[i] = (s \o t)[j]
               PROVE  i = j
    BY DEF Distinct
  <2>1. CASE i \in DOMAIN s /\ j \in DOMAIN s
    BY <2>1, <1>2 DEF Distinct
  <2>a. \A k \in DOMAIN s : (s \o t)[k] \in Elements(s)
    BY <1>2 DEF Elements
  <2>b. \A k \in DOMAIN (s \o t) : k \notin DOMAIN s => (s \o t)[k] \in Elements(t)
    <3> SUFFICES ASSUME NEW k \in DOMAIN (s \o t), k \notin DOMAIN s
                 PROVE  (s \o t)[k] \in Elements(t)
      OBVIOUS
    <3>1. k - Len(s) \in DOMAIN t /\ k = Len(s) + (k - Len(s))
      BY <1>4
    <3>2. (s \o t)[k] = t[k - Len(s)]
      BY <3>1, <1>3
    <3> QED
      BY <3>1, <3>2 DEF Elements
  <2>2. CASE i \in DOMAIN s /\ j \notin DOMAIN s
    BY <2>2, <2>a, <2>b
  <2>3. CASE i \notin DOMAIN s /\ j \in DOMAIN s
    BY <2>3, <2>a, <2>b
  <2>4. CASE i \notin DOMAIN s /\ j \notin DOMAIN s
    <3>1. i - Len(s) = j - Len(s)
      BY <2>4, <1>3, <1>4 DEF Distinct
    <3> QED
      BY <3>1, <2>4, <1>4
  <2> QED
    BY <2>1, <2>2, <2>3, <2>4
<1> QED
  BY <1>1, <1>5, <1>6

(* A listing of a set is a sequence of its members, each of them once. *)
LEMMA Listing ==
  ASSUME NEW T, IsFiniteSet(T), NEW S \in SUBSET T, NEW s \in Listings(S)
  PROVE  s \in Seq(T) /\ Elements(s) = S /\ Distinct(s)
<1>1. Cardinality(S) \in Nat
  BY FS_Subset, FS_CardinalityType
<1>2. s \in [1 .. Cardinality(S) -> T]
  BY DEF Listings
<1>3. s \in Seq(T)
  BY <1>1, <1>2
<1> QED
  BY <1>3 DEF Listings

(* What Pending holds is finite, like every set of nodes. *)
LEMMA PendingIsFinite ==
  ASSUME TypeOK, NEW n
  PROVE  /\ IsFiniteSet(nodes)
         /\ IsFiniteSet(Pending(n))
         /\ Cardinality(Pending(n)) \in Nat
<1>1. IsFiniteSet(nodes)
  BY IdsAssumption, FS_Subset DEF TypeOK
<1>2. Pending(n) \subseteq nodes
  BY DEF Pending
<1> QED
  BY <1>1, <1>2, FS_Subset, FS_CardinalityType

-----------------------------------------------------------------------------
LEMMA Beginning ==
  ASSUME NEW ns \in SUBSET Ids, NEW es \in SUBSET (ns \X ns), Acyclic(ns, es), Begins(ns, es)
  PROVE  IInv'
<1> DEFINE roots == {n \in ns : in_degree'[n] = 0}
<1>1. IsFiniteSet(ns) /\ nodes' = ns /\ edges' = es
  BY IdsAssumption, FS_Subset DEF Begins
<1>2. order' = <<>> /\ order' \in Seq(ns) /\ Elements(order') = {}
  BY DEF Begins, Elements
<1>3. \A n \in ns : Pending(n)' = ParentsIn(ns, es, n) /\ Cardinality(ParentsIn(ns, es, n)) \in Nat
  <2> TAKE n \in ns
  <2>1. Pending(n)' = ParentsIn(ns, es, n)
    BY <1>1, <1>2 DEF Pending, ParentsIn
  <2>2. ParentsIn(ns, es, n) \subseteq ns
    BY DEF ParentsIn
  <2> QED
    BY <2>1, <2>2, <1>1, FS_Subset, FS_CardinalityType
<1>4. in_degree' = [n \in ns |-> Cardinality(ParentsIn(ns, es, n))] /\ in_degree' \in [ns -> Nat]
  BY <1>3 DEF Begins
<1>5. queue' \in Seq(ns) /\ Elements(queue') = roots /\ Distinct(queue')
  <2>1. roots \in SUBSET ns /\ queue' \in Listings(roots)
    BY DEF Begins
  <2> QED
    BY <2>1, <1>1, Listing
<1>6. TypeOK'
  BY <1>1, <1>2, <1>4, <1>5 DEF TypeOK
<1>7. Counted'
  BY <1>1, <1>3, <1>4 DEF Counted
<1>8. Placed'
  BY <1>1, <1>2, <1>5 DEF Placed
<1>9. OrderIsTopological'
  BY <1>2 DEF OrderIsTopological, Distinct
<1>10. Acyclic(nodes, edges)'
  BY <1>1 DEF Acyclic
<1> QED
  BY <1>6, <1>7, <1>8, <1>9, <1>10 DEF IInv

(* The node at the head of the queue has all its parents in the order, and is
   not in the order itself. *)
LEMMA HeadIsReady ==
  ASSUME IInv, queue # <<>>
  PROVE  /\ Head(queue) \in nodes
         /\ Head(queue) \in Elements(queue)
         /\ Head(queue) \notin Elements(order)
         /\ Parents(Head(queue)) \subseteq Elements(order)
<1> DEFINE node == Head(queue)
<1>1. node \in nodes /\ node \in Elements(queue)
  BY Taking DEF IInv, TypeOK, Placed
<1>2. node \notin Elements(order) /\ in_degree[node] = 0
  BY <1>1 DEF IInv, Placed
<1>3. Cardinality(Pending(node)) = 0
  BY <1>1, <1>2 DEF IInv, Counted
<1>4. Pending(node) = {}
  BY <1>3, PendingIsFinite, FS_EmptySet DEF IInv
<1>5. Parents(node) \subseteq Elements(order)
  BY <1>4 DEF Parents, ParentsIn, Pending
<1> QED
  BY <1>1, <1>2, <1>5

(* One turn of the loop lowers each child by the one parent that left. *)
LEMMA LoweredIsCounted ==
  ASSUME IInv, Visit
  PROVE  /\ in_degree' \in [nodes' -> Nat]
         /\ Counted'
<1> DEFINE node == Head(queue)
<1>1. /\ node \in nodes /\ node \notin Elements(order)
      /\ Elements(order') = Elements(order) \cup {node}
      /\ nodes' = nodes /\ edges' = edges
  BY HeadIsReady, Appending DEF IInv, TypeOK, Visit, pipeline
<1>2. \A n \in nodes : Pending(n)' = Pending(n) \ {node}
  <2> TAKE n \in nodes
  <2>1. Pending(n)' = {p \in nodes : <<p, n>> \in edges /\ p \notin Elements(order')}
    BY <1>1 DEF Pending
  <2> QED
    BY <2>1, <1>1 DEF Pending
<1>3. ASSUME NEW n \in nodes
      PROVE  in_degree'[n] \in Nat /\ in_degree'[n] = Cardinality(Pending(n)')
  <2>1. /\ in_degree[n] \in Nat
        /\ in_degree[n] = Cardinality(Pending(n))
        /\ IsFiniteSet(Pending(n))
    BY PendingIsFinite DEF IInv, TypeOK, Counted
  <2>2. CASE <<node, n>> \in edges
    <3>1. node \in Pending(n)
      BY <2>2, <1>1 DEF Pending
    <3>2. Cardinality(Pending(n) \ {node}) = Cardinality(Pending(n)) - 1
      BY <3>1, <2>1, FS_RemoveElement
    <3>3. Cardinality(Pending(n) \ {node}) \in Nat
      BY <2>1, FS_RemoveElement, FS_CardinalityType
    <3>4. in_degree'[n] = in_degree[n] - 1
      BY <2>2 DEF Visit, Lowered
    <3> QED
      BY <3>2, <3>3, <3>4, <2>1, <1>2
  <2>3. CASE <<node, n>> \notin edges
    <3>1. Pending(n) \ {node} = Pending(n)
      BY <2>3 DEF Pending
    <3>2. in_degree'[n] = in_degree[n]
      BY <2>3 DEF Visit, Lowered
    <3> QED
      BY <3>1, <3>2, <2>1, <1>2
  <2> QED
    BY <2>2, <2>3
<1>4. in_degree' \in [nodes' -> Nat]
  <2>1. in_degree' = [c \in nodes |-> in_degree'[c]]
    BY DEF Visit, Lowered
  <2> QED
    BY <2>1, <1>1, <1>3
<1> QED
  BY <1>1, <1>3, <1>4 DEF Counted

(* One turn keeps every node of degree zero in exactly one place. *)
LEMMA VisitPlaces ==
  ASSUME IInv, Visit
  PROVE  queue' \in Seq(nodes) /\ Placed'
<1> DEFINE node == Head(queue)
<1>1. /\ node \in nodes /\ node \in Elements(queue) /\ node \notin Elements(order)
      /\ Elements(order') = Elements(order) \cup {node}
      /\ nodes' = nodes
  BY HeadIsReady, Appending DEF IInv, TypeOK, Visit, pipeline
<1>2. PICK ready \in Listings(Ready(node)) : queue' = Tail(queue) \o ready
  BY DEF Visit
<1>3. ready \in Seq(nodes) /\ Elements(ready) = Ready(node) /\ Distinct(ready)
  <2>1. Ready(node) \in SUBSET nodes
    BY DEF Ready
  <2> QED
    BY <2>1, <1>2, Listing, PendingIsFinite DEF IInv
<1>4. /\ Tail(queue) \in Seq(nodes)
      /\ Elements(Tail(queue)) = Elements(queue) \ {node}
      /\ Distinct(Tail(queue))
  BY Taking DEF IInv, TypeOK, Placed, Visit
<1>5. \A c \in Ready(node) : c \in nodes /\ in_degree[c] = 1
  BY DEF Ready
<1>6. Ready(node) \cap (Elements(queue) \cup Elements(order)) = {}
  BY <1>5 DEF IInv, Placed
<1>7. /\ queue' \in Seq(nodes)
      /\ Elements(queue') = (Elements(queue) \ {node}) \cup Ready(node)
      /\ Distinct(queue')
  <2>1. Elements(Tail(queue)) \cap Elements(ready) = {}
    BY <1>3, <1>4, <1>6
  <2>2. /\ Tail(queue) \o ready \in Seq(nodes)
        /\ Elements(Tail(queue) \o ready) = Elements(Tail(queue)) \cup Elements(ready)
        /\ Distinct(Tail(queue) \o ready)
    BY <2>1, <1>3, <1>4, Joining
  <2> QED
    BY <2>2, <1>2, <1>3, <1>4
<1>8. \A n \in nodes : in_degree'[n] = 0 <=> in_degree[n] = 0 \/ n \in Ready(node)
  <2> TAKE n \in nodes
  <2>1. in_degree[n] \in Nat /\ in_degree'[n] \in Nat
    BY LoweredIsCounted, <1>1 DEF IInv, TypeOK
  <2>2. in_degree'[n] = IF <<node, n>> \in edges THEN in_degree[n] - 1 ELSE in_degree[n]
    BY DEF Visit, Lowered
  <2> QED
    BY <2>1, <2>2 DEF Ready
<1>9. \A n \in nodes : in_degree'[n] = 0 <=> n \in Elements(queue') \cup Elements(order')
  BY <1>1, <1>7, <1>8 DEF IInv, Placed
<1>10. Elements(queue') \cap Elements(order') = {}
  BY <1>1, <1>6, <1>7 DEF IInv, Placed
<1> QED
  BY <1>1, <1>7, <1>9, <1>10 DEF Placed

(* One turn appends a node whose parents are all there. *)
LEMMA VisitOrders ==
  ASSUME IInv, Visit
  PROVE  order' \in Seq(nodes) /\ OrderIsTopological'
<1> DEFINE node == Head(queue)
<1>1. /\ node \in nodes /\ node \notin Elements(order)
      /\ Parents(node) \subseteq Elements(order)
      /\ order \in Seq(nodes)
      /\ order' = Append(order, node)
      /\ nodes' = nodes /\ edges' = edges
  BY HeadIsReady DEF IInv, TypeOK, Visit, pipeline
<1>2. order' \in Seq(nodes) /\ Distinct(order')
  BY <1>1, Appending DEF IInv, OrderIsTopological
<1>3. /\ Len(order) \in Nat
      /\ DOMAIN order = 1 .. Len(order)
      /\ DOMAIN order' = 1 .. Len(order) + 1
      /\ \A i \in 1 .. Len(order) : order'[i] = order[i]
      /\ order'[Len(order) + 1] = node
  BY <1>1
<1>4. ASSUME NEW i \in DOMAIN order', NEW p \in nodes, <<p, order'[i]>> \in edges
      PROVE  \E j \in 1 .. (i - 1) : order'[j] = p
  <2>1. p \in Parents(order'[i])
    BY <1>4 DEF Parents, ParentsIn
  <2>2. CASE i = Len(order) + 1
    <3>1. p \in Elements(order)
      BY <2>1, <2>2, <1>1, <1>3
    <3>2. PICK j \in DOMAIN order : order[j] = p
      BY <3>1 DEF Elements
    <3>3. j \in 1 .. (i - 1) /\ order'[j] = p
      BY <3>2, <2>2, <1>3
    <3> QED
      BY <3>3
  <2>3. CASE i # Len(order) + 1
    <3>1. i \in DOMAIN order /\ order'[i] = order[i]
      BY <2>3, <1>3
    <3>2. PICK j \in 1 .. (i - 1) : order[j] = p
      BY <3>1, <2>1 DEF IInv, OrderIsTopological
    <3>3. j \in 1 .. Len(order)
      BY <3>1, <3>2, <1>3
    <3> QED
      BY <3>2, <3>3, <1>3
  <2> QED
    BY <2>2, <2>3
<1> QED
  BY <1>1, <1>2, <1>4 DEF OrderIsTopological, Parents, ParentsIn

LEMMA VisitKeeps ==
  ASSUME IInv, Visit
  PROVE  IInv'
<1>1. nodes' = nodes /\ edges' = edges
  BY DEF Visit, pipeline
<1>2. TypeOK'
  BY <1>1, LoweredIsCounted, VisitPlaces, VisitOrders DEF IInv, TypeOK
<1>3. Acyclic(nodes, edges)'
  BY <1>1 DEF IInv, Acyclic
<1> QED
  BY <1>2, <1>3, LoweredIsCounted, VisitPlaces, VisitOrders DEF IInv

LEMMA NothingKeeps ==
  ASSUME IInv, UNCHANGED scheduler
  PROVE  IInv'
<1>1. UNCHANGED <<nodes, edges, in_degree, queue, order>>
  BY DEF scheduler, pipeline
<1>2. TypeOK' /\ Acyclic(nodes, edges)'
  BY <1>1 DEF IInv, TypeOK, Acyclic
<1>3. \A n \in nodes : Pending(n)' = Pending(n)
  BY <1>1 DEF Pending
<1>4. Counted'
  BY <1>1, <1>3 DEF IInv, Counted
<1>5. Placed'
  BY <1>1 DEF IInv, Placed
<1>6. OrderIsTopological'
  BY <1>1 DEF IInv, OrderIsTopological, Parents, ParentsIn
<1> QED
  BY <1>2, <1>4, <1>5, <1>6 DEF IInv

(* A node left out would have a parent left out, and so on for ever: without
   a cycle there is none when the queue is empty. *)
LEMMA NothingIsLeftOut == IInv => OrderIsComplete
<1> SUFFICES ASSUME IInv, queue = <<>>
             PROVE  Elements(order) = nodes
  BY DEF OrderIsComplete
<1>1. Elements(order) \subseteq nodes
  BY DEF IInv, TypeOK, Elements
<1>2. Elements(queue) = {}
  BY DEF Elements
<1> DEFINE left == nodes \ Elements(order)
<1>3. ASSUME left # {}
      PROVE  FALSE
  <2>1. PICK n \in left : \A m \in left : <<m, n>> \notin edges
    BY <1>3 DEF IInv, Acyclic
  <2>2. Pending(n) = {}
    BY <2>1 DEF Pending
  <2>3. in_degree[n] = 0
    BY <2>1, <2>2, FS_EmptySet DEF IInv, Counted
  <2> QED
    BY <2>1, <2>3, <1>2 DEF IInv, Placed
<1> QED
  BY <1>1, <1>3

-----------------------------------------------------------------------------
(* The search for cycles *)

(* An edge is refused when its end reaches its start; that is when the     *)
(* graph with it would have a cycle.                                       *)
LEMMA ReachClosesCycle ==
  ASSUME NEW ns, NEW es \in SUBSET (ns \X ns), Acyclic(ns, es),
         NEW from \in ns, NEW to \in ns
  PROVE  from \in Reach(ns, es, {to}) <=> ~Acyclic(ns, es \cup {<<from, to>>})
<1> DEFINE R == Reach(ns, es, {to})
           Closes == es \cup {<<from, to>>}
<1>1. to \in R /\ R \subseteq ns
  BY DEF Reach
<1>2. \A m, n \in ns : m \in R /\ <<m, n>> \in es => n \in R
  BY DEF Reach
<1>3. ASSUME from \in R PROVE ~Acyclic(ns, Closes)
  <2> DEFINE S == {n \in R : from \in Reach(ns, es, {n})}
  <2>1. to \in S /\ S \in SUBSET ns
    BY <1>1, <1>3
  <2>2. from \in S
    BY <1>3 DEF Reach
  <2>3. ASSUME NEW n \in S, n # to PROVE \E m \in S : <<m, n>> \in es
    <3>1. \E m \in R : <<m, n>> \in es
      <4> SUFFICES ASSUME \A m \in R : <<m, n>> \notin es PROVE FALSE
        OBVIOUS
      <4>1. \A e \in es : e[1] \in R \ {n} => e[2] \in R \ {n}
        <5> SUFFICES ASSUME NEW e \in es, e[1] \in R, e[1] # n PROVE e[2] \in R /\ e[2] # n
          OBVIOUS
        <5>1. e[1] \in ns /\ e[2] \in ns /\ <<e[1], e[2]>> \in es
          OBVIOUS
        <5> HIDE DEF R
        <5> QED BY <1>2, <5>1
      <4>2. {to} \subseteq R \ {n} /\ R \ {n} \in SUBSET ns
        BY <1>1, <2>3
      <4>3. n \in R \ {n}
        BY <4>1, <4>2 DEF Reach
      <4> QED BY <4>3
    <3>2. PICK m \in R : <<m, n>> \in es
      BY <3>1
    <3>3. from \in Reach(ns, es, {m})
      <4>1. from \in Reach(ns, es, {n})
        OBVIOUS
      <4> SUFFICES ASSUME NEW T \in SUBSET ns, m \in T,
                          \A e \in es : e[1] \in T => e[2] \in T
                   PROVE  from \in T
        BY DEF Reach
      <4>2. n \in T
        BY <3>2
      <4> QED BY <4>1, <4>2 DEF Reach
    <3> QED BY <3>2, <3>3
  <2>4. \A n \in S : \E m \in S : <<m, n>> \in Closes
    BY <2>2, <2>3
  <2> HIDE DEF S
  <2> QED BY <2>1, <2>4 DEF Acyclic
<1>4. ASSUME from \notin R PROVE Acyclic(ns, Closes)
  <2> SUFFICES ASSUME NEW S \in SUBSET ns, S # {}
               PROVE  \E n \in S : \A m \in S : <<m, n>> \notin Closes
    BY DEF Acyclic
  <2>1. CASE from \in S /\ to \in S
    <3>1. S \ R \in SUBSET ns /\ S \ R # {}
      BY <1>4, <2>1
    <3>2. PICK n \in S \ R : \A m \in S \ R : <<m, n>> \notin es
      BY <3>1 DEF Acyclic
    <3>3. n # to
      BY <1>1, <3>2
    <3>4. \A m \in S : <<m, n>> \notin es
      BY <1>2, <3>2
    <3> QED BY <3>2, <3>3, <3>4
  <2>2. CASE ~(from \in S /\ to \in S)
    BY <2>2 DEF Acyclic
  <2> QED BY <2>1, <2>2
<1> QED BY <1>3, <1>4

(* Nodes without edges close no cycle. *)
LEMMA AcyclicWithNodes ==
  ASSUME NEW ns, NEW es \in SUBSET (ns \X ns), Acyclic(ns, es), NEW more
  PROVE  Acyclic(ns \cup more, es)
<1> SUFFICES ASSUME NEW S \in SUBSET (ns \cup more), S # {}
             PROVE  \E n \in S : \A m \in S : <<m, n>> \notin es
  BY DEF Acyclic
<1>1. CASE S \subseteq ns
  BY <1>1 DEF Acyclic
<1>2. CASE ~(S \subseteq ns)
  <2>1. PICK n \in S : n \notin ns
    BY <1>2
  <2> QED BY <2>1
<1> QED BY <1>1, <1>2

LEMMA AcyclicWithout ==
  ASSUME NEW ns, NEW es, Acyclic(ns, es),
         NEW fewer \in SUBSET ns, NEW less \in SUBSET es
  PROVE  Acyclic(fewer, less)
BY DEF Acyclic

-----------------------------------------------------------------------------
(* The operators on adjacency lists, as they change nodes and edges. *)
IsGraph(g) == DOMAIN g \in SUBSET Ids /\ g \in [DOMAIN g -> SUBSET DOMAIN g]

LEMMA EdgesOfGraph ==
  ASSUME NEW g, IsGraph(g)
  PROVE  /\ EdgesOf(g) \in SUBSET ((DOMAIN g) \X (DOMAIN g))
         /\ \A m, n : <<m, n>> \in EdgesOf(g) <=> m \in DOMAIN g /\ n \in g[m]
<1>1. \A m \in DOMAIN g : g[m] \subseteq DOMAIN g /\ g[m] \subseteq Ids
  BY DEF IsGraph
<1>2. \A m, n : <<m, n>> \in EdgesOf(g) <=> m \in DOMAIN g /\ n \in Ids /\ n \in g[m]
  BY DEF EdgesOf
<1>3. \A e \in EdgesOf(g) : e = <<e[1], e[2]>>
  BY DEF EdgesOf
<1> QED BY <1>1, <1>2, <1>3

LEMMA GraphWithNode ==
  ASSUME NEW g, IsGraph(g), NEW n \in Ids
  PROVE  /\ IsGraph(WithNode(g, n))
         /\ DOMAIN WithNode(g, n) = (DOMAIN g) \cup {n}
         /\ EdgesOf(WithNode(g, n)) = EdgesOf(g)
<1> DEFINE h == WithNode(g, n)
<1>1. DOMAIN h = (DOMAIN g) \cup {n}
  BY DEF WithNode
<1>2. \A m \in DOMAIN h : h[m] = IF m \in DOMAIN g THEN g[m] ELSE {}
  BY DEF WithNode
<1>3. h = [m \in DOMAIN h |-> h[m]]
  BY DEF WithNode
<1>4. IsGraph(h)
  <2>1. \A m \in DOMAIN h : h[m] \in SUBSET DOMAIN h
    BY <1>1, <1>2 DEF IsGraph
  <2> HIDE DEF h
  <2>2. h \in [DOMAIN h -> SUBSET DOMAIN h]
    BY <1>3, <2>1
  <2> QED BY <1>1, <2>2 DEF IsGraph
<1> HIDE DEF h
<1>5. EdgesOf(h) = EdgesOf(g)
  BY <1>1, <1>2 DEF EdgesOf
<1> QED BY <1>1, <1>4, <1>5 DEF h

LEMMA GraphWithoutNode ==
  ASSUME NEW g, IsGraph(g), NEW n
  PROVE  /\ IsGraph(WithoutNode(g, n))
         /\ DOMAIN WithoutNode(g, n) = (DOMAIN g) \ {n}
         /\ EdgesOf(WithoutNode(g, n)) = {e \in EdgesOf(g) : e[1] # n /\ e[2] # n}
<1> DEFINE h == WithoutNode(g, n)
<1>1. DOMAIN h = (DOMAIN g) \ {n}
  BY DEF WithoutNode
<1>2. \A m \in DOMAIN h : h[m] = g[m] \ {n}
  BY DEF WithoutNode
<1>3. h = [m \in DOMAIN h |-> h[m]]
  BY DEF WithoutNode
<1>4. IsGraph(h)
  <2>1. \A m \in DOMAIN h : h[m] \in SUBSET DOMAIN h
    BY <1>1, <1>2 DEF IsGraph
  <2> HIDE DEF h
  <2>2. h \in [DOMAIN h -> SUBSET DOMAIN h]
    BY <1>3, <2>1
  <2> QED BY <1>1, <2>2 DEF IsGraph
<1> HIDE DEF h
<1>5. EdgesOf(h) = {e \in EdgesOf(g) : e[1] # n /\ e[2] # n}
  BY <1>1, <1>2 DEF EdgesOf
<1> QED BY <1>1, <1>4, <1>5 DEF h

LEMMA GraphWithEdge ==
  ASSUME NEW g, IsGraph(g), NEW from \in Ids, NEW to \in Ids
  PROVE  /\ IsGraph(WithEdge(g, from, to))
         /\ DOMAIN WithEdge(g, from, to) = (DOMAIN g) \cup {from, to}
         /\ EdgesOf(WithEdge(g, from, to)) = EdgesOf(g) \cup {<<from, to>>}
<1> DEFINE f == WithNode(WithNode(g, from), to)
           h == WithEdge(g, from, to)
<1>1. IsGraph(f) /\ DOMAIN f = (DOMAIN g) \cup {from, to} /\ EdgesOf(f) = EdgesOf(g)
  <2> DEFINE e == WithNode(g, from)
  <2>1. IsGraph(e) /\ DOMAIN e = (DOMAIN g) \cup {from} /\ EdgesOf(e) = EdgesOf(g)
    BY GraphWithNode
  <2> HIDE DEF e
  <2>2. IsGraph(WithNode(e, to))
    BY <2>1, GraphWithNode
  <2>3. DOMAIN WithNode(e, to) = (DOMAIN e) \cup {to} /\ EdgesOf(WithNode(e, to)) = EdgesOf(e)
    BY <2>1, GraphWithNode
  <2> QED BY <2>1, <2>2, <2>3 DEF e
<1>2. h = [f EXCEPT ![from] = @ \cup {to}]
  BY DEF WithEdge
<1> HIDE DEF f, h
<1>3. from \in DOMAIN f /\ to \in DOMAIN f /\ f \in [DOMAIN f -> SUBSET DOMAIN f]
  BY <1>1 DEF IsGraph
<1>4. /\ DOMAIN h = DOMAIN f
      /\ h \in [DOMAIN f -> SUBSET DOMAIN f]
      /\ \A m \in DOMAIN f : h[m] = IF m = from THEN f[m] \cup {to} ELSE f[m]
  BY <1>2, <1>3
<1>5. EdgesOf(h) = EdgesOf(f) \cup {<<from, to>>}
  BY <1>3, <1>4 DEF EdgesOf
<1>6. IsGraph(h)
  BY <1>1, <1>4 DEF IsGraph
<1> QED BY <1>1, <1>4, <1>5, <1>6 DEF h

LEMMA GraphWithoutEdge ==
  ASSUME NEW g, IsGraph(g), NEW from \in DOMAIN g, NEW to
  PROVE  /\ IsGraph(WithoutEdge(g, from, to))
         /\ DOMAIN WithoutEdge(g, from, to) = DOMAIN g
         /\ EdgesOf(WithoutEdge(g, from, to)) = EdgesOf(g) \ {<<from, to>>}
<1> DEFINE h == WithoutEdge(g, from, to)
<1>1. g \in [DOMAIN g -> SUBSET DOMAIN g]
  BY DEF IsGraph
<1>2. /\ DOMAIN h = DOMAIN g
      /\ h \in [DOMAIN g -> SUBSET DOMAIN g]
      /\ \A m \in DOMAIN g : h[m] = IF m = from THEN g[m] \ {to} ELSE g[m]
  BY <1>1 DEF WithoutEdge
<1> HIDE DEF h
<1>3. EdgesOf(h) = EdgesOf(g) \ {<<from, to>>}
  BY <1>2 DEF EdgesOf
<1>4. IsGraph(h)
  BY <1>2 DEF IsGraph
<1> QED BY <1>2, <1>3, <1>4 DEF h

-----------------------------------------------------------------------------
(* The invariant of the search.  Nodes it has left are closed under the    *)
(* edges and without a cycle; those on the stack are a walk, and what of   *)
(* their children is behind has been left, but for the next of the walk.   *)
Done == visited \ rec_stack

StackIsPath == rec_stack = Elements(path) /\ Distinct(path) /\ rec_stack \subseteq visited

PathIsWalk == \A i \in 1 .. Len(path) - 1 : path[i + 1] \in adj[path[i]]

AheadAreChildren == \A n \in rec_stack : ahead[n] \subseteq adj[n]

BehindIsLeft ==
  \A i \in 1 .. Len(path) : \A c \in adj[path[i]] :
    c \in ahead[path[i]] \cup Done \/ (i < Len(path) /\ c = path[i + 1])

LeftIsClosed == \A n \in Done : adj[n] \subseteq Done

CallAt ==
  IF trying = NoEdge
  THEN adj = shown /\ visited = {} /\ path = <<>>
  ELSE adj = WithEdge(shown, trying[1], trying[2])

SearchIInv ==
  /\ GraphTypeOK
  /\ StackIsPath
  /\ PathIsWalk
  /\ AheadAreChildren
  /\ BehindIsLeft
  /\ LeftIsClosed
  /\ Acyclic(Done, EdgesOf(adj))
  /\ Acyclic(DOMAIN shown, EdgesOf(shown))
  /\ CallAt

(* Between two calls, or when one returns, the invariant says of the graph *)
(* only that it has no cycle.                                              *)
LEMMA Rested ==
  ASSUME NEW g, IsGraph(g), Acyclic(DOMAIN g, EdgesOf(g)), NEW b \in BOOLEAN, Leaves(g, b)
  PROVE  SearchIInv'
<1> USE DEF Leaves
<1>1. GraphTypeOK'
  <2>1. Nodes' = DOMAIN g /\ shown' = g
    BY DEF Nodes
  <2>2. <<>> \in Seq(DOMAIN g)
    OBVIOUS
  <2>3. [n \in Ids |-> {}] \in [Ids -> SUBSET DOMAIN g]
    OBVIOUS
  <2> QED BY <2>1, <2>2, <2>3 DEF GraphTypeOK, IsGraph
<1>2. StackIsPath' /\ PathIsWalk' /\ AheadAreChildren' /\ BehindIsLeft' /\ LeftIsClosed'
  <2>1. Len(<<>>) = 0 /\ DOMAIN <<>> = {}
    OBVIOUS
  <2> QED BY <2>1 DEF StackIsPath, PathIsWalk, AheadAreChildren, BehindIsLeft, LeftIsClosed,
                      Done, Elements, Distinct
<1>3. Acyclic(Done, EdgesOf(adj))' /\ Acyclic(DOMAIN shown, EdgesOf(shown))'
  BY DEF Acyclic, Done
<1>4. CallAt'
  BY DEF CallAt
<1> QED BY <1>1, <1>2, <1>3, <1>4 DEF SearchIInv

LEMMA GraphBeginning == GraphInit => SearchIInv
<1> SUFFICES ASSUME GraphInit PROVE SearchIInv
  OBVIOUS
<1> USE DEF GraphInit
<1>1. DOMAIN adj = {} /\ DOMAIN shown = {}
  OBVIOUS
<1>2. GraphTypeOK
  <2>1. Nodes = {}
    BY <1>1 DEF Nodes
  <2>2. <<>> \in Seq({})
    OBVIOUS
  <2>3. [n \in Ids |-> {}] \in [Ids -> SUBSET {}]
    OBVIOUS
  <2>4. adj \in [{} -> SUBSET {}]
    OBVIOUS
  <2> QED BY <1>1, <2>1, <2>2, <2>3, <2>4 DEF GraphTypeOK
<1>3. StackIsPath /\ PathIsWalk /\ AheadAreChildren /\ BehindIsLeft /\ LeftIsClosed
  <2>1. Len(<<>>) = 0 /\ DOMAIN <<>> = {}
    OBVIOUS
  <2> QED BY <2>1 DEF StackIsPath, PathIsWalk, AheadAreChildren, BehindIsLeft, LeftIsClosed,
                      Done, Elements, Distinct
<1>4. Acyclic(Done, EdgesOf(adj)) /\ Acyclic(DOMAIN shown, EdgesOf(shown))
  BY <1>1 DEF Acyclic, Done
<1>5. CallAt
  BY DEF CallAt
<1> QED BY <1>2, <1>3, <1>4, <1>5 DEF SearchIInv

(* What the types say of the two graphs and of the call. *)
LEMMA GraphsOfSearch ==
  ASSUME SearchIInv
  PROVE  /\ IsGraph(adj) /\ IsGraph(shown)
         /\ trying # NoEdge => /\ trying[1] \in Nodes /\ trying[2] \in Nodes
                               /\ trying = <<trying[1], trying[2]>>
BY DEF SearchIInv, GraphTypeOK, IsGraph, Nodes, NoEdge

(* The edge of the call is the only one that shown does not have. *)
LEMMA EdgeOfCall ==
  ASSUME SearchIInv, trying # NoEdge
  PROVE  /\ Nodes = (DOMAIN shown) \cup {trying[1], trying[2]}
         /\ EdgesOf(adj) = EdgesOf(shown) \cup {trying}
<1>1. adj = WithEdge(shown, trying[1], trying[2])
  BY DEF SearchIInv, CallAt
<1>2. IsGraph(shown) /\ trying[1] \in Ids /\ trying[2] \in Ids /\ trying = <<trying[1], trying[2]>>
  BY GraphsOfSearch DEF SearchIInv, GraphTypeOK
<1> QED BY <1>1, <1>2, GraphWithEdge DEF Nodes

-----------------------------------------------------------------------------
(* The steps of the search. *)

(* A node on the stack closes a cycle with the walk that leads from it. *)
LEMMA CycleIsReal ==
  ASSUME SearchIInv, NEW c, Inside, c \in ahead[Top], c \in rec_stack
  PROVE  ~Acyclic(Nodes, EdgesOf(adj))
<1>1. path \in Seq(Nodes) /\ Len(path) \in Nat /\ Len(path) > 0
  BY DEF SearchIInv, GraphTypeOK, Inside
<1>2. PICK k \in 1 .. Len(path) : path[k] = c
  BY <1>1 DEF SearchIInv, StackIsPath, Elements
<1> DEFINE S == {path[i] : i \in k .. Len(path)}
<1>3. S \in SUBSET Nodes /\ c \in S
  BY <1>1, <1>2
<1>4. \A i \in 1 .. Len(path) : path[i] \in Nodes
  BY <1>1
<1>5. IsGraph(adj) /\ \A m, n : <<m, n>> \in EdgesOf(adj) <=> m \in DOMAIN adj /\ n \in adj[m]
  BY GraphsOfSearch, EdgesOfGraph
<1>6. ASSUME NEW i \in k .. Len(path) PROVE \E m \in S : <<m, path[i]>> \in EdgesOf(adj)
  <2>1. CASE i = k
    <3>1. Top \in S /\ Top \in Nodes
      BY <1>1, <1>4 DEF Top
    <3>2. Top \in rec_stack
      BY <1>1 DEF SearchIInv, StackIsPath, Elements, Top
    <3>3. c \in adj[Top]
      BY <3>2 DEF SearchIInv, AheadAreChildren
    <3> QED BY <1>2, <1>5, <2>1, <3>1, <3>3 DEF Nodes
  <2>2. CASE i # k
    <3>1. i - 1 \in k .. Len(path) /\ i - 1 \in 1 .. Len(path) - 1 /\ (i - 1) + 1 = i
      BY <1>1, <1>2, <2>2
    <3>2. path[i - 1] \in S /\ path[i - 1] \in Nodes
      BY <1>1, <1>4, <3>1
    <3>3. path[i] \in adj[path[i - 1]]
      BY <3>1 DEF SearchIInv, PathIsWalk
    <3> QED BY <1>5, <3>2, <3>3 DEF Nodes
  <2> QED BY <2>1, <2>2
<1>7. \A n \in S : \E m \in S : <<m, n>> \in EdgesOf(adj)
  BY <1>6
<1> HIDE DEF S
<1> QED BY <1>3, <1>7 DEF Acyclic

(* A search that has visited every node and left it has found no cycle. *)
LEMMA NoCycleWasMissed ==
  ASSUME SearchIInv, ~Inside, Nodes \subseteq visited
  PROVE  Acyclic(Nodes, EdgesOf(adj))
<1>1. rec_stack = {}
  BY DEF SearchIInv, StackIsPath, Inside, Elements
<1>2. Nodes \in SUBSET Done
  BY <1>1 DEF Done
<1> QED BY <1>2, AcyclicWithout DEF SearchIInv

(* A call of dfs begins: from the loop over the nodes, or from its caller. *)
LEMMA EnterKeeps ==
  ASSUME SearchIInv, trying # NoEdge, NEW n \in Nodes, NEW left,
         Enter(n, left),
         \/ ~Inside /\ left = ahead
         \/ Inside /\ n \in ahead[Top] /\ left = Passed(n)
  PROVE  SearchIInv'
<1> DEFINE k == Len(path)
<1>1. path \in Seq(Nodes) /\ k \in Nat /\ DOMAIN path = 1 .. k
  BY DEF SearchIInv, GraphTypeOK
<1>2. /\ UNCHANGED <<adj, refused, trying, shown>> /\ Nodes' = Nodes
      /\ n \notin visited /\ n \notin rec_stack
      /\ visited' = visited \cup {n} /\ rec_stack' = rec_stack \cup {n}
      /\ path' = Append(path, n)
  BY DEF Enter, Nodes, SearchIInv, StackIsPath
<1>3. /\ path' \in Seq(Nodes) /\ Len(path') = k + 1 /\ DOMAIN path' = 1 .. k + 1
      /\ \A i \in 1 .. k : path'[i] = path[i]
      /\ path'[k + 1] = n
  BY <1>1, <1>2
<1>4. Elements(path') = Elements(path) \cup {n} /\ Distinct(path')
  BY <1>1, <1>2, Appending DEF SearchIInv, StackIsPath
<1>5. \A i \in 1 .. k : path[i] \in rec_stack /\ path[i] \in Nodes /\ path[i] # n
  BY <1>1, <1>2 DEF SearchIInv, StackIsPath, Elements
<1>6. Inside => k \in 1 .. k /\ Top = path[k] /\ Top \in Nodes /\ Top # n
  BY <1>1, <1>5 DEF Inside, Top
<1>7. adj \in [Nodes -> SUBSET Nodes] /\ Nodes \subseteq Ids /\ ahead \in [Ids -> SUBSET Nodes]
  BY DEF SearchIInv, GraphTypeOK
<1>8. left \in [Ids -> SUBSET Nodes]
      /\ \A m \in Ids : left[m] = IF Inside /\ m = Top THEN ahead[m] \ {n} ELSE ahead[m]
  <2>1. CASE ~Inside
    BY <1>7, <2>1
  <2>2. CASE Inside
    BY <1>6, <1>7, <2>2 DEF Passed
  <2> QED BY <2>1, <2>2
<1>9. ahead' \in [Ids -> SUBSET Nodes]
      /\ \A m \in Ids : ahead'[m] = IF m = n THEN adj[n] ELSE left[m]
  BY <1>7, <1>8 DEF Enter
<1>10. Done' = Done
  BY <1>2 DEF Done
<1>11. GraphTypeOK'
  BY <1>2, <1>3, <1>9 DEF SearchIInv, GraphTypeOK
<1>12. StackIsPath'
  BY <1>2, <1>4 DEF SearchIInv, StackIsPath
<1>13. PathIsWalk'
  <2> SUFFICES ASSUME NEW i \in 1 .. k PROVE path'[i + 1] \in adj[path'[i]]
    BY <1>1, <1>2, <1>3 DEF PathIsWalk
  <2>1. CASE i < k
    <3>1. i \in 1 .. Len(path) - 1 /\ i + 1 \in 1 .. k
      BY <1>1, <2>1
    <3> QED BY <1>3, <3>1 DEF SearchIInv, PathIsWalk
  <2>2. CASE i = k
    <3>1. Inside
      BY <1>1, <2>2 DEF Inside
    <3>2. n \in adj[Top]
      BY <1>5, <1>6, <3>1 DEF SearchIInv, AheadAreChildren
    <3> QED BY <1>3, <1>6, <2>2, <3>1, <3>2
  <2> QED BY <1>1, <2>1, <2>2
<1>14. AheadAreChildren'
  BY <1>2, <1>7, <1>8, <1>9 DEF SearchIInv, GraphTypeOK, AheadAreChildren
<1>15. BehindIsLeft'
  <2> SUFFICES ASSUME NEW i \in 1 .. k + 1, NEW c \in adj[path'[i]]
               PROVE  \/ c \in ahead'[path'[i]] \cup Done
                      \/ i < k + 1 /\ c = path'[i + 1]
    BY <1>2, <1>3, <1>10 DEF BehindIsLeft
  <2>1. CASE i = k + 1
    BY <1>3, <1>7, <1>9, <2>1
  <2>2. CASE i \in 1 .. k
    <3>1. path'[i] = path[i] /\ path[i] \in Ids /\ path[i] # n /\ ahead'[path[i]] = left[path[i]]
      BY <1>3, <1>5, <1>7, <1>9, <2>2
    <3>2. c \in ahead[path[i]] \cup Done \/ (i < k /\ c = path[i + 1])
      BY <2>2, <3>1 DEF SearchIInv, BehindIsLeft
    <3>3. CASE i < k /\ c = path[i + 1]
      <4>1. i + 1 \in 1 .. k
        BY <1>1, <2>2, <3>3
      <4> QED BY <1>1, <1>3, <2>2, <3>3, <4>1
    <3>4. CASE c \in ahead[path[i]] /\ c # n
      BY <1>8, <3>1, <3>4
    <3>5. CASE c \in ahead[path[i]] /\ c = n
      <4>1. CASE Inside /\ path[i] = Top
        <5>1. i = k
          BY <1>1, <1>6, <2>2, <4>1 DEF SearchIInv, StackIsPath, Distinct
        <5> QED BY <1>1, <1>3, <3>5, <5>1
      <4>2. CASE ~(Inside /\ path[i] = Top)
        BY <1>8, <3>1, <3>5, <4>2
      <4> QED BY <4>1, <4>2
    <3> QED BY <3>1, <3>2, <3>3, <3>4, <3>5
  <2> QED BY <1>1, <2>1, <2>2
<1>16. LeftIsClosed' /\ Acyclic(Done, EdgesOf(adj))' /\ Acyclic(DOMAIN shown, EdgesOf(shown))'
  BY <1>2, <1>10 DEF SearchIInv, LeftIsClosed
<1>17. CallAt'
  BY <1>2 DEF SearchIInv, CallAt
<1> QED BY <1>11, <1>12, <1>13, <1>14, <1>15, <1>16, <1>17 DEF SearchIInv

(* A child that has been left is passed over. *)
LEMMA SkipKeeps ==
  ASSUME SearchIInv, trying # NoEdge, NEW c, Inside, c \in ahead[Top], Skip(c)
  PROVE  SearchIInv'
<1> DEFINE k == Len(path)
<1>1. path \in Seq(Nodes) /\ k \in Nat /\ k > 0 /\ Top = path[k] /\ Top \in Nodes
  BY DEF SearchIInv, GraphTypeOK, Inside, Top
<1>2. UNCHANGED <<adj, refused, trying, visited, rec_stack, path, shown>> /\ Nodes' = Nodes
  BY DEF Skip, Nodes
<1>3. Nodes \subseteq Ids /\ ahead \in [Ids -> SUBSET Nodes]
  BY DEF SearchIInv, GraphTypeOK
<1>4. /\ ahead' \in [Ids -> SUBSET Nodes]
      /\ \A m \in Ids : ahead'[m] = IF m = Top THEN ahead[m] \ {c} ELSE ahead[m]
  BY <1>1, <1>3 DEF Skip, Passed
<1>5. c \in Done /\ Done' = Done
  BY <1>2 DEF Skip, Done
<1>6. GraphTypeOK' /\ StackIsPath' /\ PathIsWalk' /\ LeftIsClosed' /\ CallAt'
  BY <1>2, <1>4, <1>5 DEF SearchIInv, GraphTypeOK, StackIsPath, PathIsWalk, LeftIsClosed, CallAt
<1>7. AheadAreChildren'
  BY <1>2, <1>3, <1>4 DEF SearchIInv, GraphTypeOK, AheadAreChildren
<1>8. BehindIsLeft'
  <2>1. \A i \in 1 .. k : path[i] \in Ids
    BY <1>1, <1>3
  <2>2. \A i \in 1 .. k : \A d \in ahead[path[i]] : d \in ahead'[path[i]] \/ d = c
    BY <1>4, <2>1
  <2> QED BY <1>2, <1>5, <2>2 DEF SearchIInv, BehindIsLeft
<1>9. Acyclic(Done, EdgesOf(adj))' /\ Acyclic(DOMAIN shown, EdgesOf(shown))'
  BY <1>2, <1>5 DEF SearchIInv
<1> QED BY <1>6, <1>7, <1>8, <1>9 DEF SearchIInv

(* A node whose children have all been left is left. *)
LEMMA ReturnKeeps ==
  ASSUME SearchIInv, trying # NoEdge, Return
  PROVE  SearchIInv'
<1> DEFINE k == Len(path)
<1>1. path \in Seq(Nodes) /\ k \in Nat /\ k > 0 /\ Top = path[k] /\ Top \in Nodes
      /\ DOMAIN path = 1 .. k
  BY DEF SearchIInv, GraphTypeOK, Return, Inside, Top
<1>2. /\ UNCHANGED <<adj, refused, trying, visited, ahead, shown>> /\ Nodes' = Nodes
      /\ ahead[Top] = {}
      /\ rec_stack' = rec_stack \ {Top}
      /\ path' = SubSeq(path, 1, k - 1)
  BY DEF Return, Popped, Nodes
<1>3. /\ path' \in Seq(Nodes) /\ Len(path') = k - 1 /\ DOMAIN path' = 1 .. k - 1
      /\ \A i \in 1 .. k - 1 : path'[i] = path[i]
  BY <1>1, <1>2
<1>4. 1 .. k = (1 .. k - 1) \cup {k} /\ k \notin 1 .. k - 1 /\ k \in 1 .. k
  BY <1>1
<1>5. \A i, j \in 1 .. k : path[i] = path[j] => i = j
  BY <1>1 DEF SearchIInv, StackIsPath, Distinct
<1>6. rec_stack = {path[i] : i \in 1 .. k}
  BY <1>1 DEF SearchIInv, StackIsPath, Elements
<1>7. Elements(path') = rec_stack'
  <2>1. Elements(path') = {path[i] : i \in 1 .. k - 1}
    BY <1>3 DEF Elements
  <2> QED BY <1>1, <1>2, <1>4, <1>5, <1>6, <2>1
<1>8. StackIsPath'
  <2>1. Distinct(path')
    BY <1>3, <1>4, <1>5 DEF Distinct
  <2> QED BY <1>2, <1>7, <2>1 DEF SearchIInv, StackIsPath
<1>9. Top \in rec_stack /\ Top \in visited /\ Top \notin Done /\ Done' = Done \cup {Top}
  BY <1>1, <1>2, <1>4, <1>6 DEF SearchIInv, StackIsPath, Done
<1>10. adj[Top] \subseteq Done
  BY <1>1, <1>2, <1>4 DEF SearchIInv, BehindIsLeft
<1>11. GraphTypeOK'
  BY <1>2, <1>3 DEF SearchIInv, GraphTypeOK
<1>12. PathIsWalk'
  <2>1. \A i \in 1 .. (k - 1) - 1 : i \in 1 .. k - 1 /\ i + 1 \in 1 .. k - 1
    BY <1>1
  <2> QED BY <1>2, <1>3, <2>1 DEF SearchIInv, PathIsWalk
<1>13. AheadAreChildren'
  BY <1>2 DEF SearchIInv, AheadAreChildren
<1>14. BehindIsLeft'
  <2> SUFFICES ASSUME NEW i \in 1 .. k - 1, NEW c \in adj[path[i]]
               PROVE  \/ c \in ahead[path[i]] \cup Done'
                      \/ i < k - 1 /\ c = path'[i + 1]
    <3>1. BehindIsLeft' = \A i \in 1 .. k - 1 : \A c \in adj[path'[i]] :
                            c \in ahead[path'[i]] \cup Done' \/ (i < k - 1 /\ c = path'[i + 1])
      BY <1>2, <1>3 DEF BehindIsLeft
    <3>2. \A i \in 1 .. k - 1 : path'[i] = path[i]
      BY <1>3
    <3> QED BY <3>1, <3>2
  <2>1. c \in ahead[path[i]] \cup Done \/ (i < k /\ c = path[i + 1])
    BY <1>4 DEF SearchIInv, BehindIsLeft
  <2>2. CASE c = path[i + 1] /\ i < k - 1
    <3>1. i + 1 \in 1 .. k - 1
      BY <1>1, <2>2
    <3> QED BY <1>3, <2>2, <3>1
  <2>3. CASE c = path[i + 1] /\ i = k - 1
    <3>1. i + 1 = k
      BY <1>1, <2>3
    <3> QED BY <1>1, <1>9, <2>3, <3>1
  <2>4. CASE c \in ahead[path[i]] \cup Done
    BY <1>9, <2>4
  <2>5. i < k => i < k - 1 \/ i = k - 1
    <3>1. i \in Int /\ k \in Int
      BY <1>1
    <3> QED BY <3>1
  <2> QED BY <2>1, <2>2, <2>3, <2>4, <2>5
<1>15. LeftIsClosed'
  BY <1>2, <1>9, <1>10 DEF SearchIInv, LeftIsClosed
<1>16. Acyclic(Done, EdgesOf(adj))'
  <2>1. \A m \in Done \cup {Top} : <<m, Top>> \notin EdgesOf(adj)
    <3>1. \A m, n : <<m, n>> \in EdgesOf(adj) => n \in adj[m]
      BY GraphsOfSearch, EdgesOfGraph
    <3> QED BY <1>9, <1>10, <3>1 DEF SearchIInv, LeftIsClosed
  <2> SUFFICES ASSUME NEW S \in SUBSET (Done \cup {Top}), S # {}
               PROVE  \E n \in S : \A m \in S : <<m, n>> \notin EdgesOf(adj)
    BY <1>2, <1>9 DEF Acyclic
  <2>2. CASE Top \in S
    BY <2>1, <2>2
  <2>3. CASE Top \notin S
    BY <2>3 DEF SearchIInv, Acyclic
  <2> QED BY <2>2, <2>3
<1>17. Acyclic(DOMAIN shown, EdgesOf(shown))' /\ CallAt'
  BY <1>2 DEF SearchIInv, CallAt
<1> QED BY <1>8, <1>11, <1>12, <1>13, <1>14, <1>15, <1>16, <1>17 DEF SearchIInv

-----------------------------------------------------------------------------
(* The steps of a call, and what the contract says of them. *)

LEMMA AddNodeKeeps ==
  ASSUME SearchIInv, NEW n \in Ids, AddNode(n)
  PROVE  SearchIInv' /\ Contract!Add(n)
<1> DEFINE g == WithNode(adj, n)
<1>1. IsGraph(adj) /\ adj = shown
  BY GraphsOfSearch DEF AddNode, Edit, SearchIInv, CallAt
<1>2. IsGraph(g) /\ DOMAIN g = (DOMAIN adj) \cup {n} /\ EdgesOf(g) = EdgesOf(adj)
  BY <1>1, GraphWithNode
<1>3. Leaves(g, FALSE)
  BY DEF AddNode, Edit
<1> HIDE DEF g
<1>4. Acyclic(DOMAIN g, EdgesOf(g))
  <2>1. EdgesOf(adj) \in SUBSET ((DOMAIN adj) \X (DOMAIN adj))
    BY <1>1, EdgesOfGraph
  <2>2. Acyclic(DOMAIN adj, EdgesOf(adj))
    BY <1>1 DEF SearchIInv
  <2>3. Acyclic((DOMAIN adj) \cup {n}, EdgesOf(adj))
    BY <2>1, <2>2, AcyclicWithNodes
  <2> QED BY <1>2, <2>3
<1>5. SearchIInv'
  BY <1>2, <1>3, <1>4, Rested
<1> QED BY <1>1, <1>2, <1>3, <1>5 DEF Contract!Add, Leaves

LEMMA RemoveNodeKeeps ==
  ASSUME SearchIInv, NEW n \in Ids, RemoveNode(n)
  PROVE  SearchIInv' /\ Contract!Remove(n)
<1> DEFINE g == WithoutNode(adj, n)
<1>1. IsGraph(adj) /\ adj = shown /\ n \in DOMAIN adj
  BY GraphsOfSearch DEF RemoveNode, Edit, SearchIInv, CallAt, Nodes
<1>2. /\ IsGraph(g) /\ DOMAIN g = (DOMAIN adj) \ {n}
      /\ EdgesOf(g) = {e \in EdgesOf(adj) : e[1] # n /\ e[2] # n}
  BY <1>1, GraphWithoutNode
<1>3. Leaves(g, FALSE)
  BY DEF RemoveNode, Edit
<1> HIDE DEF g
<1>4. Acyclic(DOMAIN g, EdgesOf(g))
  BY <1>1, <1>2, AcyclicWithout DEF SearchIInv
<1>5. SearchIInv'
  BY <1>2, <1>3, <1>4, Rested
<1> QED BY <1>1, <1>2, <1>3, <1>5 DEF Contract!Remove, Leaves

LEMMA RemoveEdgeKeeps ==
  ASSUME SearchIInv, NEW from \in Ids, NEW to \in Ids, RemoveEdge(from, to)
  PROVE  SearchIInv' /\ \E e \in EdgesOf(shown) : Contract!Disconnect(e)
<1> DEFINE g == WithoutEdge(adj, from, to)
<1>1. IsGraph(adj) /\ adj = shown /\ from \in DOMAIN adj /\ to \in adj[from]
  BY GraphsOfSearch DEF RemoveEdge, Edit, SearchIInv, CallAt, Nodes
<1>2. /\ IsGraph(g) /\ DOMAIN g = DOMAIN adj
      /\ EdgesOf(g) = EdgesOf(adj) \ {<<from, to>>}
  BY <1>1, GraphWithoutEdge
<1>3. Leaves(g, FALSE)
  BY DEF RemoveEdge, Edit
<1> HIDE DEF g
<1>4. Acyclic(DOMAIN g, EdgesOf(g))
  BY <1>1, <1>2, AcyclicWithout DEF SearchIInv
<1>5. SearchIInv'
  BY <1>2, <1>3, <1>4, Rested
<1>6. <<from, to>> \in EdgesOf(shown)
  BY <1>1, EdgesOfGraph
<1>7. Contract!Disconnect(<<from, to>>)
  BY <1>1, <1>2, <1>3, <1>6 DEF Contract!Disconnect, Leaves
<1> QED BY <1>5, <1>6, <1>7

(* The call begins: nothing of it is shown yet. *)
LEMMA AddEdgeKeeps ==
  ASSUME SearchIInv, NEW from \in Ids, NEW to \in Ids, AddEdge(from, to)
  PROVE  SearchIInv' /\ UNCHANGED <<shown, refused>>
<1> DEFINE g == WithEdge(adj, from, to)
<1>1. IsGraph(adj) /\ adj = shown /\ visited = {} /\ path = <<>> /\ trying = NoEdge
  BY GraphsOfSearch DEF AddEdge, SearchIInv, CallAt
<1>2. /\ IsGraph(g) /\ DOMAIN g = (DOMAIN adj) \cup {from, to}
      /\ EdgesOf(g) = EdgesOf(adj) \cup {<<from, to>>}
  <2>1. IsGraph(adj) /\ from \in Ids /\ to \in Ids
    BY <1>1
  <2> HIDE DEF g
  <2>2. IsGraph(adj) /\ from \in Ids /\ to \in Ids =>
          /\ IsGraph(WithEdge(adj, from, to))
          /\ DOMAIN WithEdge(adj, from, to) = (DOMAIN adj) \cup {from, to}
          /\ EdgesOf(WithEdge(adj, from, to)) = EdgesOf(adj) \cup {<<from, to>>}
    BY GraphWithEdge
  <2> USE DEF g
  <2> QED BY <2>1, <2>2
<1> HIDE DEF g
<1>3. /\ adj' = g /\ trying' = <<from, to>>
      /\ UNCHANGED <<refused, visited, rec_stack, path, ahead, shown>>
  BY DEF AddEdge, g
<1>4. rec_stack = {} /\ Len(path) = 0 /\ DOMAIN path = {}
  BY <1>1 DEF SearchIInv, StackIsPath, Elements
<1>5. GraphTypeOK'
  <2>1. Nodes' = (DOMAIN adj) \cup {from, to} /\ Nodes = DOMAIN adj
    BY <1>2, <1>3 DEF Nodes
  <2>2. path' \in Seq(Nodes')
    BY <1>1, <1>3
  <2>3. ahead' \in [Ids -> SUBSET Nodes']
    BY <1>3, <2>1 DEF SearchIInv, GraphTypeOK
  <2>4. DOMAIN shown' \in SUBSET Nodes' /\ shown' \in [DOMAIN shown' -> SUBSET DOMAIN shown']
    BY <1>3, <2>1 DEF SearchIInv, GraphTypeOK
  <2>5. adj' \in [Nodes' -> SUBSET Nodes'] /\ Nodes' \in SUBSET Ids
    BY <1>2, <1>3 DEF IsGraph, Nodes
  <2>6. trying' \in (Nodes' \X Nodes')
    BY <1>3, <2>1
  <2> QED BY <1>1, <1>3, <1>4, <2>2, <2>3, <2>4, <2>5, <2>6 DEF SearchIInv, GraphTypeOK
<1>6. StackIsPath' /\ PathIsWalk' /\ AheadAreChildren' /\ BehindIsLeft' /\ LeftIsClosed'
  BY <1>1, <1>3, <1>4 DEF SearchIInv, StackIsPath, PathIsWalk, AheadAreChildren, BehindIsLeft,
                          LeftIsClosed, Done
<1>7. Acyclic(Done, EdgesOf(adj))' /\ Acyclic(DOMAIN shown, EdgesOf(shown))'
  <2>1. Done' = {}
    BY <1>1, <1>3 DEF Done
  <2> QED BY <1>3, <2>1 DEF Acyclic, SearchIInv
<1>8. CallAt'
  BY <1>1, <1>3 DEF CallAt, NoEdge, g
<1> QED BY <1>3, <1>5, <1>6, <1>7, <1>8 DEF SearchIInv

(* The call ends: the edge is in, or taken back, as its end does not or    *)
(* does reach its start.                                                   *)
LEMMA EndKeeps ==
  ASSUME SearchIInv, trying # NoEdge, NEW b \in BOOLEAN,
         b <=> ~Acyclic(Nodes, EdgesOf(adj)),
         Leaves(IF b THEN WithoutEdge(adj, trying[1], trying[2]) ELSE adj, b)
  PROVE  SearchIInv' /\ Contract!Connect(trying[1], trying[2])
<1> DEFINE from == trying[1]
           to == trying[2]
           g == IF b THEN WithoutEdge(adj, from, to) ELSE adj
           ns == (DOMAIN shown) \cup {from, to}
<1>1. /\ IsGraph(adj) /\ IsGraph(shown) /\ from \in Nodes /\ to \in Nodes
      /\ trying = <<from, to>>
  BY GraphsOfSearch
<1>2. Nodes = ns /\ EdgesOf(adj) = EdgesOf(shown) \cup {<<from, to>>}
  BY <1>1, EdgeOfCall
<1>3. Acyclic(ns, EdgesOf(shown)) /\ EdgesOf(shown) \in SUBSET (ns \X ns)
  <2>1. EdgesOf(shown) \in SUBSET ((DOMAIN shown) \X (DOMAIN shown))
    BY <1>1, EdgesOfGraph
  <2> QED BY <2>1, AcyclicWithNodes DEF SearchIInv
<1>4. b <=> from \in Reach(ns, EdgesOf(shown), {to})
  BY <1>1, <1>2, <1>3, ReachClosesCycle
<1>5. b => <<from, to>> \notin EdgesOf(shown)
  <2> SUFFICES ASSUME <<from, to>> \in EdgesOf(shown), b PROVE FALSE
    OBVIOUS
  <2>1. EdgesOf(adj) = EdgesOf(shown)
    BY <1>2
  <2> QED BY <1>2, <1>3, <2>1
<1>6. /\ IsGraph(g) /\ DOMAIN g = ns
      /\ EdgesOf(g) = IF b THEN EdgesOf(shown) ELSE EdgesOf(shown) \cup {<<from, to>>}
  <2>1. CASE b
    <3>1. /\ IsGraph(WithoutEdge(adj, from, to))
          /\ DOMAIN WithoutEdge(adj, from, to) = DOMAIN adj
          /\ EdgesOf(WithoutEdge(adj, from, to)) = EdgesOf(adj) \ {<<from, to>>}
      BY <1>1, GraphWithoutEdge DEF Nodes
    <3> QED BY <1>2, <1>5, <2>1, <3>1 DEF Nodes
  <2>2. CASE ~b
    BY <1>1, <1>2, <2>2 DEF Nodes
  <2> QED BY <2>1, <2>2
<1>7. Leaves(g, b)
  OBVIOUS
<1> HIDE DEF g
<1>8. Acyclic(DOMAIN g, EdgesOf(g))
  BY <1>2, <1>3, <1>6
<1>9. SearchIInv'
  BY <1>6, <1>7, <1>8, Rested
<1>10. shown' = g /\ refused' = b
  BY <1>7 DEF Leaves
<1>11. Contract!Connect(from, to)
  BY <1>4, <1>6, <1>10 DEF Contract!Connect, Contract!Reach, Reach
<1> QED BY <1>9, <1>11

(* Every step keeps the invariant, and is a step of the contract or one of *)
(* the search that it does not show.                                       *)
LEMMA GraphStep ==
  ASSUME SearchIInv, [GraphNext]_graphVars
  PROVE  SearchIInv' /\ [Contract!Next]_(Contract!vars)
<1>1. ASSUME NEW n \in Ids, AddNode(n) PROVE SearchIInv' /\ Contract!Next
  BY <1>1, AddNodeKeeps DEF Contract!Next
<1>2. ASSUME NEW n \in Ids, RemoveNode(n) PROVE SearchIInv' /\ Contract!Next
  BY <1>2, RemoveNodeKeeps DEF Contract!Next
<1>3. ASSUME NEW from \in Ids, NEW to \in Ids, RemoveEdge(from, to)
      PROVE  SearchIInv' /\ Contract!Next
  BY <1>3, RemoveEdgeKeeps DEF Contract!Next
<1>4. ASSUME NEW from \in Ids, NEW to \in Ids, AddEdge(from, to)
      PROVE  SearchIInv' /\ UNCHANGED <<shown, refused>>
  BY <1>4, AddEdgeKeeps
<1>5. ASSUME NEW n \in Ids, Start(n) PROVE SearchIInv' /\ UNCHANGED <<shown, refused>>
  BY <1>5, EnterKeeps DEF Start, Enter
<1>6. Inside => trying # NoEdge
  BY DEF Inside, SearchIInv, CallAt
<1>7. ASSUME NEW c \in Ids, Look(c)
      PROVE  SearchIInv' /\ (UNCHANGED <<shown, refused>> \/ Contract!Next)
  <2>1. Inside /\ c \in ahead[Top] /\ trying # NoEdge
    BY <1>6, <1>7 DEF Look
  <2>2. Top \in Ids /\ ahead[Top] \subseteq Nodes
    BY <2>1 DEF SearchIInv, GraphTypeOK, Top, Inside
  <2>3. CASE Descend(c)
    BY <2>1, <2>2, <2>3, EnterKeeps DEF Descend, Enter
  <2>4. CASE Skip(c)
    BY <2>1, <2>4, SkipKeeps DEF Skip
  <2>5. CASE CycleFound(c)
    <3>1. ~Acyclic(Nodes, EdgesOf(adj))
      BY <2>1, <2>5, CycleIsReal DEF CycleFound
    <3>2. Leaves(IF TRUE THEN WithoutEdge(adj, trying[1], trying[2]) ELSE adj, TRUE)
      BY <2>5 DEF CycleFound
    <3>3. SearchIInv' /\ Contract!Connect(trying[1], trying[2])
      BY <2>1, <3>1, <3>2, EndKeeps
    <3>4. trying[1] \in Ids /\ trying[2] \in Ids
      BY <2>1, GraphsOfSearch DEF SearchIInv, GraphTypeOK
    <3> QED BY <3>3, <3>4 DEF Contract!Next
  <2> QED BY <1>7, <2>3, <2>4, <2>5 DEF Look
<1>8. ASSUME Return PROVE SearchIInv' /\ UNCHANGED <<shown, refused>>
  <2>1. trying # NoEdge
    BY <1>6, <1>8 DEF Return
  <2> QED BY <1>8, <2>1, ReturnKeeps DEF Return
<1>9. ASSUME Accept PROVE SearchIInv' /\ Contract!Next
  <2>1. trying # NoEdge /\ Acyclic(Nodes, EdgesOf(adj))
    BY <1>9, NoCycleWasMissed DEF Accept
  <2>2. Leaves(IF FALSE THEN WithoutEdge(adj, trying[1], trying[2]) ELSE adj, FALSE)
    BY <1>9 DEF Accept
  <2>3. SearchIInv' /\ Contract!Connect(trying[1], trying[2])
    BY <2>1, <2>2, EndKeeps
  <2>4. trying[1] \in Ids /\ trying[2] \in Ids
    BY <2>1, GraphsOfSearch DEF SearchIInv, GraphTypeOK
  <2> QED BY <2>3, <2>4 DEF Contract!Next
<1>10. ASSUME UNCHANGED graphVars PROVE SearchIInv' /\ UNCHANGED <<shown, refused>>
  BY <1>10 DEF graphVars, search, SearchIInv, GraphTypeOK, StackIsPath, PathIsWalk,
               AheadAreChildren, BehindIsLeft, LeftIsClosed, Done, CallAt, Nodes
<1>11. UNCHANGED <<shown, refused>> => UNCHANGED Contract!vars
  BY DEF Contract!vars
<1> QED
  BY <1>1, <1>2, <1>3, <1>4, <1>5, <1>7, <1>8, <1>9, <1>10, <1>11 DEF GraphNext

LEMMA SearchInductive == GraphSpec => []SearchIInv
<1>1. GraphInit => SearchIInv
  BY GraphBeginning
<1>2. SearchIInv /\ [GraphNext]_graphVars => SearchIInv'
  BY GraphStep
<1> QED BY <1>1, <1>2, PTL DEF GraphSpec

(* What PipelineGraph keeps is of the types the builder expects.           *)
THEOREM GraphTypeCorrect == GraphSpec => []GraphTypeOK
<1>1. SearchIInv => GraphTypeOK
  BY DEF SearchIInv
<1> QED BY <1>1, SearchInductive, PTL

(* The depth-first search keeps the graph's contract (graph.py:42): for    *)
(* every graph and every order it is walked in, exactly the edges that     *)
(* close a cycle are refused, and a refusal takes the edge back.           *)
THEOREM KeepsGraphContractCorrect == GraphSpec => KeepsGraphContract
<1>1. GraphInit => Contract!Init
  <2> SUFFICES ASSUME GraphInit PROVE Contract!Init
    OBVIOUS
  <2>1. DOMAIN shown = {} /\ refused = FALSE
    BY DEF GraphInit
  <2>2. EdgesOf(shown) = {}
    BY <2>1 DEF EdgesOf
  <2> QED BY <2>1, <2>2 DEF Contract!Init
<1>2. SearchIInv /\ [GraphNext]_graphVars => [Contract!Next]_(Contract!vars)
  BY GraphStep
<1> QED BY <1>1, <1>2, SearchInductive, PTL DEF GraphSpec, KeepsGraphContract, Contract!Spec

(* Between two calls the graph has no cycle (graph.py:44, the rollback):   *)
(* what the builder takes over from it can be scheduled.                   *)
THEOREM NoCycleGetsIn ==
  GraphSpec => [](trying = NoEdge => Acyclic(Nodes, EdgesOf(adj)))
<1>1. SearchIInv => (trying = NoEdge => Acyclic(Nodes, EdgesOf(adj)))
  BY DEF SearchIInv, CallAt, Nodes
<1> QED BY <1>1, SearchInductive, PTL

-----------------------------------------------------------------------------
(* The scheduler of a pipeline whose graph this is *)

LEMMA GraphOfScheduler == Spec => GraphSpec
<1>1. Init => GraphInit
  BY DEF Init
<1>2. [Next]_vars => [GraphNext]_graphVars
  BY DEF Next, Edits, Schedules, Visit, vars
<1> QED BY <1>1, <1>2, PTL DEF Spec, GraphSpec

(* A scheduler begins with a graph that is typed and has no cycle.         *)
LEMMA ScheduledGraph ==
  ASSUME SearchIInv, Schedules
  PROVE  IInv'
<1>1. IsGraph(adj)
  BY GraphsOfSearch
<1>2. Nodes \in SUBSET Ids /\ EdgesOf(adj) \in SUBSET (Nodes \X Nodes)
  BY <1>1, EdgesOfGraph DEF Nodes, IsGraph
<1>3. Acyclic(Nodes, EdgesOf(adj))
  BY DEF Schedules, SearchIInv, CallAt, Nodes
<1> QED BY <1>2, <1>3, Beginning DEF Schedules

LEMMA Inductive == Spec => []IInv
<1>1. Init => IInv
  <2> SUFFICES ASSUME Init PROVE IInv
    OBVIOUS
  <2>1. /\ nodes = {} /\ edges = {} /\ in_degree \in [{} -> Nat]
        /\ queue = <<>> /\ order = <<>> /\ <<>> \in Seq({})
        /\ DOMAIN queue = {} /\ DOMAIN order = {}
    BY DEF Init
  <2> QED
    BY <2>1 DEF IInv, TypeOK, Acyclic, Counted, Placed, OrderIsTopological, Elements, Distinct
<1>2. IInv /\ SearchIInv /\ [Next]_vars => IInv'
  <2>1. ASSUME IInv, Edits \/ UNCHANGED vars PROVE IInv'
    BY <2>1, NothingKeeps DEF Edits, vars
  <2> QED
    BY <2>1, ScheduledGraph, VisitKeeps DEF Next
<1> QED
  BY <1>1, <1>2, GraphOfScheduler, SearchInductive, PTL DEF Spec

(***************************************************************************)
(* Every variable of the scheduler has its type.                           *)
(***************************************************************************)
THEOREM TypeCorrect == Spec => []TypeOK
<1>1. IInv => TypeOK
  BY DEF IInv
<1> QED
  BY <1>1, Inductive, PTL

(***************************************************************************)
(* For every pipeline of any size, a processor runs once and after every   *)
(* processor that feeds it.                                                *)
(***************************************************************************)
THEOREM OrderIsTopologicalCorrect == Spec => []OrderIsTopological
<1>1. IInv => OrderIsTopological
  BY DEF IInv
<1> QED
  BY <1>1, Inductive, PTL

(***************************************************************************)
(* Whatever edits made the graph, and however it was searched for cycles,  *)
(* no processor is left out when the loop ends.                            *)
(***************************************************************************)
THEOREM OrderIsCompleteCorrect == Spec => []OrderIsComplete
<1>1. IInv => OrderIsComplete
  BY NothingIsLeftOut
<1> QED
  BY <1>1, Inductive, PTL
=============================================================================
