------------------------ MODULE PipelineBuilder_proofs ------------------------
(***************************************************************************)
(* For any ids, roles and threads: the builder's two structures agree and  *)
(* its graph has no cycle, so that a splice never runs into the check for  *)
(* cycles and no call that raises leaves anything half done.               *)
(***************************************************************************)
EXTENDS PipelineBuilder, TLAPS

(* What a thread validated is still so, unless it was edited since. *)
StillValid == \A t \in building \ edited : Validates(processors, edges)

IInv ==
  /\ StillValid
  /\ TypeOK
  /\ GraphMatchesProcessors
  /\ NoCycle
  /\ BuiltCanBeScheduled

(* Fewer edges make no new cycle. *)
LEMMA FewerEdges ==
  ASSUME NEW ns, NEW es, Acyclic(ns, es), NEW kept \in SUBSET es, NEW left \in SUBSET ns
  PROVE  Acyclic(left, kept)
BY DEF Acyclic

(* A node without edges closes none. *)
LEMMA LoneNode ==
  ASSUME NEW ns, NEW es \in SUBSET (ns \X ns), Acyclic(ns, es), NEW id, id \notin ns
  PROVE  Acyclic(ns \cup {id}, es)
<1> SUFFICES ASSUME NEW S \in SUBSET (ns \cup {id}), S # {}
             PROVE  \E n \in S : \A m \in S : <<m, n>> \notin es
  BY DEF Acyclic
<1>1. CASE id \in S
  <2>1. \A m \in S : <<m, id>> \notin es
    OBVIOUS
  <2> QED
    BY <1>1, <2>1
<1>2. CASE id \notin S
  BY <1>2 DEF Acyclic
<1> QED
  BY <1>1, <1>2

(***************************************************************************)
(* The edges after each splice, and why they have no cycle: a set of nodes *)
(* with the new one in it has a first member because the set without it,   *)
(* or with the replaced one in its place, had one.                         *)
(***************************************************************************)
EdgesBefore(target, id) ==
  (edges \ Into(target)) \cup ({<<p, id>> : p \in Parents(target)} \cup {<<id, target>>})
EdgesAfter(target, id) ==
  (edges \ OutOf(target)) \cup ({<<id, c>> : c \in Children(target)} \cup {<<target, id>>})
EdgesInstead(old, id) ==
  WithoutNode(old) \cup ({<<p, id>> : p \in Parents(old)} \cup {<<id, c>> : c \in Children(old)})

LEMMA InsertedBefore ==
  ASSUME edges \in SUBSET (nodes \X nodes), NoCycle,
         NEW target \in nodes, NEW id, id \notin nodes
  PROVE  /\ EdgesBefore(target, id) \subseteq (nodes \cup {id}) \X (nodes \cup {id})
         /\ Acyclic(nodes \cup {id}, EdgesBefore(target, id))
<1> DEFINE es == EdgesBefore(target, id)
<1>0. \A m, n : <<m, n>> \in edges => m \in nodes /\ n \in nodes
  OBVIOUS
<1>1. \A m, n : <<m, n>> \in es <=> \/ <<m, n>> \in edges /\ n # target
                                    \/ n = id /\ <<m, target>> \in edges
                                    \/ m = id /\ n = target
  BY DEF EdgesBefore, Into, Parents
<1>2. es \subseteq (nodes \cup {id}) \X (nodes \cup {id})
  <2>1. edges \ Into(target) \subseteq (nodes \cup {id}) \X (nodes \cup {id})
    OBVIOUS
  <2>2. \A n \in Parents(target) : n \in nodes \cup {id}
    BY DEF Parents
  <2> QED
    BY <2>1, <2>2 DEF EdgesBefore
<1>3. ASSUME NEW S \in SUBSET (nodes \cup {id}), S # {}
      PROVE  \E n \in S : \A m \in S : <<m, n>> \notin es
  <2> HIDE DEF es
  <2>1. CASE S \subseteq {id}
    <3>1. id \in S /\ \A m \in S : m = id
      BY <1>3, <2>1
    <3>2. <<id, id>> \notin es
      BY <1>0, <1>1
    <3> QED
      BY <3>1, <3>2
  <2>2. CASE ~(S \subseteq {id})
    <3> DEFINE T == S \ {id}
    <3>1. T \in SUBSET nodes /\ T # {}
      BY <2>2
    <3>2. PICK n \in T : \A m \in T : <<m, n>> \notin edges
      BY <3>1 DEF NoCycle, Acyclic
    <3>3. CASE n # target \/ id \notin S
      <4>1. ASSUME NEW m \in S, <<m, n>> \in es
            PROVE  FALSE
        <5>1. n \in S /\ n # id /\ n \in nodes
          BY <3>1
        <5>2. <<m, n>> \in edges \/ (m = id /\ n = target)
          BY <4>1, <5>1, <1>1
        <5>3. <<m, n>> \in edges
          BY <5>2, <3>3, <4>1
        <5> QED
          BY <5>3, <3>2, <1>0
      <4> QED
        BY <4>1
    <3>4. CASE n = target /\ id \in S
      <4>1. ASSUME NEW m \in S, <<m, id>> \in es
            PROVE  FALSE
        <5>1. <<m, target>> \in edges
          BY <4>1, <1>0, <1>1
        <5> QED
          BY <5>1, <3>2, <3>4, <1>0
      <4> QED
        BY <4>1, <3>4
    <3> QED
      BY <3>3, <3>4
  <2> QED
    BY <2>1, <2>2
<1> QED
  BY <1>2, <1>3 DEF Acyclic

LEMMA InsertedAfter ==
  ASSUME edges \in SUBSET (nodes \X nodes), NoCycle,
         NEW target \in nodes, NEW id, id \notin nodes
  PROVE  /\ EdgesAfter(target, id) \subseteq (nodes \cup {id}) \X (nodes \cup {id})
         /\ Acyclic(nodes \cup {id}, EdgesAfter(target, id))
<1> DEFINE es == EdgesAfter(target, id)
<1>0. \A m, n : <<m, n>> \in edges => m \in nodes /\ n \in nodes
  OBVIOUS
<1>1. \A m, n : <<m, n>> \in es <=> \/ <<m, n>> \in edges /\ m # target
                                    \/ m = id /\ <<target, n>> \in edges
                                    \/ m = target /\ n = id
  BY DEF EdgesAfter, OutOf, Children
<1>2. es \subseteq (nodes \cup {id}) \X (nodes \cup {id})
  <2>1. edges \ OutOf(target) \subseteq (nodes \cup {id}) \X (nodes \cup {id})
    OBVIOUS
  <2>2. \A n \in Children(target) : n \in nodes \cup {id}
    BY DEF Children
  <2> QED
    BY <2>1, <2>2 DEF EdgesAfter
<1>3. ASSUME NEW S \in SUBSET (nodes \cup {id}), S # {}
      PROVE  \E n \in S : \A m \in S : <<m, n>> \notin es
  <2> HIDE DEF es
  <2>1. CASE id \in S /\ target \notin S
    <3>1. \A m \in S : <<m, id>> \notin es
      BY <2>1, <1>0, <1>1
    <3> QED
      BY <3>1, <2>1
  <2>2. CASE id \notin S \/ target \in S
    <3> DEFINE T == S \ {id}
    <3>1. T \in SUBSET nodes /\ T # {}
      BY <2>2, <1>3
    <3>2. PICK n \in T : \A m \in T : <<m, n>> \notin edges
      BY <3>1 DEF NoCycle, Acyclic
    <3>3. ASSUME NEW m \in S, <<m, n>> \in es
          PROVE  FALSE
      <4>1. n # id /\ n \in nodes
        BY <3>1
      <4>2. <<m, n>> \in edges \/ (m = id /\ <<target, n>> \in edges)
        BY <3>3, <4>1, <1>1
      <4>3. CASE <<m, n>> \in edges
        BY <4>3, <3>2, <1>0
      <4>4. CASE m = id /\ <<target, n>> \in edges
        <5>1. target \in T
          BY <4>4, <2>2
        <5> QED
          BY <5>1, <4>4, <3>2
      <4> QED
        BY <4>2, <4>3, <4>4
    <3> QED
      BY <3>2, <3>3
  <2> QED
    BY <2>1, <2>2
<1> QED
  BY <1>2, <1>3 DEF Acyclic

LEMMA Replaced ==
  ASSUME edges \in SUBSET (nodes \X nodes), NoCycle,
         NEW old \in nodes, NEW id, id \notin nodes \/ id = old
  PROVE  /\ EdgesInstead(old, id) \subseteq ((nodes \ {old}) \cup {id}) \X ((nodes \ {old}) \cup {id})
         /\ Acyclic((nodes \ {old}) \cup {id}, EdgesInstead(old, id))
<1> DEFINE es == EdgesInstead(old, id)
           ns == (nodes \ {old}) \cup {id}
<1>0. \A m, n : <<m, n>> \in edges => m \in nodes /\ n \in nodes
  OBVIOUS
<1>1. <<old, old>> \notin edges
  <2>1. {old} \in SUBSET nodes
    OBVIOUS
  <2> QED
    BY <2>1 DEF NoCycle, Acyclic
<1>2. \A m, n : <<m, n>> \in es <=> \/ <<m, n>> \in edges /\ m # old /\ n # old
                                    \/ n = id /\ <<m, old>> \in edges
                                    \/ m = id /\ <<old, n>> \in edges
  BY DEF EdgesInstead, WithoutNode, Into, OutOf, Parents, Children
<1>3. es \subseteq ns \X ns
  <2>1. WithoutNode(old) \subseteq ns \X ns
    <3>1. ASSUME NEW e \in WithoutNode(old)
          PROVE  e \in ns \X ns
      <4>1. e \in edges /\ e \notin Into(old) /\ e \notin OutOf(old)
        BY <3>1 DEF WithoutNode
      <4>2. PICK m \in nodes, n \in nodes : e = <<m, n>>
        BY <4>1
      <4>3. m # old /\ n # old
        BY <4>1, <4>2 DEF Into, OutOf, Parents, Children
      <4> QED
        BY <4>2, <4>3
    <3> QED
      BY <3>1
  <2>2. \A p \in Parents(old) : p \in ns
    BY <1>1 DEF Parents
  <2>3. \A c \in Children(old) : c \in ns
    BY <1>1 DEF Children
  <2> QED
    BY <2>1, <2>2, <2>3 DEF EdgesInstead
<1>4. ASSUME NEW S \in SUBSET ns, S # {}
      PROVE  \E n \in S : \A m \in S : <<m, n>> \notin es
  <2> HIDE DEF es
  <2> DEFINE T == IF id \in S THEN (S \ {id}) \cup {old} ELSE S
  <2>1. T \in SUBSET nodes /\ T # {}
    BY <1>4
  <2>2. PICK n \in T : \A m \in T : <<m, n>> \notin edges
    BY <2>1 DEF NoCycle, Acyclic
  <2>3. CASE n = old
    <3>1. id \in S
      BY <2>2, <2>3
    <3>2. ASSUME NEW m \in S, <<m, id>> \in es
          PROVE  FALSE
      <4>1. <<m, old>> \in edges
        BY <3>2, <1>0, <1>1, <1>2
      <4>2. m \in T \/ m = id
        BY <3>1
      <4>3. m \in nodes /\ m # old
        BY <4>1, <1>0, <1>1
      <4>4. m # id
        BY <4>3
      <4> QED
        BY <4>1, <4>2, <4>4, <2>2, <2>3
    <3> QED
      BY <3>1, <3>2
  <2>4. CASE n # old
    <3>1. n \in S /\ n # id
      BY <2>2, <2>4, <1>4
    <3>2. ASSUME NEW m \in S, <<m, n>> \in es
          PROVE  FALSE
      <4>0. \/ <<m, n>> \in edges /\ m # old /\ n # old
            \/ n = id /\ <<m, old>> \in edges
            \/ m = id /\ <<old, n>> \in edges
        BY <3>2, <1>2
      <4>1. (<<m, n>> \in edges /\ m # old) \/ (m = id /\ <<old, n>> \in edges)
        BY <4>0, <3>1
      <4>2. CASE m = id /\ <<old, n>> \in edges
        <5>1. old \in T
          BY <4>2
        <5> QED
          BY <5>1, <4>2, <2>2
      <4>3. CASE <<m, n>> \in edges /\ m # old
        <5>1. m \in nodes
          BY <4>3, <1>0
        <5>2. m # id
          BY <5>1, <4>3
        <5>3. m \in T
          BY <5>2
        <5> QED
          BY <5>3, <4>3, <2>2
      <4> QED
        BY <4>1, <4>2, <4>3
    <3> QED
      BY <3>1, <3>2
  <2> QED
    BY <2>3, <2>4
<1> QED
  BY <1>3, <1>4 DEF Acyclic

(***************************************************************************)
(* The ways through the graph.  What a set of nodes reaches is what every  *)
(* closed set around it has in common; a splice keeps the ways because     *)
(* each closed set of the old graph has one of the new graph with the same *)
(* old nodes in it, and the other way round: the new processor is in it    *)
(* when its target is, or when the one it replaces was.                    *)
(***************************************************************************)
Closed(es, S) == \A e \in es : e[1] \in S => e[2] \in S
Corresponds(ns, es, left, kept) ==
  \A S \in SUBSET ns : Closed(es, S) =>
    \E T \in SUBSET left : Closed(kept, T) /\ \A n \in ns \cap left : n \in S <=> n \in T
SameWays(ns, es, left, kept) ==
  \A n, m \in ns \cap left : m \in Reach(ns, es, {n}) <=> m \in Reach(left, kept, {n})

LEMMA WaysCorrespond ==
  ASSUME NEW ns, NEW es, NEW left, NEW kept,
         Corresponds(ns, es, left, kept), Corresponds(left, kept, ns, es)
  PROVE  SameWays(ns, es, left, kept)
<1>1. ASSUME NEW A, NEW E, NEW B, NEW F, Corresponds(B, F, A, E),
             NEW n \in A \cap B, NEW m \in A \cap B, m \in Reach(A, E, {n})
      PROVE  m \in Reach(B, F, {n})
  <2> SUFFICES ASSUME NEW S \in SUBSET B, n \in S, Closed(F, S)
               PROVE  m \in S
    BY DEF Reach, Closed
  <2>1. PICK T \in SUBSET A : Closed(E, T) /\ \A x \in B \cap A : x \in S <=> x \in T
    BY <1>1 DEF Corresponds
  <2>2. n \in T
    BY <2>1
  <2>3. m \in T
    BY <1>1, <2>1, <2>2 DEF Reach, Closed
  <2> QED
    BY <2>1, <2>3
<1> QED
  BY <1>1 DEF SameWays

LEMMA WaysWithLoneNode ==
  ASSUME edges \in SUBSET (nodes \X nodes), NEW id
  PROVE  SameWays(nodes, edges, nodes \cup {id}, edges)
<1>1. Corresponds(nodes, edges, nodes \cup {id}, edges)
  BY DEF Corresponds
<1>2. ASSUME NEW S \in SUBSET (nodes \cup {id}), Closed(edges, S)
      PROVE  Closed(edges, S \cap nodes)
  BY <1>2 DEF Closed
<1>3. Corresponds(nodes \cup {id}, edges, nodes, edges)
  <2> SUFFICES ASSUME NEW S \in SUBSET (nodes \cup {id}), Closed(edges, S)
               PROVE  \E T \in SUBSET nodes : Closed(edges, T) /\ \A n \in (nodes \cup {id}) \cap nodes : n \in S <=> n \in T
    BY DEF Corresponds
  <2> WITNESS S \cap nodes \in SUBSET nodes
  <2> QED
    BY <1>2
<1> QED
  BY <1>1, <1>3, WaysCorrespond

(* What an inserted processor is between. *)
LEMMA WaysAroundInserted ==
  ASSUME edges \in SUBSET (nodes \X nodes), NEW target \in nodes, NEW id, id \notin nodes, NEW es,
         \A S \in SUBSET nodes : Closed(edges, S) => Closed(es, S \cup (IF target \in S THEN {id} ELSE {})),
         \A S \in SUBSET (nodes \cup {id}) : Closed(es, S) => Closed(edges, S \ {id})
  PROVE  SameWays(nodes, edges, nodes \cup {id}, es)
<1>1. Corresponds(nodes, edges, nodes \cup {id}, es)
  <2> SUFFICES ASSUME NEW S \in SUBSET nodes, Closed(edges, S)
               PROVE  \E T \in SUBSET (nodes \cup {id}) :
                        Closed(es, T) /\ \A n \in nodes \cap (nodes \cup {id}) : n \in S <=> n \in T
    BY DEF Corresponds
  <2> WITNESS S \cup (IF target \in S THEN {id} ELSE {}) \in SUBSET (nodes \cup {id})
  <2> QED
    OBVIOUS
<1>2. Corresponds(nodes \cup {id}, es, nodes, edges)
  <2> SUFFICES ASSUME NEW S \in SUBSET (nodes \cup {id}), Closed(es, S)
               PROVE  \E T \in SUBSET nodes :
                        Closed(edges, T) /\ \A n \in (nodes \cup {id}) \cap nodes : n \in S <=> n \in T
    BY DEF Corresponds
  <2> WITNESS S \ {id} \in SUBSET nodes
  <2> QED
    OBVIOUS
<1> QED
  BY <1>1, <1>2, WaysCorrespond

LEMMA WaysAroundBefore ==
  ASSUME edges \in SUBSET (nodes \X nodes), NEW target \in nodes, NEW id, id \notin nodes
  PROVE  SameWays(nodes, edges, nodes \cup {id}, EdgesBefore(target, id))
<1> DEFINE es == EdgesBefore(target, id)
<1>1. ASSUME NEW S \in SUBSET nodes, Closed(edges, S)
      PROVE  Closed(es, S \cup (IF target \in S THEN {id} ELSE {}))
  <2> DEFINE T == S \cup (IF target \in S THEN {id} ELSE {})
  <2> SUFFICES ASSUME NEW e \in es, e[1] \in T
               PROVE  e[2] \in T
    BY DEF Closed
  <2>1. CASE e \in edges
    BY <1>1, <2>1 DEF Closed
  <2>2. ASSUME NEW p \in Parents(target), e = <<p, id>>
        PROVE  e[2] \in T
    <3>1. p \in S
      BY <2>2 DEF Parents
    <3>2. target \in S
      BY <1>1, <3>1 DEF Parents, Closed
    <3> QED
      BY <2>2, <3>2
  <2>3. CASE e = <<id, target>>
    BY <2>3
  <2> QED
    BY <2>1, <2>2, <2>3 DEF EdgesBefore
<1>2. ASSUME NEW S \in SUBSET (nodes \cup {id}), Closed(es, S)
      PROVE  Closed(edges, S \ {id})
  <2> SUFFICES ASSUME NEW a \in nodes, NEW b \in nodes, <<a, b>> \in edges, a \in S
               PROVE  b \in S
    BY DEF Closed
  <2>1. CASE b # target
    <3>1. <<a, b>> \in es
      BY <2>1 DEF EdgesBefore, Into
    <3> QED
      BY <1>2, <3>1 DEF Closed
  <2>2. CASE b = target
    <3>1. <<a, id>> \in es /\ <<id, target>> \in es
      BY <2>2 DEF EdgesBefore, Parents
    <3>2. id \in S
      BY <1>2, <3>1 DEF Closed
    <3> QED
      BY <1>2, <2>2, <3>1, <3>2 DEF Closed
  <2> QED
    BY <2>1, <2>2
<1> QED
  BY <1>1, <1>2, WaysAroundInserted

LEMMA WaysAroundAfter ==
  ASSUME edges \in SUBSET (nodes \X nodes), NEW target \in nodes, NEW id, id \notin nodes
  PROVE  SameWays(nodes, edges, nodes \cup {id}, EdgesAfter(target, id))
<1> DEFINE es == EdgesAfter(target, id)
<1>1. ASSUME NEW S \in SUBSET nodes, Closed(edges, S)
      PROVE  Closed(es, S \cup (IF target \in S THEN {id} ELSE {}))
  <2> DEFINE T == S \cup (IF target \in S THEN {id} ELSE {})
  <2> SUFFICES ASSUME NEW e \in es, e[1] \in T
               PROVE  e[2] \in T
    BY DEF Closed
  <2>1. CASE e \in edges
    BY <1>1, <2>1 DEF Closed
  <2>2. ASSUME NEW c \in Children(target), e = <<id, c>>
        PROVE  e[2] \in T
    <3>1. target \in S
      BY <2>2
    <3>2. c \in S
      BY <1>1, <3>1 DEF Children, Closed
    <3> QED
      BY <2>2, <3>2
  <2>3. CASE e = <<target, id>>
    BY <2>3
  <2> QED
    BY <2>1, <2>2, <2>3 DEF EdgesAfter
<1>2. ASSUME NEW S \in SUBSET (nodes \cup {id}), Closed(es, S)
      PROVE  Closed(edges, S \ {id})
  <2> SUFFICES ASSUME NEW a \in nodes, NEW b \in nodes, <<a, b>> \in edges, a \in S
               PROVE  b \in S
    BY DEF Closed
  <2>1. CASE a # target
    <3>1. <<a, b>> \in es
      BY <2>1 DEF EdgesAfter, OutOf
    <3> QED
      BY <1>2, <3>1 DEF Closed
  <2>2. CASE a = target
    <3>1. <<target, id>> \in es /\ <<id, b>> \in es
      BY <2>2 DEF EdgesAfter, Children
    <3>2. id \in S
      BY <1>2, <2>2, <3>1 DEF Closed
    <3> QED
      BY <1>2, <3>1, <3>2 DEF Closed
  <2> QED
    BY <2>1, <2>2
<1> QED
  BY <1>1, <1>2, WaysAroundInserted

(* The one that replaces another is in a closed set when that one was. *)
LEMMA WaysAroundReplaced ==
  ASSUME edges \in SUBSET (nodes \X nodes), NoCycle, NEW old \in nodes, NEW id, id \notin nodes
  PROVE  SameWays(nodes, edges, (nodes \ {old}) \cup {id}, EdgesInstead(old, id))
<1> DEFINE es == EdgesInstead(old, id)
           ns == (nodes \ {old}) \cup {id}
<1>1. <<old, old>> \notin edges
  <2>1. {old} \in SUBSET nodes /\ {old} # {}
    OBVIOUS
  <2>2. \E n \in {old} : \A m \in {old} : <<m, n>> \notin edges
    BY <2>1 DEF NoCycle, Acyclic
  <2> QED
    BY <2>2
<1>2. ASSUME NEW S \in SUBSET nodes, Closed(edges, S)
      PROVE  Closed(es, (S \ {old}) \cup (IF old \in S THEN {id} ELSE {}))
  <2> DEFINE T == (S \ {old}) \cup (IF old \in S THEN {id} ELSE {})
  <2> SUFFICES ASSUME NEW e \in es, e[1] \in T
               PROVE  e[2] \in T
    BY DEF Closed
  <2>1. CASE e \in WithoutNode(old)
    <3>1. PICK a \in nodes, b \in nodes : e = <<a, b>> /\ <<a, b>> \in edges
      BY <2>1 DEF WithoutNode
    <3>2. b # old
      BY <2>1, <3>1 DEF WithoutNode, Into, Parents
    <3>3. a \in S
      BY <3>1
    <3> QED
      BY <1>2, <3>1, <3>2, <3>3 DEF Closed
  <2>2. ASSUME NEW p \in Parents(old), e = <<p, id>>
        PROVE  e[2] \in T
    <3>1. p \in S
      BY <2>2 DEF Parents
    <3>2. old \in S
      BY <1>2, <3>1 DEF Parents, Closed
    <3> QED
      BY <2>2, <3>2
  <2>3. ASSUME NEW c \in Children(old), e = <<id, c>>
        PROVE  e[2] \in T
    <3>1. old \in S
      BY <2>3
    <3>2. c \in S /\ c # old
      BY <1>1, <1>2, <3>1 DEF Children, Closed
    <3> QED
      BY <2>3, <3>2
  <2> QED
    BY <2>1, <2>2, <2>3 DEF EdgesInstead
<1>3. ASSUME NEW S \in SUBSET ns, Closed(es, S)
      PROVE  Closed(edges, (S \ {id}) \cup (IF id \in S THEN {old} ELSE {}))
  <2> DEFINE T == (S \ {id}) \cup (IF id \in S THEN {old} ELSE {})
  <2> SUFFICES ASSUME NEW a \in nodes, NEW b \in nodes, <<a, b>> \in edges, a \in T
               PROVE  b \in T
    BY DEF Closed
  <2>1. CASE a = old
    <3>1. id \in S /\ <<id, b>> \in es
      BY <2>1 DEF EdgesInstead, Children
    <3>2. b \in S
      BY <1>3, <3>1 DEF Closed
    <3> QED
      BY <3>2
  <2>2. CASE a # old /\ b = old
    <3>1. a \in S /\ <<a, id>> \in es
      BY <2>2 DEF EdgesInstead, Parents
    <3>2. id \in S
      BY <1>3, <3>1 DEF Closed
    <3> QED
      BY <2>2, <3>2
  <2>3. CASE a # old /\ b # old
    <3>1. a \in S /\ <<a, b>> \in es
      BY <2>3 DEF EdgesInstead, WithoutNode, Into, OutOf
    <3>2. b \in S
      BY <1>3, <3>1 DEF Closed
    <3> QED
      BY <3>2
  <2> QED
    BY <2>1, <2>2, <2>3
<1>4. Corresponds(nodes, edges, ns, es)
  <2> SUFFICES ASSUME NEW S \in SUBSET nodes, Closed(edges, S)
               PROVE  \E T \in SUBSET ns : Closed(es, T) /\ \A n \in nodes \cap ns : n \in S <=> n \in T
    BY DEF Corresponds
  <2> HIDE DEF es
  <2> WITNESS (S \ {old}) \cup (IF old \in S THEN {id} ELSE {}) \in SUBSET ns
  <2> QED
    BY <1>2
<1>5. Corresponds(ns, es, nodes, edges)
  <2> SUFFICES ASSUME NEW S \in SUBSET ns, Closed(es, S)
               PROVE  \E T \in SUBSET nodes : Closed(edges, T) /\ \A n \in ns \cap nodes : n \in S <=> n \in T
    BY DEF Corresponds
  <2> HIDE DEF es
  <2> WITNESS (S \ {id}) \cup (IF id \in S THEN {old} ELSE {}) \in SUBSET nodes
  <2> QED
    BY <1>3
<1> QED
  BY <1>4, <1>5, WaysCorrespond

(* Wiring edges that close no cycle does not raise. *)
LEMMA WiresAll ==
  ASSUME NEW ns, NEW kept, NEW added, Wire(ns, kept, added), Acyclic(ns, kept \cup added)
  PROVE  raised' = FALSE /\ edges' = kept \cup added
BY DEF Wire

-----------------------------------------------------------------------------
(* The part of the invariant that is about the builder's own structures. *)
GraphOK ==
  /\ processors \in [Ids -> ProcessorRole \cup {Absent}]
  /\ nodes \in SUBSET Ids
  /\ edges \in SUBSET (Ids \X Ids)
  /\ raised \in BOOLEAN
  /\ GraphMatchesProcessors
  /\ NoCycle

(* What a call leaves behind: a sound graph, with the ways it had if it    *)
(* has a new node, and the old graph if the call raised.                   *)
WaysKept == nodes' \ nodes # {} => SameWays(nodes, edges, nodes', edges')
Sound == GraphOK' /\ WaysKept /\ (raised' => UNCHANGED graph)

LEMMA NoNewNode == nodes' \subseteq nodes => WaysKept
BY DEF WaysKept

(* A step that gives the graph these nodes and edges leaves it sound. *)
LEMMA Rebuilt ==
  ASSUME processors' \in [Ids -> ProcessorRole \cup {Absent}],
         nodes' = Keys(processors'), edges' \subseteq nodes' \X nodes',
         Acyclic(nodes', edges'), raised' = FALSE, WaysKept
  PROVE  Sound
<1>1. nodes' \subseteq Ids
  BY DEF Keys
<1>2. edges' \subseteq Ids \X Ids
  BY <1>1
<1> QED
  BY <1>1, <1>2 DEF Sound, GraphOK, GraphMatchesProcessors, NoCycle, Present

LEMMA RaiseIsSound == GraphOK /\ Raise => Sound
BY NoNewNode DEF GraphOK, Raise, Sound, graph, GraphMatchesProcessors, NoCycle, Present, Keys, Acyclic

LEMMA AddIsSound ==
  ASSUME GraphOK, NEW id \in Ids, NEW role \in ProcessorRole, AddProcessor(id, role)
  PROVE  Sound
<1>1. CASE Raise
  BY <1>1, RaiseIsSound
<1>2. CASE /\ id \notin Present
           /\ processors' = [processors EXCEPT ![id] = role]
           /\ nodes' = nodes \cup {id}
           /\ raised' = FALSE
           /\ UNCHANGED edges
  <2>1. processors' \in [Ids -> ProcessorRole \cup {Absent}]
    BY <1>2 DEF GraphOK
  <2>2. nodes' = Keys(processors')
    BY <1>2 DEF GraphOK, GraphMatchesProcessors, Present, Keys, ProcessorRole, Absent
  <2>3. edges \in SUBSET (nodes \X nodes) /\ id \notin nodes
    BY <1>2 DEF GraphOK, GraphMatchesProcessors
  <2>4. Acyclic(nodes \cup {id}, edges)
    BY <2>3, LoneNode DEF GraphOK, NoCycle
  <2>5. edges' \subseteq nodes' \X nodes'
    BY <1>2, <2>3
  <2>6. WaysKept
    BY <1>2, <2>3, WaysWithLoneNode DEF WaysKept
  <2> QED
    BY <1>2, <2>1, <2>2, <2>4, <2>5, <2>6, Rebuilt
<1> QED
  BY <1>1, <1>2 DEF AddProcessor

LEMMA ConnectIsSound ==
  ASSUME GraphOK, NEW from \in Ids, NEW to \in Ids, Connect(from, to)
  PROVE  Sound
<1>1. CASE Raise
  BY <1>1, RaiseIsSound
<1>2. CASE /\ {from, to} \subseteq Present
           /\ Wire(nodes, edges, {<<from, to>>})
           /\ UNCHANGED <<processors, nodes>>
  <2>1. {from, to} \subseteq nodes /\ edges \subseteq nodes \X nodes /\ nodes = Keys(processors)
    BY <1>2 DEF GraphOK, GraphMatchesProcessors, Present
  <2>2. CASE Acyclic(nodes, edges \cup {<<from, to>>})
    <3>1. raised' = FALSE /\ edges' = edges \cup {<<from, to>>}
      BY <1>2, <2>2, WiresAll
    <3>2. edges' \subseteq nodes' \X nodes'
      BY <1>2, <2>1, <3>1
    <3> QED
      BY <1>2, <2>1, <2>2, <3>1, <3>2, NoNewNode, Rebuilt DEF GraphOK
  <2>3. CASE ~Acyclic(nodes, edges \cup {<<from, to>>})
    <3>1. raised' = TRUE
      BY <1>2, <2>3 DEF Wire
    <3>2. PICK done \in Before(nodes, edges, {<<from, to>>}) : edges' = edges \cup done
      BY <1>2, <3>1 DEF Wire
    <3>3. done \in SUBSET {<<from, to>>} /\ Acyclic(nodes, edges \cup done)
      BY <3>2 DEF Before
    <3>4. done # {<<from, to>>}
      BY <3>3, <2>3
    <3>5. edges' = edges
      BY <3>2, <3>3, <3>4
    <3> QED
      BY <1>2, <3>1, <3>5, RaiseIsSound DEF Raise, graph
  <2> QED
    BY <2>2, <2>3
<1> QED
  BY <1>1, <1>2 DEF Connect

(* What an insertion knows before it wires the new processor. *)
LEMMA InsertPrepares ==
  ASSUME GraphOK, NEW target \in Ids, NEW id \in Ids, NEW role \in ProcessorRole,
         Insert(target, id, role)
  PROVE  /\ processors' \in [Ids -> ProcessorRole \cup {Absent}]
         /\ nodes' = Keys(processors') /\ nodes' = nodes \cup {id}
         /\ target \in nodes /\ id \notin nodes
         /\ edges \in SUBSET (nodes \X nodes) /\ NoCycle
BY DEF GraphOK, GraphMatchesProcessors, Insert, Present, Keys, ProcessorRole, Absent

LEMMA InsertBeforeIsSound ==
  ASSUME GraphOK, NEW target \in Ids, NEW id \in Ids, NEW role \in ProcessorRole,
         InsertBefore(target, id, role)
  PROVE  Sound
<1>1. CASE Raise
  BY <1>1, RaiseIsSound
<1>2. CASE /\ Insert(target, id, role)
           /\ Wire(nodes \cup {id}, edges \ Into(target),
                   {<<p, id>> : p \in Parents(target)} \cup {<<id, target>>})
  <2>1. Acyclic(nodes \cup {id}, EdgesBefore(target, id))
    BY <1>2, InsertPrepares, InsertedBefore
  <2>2. raised' = FALSE /\ edges' = EdgesBefore(target, id)
    <3> DEFINE kept == edges \ Into(target)
               added == {<<p, id>> : p \in Parents(target)} \cup {<<id, target>>}
    <3>1. EdgesBefore(target, id) = kept \cup added
      BY DEF EdgesBefore
    <3>2. Wire(nodes \cup {id}, kept, added)
      BY <1>2
    <3> HIDE DEF kept, added
    <3>3. Acyclic(nodes \cup {id}, kept \cup added)
      BY <2>1, <3>1
    <3>4. raised' = FALSE /\ edges' = kept \cup added
      BY <3>2, <3>3 DEF Wire
    <3> QED BY <3>1, <3>4
  <2>3. /\ processors' \in [Ids -> ProcessorRole \cup {Absent}]
        /\ nodes' = Keys(processors') /\ nodes' = nodes \cup {id}
    BY <1>2, InsertPrepares
  <2>4. edges' \subseteq nodes' \X nodes'
    BY <1>2, <2>2, <2>3, InsertPrepares, InsertedBefore
  <2>5. WaysKept
    BY <1>2, <2>2, <2>3, InsertPrepares, WaysAroundBefore DEF WaysKept
  <2> QED
    BY <2>1, <2>2, <2>3, <2>4, <2>5, Rebuilt
<1> QED
  BY <1>1, <1>2 DEF InsertBefore

LEMMA InsertAfterIsSound ==
  ASSUME GraphOK, NEW target \in Ids, NEW id \in Ids, NEW role \in ProcessorRole,
         InsertAfter(target, id, role)
  PROVE  Sound
<1>1. CASE Raise
  BY <1>1, RaiseIsSound
<1>2. CASE /\ Insert(target, id, role)
           /\ Wire(nodes \cup {id}, edges \ OutOf(target),
                   {<<id, c>> : c \in Children(target)} \cup {<<target, id>>})
  <2>1. Acyclic(nodes \cup {id}, EdgesAfter(target, id))
    BY <1>2, InsertPrepares, InsertedAfter
  <2>2. raised' = FALSE /\ edges' = EdgesAfter(target, id)
    <3> DEFINE kept == edges \ OutOf(target)
               added == {<<id, c>> : c \in Children(target)} \cup {<<target, id>>}
    <3>1. EdgesAfter(target, id) = kept \cup added
      BY DEF EdgesAfter
    <3>2. Wire(nodes \cup {id}, kept, added)
      BY <1>2
    <3> HIDE DEF kept, added
    <3>3. Acyclic(nodes \cup {id}, kept \cup added)
      BY <2>1, <3>1
    <3>4. raised' = FALSE /\ edges' = kept \cup added
      BY <3>2, <3>3 DEF Wire
    <3> QED BY <3>1, <3>4
  <2>3. /\ processors' \in [Ids -> ProcessorRole \cup {Absent}]
        /\ nodes' = Keys(processors') /\ nodes' = nodes \cup {id}
    BY <1>2, InsertPrepares
  <2>4. edges' \subseteq nodes' \X nodes'
    BY <1>2, <2>2, <2>3, InsertPrepares, InsertedAfter
  <2>5. WaysKept
    BY <1>2, <2>2, <2>3, InsertPrepares, WaysAroundAfter DEF WaysKept
  <2> QED
    BY <2>1, <2>2, <2>3, <2>4, <2>5, Rebuilt
<1> QED
  BY <1>1, <1>2 DEF InsertAfter

LEMMA RemoveIsSound ==
  ASSUME GraphOK, NEW id \in Ids, RemoveProcessor(id)
  PROVE  Sound
<1>1. CASE Raise
  BY <1>1, RaiseIsSound
<1>2. CASE /\ id \in Present
           /\ processors' = [processors EXCEPT ![id] = Absent]
           /\ nodes' = nodes \ {id}
           /\ edges' = WithoutNode(id)
           /\ raised' = FALSE
  <2>1. processors' \in [Ids -> ProcessorRole \cup {Absent}]
    BY <1>2 DEF GraphOK
  <2>2. nodes' = Keys(processors')
    BY <1>2 DEF GraphOK, GraphMatchesProcessors, Present, Keys
  <2>3. edges' \subseteq edges
    BY <1>2 DEF WithoutNode
  <2>4. Acyclic(nodes', edges')
    BY <1>2, <2>3, FewerEdges DEF GraphOK, NoCycle
  <2>5. ASSUME NEW e \in edges'
        PROVE  e \in nodes' \X nodes'
    <3>1. PICK m \in nodes, n \in nodes : e = <<m, n>>
      BY <2>3 DEF GraphOK, GraphMatchesProcessors
    <3>2. e \notin Into(id) /\ e \notin OutOf(id) /\ e \in edges
      BY <1>2 DEF WithoutNode
    <3>3. m # id /\ n # id
      BY <3>1, <3>2 DEF Into, OutOf, Parents, Children
    <3> QED
      BY <1>2, <3>1, <3>3
  <2>6. edges' \subseteq nodes' \X nodes'
    BY <2>5
  <2> QED
    BY <1>2, <2>1, <2>2, <2>4, <2>6, NoNewNode, Rebuilt
<1> QED
  BY <1>1, <1>2 DEF RemoveProcessor

LEMMA ReplaceIsSound ==
  ASSUME GraphOK, NEW old \in Ids, NEW id \in Ids, NEW role \in ProcessorRole,
         ReplaceProcessor(old, id, role)
  PROVE  Sound
<1>1. CASE Raise
  BY <1>1, RaiseIsSound
<1>2. CASE /\ old \in Present
           /\ id \notin Present \/ id = old
           /\ processors' = [processors EXCEPT ![old] = Absent, ![id] = role]
           /\ nodes' = (nodes \ {old}) \cup {id}
           /\ Wire((nodes \ {old}) \cup {id}, WithoutNode(old),
                   {<<p, id>> : p \in Parents(old)} \cup {<<id, c>> : c \in Children(old)})
  <2>1. /\ old \in nodes /\ (id \notin nodes \/ id = old)
        /\ edges \in SUBSET (nodes \X nodes) /\ NoCycle
    BY <1>2 DEF GraphOK, GraphMatchesProcessors
  <2>2. Acyclic((nodes \ {old}) \cup {id}, EdgesInstead(old, id))
    BY <2>1, Replaced
  <2>3. raised' = FALSE /\ edges' = EdgesInstead(old, id)
    BY <1>2, <2>2, WiresAll DEF EdgesInstead
  <2>4. processors' \in [Ids -> ProcessorRole \cup {Absent}]
    BY <1>2 DEF GraphOK
  <2>5. nodes' = Keys(processors')
    BY <1>2 DEF GraphOK, GraphMatchesProcessors, Present, Keys, ProcessorRole, Absent
  <2>6. WaysKept
    <3>1. CASE id \in nodes
      BY <1>2, <2>1, <3>1, NoNewNode
    <3>2. CASE id \notin nodes
      BY <1>2, <2>1, <2>3, <3>2, WaysAroundReplaced DEF WaysKept
    <3> QED
      BY <3>1, <3>2
  <2>7. edges' \subseteq nodes' \X nodes'
    BY <1>2, <2>1, <2>3, Replaced
  <2> QED
    BY <1>2, <2>2, <2>3, <2>4, <2>5, <2>6, <2>7, Rebuilt
<1> QED
  BY <1>1, <1>2 DEF ReplaceProcessor

LEMMA ResetIsSound ==
  ASSUME Reset
  PROVE  Sound
<1>1. processors' \in [Ids -> ProcessorRole \cup {Absent}] /\ nodes' = Keys(processors')
  BY DEF Reset, Keys
<1>2. Acyclic(nodes', edges') /\ edges' \subseteq nodes' \X nodes' /\ raised' = FALSE
  BY DEF Reset, Acyclic
<1>3. WaysKept
  BY NoNewNode DEF Reset
<1> QED
  BY <1>1, <1>2, <1>3, Rebuilt

(* A step that looks and changes nothing of the graph. *)
LEMMA LookingIsSound == GraphOK /\ UNCHANGED graph /\ raised' \in BOOLEAN => Sound
BY NoNewNode DEF GraphOK, Sound, graph, GraphMatchesProcessors, NoCycle, Present, Keys, Acyclic

LEMMA EditIsSound == GraphOK /\ Edit => Sound
<1> SUFFICES ASSUME GraphOK, Edit
             PROVE  Sound
  OBVIOUS
<1>1. CASE \E id \in Ids : RemoveProcessor(id)
  BY <1>1, RemoveIsSound
<1>2. CASE \E id \in Ids : \E role \in RolesOf[id] :
             \/ AddProcessor(id, role)
             \/ \E target \in Ids : \/ InsertBefore(target, id, role)
                                    \/ InsertAfter(target, id, role)
                                    \/ ReplaceProcessor(target, id, role)
  <2>1. PICK id \in Ids : \E role \in RolesOf[id] :
             \/ AddProcessor(id, role)
             \/ \E target \in Ids : \/ InsertBefore(target, id, role)
                                    \/ InsertAfter(target, id, role)
                                    \/ ReplaceProcessor(target, id, role)
    BY <1>2
  <2>2. PICK role \in RolesOf[id] :
             \/ AddProcessor(id, role)
             \/ \E target \in Ids : \/ InsertBefore(target, id, role)
                                    \/ InsertAfter(target, id, role)
                                    \/ ReplaceProcessor(target, id, role)
    BY <2>1
  <2>3. role \in ProcessorRole
    BY BuilderAssumption
  <2> QED
    BY <2>2, <2>3, AddIsSound, InsertBeforeIsSound, InsertAfterIsSound, ReplaceIsSound
<1>3. CASE \E from, to \in Ids : Connect(from, to)
  BY <1>3, ConnectIsSound
<1>4. CASE Reset
  BY <1>4, ResetIsSound
<1>5. CASE Validate
  BY <1>5, LookingIsSound DEF Validate
<1> QED
  BY <1>1, <1>2, <1>3, <1>4, <1>5 DEF Edit

-----------------------------------------------------------------------------
LEMMA Start == Init => IInv
<1> SUFFICES ASSUME Init
             PROVE  IInv
  OBVIOUS
<1>1. TypeOK
  BY DEF Init, TypeOK
<1>2. GraphMatchesProcessors /\ NoCycle /\ BuiltCanBeScheduled
  BY DEF Init, GraphMatchesProcessors, Present, Keys, NoCycle, Acyclic, BuiltCanBeScheduled
<1>3. StillValid
  BY DEF Init, StillValid
<1> QED
  BY <1>1, <1>2, <1>3 DEF IInv

LEMMA StepIsSound == IInv /\ Next => Sound
<1> SUFFICES ASSUME IInv, NEW t \in Threads,
                    Call(t) \/ BuildValidates(t) \/ BuildReturns(t)
             PROVE  Sound
  BY DEF Next
<1>0. GraphOK
  BY DEF IInv, TypeOK, GraphOK
<1>1. CASE Call(t)
  BY <1>0, <1>1, EditIsSound DEF Call
<1>2. CASE BuildValidates(t)
  BY <1>0, <1>2, LookingIsSound DEF BuildValidates
<1>3. CASE BuildReturns(t)
  BY <1>0, <1>3, LookingIsSound DEF BuildReturns
<1> QED
  BY <1>1, <1>2, <1>3

LEMMA StepKeepsValid == IInv /\ [Next]_vars => StillValid'
<1> SUFFICES ASSUME IInv, [Next]_vars
             PROVE  StillValid'
  OBVIOUS
<1>1. ASSUME UNCHANGED <<processors, edges>>, building' \ edited' \subseteq building \ edited
      PROVE  StillValid'
  BY <1>1 DEF IInv, StillValid, Validates, Inputs, RootsOf, Reach, Keys
<1>2. CASE UNCHANGED vars
  BY <1>1, <1>2 DEF vars, graph
<1>3. ASSUME NEW t \in Threads, Call(t)
      PROVE  StillValid'
  <2>1. CASE graph' = graph
    BY <1>1, <1>3, <2>1 DEF Call, graph
  <2>2. CASE graph' # graph
    BY <1>3, <2>2 DEF Call, StillValid
  <2> QED
    BY <2>1, <2>2
<1>4. ASSUME NEW t \in Threads, BuildValidates(t)
      PROVE  StillValid'
  <2>1. CASE raised'
    BY <1>1, <1>4, <2>1 DEF BuildValidates, graph
  <2>2. CASE ~raised'
    <3>1. Validates(processors, edges)
      BY <1>4, <2>2 DEF BuildValidates
    <3>2. Validates(processors, edges)'
      BY <1>4, <3>1 DEF BuildValidates, graph, Validates, Inputs, RootsOf, Reach, Keys
    <3> QED
      BY <3>2 DEF StillValid
  <2> QED
    BY <2>1, <2>2
<1>5. ASSUME NEW t \in Threads, BuildReturns(t)
      PROVE  StillValid'
  BY <1>1, <1>5 DEF BuildReturns, graph
<1> QED
  BY <1>2, <1>3, <1>4, <1>5 DEF Next

LEMMA Step == IInv /\ [Next]_vars => IInv'
<1> SUFFICES ASSUME IInv, [Next]_vars
             PROVE  IInv'
  OBVIOUS
<1>0. StillValid'
  BY StepKeepsValid
<1>1. CASE UNCHANGED vars
  BY <1>0, <1>1 DEF vars, graph, IInv, TypeOK, GraphMatchesProcessors, Present, Keys, NoCycle,
              Acyclic, BuiltCanBeScheduled
<1>2. CASE Next
  <2>1. GraphOK'
    BY <1>2, StepIsSound DEF Sound
  <2>2. /\ building' \in SUBSET Threads
        /\ built' \in Pipeline \cup {NoPipeline}
        /\ edited' \in SUBSET building'
        /\ BuiltCanBeScheduled'
    <3>1. PICK t \in Threads : Call(t) \/ BuildValidates(t) \/ BuildReturns(t)
      BY <1>2 DEF Next
    <3>2. CASE Call(t)
      BY <3>2 DEF Call, IInv, TypeOK, BuiltCanBeScheduled
    <3>3. CASE BuildValidates(t)
      BY <3>3 DEF BuildValidates, IInv, TypeOK, BuiltCanBeScheduled
    <3>4. CASE BuildReturns(t)
      <4>1. built' = [processors |-> processors, graph |-> edges]
        BY <3>4 DEF BuildReturns
      <4>2. built'.processors = processors /\ built'.graph = edges
        BY <4>1
      <4>3. Keys(processors) = nodes
        BY DEF IInv, GraphMatchesProcessors, Present
      <4>4. BuiltCanBeScheduled'
        BY <4>2, <4>3 DEF IInv, GraphMatchesProcessors, NoCycle, BuiltCanBeScheduled
      <4>5. built' \in Pipeline
        BY <4>1 DEF Pipeline, IInv, TypeOK
      <4> QED
        BY <3>4, <4>4, <4>5 DEF BuildReturns, IInv, TypeOK
    <3> QED
      BY <3>1, <3>2, <3>3, <3>4
  <2> QED
    BY <1>0, <2>1, <2>2 DEF GraphOK, IInv, TypeOK
<1> QED
  BY <1>1, <1>2

LEMMA Inductive == Spec => []IInv
<1>1. Init => IInv
  BY Start
<1>2. IInv /\ [Next]_vars => IInv'
  BY Step
<1> QED
  BY <1>1, <1>2, PTL DEF Spec

(***************************************************************************)
(* Every variable of the builder has its type.                             *)
(***************************************************************************)
THEOREM TypeCorrect == Spec => []TypeOK
<1>1. IInv => TypeOK
  BY DEF IInv
<1> QED
  BY <1>1, Inductive, PTL

(***************************************************************************)
(* The processors and the graph agree after any sequence of calls.         *)
(***************************************************************************)
THEOREM GraphMatchesProcessorsCorrect == Spec => []GraphMatchesProcessors
<1>1. IInv => GraphMatchesProcessors
  BY DEF IInv
<1> QED
  BY <1>1, Inductive, PTL

(***************************************************************************)
(* No sequence of insertions, replacements and connections closes a cycle. *)
(***************************************************************************)
THEOREM NoCycleCorrect == Spec => []NoCycle
<1>1. IInv => NoCycle
  BY DEF IInv
<1> QED
  BY <1>1, Inductive, PTL

(***************************************************************************)
(* What build() returns can be scheduled, whatever other threads did       *)
(* between its two sections: it is an initial state of PipelineScheduler.  *)
(***************************************************************************)
THEOREM BuiltCanBeScheduledCorrect == Spec => []BuiltCanBeScheduled
<1>1. IInv => BuiltCanBeScheduled
  BY DEF IInv
<1> QED
  BY <1>1, Inductive, PTL

(***************************************************************************)
(* A call that raises changes nothing: the rollback of connect is exact,   *)
(* and no splice ever runs into the check for cycles.                      *)
(***************************************************************************)
THEOREM RaisingChangesNothingCorrect == Spec => RaisingChangesNothing
<1>1. IInv /\ [Next]_vars => [raised' => UNCHANGED graph]_vars
  BY StepIsSound DEF Sound
<1> QED
  BY <1>1, Inductive, PTL DEF Spec, RaisingChangesNothing

(***************************************************************************)
(* Adding, inserting and replacing keep every way between the processors   *)
(* that were there and still are, and make none between them.              *)
(***************************************************************************)
THEOREM SplicesKeepTheWaysCorrect == Spec => SplicesKeepTheWays
<1>1. IInv /\ [Next]_vars =>
        [\A id \in nodes' \ nodes : \A n, m \in nodes \cap nodes' :
           m \in Reach(nodes, edges, {n}) <=> m \in Reach(nodes', edges', {n})]_vars
  BY StepIsSound DEF Sound, WaysKept, SameWays
<1> QED
  BY <1>1, Inductive, PTL DEF Spec, SplicesKeepTheWays

(***************************************************************************)
(* For any number of threads, what build() returns passes the validation   *)
(* unless another thread edited the graph inside build().                  *)
(***************************************************************************)
THEOREM BuildReturnsAValidPipelineCorrect == Spec => BuildReturnsAValidPipeline
<1>1. IInv /\ [Next]_vars =>
        [\A t \in building \ edited :
           t \notin building' => Validates(built'.processors, built'.graph)]_vars
  <2> SUFFICES ASSUME IInv, Next, NEW t \in building \ edited, t \notin building'
               PROVE  Validates(built'.processors, built'.graph)
    OBVIOUS
  <2>1. Validates(processors, edges)
    BY DEF IInv, StillValid
  <2>2. built' = [processors |-> processors, graph |-> edges]
    BY DEF Next, Call, BuildValidates, BuildReturns
  <2> QED
    BY <2>1, <2>2
<1> QED
  BY <1>1, Inductive, PTL DEF Spec, BuildReturnsAValidPipeline
=============================================================================
