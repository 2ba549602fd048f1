-------------------------- MODULE PipelineScheduler --------------------------
(***************************************************************************)
(* PipelineScheduler: Kahn's algorithm, one step for each turn of its      *)
(* loop, over a pipeline whose graph has been made by PipelineGraph.  The  *)
(* order in which dictionaries and lists of children are walked is left    *)
(* open: every listing is considered.                                      *)
(***************************************************************************)
EXTENDS PipelineGraph, FiniteSets

ASSUME IdsAssumption == IsFiniteSet(Ids)

VARIABLES
  nodes,      \* keys of pipeline.processors; none before there is a scheduler
  edges,      \* pipeline.graph, as parent-child pairs
  in_degree,  \* parents of a node that are not in the order yet
  queue,      \* nodes whose parents are all in the order
  order       \* the order computed so far

pipeline == <<nodes, edges>>
scheduler == <<pipeline, in_degree, queue, order>>
vars == <<graphVars, scheduler>>

Elements(s) == {s[i] : i \in DOMAIN s}
Distinct(s) == \A i, j \in DOMAIN s : s[i] = s[j] => i = j
Listings(S) == {s \in [1 .. Cardinality(S) -> S] : Elements(s) = S /\ Distinct(s)}

ParentsIn(ns, es, n) == {p \in ns : <<p, n>> \in es}
Parents(n) == ParentsIn(nodes, edges, n)

-----------------------------------------------------------------------------
Init ==
  /\ GraphInit
  /\ nodes = {} /\ edges = {}
  /\ in_degree = [n \in {} |-> 0]
  /\ queue = <<>> /\ order = <<>>

(* The graph is edited until the pipeline is built: build() returns a copy,*)
(* which later edits do not reach.                                         *)
Edits ==
  /\ nodes = {}
  /\ GraphNext
  /\ UNCHANGED scheduler

(* The scheduler of a pipeline with these nodes and edges, up to its loop. *)
Begins(ns, es) ==
  /\ nodes' = ns /\ edges' = es
  /\ in_degree' = [n \in ns |-> Cardinality(ParentsIn(ns, es, n))]
  /\ queue' \in Listings({n \in ns : in_degree'[n] = 0})
  /\ order' = <<>>

Schedules ==
  /\ nodes = {} /\ trying = NoEdge
  /\ Begins(Nodes, EdgesOf(adj))
  /\ UNCHANGED graphVars

(* The children of a node that this turn brings to zero. *)
\* Mutant: a child is ready as soon as one of its parents is in the order.
Ready_Eager(node) == {c \in nodes : <<node, c>> \in edges /\ in_degree[c] >= 1}
\* Mutant: a child is looked at before its degree is lowered.
Ready_Late(node) == {c \in nodes : <<node, c>> \in edges /\ in_degree[c] = 0}
Ready(node) == {c \in nodes : <<node, c>> \in edges /\ in_degree[c] = 1}

Lowered(node) ==
  [c \in nodes |-> IF <<node, c>> \in edges THEN in_degree[c] - 1 ELSE in_degree[c]]

Visit ==
  /\ queue # <<>>
  /\ order' = Append(order, Head(queue))
  /\ in_degree' = Lowered(Head(queue))
  /\ \E ready \in Listings(Ready(Head(queue))) : queue' = Tail(queue) \o ready
  /\ UNCHANGED <<pipeline, graphVars>>

Next == Edits \/ Schedules \/ Visit

Spec == Init /\ [][Next]_vars

-----------------------------------------------------------------------------
(* What the loop can rely on: the types of its variables. *)
TypeOK ==
  /\ nodes \in SUBSET Ids
  /\ edges \in SUBSET (nodes \X nodes)
  /\ in_degree \in [nodes -> Nat]
  /\ queue \in Seq(nodes)
  /\ order \in Seq(nodes)

(***************************************************************************)
(* A processor is executed once, and after every processor that feeds it:  *)
(* scheduler.py:17 "Kahn's algorithm for topological sorting".             *)
(***************************************************************************)
OrderIsTopological ==
  /\ Distinct(order)
  /\ \A i \in DOMAIN order : \A p \in Parents(order[i]) :
       \E j \in 1 .. (i - 1) : order[j] = p

(***************************************************************************)
(* scheduler.py:40: the order that is returned is complete: no processor   *)
(* of the pipeline is left out of the run, because the graph has refused   *)
(* every edge that would have closed a cycle.                              *)
(***************************************************************************)
OrderIsComplete == queue = <<>> => Elements(order) = nodes
=============================================================================
