---------------------------- MODULE GraphContract ----------------------------
(***************************************************************************)
(* What PipelineGraph promises to the builder: a graph under edits, each   *)
(* of them one step, in which an edge is refused when, and only when, it   *)
(* would close a cycle, and a refusal leaves the edges as they were.       *)
(***************************************************************************)
EXTENDS Topology

VARIABLES nodes, edges,
          raised    \* whether the last call raised CircularDependencyError

vars == <<nodes, edges, raised>>

Init == nodes = {} /\ edges = {} /\ raised = FALSE

Add(n) == nodes' = nodes \cup {n} /\ raised' = FALSE /\ UNCHANGED edges

Remove(n) ==
  /\ n \in nodes
  /\ nodes' = nodes \ {n}
  /\ edges' = {e \in edges : e[1] # n /\ e[2] # n}
  /\ raised' = FALSE

(* The nodes of a refused edge stay. *)
Connect(from, to) ==
  /\ nodes' = nodes \cup {from, to}
  /\ raised' = (from \in Reach(nodes', edges, {to}))
  /\ edges' = IF raised' THEN edges ELSE edges \cup {<<from, to>>}

Disconnect(e) ==
  /\ e \in edges
  /\ edges' = edges \ {e}
  /\ raised' = FALSE
  /\ UNCHANGED nodes

Next ==
  \/ \E n \in Ids : Add(n) \/ Remove(n)
  \/ \E from, to \in Ids : Connect(from, to)
  \/ \E e \in edges : Disconnect(e)

Spec == Init /\ [][Next]_vars
=============================================================================
