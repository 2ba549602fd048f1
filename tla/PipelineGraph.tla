---------------------------- MODULE PipelineGraph ----------------------------
(***************************************************************************)
(* The mutable graph inside the pipeline builder, and the depth-first      *)
(* search that refuses the edge that would close a cycle.  The lists of    *)
(* children have no repetitions; the search may meet them, and the nodes,  *)
(* in any order.  Calls run under the builder's lock, one at a time; the   *)
(* search of add_edge is one step for each turn of its loops.              *)
(***************************************************************************)
EXTENDS Topology, Naturals, Sequences

VARIABLES
  adj,        \* _adj: the children of every node
  refused,    \* whether the last call raised CircularDependencyError
  trying,     \* the edge that add_edge is searching for, or NoEdge
  visited,    \* nodes the search has entered
  rec_stack,  \* nodes the search has entered and not left
  path,       \* the calls of dfs that have not returned, the outermost first
  ahead,      \* for the node of each such call, the children its loop has not come to
  shown       \* history: adj as it was when the last call returned

search == <<trying, visited, rec_stack, path, ahead>>
graphVars == <<adj, refused, search, shown>>

NoEdge == <<>>
Nodes == DOMAIN adj     \* _nodes holds the keys of _adj
EdgesOf(graph) == {e \in (DOMAIN graph) \X Ids : e[2] \in graph[e[1]]}

GraphTypeOK ==
  /\ Nodes \in SUBSET Ids
  /\ adj \in [Nodes -> SUBSET Nodes]
  /\ refused \in BOOLEAN
  /\ trying \in (Nodes \X Nodes) \cup {NoEdge}
  /\ visited \in SUBSET Nodes
  /\ rec_stack \in SUBSET Nodes
  /\ path \in Seq(Nodes)
  /\ ahead \in [Ids -> SUBSET Nodes]
  /\ DOMAIN shown \in SUBSET Nodes
  /\ shown \in [DOMAIN shown -> SUBSET DOMAIN shown]

WithNode(graph, n) ==
  [m \in (DOMAIN graph) \cup {n} |-> IF m \in DOMAIN graph THEN graph[m] ELSE {}]

WithoutNode(graph, n) == [m \in (DOMAIN graph) \ {n} |-> graph[m] \ {n}]

WithEdge(graph, from, to) ==
  [WithNode(WithNode(graph, from), to) EXCEPT ![from] = @ \cup {to}]

WithoutEdge(graph, from, to) == [graph EXCEPT ![from] = @ \ {to}]

-----------------------------------------------------------------------------
GraphInit ==
  /\ adj = [n \in {} |-> {}]
  /\ refused = FALSE
  /\ trying = NoEdge /\ visited = {} /\ rec_stack = {} /\ path = <<>>
  /\ ahead = [n \in Ids |-> {}]
  /\ shown = adj

(* A call returns, or raises, and leaves the given graph. *)
Leaves(graph, raises) ==
  /\ adj' = graph
  /\ shown' = graph
  /\ refused' = raises
  /\ trying' = NoEdge /\ visited' = {} /\ rec_stack' = {} /\ path' = <<>>
  /\ ahead' = [n \in Ids |-> {}]

Edit(graph) == trying = NoEdge /\ Leaves(graph, FALSE)

AddNode(n) == Edit(WithNode(adj, n))

RemoveNode(n) == n \in Nodes /\ Edit(WithoutNode(adj, n))

RemoveEdge(from, to) ==
  from \in Nodes /\ to \in adj[from] /\ Edit(WithoutEdge(adj, from, to))

(* The edge is put in place, and _has_cycle begins. *)
AddEdge(from, to) ==
  /\ trying = NoEdge
  /\ trying' = <<from, to>>
  /\ adj' = WithEdge(adj, from, to)
  /\ UNCHANGED <<refused, visited, rec_stack, path, ahead, shown>>

-----------------------------------------------------------------------------
Top == path[Len(path)]
Inside == path # <<>>

(* dfs(n) begins, called from a loop that still has the given children. *)
Enter(n, left) ==
  /\ n \notin visited
  /\ visited' = visited \cup {n}
  /\ rec_stack' = rec_stack \cup {n}
  /\ path' = Append(path, n)
  /\ ahead' = [left EXCEPT ![n] = adj[n]]
  /\ UNCHANGED <<adj, refused, trying, shown>>

(* The loop over the nodes comes to one that is not visited. *)
Start(n) == trying # NoEdge /\ ~Inside /\ n \in Nodes /\ Enter(n, ahead)

(* The innermost loop comes to a child. *)
Passed(c) == [ahead EXCEPT ![Top] = @ \ {c}]

Descend(c) == Enter(c, Passed(c))

Skip(c) ==
  /\ c \in visited \ rec_stack
  /\ ahead' = Passed(c)
  /\ UNCHANGED <<adj, refused, trying, visited, rec_stack, path, shown>>

(* return True, up to add_edge, which takes the edge back and raises. *)
CycleFound(c) ==
  /\ c \in rec_stack
  /\ Leaves(WithoutEdge(adj, trying[1], trying[2]), TRUE)

Look(c) == Inside /\ c \in ahead[Top] /\ (Descend(c) \/ Skip(c) \/ CycleFound(c))

(* The loop over the children is over: rec_stack.remove(node), return False. *)
\* Mutant: the node stays on the stack.
Popped_Forgotten(n) == rec_stack
Popped(n) == rec_stack \ {n}

Return ==
  /\ Inside
  /\ ahead[Top] = {}
  /\ rec_stack' = Popped(Top)
  /\ path' = SubSeq(path, 1, Len(path) - 1)
  /\ UNCHANGED <<adj, refused, trying, visited, ahead, shown>>

(* The loop over the nodes is over: _has_cycle is False, the edge stays. *)
Accept ==
  /\ trying # NoEdge
  /\ ~Inside
  /\ Nodes \subseteq visited
  /\ Leaves(adj, FALSE)

GraphNext ==
  \/ \E n \in Ids : AddNode(n) \/ RemoveNode(n) \/ Start(n) \/ Look(n)
  \/ \E from, to \in Ids : AddEdge(from, to) \/ RemoveEdge(from, to)
  \/ Return
  \/ Accept

GraphSpec == GraphInit /\ [][GraphNext]_graphVars

-----------------------------------------------------------------------------
Contract == INSTANCE GraphContract
              WITH nodes <- DOMAIN shown, edges <- EdgesOf(shown), raised <- refused

(***************************************************************************)
(* graph.py:42 "Check for cycles immediately": in whatever order the graph *)
(* is walked, the search refuses the edges whose end reaches their start   *)
(* and no others, and what is refused leaves no trace among the edges. No  *)
(* cycle gets in, and two paths that meet again are not taken for one.     *)
(***************************************************************************)
KeepsGraphContract == Contract!Spec
=============================================================================
