--------------------------- MODULE PipelineBuilder ---------------------------
(***************************************************************************)
(* PipelineBuilder, shared by threads.  An edit is one section under the   *)
(* builder's lock; build() is two, the validation and the snapshot, with   *)
(* the lock released and PipelineValidated published in between.  The      *)
(* graph is its set of edges: the builder never reads the order of the     *)
(* children, and the search that finds cycles is in PipelineGraph, which   *)
(* is shown to refuse just the edges that close a cycle.                   *)
(***************************************************************************)
EXTENDS Topology, Naturals, FiniteSets

CONSTANTS RolesOf,  \* the roles a node with a given id may have
          Threads,  \* threads that share the builder
          NoPipeline

ProcessorRole == {"transport_input", "transport_output", "other"}
Absent == "absent"

ASSUME BuilderAssumption ==
  /\ IsFiniteSet(Ids)
  /\ RolesOf \in [Ids -> SUBSET ProcessorRole]
  /\ NoPipeline \notin [processors : [Ids -> ProcessorRole \cup {Absent}],
                        graph : SUBSET (Ids \X Ids)]

VARIABLES
  processors,  \* _processors: the role of every processor, or Absent
  nodes,       \* nodes of _graph
  edges,       \* edges of _graph
  raised,      \* whether the last call raised
  building,    \* threads between the two sections of build()
  built,       \* the pipeline the last call returned, NoPipeline if it was no build
  edited       \* history: those of building whose graph was edited since they validated it

graph == <<processors, nodes, edges>>
vars == <<graph, raised, building, built, edited>>

Pipeline == [processors : [Ids -> ProcessorRole \cup {Absent}],
             graph : SUBSET (Ids \X Ids)]

Keys(ps) == {id \in Ids : ps[id] # Absent}
Present == Keys(processors)

-----------------------------------------------------------------------------
Inputs(ps) == {id \in Ids : ps[id] = "transport_input"}
RootsOf(ps, es) == {id \in Keys(ps) : \A p \in Ids : <<p, id>> \notin es}

(* validate_pipeline, as a condition. *)
Validates(ps, es) ==
  /\ Keys(ps) # {}
  /\ Cardinality(Inputs(ps)) <= 1
  /\ RootsOf(ps, es) # {}
  /\ Inputs(ps) # {} => Cardinality(RootsOf(ps, es)) = 1
  /\ Keys(ps) \subseteq Reach(Keys(ps), es, RootsOf(ps, es))

-----------------------------------------------------------------------------
Init ==
  /\ processors = [id \in Ids |-> Absent]
  /\ nodes = {}
  /\ edges = {}
  /\ raised = FALSE
  /\ building = {}
  /\ built = NoPipeline
  /\ edited = {}

(* A call that raises before it changes anything. *)
Raise == raised' = TRUE /\ UNCHANGED graph

(* add_edge for each of the edges: the one that would close a cycle is taken
   back and the call raises, with the edges before it in place. *)
Before(ns, kept, added) ==
  {done \in SUBSET added : /\ Acyclic(ns, kept \cup done)
                           /\ \E e \in added : ~Acyclic(ns, kept \cup done \cup {e})}

\* Mutant: the rollback is forgotten.
Wire_NoRollback(ns, kept, added) ==
  /\ raised' = ~Acyclic(ns, kept \cup added)
  /\ edges' = kept \cup added
Wire(ns, kept, added) ==
  /\ raised' = ~Acyclic(ns, kept \cup added)
  /\ edges' \in IF raised' THEN {kept \cup done : done \in Before(ns, kept, added)}
                           ELSE {kept \cup added}

Parents(id) == {p \in nodes : <<p, id>> \in edges}
Children(id) == {c \in nodes : <<id, c>> \in edges}
Into(id) == {<<p, id>> : p \in Parents(id)}
OutOf(id) == {<<id, c>> : c \in Children(id)}

(* remove_node: the edges that are left. *)
\* Mutant: the edges into the node stay.
WithoutNode_Dangling(id) == edges \ OutOf(id)
WithoutNode(id) == edges \ (Into(id) \cup OutOf(id))

AddProcessor(id, role) ==
  \/ id \in Present /\ Raise
  \/ /\ id \notin Present
     /\ processors' = [processors EXCEPT ![id] = role]
     /\ nodes' = nodes \cup {id}
     /\ raised' = FALSE
     /\ UNCHANGED edges

Connect(from, to) ==
  \/ {from, to} \subseteq Present /\ Wire(nodes, edges, {<<from, to>>})
                                  /\ UNCHANGED <<processors, nodes>>
  \/ ~({from, to} \subseteq Present) /\ Raise

(* What insert_before and insert_after do before they rewire. *)
Insert(target, id, role) ==
  /\ target \in Present
  /\ id \notin Present
  /\ processors' = [processors EXCEPT ![id] = role]
  /\ nodes' = nodes \cup {id}

\* Mutant: the target is looked up after the processor was added.
InsertBefore_LateCheck(target, id, role) ==
  \/ /\ Insert(target, id, role)
     /\ Wire(nodes \cup {id}, edges \ Into(target),
             {<<p, id>> : p \in Parents(target)} \cup {<<id, target>>})
  \/ /\ target \notin Present /\ id \notin Present
     /\ processors' = [processors EXCEPT ![id] = role]
     /\ nodes' = nodes \cup {id}
     /\ raised' = TRUE
     /\ UNCHANGED edges
InsertBefore(target, id, role) ==
  \/ /\ Insert(target, id, role)
     /\ Wire(nodes \cup {id}, edges \ Into(target),
             {<<p, id>> : p \in Parents(target)} \cup {<<id, target>>})
  \/ (target \notin Present \/ id \in Present) /\ Raise

\* Mutant: the new processor is not connected to its target.
InsertAfter_Unconnected(target, id, role) ==
  \/ /\ Insert(target, id, role)
     /\ Wire(nodes \cup {id}, edges \ OutOf(target),
             {<<id, c>> : c \in Children(target)})
  \/ (target \notin Present \/ id \in Present) /\ Raise
InsertAfter(target, id, role) ==
  \/ /\ Insert(target, id, role)
     /\ Wire(nodes \cup {id}, edges \ OutOf(target),
             {<<id, c>> : c \in Children(target)} \cup {<<target, id>>})
  \/ (target \notin Present \/ id \in Present) /\ Raise

RemoveProcessor(id) ==
  \/ id \notin Present /\ Raise
  \/ /\ id \in Present
     /\ processors' = [processors EXCEPT ![id] = Absent]
     /\ nodes' = nodes \ {id}
     /\ edges' = WithoutNode(id)
     /\ raised' = FALSE

ReplaceProcessor(old, id, role) ==
  \/ /\ old \in Present
     /\ id \notin Present \/ id = old
     /\ processors' = [processors EXCEPT ![old] = Absent, ![id] = role]
     /\ nodes' = (nodes \ {old}) \cup {id}
     /\ Wire((nodes \ {old}) \cup {id}, WithoutNode(old),
             {<<p, id>> : p \in Parents(old)} \cup {<<id, c>> : c \in Children(old)})
  \/ (old \notin Present \/ (id \in Present /\ id # old)) /\ Raise

\* Mutant: the graph is not replaced by a new one.
Reset_KeepsGraph ==
  /\ processors' = [id \in Ids |-> Absent]
  /\ raised' = FALSE
  /\ UNCHANGED <<nodes, edges>>
Reset ==
  /\ processors' = [id \in Ids |-> Absent]
  /\ nodes' = {}
  /\ edges' = {}
  /\ raised' = FALSE

Validate == raised' = ~Validates(processors, edges) /\ UNCHANGED graph

Edit ==
  \/ \E id \in Ids : RemoveProcessor(id)
  \/ \E id \in Ids : \E role \in RolesOf[id] :
       \/ AddProcessor(id, role)
       \/ \E target \in Ids : \/ InsertBefore(target, id, role)
                              \/ InsertAfter(target, id, role)
                              \/ ReplaceProcessor(target, id, role)
  \/ \E from, to \in Ids : Connect(from, to)
  \/ Reset
  \/ Validate

(* A thread that is not inside build() makes one of the calls above. *)
Call(t) ==
  /\ t \notin building
  /\ Edit
  /\ built' = NoPipeline
  /\ edited' = IF graph' = graph THEN edited ELSE building
  /\ UNCHANGED building

(* build(), first section: self.validate(). *)
\* Mutant: the failure is logged and swallowed.
BuildValidates_Swallows(t) ==
  /\ t \notin building
  /\ building' = building \cup {t}
  /\ built' = NoPipeline
  /\ UNCHANGED <<graph, raised, edited>>
BuildValidates(t) ==
  /\ t \notin building
  /\ raised' = ~Validates(processors, edges)
  /\ building' = IF raised' THEN building ELSE building \cup {t}
  /\ built' = NoPipeline
  /\ UNCHANGED <<graph, edited>>

(* build(), second section: the snapshot that is returned. *)
BuildReturns(t) ==
  /\ t \in building
  /\ building' = building \ {t}
  /\ built' = [processors |-> processors, graph |-> edges]
  /\ raised' = FALSE
  /\ edited' = edited \ {t}
  /\ UNCHANGED graph

Next == \E t \in Threads : Call(t) \/ BuildValidates(t) \/ BuildReturns(t)

Spec == Init /\ [][Next]_vars

-----------------------------------------------------------------------------
TypeOK ==
  /\ processors \in [Ids -> ProcessorRole \cup {Absent}]
  /\ nodes \in SUBSET Ids
  /\ edges \in SUBSET (Ids \X Ids)
  /\ raised \in BOOLEAN
  /\ building \in SUBSET Threads
  /\ built \in Pipeline \cup {NoPipeline}
  /\ edited \in SUBSET building

(***************************************************************************)
(* The two structures the builder keeps agree after any sequence of calls, *)
(* raising ones included: the graph has the processors' ids as its nodes,  *)
(* and no edge has an end that was removed or replaced.                    *)
(***************************************************************************)
GraphMatchesProcessors == nodes = Present /\ edges \subseteq nodes \X nodes

(***************************************************************************)
(* However the calls splice processors in and out, the graph has no cycle. *)
(***************************************************************************)
NoCycle == Acyclic(nodes, edges)

(***************************************************************************)
(* Whatever other threads do between the two sections of build(), what it  *)
(* returns can be scheduled: PipelineScheduler looks up no processor that  *)
(* is not there (scheduler.py:24) and leaves none out.                     *)
(***************************************************************************)
BuiltCanBeScheduled ==
  built # NoPipeline =>
    /\ built.graph \subseteq Keys(built.processors) \X Keys(built.processors)
    /\ Acyclic(Keys(built.processors), built.graph)

(***************************************************************************)
(* builder.py:92 and :169: a call that adds a processor, by adding,        *)
(* inserting or replacing, keeps the way from every processor to every     *)
(* other, for all that were there before and still are.                    *)
(***************************************************************************)
SplicesKeepTheWays ==
  [][\A id \in nodes' \ nodes : \A n, m \in nodes \cap nodes' :
       m \in Reach(nodes, edges, {n}) <=> m \in Reach(nodes', edges', {n})]_vars

(***************************************************************************)
(* A call that raises changes nothing: connect takes back the edge that    *)
(* closed a cycle, and no insertion or replacement raises half way.        *)
(***************************************************************************)
RaisingChangesNothing == [][raised' => UNCHANGED graph]_vars

(***************************************************************************)
(* builder.py:219: build() returns a pipeline that passes the validation,  *)
(* whatever other threads call meanwhile, as long as none of them edits.   *)
(***************************************************************************)
BuildReturnsAValidPipeline ==
  [][\A t \in building \ edited :
       t \notin building' => Validates(built'.processors, built'.graph)]_vars
=============================================================================
