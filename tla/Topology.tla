------------------------------- MODULE Topology -------------------------------
(***************************************************************************)
(* The shape of a pipeline, as the builder, its graph and the scheduler    *)
(* see it: processors by their ids, and edges as parent-child pairs.       *)
(***************************************************************************)
CONSTANT Ids    \* processor ids

(* Every set of nodes has a member without a parent in the set. *)
Acyclic(ns, es) ==
  \A S \in SUBSET ns : S # {} => \E n \in S : \A m \in S : <<m, n>> \notin es

(* What walks along the edges reach from a set of nodes, itself included. *)
Reach(ns, es, from) ==
  {n \in ns : \A S \in SUBSET ns :
     (from \subseteq S /\ \A e \in es : e[1] \in S => e[2] \in S) => n \in S}
=============================================================================
