--------------------------- MODULE MCComputeGraph ---------------------------
(***************************************************************************)
(* TLC instances of ComputeGraph: two InputVar objects of one name, all    *)
(* graphs of three nodes, chains of three and joins.                       *)
(***************************************************************************)
EXTENDS ComputeGraph, TLC

OneName == [v \in Vars |-> "i"]

\* More nodes are made of the first, before any is executed, and have what they
\* need: the fourth is executed when it ends a chain of three, the fifth joins
\* two others, whose results are kept as they are futures.
Later(n) ==
  /\ \A m \in Node \ {1} : nodes[m].func = 1 /\ nodes[m].bound["x"] # Nil
  /\ 1 \notin Ancestors(n) /\ nodes[n].parents # {}
  /\ \A t \in Threads : run[t].root \in {Nil, n}

FewGraphs ==
  /\ Len(nodes) = 4 => Later(4) /\ (Cardinality(Ancestors(4)) < 3 => run = [t \in Threads |-> Nobody])
  /\ Len(nodes) = 5 => Later(5) /\ nodes[5].parents = {2, 3} /\ nodes[5].lazy

\* Threads and objects are in no order.
Interchangeable == Permutations(Threads) \cup Permutations(Vars)
=============================================================================
