---------------------------- MODULE MCProjection ----------------------------
(* Three generations of processes, or one process with a unit and two       *)
(* checkpoints.                                                             *)
EXTENDS Projection

MCParent == [p \in Process |-> IF p = 1 THEN None ELSE p - 1]
MCOwner == [x \in Unit \cup Checkpoint |-> 1]
MCPrograms ==
  {[processes |-> Process, cancels |-> {}, units |-> {}, checkpoints |-> {}, waves |-> FALSE],
   [processes |-> {1}, cancels |-> {1}, units |-> Unit, checkpoints |-> {}, waves |-> TRUE],
   [processes |-> {1}, cancels |-> {}, units |-> {}, checkpoints |-> Checkpoint, waves |-> FALSE]}
=============================================================================
