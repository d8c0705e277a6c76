----------------------------- MODULE MCEdgeNode -----------------------------
(* A machine with a guard, an action that is diverted when it raises, and a  *)
(* transition back.                                                          *)
EXTENDS EdgeNode

MCTransitions ==
  <<[source |-> {"new"}, target |-> "busy", event |-> "go",
     guarded |-> TRUE, acts |-> TRUE, onError |-> "broken"],
    [source |-> {"busy", "broken"}, target |-> "new", event |-> "back",
     guarded |-> FALSE, acts |-> TRUE, onError |-> None],
    [source |-> {"busy"}, target |-> "done", event |-> None,
     guarded |-> FALSE, acts |-> FALSE, onError |-> None]>>
=============================================================================
