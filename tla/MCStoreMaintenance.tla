------------------------- MODULE MCStoreMaintenance -------------------------
(***************************************************************************)
(* TLC instances of StoreMaintenance, with the bounds of MCDurableStore on *)
(* the calls of the store.                                                 *)
(***************************************************************************)
EXTENDS StoreMaintenance, MCDurableStore

Refreshing == {"loaded", "reduced", "writing"}
Reading == {"attempts", "cursor", "last", "returned"}
Rebuilding == {"ledger", "commands"}

\* A ledger() call changes nothing that another one could see, so one at a
\* time is enough.
AllowedTasks == Cardinality({m \in Maintainer : task[m].at \in Reading}) <= 1

\* Refreshes touch only the projection and rebuilds only the rows, both from
\* the journal alone: they commute, so each is explored without the other.
OneKindOfWrite ==
  (projection # None \/ \E m \in Maintainer : task[m].at \in Refreshing) =>
    /\ \A m \in Maintainer : task[m].at \notin Rebuilding
    /\ commands = RebuiltCommands(events)
    /\ executions = RebuiltExecutions(events) /\ attempts = RebuiltAttempts(events)

FewTasks == BriefCallers /\ AllowedTasks /\ OneKindOfWrite

AllInterchangeable == Interchangeable \cup Permutations(Maintainer)

=============================================================================
