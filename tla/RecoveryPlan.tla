---------------------------- MODULE RecoveryPlan ----------------------------
(***************************************************************************)
(* flowlet/runtime/recovery.py: the dependency graph of the declared       *)
(* processes, the planner that checks one decision per process, and the    *)
(* selector that makes the decisions of a continuation.  The code is       *)
(* pure, and so are these operators.                                       *)
(*                                                                         *)
(* depends gives the set of processes each one declares in depends_on;     *)
(* spec, source (the projection a plan is made from) and assessment give a *)
(* record per process, one field for each fact the code looks at.          *)
(***************************************************************************)
EXTENDS Naturals, Sequences, FiniteSets

CONSTANT
  Process  \* ids of the declared processes; numbers, in the order of sorted()

ASSUME ProcessAssumption == Process \subseteq Nat /\ IsFiniteSet(Process)

None == "None"

Actions == {"skip", "resume", "retry", "restart", "block"}
Reexecuting == {"resume", "retry", "restart"}

\* What a declaration says of recovery.  A process without a retry policy has
\* maxAttempts = 1.
ProcessSpec ==
  [start: BOOLEAN, resume: BOOLEAN, retry: BOOLEAN, checkpoints: BOOLEAN,
   idempotency: {"unknown", "idempotent", "requires_cleanup", "non_idempotent"},
   maxAttempts: Nat \ {0}]

-----------------------------------------------------------------------------
(* build_runtime_process_graph                                              *)

Dependents(depends, p) == {q \in Process : p \in depends[q]}

\* downstream: the transitive dependents, found breadth-first.
Downstream(depends, found) ==
  LET reached[n \in 0..Cardinality(Process)] ==
        IF n = 0 THEN UNION {Dependents(depends, p) : p \in found}
        ELSE LET before == reached[n - 1]
             IN  before \cup UNION {Dependents(depends, p) : p \in before}
  IN  reached[Cardinality(Process)]

\* Those that every remaining dependency has been ordered before; the list is
\* kept sorted and its head is taken.
Ready(depends, ordered) == {p \in Process \ ordered : depends[p] \subseteq ordered}

Elements(s) == {s[i] : i \in DOMAIN s}

Extended(depends, before) ==
  LET ready == Ready(depends, Elements(before))
  IN  IF ready = {} THEN before
      ELSE Append(before, CHOOSE p \in ready : \A q \in ready : p <= q)

TopologicalOrder(depends) ==
  LET prefix[n \in 0..Cardinality(Process)] ==
        IF n = 0 THEN <<>> ELSE Extended(depends, prefix[n - 1])
  IN  prefix[Cardinality(Process)]

\* A graph is refused if a process depends on itself, on an unknown one, or if
\* the order does not get to all of them.
ValidGraph(depends) ==
  /\ \A p \in Process : p \notin depends[p] /\ depends[p] \subseteq Process
  /\ Len(TopologicalOrder(depends)) = Cardinality(Process)

-----------------------------------------------------------------------------
(* RuntimeRecoveryPlanner                                                   *)

\* _eligible_action: may the action be taken, by the declaration and the
\* history of the process alone?
CleanedUp(spec, decision) ==
  spec.idempotency = "requires_cleanup" => decision.cleaned

Repeatable(spec, decision) ==
  spec.idempotency # "non_idempotent" /\ CleanedUp(spec, decision)

Eligible(spec, source, decision) ==
  CASE decision.action = "skip"    -> source.class = "success"
    [] decision.action = "resume"  -> /\ spec.resume /\ spec.checkpoints
                                      /\ source.checkpoint \notin {None, "incompatible"}
    [] decision.action = "retry"   -> /\ spec.retry /\ Repeatable(spec, decision)
                                      /\ source.attempts < spec.maxAttempts
    [] decision.action = "restart" -> spec.start /\ Repeatable(spec, decision)
    [] OTHER                       -> FALSE

\* Mutation: a skip stands although an upstream process is executed again.
StepActionsKeepingSkips(depends, spec, source, decision) ==
  LET action[p \in Process] ==
        IF \/ ~Eligible(spec[p], source[p], decision[p])
           \/ \E d \in depends[p] : action[d] = "block"
        THEN "block" ELSE decision[p].action
  IN  action

\* The action of every step.  The graph is walked in topological order, so a
\* step sees what its dependencies do: none may be blocked, and a skip needs
\* that none is executed again, unless the package vouches for the output.
StepActions(depends, spec, source, decision) ==
  LET action[p \in Process] ==
        IF \/ ~Eligible(spec[p], source[p], decision[p])
           \/ \E d \in depends[p] : action[d] = "block"
           \/ /\ decision[p].action = "skip" /\ ~decision[p].preserve
              /\ \E d \in depends[p] : action[d] \in Reexecuting
        THEN "block" ELSE decision[p].action
  IN  action

\* What a step declares to be no longer valid.
Invalidates(depends, actions, decision) ==
  [p \in Process |->
     decision[p].invalidates \cup
       IF actions[p] \in Reexecuting THEN Downstream(depends, {p}) ELSE {}]

-----------------------------------------------------------------------------
(* RuntimeContinuationSelector                                              *)

\* First pass: what has to run by itself or is named by another assessment.
Seeds(source, assessment) ==
  {p \in Process : \/ assessment[p].forced
                   \/ source[p].class # "success"
                   \/ ~assessment[p].valid}
  \cup UNION {assessment[p].invalidates : p \in Process}

\* Mutation: only direct dependents of the seeds are added.
AffectedNeighbours(depends, order, source, assessment) ==
  LET seeds == Seeds(source, assessment)
  IN  seeds \cup {p \in Process : ~assessment[p].preserve /\ depends[p] \cap seeds # {}}

\* Second pass, in topological order: what depends on something affected.
Reached(depends, assessment, p, before) ==
  IF ~assessment[p].preserve /\ depends[p] \cap before # {} THEN before \cup {p} ELSE before

Affected(depends, order, source, assessment) ==
  LET pass[n \in 0..Len(order)] ==
        IF n = 0 THEN Seeds(source, assessment)
        ELSE Reached(depends, assessment, order[n], pass[n - 1])
  IN  pass[Len(order)]

\* _decision, for a process that is affected: the preference of the package,
\* or the least of the declared ways to repeat it.
Preferred(spec, source, a) ==
  LET resumable == a.offered /\ source.checkpoint # None /\ spec.resume
      retriable == source.attempts > 0 /\ spec.retry
  IN  IF a.preferred # None THEN a.preferred
      ELSE IF resumable THEN "resume"
      ELSE IF retriable THEN "retry" ELSE "restart"

Decisions(affected, spec, source, assessment) ==
  [p \in Process |->
     [action |-> IF p \in affected THEN Preferred(spec[p], source[p], assessment[p])
                 ELSE "skip",
      invalidates |-> IF p \in affected THEN assessment[p].invalidates ELSE {},
      preserve |-> assessment[p].preserve,
      cleaned |-> assessment[p].cleaned]]

\* A resume decision without a checkpoint does not validate, nor does an
\* assessment that names unknown processes: create_plan raises.
WellFormed(affected, spec, source, assessment) ==
  /\ \A p \in Process : assessment[p].invalidates \subseteq Process
  /\ \A p \in affected :
       Preferred(spec[p], source[p], assessment[p]) = "resume"
         => assessment[p].offered /\ source[p].checkpoint # None
=============================================================================
