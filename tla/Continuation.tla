---------------------------- MODULE Continuation ----------------------------
(***************************************************************************)
(* RuntimeBackendExecutor on top of the selector and the planner: an       *)
(* initial wave runs the registered processes, any wave may fail or die,   *)
(* and continuations repeat what is affected until everything is done.     *)
(*                                                                         *)
(* class, attempts, active and checkpoint are what the projection and the  *)
(* ledger say of a process.  output is not in the runtime: it is the       *)
(* package's, and says whether the output of a process was made from the   *)
(* present outputs of its dependencies.                                    *)
(***************************************************************************)
EXTENDS RecoveryPlan

CONSTANTS
  Declarations,  \* the declarations a process may have: ProcessSpec with a
                 \* field vouched, for outputs that survive upstream changes
  Graphs,        \* the dependency graphs looked at
  Registrations, \* the orders in which a caller may register or run processes
  MaxMishaps     \* bound: failures, deaths, single runs and wishes of the package

ASSUME RegistrationsAssumption == Registrations \subseteq Seq(Process)

VARIABLES
  depends,     \* the declared graph
  order,       \* its topological order, found when the graph is built
  spec,        \* the declarations
  class,       \* status_class of each process in the projection, or None
  attempts,    \* the number of its attempts
  active,      \* processes with an attempt that is not finished
  checkpoint,  \* None, or the last committed one: "current" or "outdated" with
               \* respect to the inputs, or "incompatible" with the declaration
  output,      \* "none", "fresh", "stale", or "mixed": resumed on older inputs
  wave,        \* what the executor runs, and why
  mishaps      \* how many there were

vars == <<depends, order, spec, class, attempts, active, checkpoint, output, wave, mishaps>>

declared == <<depends, order, spec>>

Running == wave.at = "running"

\* A wave: the action of every step, the steps to go, what the step in an
\* attempt works on; and of the selection behind it the seeds and all affected.
Wave(at, kind, action, todo, seeds, affected) ==
  [at |-> at, kind |-> kind, action |-> action, todo |-> todo, now |-> None,
   seeds |-> seeds, affected |-> affected]

NoPlan == [p \in Process |-> "restart"]

Unplanned(at, kind, todo) == Wave(at, kind, NoPlan, todo, {}, {})

Init ==
  /\ depends \in {g \in Graphs : ValidGraph(g)}
  /\ order = TopologicalOrder(depends)
  /\ spec \in [Process -> Declarations]
  /\ class = [p \in Process |-> None]
  /\ attempts = [p \in Process |-> 0]
  /\ active = {}
  /\ checkpoint = [p \in Process |-> None]
  /\ output = [p \in Process |-> "none"]
  /\ wave = Unplanned("none", "initial", <<>>)
  /\ mishaps = 0

-----------------------------------------------------------------------------
(* Starting a wave.                                                         *)

Mishap == mishaps < MaxMishaps /\ mishaps' = mishaps + 1

\* run_all: every process in the order of registration, whatever it depends on.
RunAll ==
  /\ wave.at = "none"
  /\ \E registered \in Registrations :
       /\ Elements(registered) = Process
       /\ wave' = Unplanned("running", "initial", registered)
  /\ UNCHANGED <<declared, class, attempts, active, checkpoint, output, mishaps>>

\* run_process, called by itself.
RunProcess(p) ==
  /\ ~Running /\ Mishap
  /\ wave' = Unplanned("running", "initial", <<p>>)
  /\ UNCHANGED <<declared, class, attempts, active, checkpoint, output>>

\* The evidence of a package that looks at its files: an output is valid if it
\* was made from the present inputs, and so is a checkpoint.  w is what the
\* package wishes for one process.
NoWish == [of |-> {}, forced |-> FALSE, preferred |-> None, invalidates |-> {}]

Wishes ==
  [of : {{p} : p \in Process}, forced : BOOLEAN, preferred : {None, "restart", "skip"},
   invalidates : {{}} \cup {{p} : p \in Process}]

Assessment(w, cleaned) ==
  [p \in Process |->
     [valid |-> output[p] = "fresh",
      forced |-> p \in w.of /\ w.forced,
      preferred |-> IF p \in w.of THEN w.preferred ELSE None,
      offered |-> checkpoint[p] \in {"current", "incompatible"},
      preserve |-> spec[p].vouched,
      cleaned |-> cleaned,
      invalidates |-> IF p \in w.of THEN w.invalidates ELSE {}]]

Source ==
  [p \in Process |-> [class |-> class[p], attempts |-> attempts[p],
                      checkpoint |-> checkpoint[p]]]

\* Acquiring the lease reconciles what was lost, so no attempt is active when
\* the selector makes a plan.  execute_recovery_plan refuses one with a blocked
\* step, and walks an accepted one in its order.
Continue(w, cleaned) ==
  /\ ~Running /\ active = {}
  /\ \E source \in {Source}, assessment \in {Assessment(w, cleaned)} :
     \E affected \in {Affected(depends, order, source, assessment)} :
     \E decision \in {Decisions(affected, spec, source, assessment)} :
     \E action \in {StepActions(depends, spec, source, decision)} :
       LET blocked == \E p \in Process : action[p] = "block"
       IN  /\ WellFormed(affected, spec, source, assessment)
           /\ wave' = Wave(IF blocked THEN "refused" ELSE "running", "continue", action,
                           IF blocked THEN <<>> ELSE order,
                           Seeds(source, assessment), affected)
  /\ UNCHANGED <<declared, class, attempts, active, checkpoint, output>>

\* A package does not ask for skipping what it says is invalid.
ContinueAsWished ==
  \E w \in Wishes, cleaned \in BOOLEAN :
    /\ Mishap
    /\ w.preferred = "skip" => \A p \in w.of : output[p] = "fresh"
    /\ Continue(w, cleaned)

\* Without wishes, and with everything cleaned up.
ContinuePlainly == UNCHANGED mishaps /\ Continue(NoWish, TRUE)

-----------------------------------------------------------------------------
(* Walking the steps.                                                       *)

\* After the last step recovery.completed is appended.
Advanced ==
  IF Len(wave.todo) = 1 THEN Unplanned("completed", wave.kind, <<>>)
  ELSE [wave EXCEPT !.todo = Tail(@), !.now = None]

At(p) == Running /\ wave.todo # <<>> /\ Head(wave.todo) = p

\* _emit_skip: a status event that leaves the process a success.
Skip(p) ==
  /\ At(p) /\ wave.action[p] = "skip"
  /\ class' = [class EXCEPT ![p] = "success"]
  /\ wave' = Advanced
  /\ UNCHANGED <<declared, attempts, active, checkpoint, output, mishaps>>

\* reporter.start.  A resumed process works on the inputs of its checkpoint.
BeginAttempt(p) ==
  /\ At(p) /\ wave.action[p] # "skip" /\ wave.now = None
  /\ attempts' = [attempts EXCEPT ![p] = @ + 1]
  /\ class' = [class EXCEPT ![p] = "active"]
  /\ active' = active \cup {p}
  /\ wave' = [wave EXCEPT !.now =
                IF wave.action[p] = "resume" THEN checkpoint[p] ELSE "current"]
  /\ UNCHANGED <<declared, checkpoint, output, mishaps>>

InAttempt(p) == At(p) /\ wave.now # None

\* commit_checkpoint and invalidate_checkpoint, called by the process.
CommitCheckpoint(p) ==
  /\ InAttempt(p) /\ spec[p].checkpoints
  /\ \E c \in {wave.now, "incompatible"} : checkpoint' = [checkpoint EXCEPT ![p] = c]
  /\ UNCHANGED <<declared, class, attempts, active, output, wave, mishaps>>

InvalidateCheckpoint(p) ==
  /\ InAttempt(p) /\ checkpoint[p] # None
  /\ checkpoint' = [checkpoint EXCEPT ![p] = None]
  /\ UNCHANGED <<declared, class, attempts, active, output, wave, mishaps>>

\* A new output of p makes those of its dependents stale, except where the
\* package vouches for them, and outdates their checkpoints.
OutputsAfter(p) ==
  [q \in Process |->
     IF q = p THEN IF wave.now = "current" THEN "fresh" ELSE "mixed"
     ELSE IF p \in depends[q] /\ output[q] # "none" /\ ~spec[q].vouched THEN "stale"
     ELSE output[q]]

CheckpointsAfter(p) ==
  [q \in Process |->
     IF p \in depends[q] /\ checkpoint[q] = "current" THEN "outdated" ELSE checkpoint[q]]

\* reporter.complete; the runner does not start what declares no start.
FinishAttempt(p) ==
  /\ InAttempt(p)
  /\ wave.kind = "initial" => spec[p].start
  /\ class' = [class EXCEPT ![p] = "success"]
  /\ active' = active \ {p}
  /\ output' = OutputsAfter(p)
  /\ checkpoint' = CheckpointsAfter(p)
  /\ wave' = Advanced
  /\ UNCHANGED <<declared, attempts, mishaps>>

\* reporter.fail and recovery.failed; the exception ends the wave.
FailAttempt(p) ==
  /\ InAttempt(p)
  /\ IF wave.kind = "initial" /\ ~spec[p].start THEN UNCHANGED mishaps ELSE Mishap
  /\ class' = [class EXCEPT ![p] = "failure"]
  /\ active' = active \ {p}
  /\ wave' = Unplanned("failed", wave.kind, <<>>)
  /\ UNCHANGED <<declared, attempts, checkpoint, output>>

\* The back end dies; what it was doing stays active in the journal.
Die ==
  /\ Running /\ Mishap
  /\ wave' = Unplanned("dead", wave.kind, <<>>)
  /\ UNCHANGED <<declared, class, attempts, active, checkpoint, output>>

\* Mutation: the events are written and the attempts left as they are.
ReconcileEventsOnly ==
  /\ ~Running /\ active # {}
  /\ class' = [p \in Process |-> IF p \in active THEN "failure" ELSE class[p]]
  /\ UNCHANGED <<declared, active, attempts, checkpoint, output, wave, mishaps>>

\* reconcile_interrupted_work: process.attempt.interrupted.
Reconcile ==
  /\ ~Running /\ active # {}
  /\ class' = [p \in Process |-> IF p \in active THEN "failure" ELSE class[p]]
  /\ active' = {}
  /\ UNCHANGED <<declared, attempts, checkpoint, output, wave, mishaps>>

Step(p) == Skip(p) \/ BeginAttempt(p) \/ FinishAttempt(p)

Next ==
  \/ RunAll \/ ContinuePlainly \/ ContinueAsWished \/ Die \/ Reconcile
  \/ \E p \in Process :
       RunProcess(p) \/ Step(p) \/ CommitCheckpoint(p) \/ InvalidateCheckpoint(p)
         \/ FailAttempt(p)

\* Dispatched operations return; somebody reconciles, and continues every now
\* and then without special wishes.  Nothing makes waves die, fail or start.
Spec ==
  /\ Init /\ [][Next]_vars
  /\ WF_vars(\E p \in Process : Step(p))
  /\ WF_vars(Reconcile)
  /\ WF_vars(ContinuePlainly)

-----------------------------------------------------------------------------
(* Properties                                                               *)

\* "Build the affected DAG subgraph": what a continuation is to repeat is the
\* least set that holds what is unfinished, invalid or asked for and is closed
\* under dependents whose output nobody vouches for; the single pass in
\* topological order has to find it.
Closed(s) ==
  \A p \in Process : depends[p] \cap s # {} /\ ~spec[p].vouched => p \in s

AffectedSubgraphOnly ==
  /\ wave.seeds \subseteq wave.affected /\ Closed(wave.affected)
  /\ \A s \in SUBSET wave.affected :
       wave.seeds \subseteq s /\ Closed(s) => s = wave.affected

\* "Upstream restart blocks or invalidates downstream work by default": after a
\* continuation went through, whatever failed, died or was wished for before,
\* every process is a success and no output is older than one it was made
\* from.  What the package vouches for is excepted, and what was resumed: the
\* selector resumes from a checkpoint made on older outputs of a process the
\* same plan executes again.
CompletedPlanIsFresh ==
  wave.at = "completed" /\ wave.kind = "continue" =>
    \A p \in Process : class[p] = "success" /\ output[p] \in {"fresh", "mixed"}

\* A runtime whose processes may be repeated is done in the end, however often
\* it died or failed, if somebody keeps continuing it.
Done == \A p \in Process : class[p] = "success" /\ output[p] = "fresh"

AlwaysRepeatable(d) ==
  d.start /\ d.idempotency # "non_idempotent" /\ ~d.retry /\ ~d.resume

ContinuationConverges ==
  (\A p \in Process : AlwaysRepeatable(spec[p])) => []<>Done
=============================================================================
