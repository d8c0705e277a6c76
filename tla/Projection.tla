----------------------------- MODULE Projection -----------------------------
(***************************************************************************)
(* The projection: what RuntimeFrameworkReducer makes of the events that   *)
(* process contexts, unit spans, runners, hooks, reconciliation and the    *)
(* bridge of the managers append.                                          *)
(*                                                                         *)
(* The journal itself is not kept.  complete is the fold of all of it, as  *)
(* a full rebuild computes it; persisted is the stored projection, at its  *)
(* cursor; ahead is the fold of the events after the cursor onto persisted *)
(* , which the next refresh finishes and stores.  (That a refresh may miss *)
(* an event is a matter of StoreMaintenance.)                              *)
(***************************************************************************)
EXTENDS Naturals, Sequences, FiniteSets

CONSTANTS
  None,             \* an absent value
  Process,          \* ids of processes
  Parent,           \* parent_process_id of each, or None
  Unit,             \* ids of units
  Checkpoint,       \* ids of checkpoints, numbers in the order of the strings
  Owner,            \* the process a unit or a checkpoint belongs to
  Propagated,       \* the classes RuntimeProjectionPolicy propagates to parents
  Bridged,          \* processes a manager bridge reports for
  Programs,         \* what a package may do: the processes it registers and
                    \* those it asks to cancel, its units and checkpoints, and
                    \* whether waves and plans are begun and ended
  MaxLag,           \* bound: events a refresh is behind
  MaxCreated        \* bound: values of created_at

Failed == {"failure", "cancelled"}
Terminal == {"success"} \cup Failed
Class == {"not_started", "active", "blocked"} \cup Terminal

ASSUME StructureAssumption ==
  /\ None \notin Process \cup Checkpoint /\ None \notin Class
  /\ IsFiniteSet(Process)
  /\ Parent \in [Process -> Process \cup {None}]
  /\ Owner \in [Unit \cup Checkpoint -> Process]
  /\ Checkpoint \subseteq Nat
  /\ Propagated \subseteq Failed
  /\ Programs \subseteq [processes: SUBSET Process, cancels: SUBSET Process,
                         units: SUBSET Unit, checkpoints: SUBSET Checkpoint, waves: BOOLEAN]
  /\ MaxCreated \in Nat

VARIABLES
  program,    \* what the package registers
  attempts,   \* processes with an attempt that is not finished
  spans,      \* the unit spans each process is in, outermost first
  unwinding,  \* processes an exception is propagating through
  cancelling, \* contexts that were asked to cancel
  complete, ahead, persisted,
  lag         \* how many events are after the cursor

work == <<attempts, spans, unwinding, cancelling>>

vars == <<program, work, complete, ahead, persisted, lag>>

-----------------------------------------------------------------------------
(* RuntimeProjection and the reducer.                                       *)

Projection ==
  [order : Seq(Process), events : [Process -> Class \cup {None}],
   shown : [Process -> Class \cup {None}], units : [Unit -> Class \cup {None}],
   checkpoints : [Checkpoint -> Nat], latest : [Process -> Checkpoint \cup {None}],
   status : Class]

\* checkpoints gives created_at, 0 for those that are not there.
Empty ==
  [order |-> <<>>, events |-> [p \in Process |-> None],
   shown |-> [p \in Process |-> None], units |-> [u \in Unit |-> None],
   checkpoints |-> [c \in Checkpoint |-> 0],
   latest |-> [p \in Process |-> None], status |-> "not_started"]

\* The events, by what the reducer tells apart.
OfProcess(ps, class) == [of |-> "process", processes |-> ps, class |-> class]
OfUnit(u, class) == [of |-> "unit", unit |-> u, class |-> class]
OfRuntime(class) == [of |-> "runtime", class |-> class]
Committed(c, at) == [of |-> "committed", checkpoint |-> c, at |-> at]
Invalidated(c) == [of |-> "invalidated", checkpoint |-> c]

\* The order of (created_at, checkpoint_id).
NoOlder(created, c, d) == created[c] > created[d] \/ (created[c] = created[d] /\ c >= d)

\* The checkpoints of p, and the last of them.
Recorded(created, p) == {c \in Checkpoint : Owner[c] = p /\ created[c] > 0}

LatestOf(created, p) ==
  IF Recorded(created, p) = {} THEN None
  ELSE CHOOSE c \in Recorded(created, p) : \A d \in Recorded(created, p) : NoOlder(created, c, d)

\* A process is put last in the order by its first event.
ApplyProcess(f, e) ==
  [f EXCEPT !.events = [p \in Process |-> IF p \in e.processes THEN e.class ELSE @[p]],
            !.order = IF \E p \in e.processes : f.events[p] = None
                      THEN Append(@, CHOOSE p \in e.processes : TRUE) ELSE @]

ApplyCommitted(f, e) ==
  LET p == Owner[e.checkpoint]
      created == [f.checkpoints EXCEPT ![e.checkpoint] = e.at]
  IN  [f EXCEPT !.checkpoints = created,
                !.latest[p] = IF @ = None \/ NoOlder(created, e.checkpoint, @)
                              THEN e.checkpoint ELSE @]

\* Mutation: the latest checkpoint is forgotten with the one before it.
ApplyInvalidatedForgetting(f, e) ==
  [f EXCEPT !.checkpoints[e.checkpoint] = 0,
            !.latest[Owner[e.checkpoint]] = IF @ = e.checkpoint THEN None ELSE @]

ApplyInvalidated(f, e) ==
  LET p == Owner[e.checkpoint]
      created == [f.checkpoints EXCEPT ![e.checkpoint] = 0]
  IN  [f EXCEPT !.checkpoints = created,
                !.latest[p] = IF f.checkpoints[e.checkpoint] > 0 /\ @ = e.checkpoint
                              THEN LatestOf(created, p) ELSE @]

ApplyUnit(f, e) == [f EXCEPT !.units[e.unit] = e.class]

ApplyRuntime(f, e) == [f EXCEPT !.status = e.class]

\* _apply, for one event.
Apply(f, e) ==
  CASE e.of = "process"     -> ApplyProcess(f, e)
    [] e.of = "unit"        -> ApplyUnit(f, e)
    [] e.of = "runtime"     -> ApplyRuntime(f, e)
    [] e.of = "committed"   -> ApplyCommitted(f, e)
    [] e.of = "invalidated" -> ApplyInvalidated(f, e)

\* A child whose class is propagated ends its parent with it, unless the
\* parent has failed or was cancelled already.
EndParent(child, class, shown) ==
  IF class \in Propagated /\ Parent[child] # None /\ shown[Parent[child]] \notin Failed \cup {None}
  THEN [shown EXCEPT ![Parent[child]] = class] ELSE shown

\* One pass of _propagate_child_terminal_state, over the processes as they were
\* when it began.
Pass(order, shown) ==
  LET after[n \in 0..Len(order)] ==
        IF n = 0 THEN shown
        ELSE EndParent(order[n], shown[order[n]], after[n - 1])
  IN  after[Len(order)]

\* Mutation: the passes are not repeated.
PropagateOnce(order, events) == Pass(order, events)

\* The passes are repeated until nothing changes; each ends one more process.
Propagate(order, events) ==
  LET after[n \in 0..Cardinality(Process)] ==
        IF n = 0 THEN events ELSE Pass(order, after[n - 1])
  IN  after[Cardinality(Process)]

\* The status of the runtime; where no branch applies it is left as it was.
StatusOf(f, shown) ==
  LET present == {shown[p] : p \in Process} \ {None}
  IN  CASE "failure" \in present -> "failure"
        [] "failure" \notin present /\ "cancelled" \in present -> "cancelled"
        [] present \cap Failed = {} /\ "active" \in present -> "active"
        [] present = {"success"} -> "success"
        [] OTHER -> f.status

\* Mutation: what is derived is written over what the events say.
FinalizeInPlace(f) ==
  LET shown == Propagate(f.order, f.events)
  IN  [f EXCEPT !.shown = shown, !.events = shown, !.status = StatusOf(f, shown)]

\* _finalize_projection
Finalize(f) ==
  LET shown == Propagate(f.order, f.events)
  IN  [f EXCEPT !.shown = shown, !.status = StatusOf(f, shown)]

-----------------------------------------------------------------------------
(* Those who append events.                                                 *)

Init ==
  /\ program \in Programs
  /\ attempts = {} /\ unwinding = {} /\ cancelling = {}
  /\ spans = [p \in Process |-> <<>>]
  /\ complete = Empty /\ persisted = Finalize(Empty) /\ ahead = persisted
  /\ lag = 0

Emit(e) ==
  /\ lag < MaxLag /\ lag' = lag + 1
  /\ complete' = Apply(complete, e)
  /\ ahead' = Apply(ahead, e)
  /\ UNCHANGED <<program, persisted>>

Declared(p) == p \in program.processes /\ complete.events[p] # None

\* register: process.created.
Declare(p) ==
  /\ p \in program.processes /\ ~Declared(p)
  /\ Emit(OfProcess({p}, "not_started")) /\ UNCHANGED work

\* The lifecycle of waves and of recovery plans.
RuntimeEvent ==
  /\ program.waves
  /\ \E class \in {"active", "success", "failure", "cancelled"} : Emit(OfRuntime(class))
  /\ UNCHANGED work

\* process.attempt.created and .started, one transaction; the runner says once
\* more that the process is active.
BeginAttempt(p) ==
  /\ Declared(p) /\ p \notin attempts
  /\ attempts' = attempts \cup {p}
  /\ cancelling' = cancelling \ {p}
  /\ Emit(OfProcess({p}, "active"))
  /\ UNCHANGED <<spans, unwinding>>

AtWork(p) == p \in attempts /\ p \notin unwinding

\* What a process says of itself with emit_status, emit_progress, emit_signal
\* and emit_error, and goes on.
Report(p) ==
  /\ AtWork(p)
  /\ \E class \in {"active", "blocked", "failure"} : Emit(OfProcess({p}, class))
  /\ UNCHANGED work

\* RuntimeUnitSpan.__enter__
OpenUnit(p) ==
  /\ AtWork(p) /\ p \notin cancelling
  /\ \E u \in program.units :
       /\ Owner[u] = p /\ \A i \in DOMAIN spans[p] : spans[p][i] # u
       /\ spans' = [spans EXCEPT ![p] = Append(@, u)]
       /\ Emit(OfUnit(u, "active"))
  /\ UNCHANGED <<attempts, unwinding, cancelling>>

Innermost(p) == spans[p][Len(spans[p])]
Leave(p) == spans' = [spans EXCEPT ![p] = SubSeq(@, 1, Len(@) - 1)]

\* __exit__ without an exception.
CloseUnit(p) ==
  /\ AtWork(p) /\ spans[p] # <<>> /\ p \notin cancelling
  /\ Leave(p)
  /\ Emit(OfUnit(Innermost(p), "success"))
  /\ UNCHANGED <<attempts, unwinding, cancelling>>

\* request_cancel on the context of the process.
RequestCancel(p) ==
  /\ p \in attempts \cap program.cancels /\ p \notin cancelling
  /\ cancelling' = cancelling \cup {p}
  /\ UNCHANGED <<program, attempts, spans, unwinding, complete, ahead, persisted, lag>>

\* raise_if_cancelled, in __enter__ or in __exit__: the span that is being left
\* says nothing of the end of its unit.
RaiseCancelled(p) ==
  /\ AtWork(p) /\ p \in cancelling
  /\ unwinding' = unwinding \cup {p}
  /\ (spans[p] # <<>> /\ Leave(p)) \/ UNCHANGED spans
  /\ UNCHANGED <<program, attempts, cancelling, complete, ahead, persisted, lag>>

\* Any other exception in a span.
Raise(p) ==
  /\ AtWork(p) /\ spans[p] # <<>>
  /\ unwinding' = unwinding \cup {p}
  /\ UNCHANGED <<program, attempts, spans, cancelling, complete, ahead, persisted, lag>>

\* __exit__ with an exception; on_cancelled says which of the two it is.
Unwind(p) ==
  /\ p \in unwinding /\ spans[p] # <<>>
  /\ Leave(p)
  /\ \E class \in Failed : Emit(OfUnit(Innermost(p), class))
  /\ UNCHANGED <<attempts, unwinding, cancelling>>

\* The runner and then the executor say how the attempt ended, with one class;
\* the reporter of a package can also cancel it.
FinishAttempt(p) ==
  /\ p \in attempts /\ spans[p] = <<>>
  /\ attempts' = attempts \ {p}
  /\ unwinding' = unwinding \ {p}
  /\ \E class \in IF p \in unwinding THEN Failed ELSE Terminal :
       Emit(OfProcess({p}, class))
  /\ UNCHANGED <<spans, cancelling>>

\* The process of the operating system died: the attempts are interrupted when
\* the lease is acquired next.  Units are not.
Interrupt ==
  /\ attempts # {}
  /\ attempts' = {} /\ unwinding' = {}
  /\ spans' = [p \in Process |-> <<>>]
  /\ Emit(OfProcess(attempts, "failure"))
  /\ UNCHANGED cancelling

\* _dispatch_hook, from any thread, whatever the process is doing: cancelled,
\* paused or resumed, retried or cleaned up, or the hook is not supported.
Hook(p) ==
  /\ Declared(p)
  /\ \E class \in {"cancelled", "active", "success", "failure"} :
       Emit(OfProcess({p}, class))
  /\ UNCHANGED work

\* A step of a plan that is skipped.
Skip(p) ==
  /\ Declared(p) /\ p \notin attempts
  /\ Emit(OfProcess({p}, "success")) /\ UNCHANGED work

\* The status of a progress or signal record of the managers is taken for one
\* of the process.  A status the reducer does not know has a class of its own,
\* which nothing derives from, as with blocked.
MirrorRecord(p) ==
  /\ Declared(p) /\ p \in Bridged
  /\ \E class \in Class : Emit(OfProcess({p}, class))
  /\ UNCHANGED work

\* commit_checkpoint; a reference that is committed again is not older.
CommitCheckpoint(p) ==
  /\ AtWork(p)
  /\ \E c \in program.checkpoints, at \in 1..MaxCreated :
       /\ Owner[c] = p /\ at >= complete.checkpoints[c]
       /\ Emit(Committed(c, at))
  /\ UNCHANGED work

InvalidateCheckpoint(p) ==
  /\ AtWork(p)
  /\ \E c \in program.checkpoints : Emit(Invalidated(c))
  /\ UNCHANGED work

\* refresh_projection, by the executor after every operation and by readers.
Refresh ==
  /\ lag > 0 /\ lag' = 0
  /\ persisted' = Finalize(ahead)
  /\ ahead' = persisted'
  /\ UNCHANGED <<program, work, complete>>

OnProcess(p) ==
  \/ Declare(p) \/ BeginAttempt(p) \/ Report(p) \/ OpenUnit(p) \/ CloseUnit(p)
  \/ RequestCancel(p) \/ RaiseCancelled(p) \/ Raise(p) \/ Unwind(p) \/ FinishAttempt(p)
  \/ Hook(p) \/ Skip(p) \/ MirrorRecord(p) \/ CommitCheckpoint(p) \/ InvalidateCheckpoint(p)

Next == RuntimeEvent \/ Interrupt \/ Refresh \/ \E p \in Process : OnProcess(p)

Spec == Init /\ [][Next]_vars

-----------------------------------------------------------------------------
(* Properties                                                               *)

\* What a projection says of everything but the status of the runtime, which a
\* refresh may keep from the one before: see StatusOf.
Content(f) ==
  <<f.order, f.events, f.shown, f.units, f.checkpoints, f.latest>>

\* "incrementally refreshed projection equal complete event-only rebuilds":
\* however the refreshes cut the journal, the stored processes, units and
\* checkpoints are those a rebuild from the first event gives; what was derived
\* from a child at one refresh leaves no trace in the next.
RefreshEqualsRebuild == lag = 0 => Content(persisted) = Content(Finalize(complete))

\* A failure or a cancellation reaches every ancestor, through any number of
\* generations, in whatever order the processes were declared.
FailureReachesAncestors ==
  \A p \in Process :
    Parent[p] # None /\ persisted.shown[p] \in Propagated
      => persisted.shown[Parent[p]] \in Failed \cup {None}

\* latest_checkpoint_by_process, from which a process is resumed, names the
\* last one created among those that stand, whatever was invalidated between.
LatestCheckpointIsLatest ==
  \A p \in Process : persisted.latest[p] = LatestOf(persisted.checkpoints, p)

=============================================================================
