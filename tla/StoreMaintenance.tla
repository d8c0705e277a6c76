-------------------------- MODULE StoreMaintenance --------------------------
(***************************************************************************)
(* The methods of RuntimeDurableStore that are more than one transaction:  *)
(* refresh_projection, rebuild_ledger(replace=True), rebuild_commands      *)
(* (replace=True) and ledger().  Each opens a connection per read and a    *)
(* further one per write, so the calls of DurableStore, and other          *)
(* maintainers, may come between any two of its steps.                     *)
(***************************************************************************)
EXTENDS DurableStore

CONSTANT
  Maintainer  \* threads or processes that run these methods

VARIABLES
  projection,  \* runtime_projection: None or the row [applied, through]
  task         \* the call each maintainer is in, with its local variables

maintenanceVars == <<projection, task>>

\* A projection is kept as the set of event sequences folded into it;
\* `through` is the cursor of its row.
Projection == [applied: SUBSET Nat, through: Nat]

Idle == [at |-> "idle"]

\* m is in no call; the ledger its last call returned stays with it.
Free(m) == task[m].at \in {"idle", "returned"}

Do(m, step) == task' = [task EXCEPT ![m] = step]

\* last_event_sequence(): -1 for an empty journal.
LastSequence == Len(events) - 1

\* list(since=cursor): the sequences after the cursor.
ListSince(cursor) == {q \in 0..LastSequence : q > cursor}

-----------------------------------------------------------------------------
(* refresh_projection and the write_projection it ends in.                  *)

LoadProjection(m) ==
  /\ Free(m)
  /\ Do(m, [at |-> "loaded", base |-> projection])
  /\ UNCHANGED projection

\* RuntimeFrameworkReducer: each event has to advance last_event_sequence.
Advances(applied, pending) == \A q \in pending, p \in applied : p < q

\* No event to apply, one that the reducer refuses, and a projection of an
\* empty journal (its runtime_id is not the store's) end the call.
ReduceNothing(m, applied, pending) ==
  /\ pending = {} \/ ~Advances(applied, pending)
  /\ Do(m, Idle)

ReducePending(m, applied, pending) ==
  /\ pending # {} /\ Advances(applied, pending)
  /\ Do(m, [at |-> "reduced", applied |-> applied \cup pending])

\* list(since=through_sequence), then reducer.apply or, without a persisted
\* projection, reducer.reduce of the whole journal.
ReduceEvents(m) ==
  LET base == task[m].base
      applied == IF base = None THEN {} ELSE base.applied
      pending == ListSince(IF base = None THEN -1 ELSE base.through)
  IN  /\ task[m].at = "loaded"
      /\ ReduceNothing(m, applied, pending) \/ ReducePending(m, applied, pending)
      /\ UNCHANGED projection

\* through_sequence=self.last_event_sequence(), read after the events were.
ReadCursor(m) ==
  /\ task[m].at = "reduced"
  /\ Do(m, [at |-> "writing", applied |-> task[m].applied, through |-> LastSequence])
  /\ UNCHANGED projection

\* Mutation: the cursor of the row is the last event that was applied to the
\* row before it.
WriteProjectionWithOldCursor(m) ==
  /\ task[m].at = "writing"
  /\ projection' = [applied |-> task[m].applied,
                    through |-> IF projection = None THEN 0 ELSE projection.through]
  /\ Do(m, Idle)

\* write_projection: an upsert of the one row, refused if its cursor is ahead
\* of the journal.
WriteProjection(m) ==
  /\ task[m].at = "writing"
  /\ projection' = IF task[m].through > LastSequence THEN projection
                   ELSE [applied |-> task[m].applied, through |-> task[m].through]
  /\ Do(m, Idle)

-----------------------------------------------------------------------------
(* rebuild_ledger(replace=True) and rebuild_commands(replace=True).         *)

\* The journal a rebuild read when it was n events long.
Read(n) == SubSeq(events, 1, n)

\* self.list() and the reducer, which raises on an irreducible journal.
BeginLedgerRebuild(m) ==
  /\ Free(m)
  /\ Reducible(events)
  /\ Do(m, [at |-> "ledger", n |-> Len(events)])
  /\ UNCHANGED projection

\* INSERT refuses two executions with one ordinal.
DistinctOrdinals(table) ==
  \A e, f \in DOMAIN table : table[e].ordinal = table[f].ordinal => e = f

\* DELETE and the rewriting of both tables, in one transaction; a refused
\* INSERT rolls it back.
ReplaceLedger(m) ==
  LET rebuilt == RebuiltExecutions(Read(task[m].n))
  IN  /\ task[m].at = "ledger"
      /\ \/ /\ DistinctOrdinals(rebuilt)
            /\ executions' = rebuilt
            /\ attempts' = RebuiltAttempts(Read(task[m].n))
         \/ /\ ~DistinctOrdinals(rebuilt)
            /\ UNCHANGED <<executions, attempts>>
      /\ Do(m, Idle)
      /\ UNCHANGED <<events, specs, sessions, commands, clock, projection>>

\* RuntimeCommandReducer raises on a second command.accepted.
CommandsReducible(journal) ==
  \A c \in Command :
    Cardinality({i \in CommandEvents(journal, c) : journal[i].status = "accepted"}) <= 1

BeginCommandRebuild(m) ==
  /\ Free(m)
  /\ CommandsReducible(events)
  /\ Do(m, [at |-> "commands", n |-> Len(events)])
  /\ UNCHANGED projection

ReplaceCommands(m) ==
  /\ task[m].at = "commands"
  /\ commands' = RebuiltCommands(Read(task[m].n))
  /\ Do(m, Idle)
  /\ UNCHANGED <<events, specs, executions, attempts, sessions, clock, projection>>

-----------------------------------------------------------------------------
(* ledger(): four SELECTs without a transaction.  Of what it read, the      *)
(* greatest sequence is kept.                                               *)

\* last_event_sequence of the rows of a table, none of an empty one.
Bounds(table) == {table[k].last : k \in DOMAIN table}

ReadExecutionRows(m) ==
  /\ Free(m)
  /\ Do(m, [at |-> "attempts", seen |-> Max(Bounds(executions) \cup {-1})])
  /\ UNCHANGED projection

ReadAttemptRows(m) ==
  /\ task[m].at = "attempts"
  /\ Do(m, [at |-> "cursor", seen |-> Max(Bounds(attempts) \cup {task[m].seen})])
  /\ UNCHANGED projection

\* SELECT through_sequence: projection_sequence is -1 without a row.
ReadProjectionCursor(m) ==
  /\ task[m].at = "cursor"
  /\ Do(m, [at |-> "last", seen |-> IF projection = None THEN task[m].seen
                                   ELSE Max({projection.through, task[m].seen})])
  /\ UNCHANGED projection

\* Mutation: the last sequence is that of the projection's cursor.
ReturnLedgerWithProjectionCursor(m) ==
  /\ task[m].at = "last"
  /\ Do(m, [at |-> "returned", seen |-> task[m].seen,
            last |-> IF projection = None THEN -1 ELSE projection.through])
  /\ UNCHANGED projection

\* last_event_sequence() completes the record that is returned.
ReturnLedger(m) ==
  /\ task[m].at = "last"
  /\ Do(m, [at |-> "returned", seen |-> task[m].seen, last |-> LastSequence])
  /\ UNCHANGED projection

-----------------------------------------------------------------------------

MaintenanceInit ==
  /\ Init
  /\ projection = None
  /\ task = [m \in Maintainer |-> Idle]

\* One step of a method that only writes the projection row.
Refresh(m) ==
  \/ LoadProjection(m) \/ ReduceEvents(m) \/ ReadCursor(m) \/ WriteProjection(m)

ReadLedger(m) ==
  \/ ReadExecutionRows(m) \/ ReadAttemptRows(m) \/ ReadProjectionCursor(m) \/ ReturnLedger(m)

MaintenanceNext ==
  \/ Next /\ UNCHANGED maintenanceVars
  \/ \E m \in Maintainer :
       \/ (Refresh(m) \/ ReadLedger(m) \/ BeginLedgerRebuild(m) \/ BeginCommandRebuild(m))
            /\ UNCHANGED vars
       \/ ReplaceLedger(m) \/ ReplaceCommands(m)

MaintenanceSpec == MaintenanceInit /\ [][MaintenanceNext]_<<vars, maintenanceVars>>

-----------------------------------------------------------------------------
(* Properties.                                                              *)

\* However refreshes and store calls interleave, the errors inside a refresh
\* never surface: the events it lists lie after everything its projection
\* has applied, and the cursor it writes is in the journal.
RefreshNeverRaises ==
  \A m \in Maintainer :
    /\ task[m].at = "loaded" /\ task[m].base # None =>
         Advances(task[m].base.applied, ListSince(task[m].base.through))
    /\ task[m].at = "writing" => task[m].through <= LastSequence

\* "The ledger is a rebuildable materialized index, not a second source of
\* truth": even rows rewritten from an outdated journal say only what it
\* says at their last_event_sequence.
RowsAreJournaled ==
  /\ \A a \in DOMAIN attempts :
       LET ev == events[attempts[a].last + 1]
       IN  ev.kind = "attempt" /\ AttemptOf(ev) = a /\ ev.status = attempts[a].status
  /\ \A c \in DOMAIN commands :
       LET ev == events[commands[c].last + 1]
       IN  ev.kind = "command" /\ ev.command = c /\ ev.status = commands[c].status
  /\ \A e \in DOMAIN executions :
       /\ events[executions[e].last + 1].exec = e
       /\ \E i \in 1 .. executions[e].last + 1 :
            events[i].kind = "execution" /\ events[i].exec = e
              /\ events[i].status = executions[e].status

\* The rows and the projection cursor of a ledger are read at different
\* times, but never past the last_event_sequence it carries: a reader that
\* goes on from there with list(since=...) is shown no event it has seen.
LedgerBehindItsCursor ==
  \A m \in Maintainer : task[m].at = "returned" => task[m].seen <= task[m].last

=============================================================================
