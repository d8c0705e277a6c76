---------------------------- MODULE DurableStore ----------------------------
(***************************************************************************)
(* RuntimeDurableStore (flowlet/runtime/durable_store.py): the append-only *)
(* event journal of one runtime lineage and the rows materialized from it. *)
(*                                                                         *)
(* Every public method is one SQLite transaction (BEGIN IMMEDIATE ...      *)
(* commit), so every method is one action.  A method that raises rolls     *)
(* back and changes nothing: its guard is false.  A crash before commit is *)
(* the same non-step.  Methods of any number of processes interleave.      *)
(*                                                                         *)
(* The operators marked "Mutation" are plausible bugs: each takes the      *)
(* place of the definition that follows it when a property is tested for   *)
(* being able to fail.  No action uses them.                               *)
(***************************************************************************)
EXTENDS Integers, Sequences, FiniteSetsExt

CONSTANTS
  Process,        \* process ids, ordered as SQLite orders the text column
  Execution,      \* execution ids callers may pass to begin_execution
  SessionId,      \* backend session ids
  Owner,          \* backend owner ids
  SpecVersion,    \* distinguishable RuntimeProcessSpec values of one process
  Command,        \* command ids (idempotency keys)
  AttemptOutcome, \* outcomes reported through finish_process_attempt
  WaveOutcome,    \* final statuses reported through transition_execution
  Ttl,            \* lease durations callers ask for (ttl > 0)
  Lag,            \* bound: how old the caller's `now` may be at commit
  MaxTime,        \* bound on the clock
  MaxEvents,      \* bound on the length of the journal
  None            \* Python's None

ExecutionFinal == {"succeeded", "failed", "cancelled", "interrupted"}
ExecutionStatus == {"pending", "running"} \cup ExecutionFinal
AttemptFinal == {"succeeded", "failed", "cancelled", "interrupted"}
AttemptStatus == {"pending", "running"} \cup AttemptFinal
SessionStatus == {"active", "released", "expired"}
CommandFinal == {"succeeded", "failed"}

ASSUME DurableStoreAssumption ==
  /\ Process \subseteq Nat
  /\ None \notin Execution \cup SessionId \cup Owner \cup SpecVersion \cup Command
  /\ AttemptOutcome \subseteq AttemptFinal
  /\ WaveOutcome \subseteq ExecutionFinal
  /\ Ttl \subseteq Nat \ {0}
  /\ Lag \in Nat /\ MaxTime \in Nat /\ MaxEvents \in Nat

VARIABLES
  events,     \* runtime_events: the event with sequence i is events[i + 1]
  specs,      \* runtime_process_specs: process -> spec, None without a row
  executions, \* runtime_executions: rows keyed by execution id
  attempts,   \* runtime_attempts: rows keyed by <<process, ordinal>>
  sessions,   \* runtime_backend_sessions: rows keyed by session id
  commands,   \* runtime_commands: receipts keyed by command id
  clock       \* time.time() of the hosts, which callers read before the call

vars == <<events, specs, executions, attempts, sessions, commands, clock>>

(***************************************************************************)
(* Events.  The pair (kind, status) stands for event_type: ("attempt",     *)
(* "running") is process.attempt.started, ("execution", "pending") is      *)
(* execution.created.  The attempt id "p:attempt:n" is <<p, n>>.  Error,   *)
(* metadata, timestamp and the fingerprints are not kept: nothing in the   *)
(* store branches on them.                                                 *)
(***************************************************************************)
EventKind == {"execution", "attempt", "session", "process", "progress", "command"}

EventStatus ==
  ExecutionStatus \cup AttemptStatus
    \cup {"acquired", "renewed", "released", "expired", "accepted"}

Event == [kind: EventKind, status: EventStatus, exec: Execution \cup {None},
          proc: Process \cup {None}, ord: Nat, session: SessionId \cup {None},
          by: SessionId \cup {None}, command: Command \cup {None}]

NewEvent(kind, status) ==
  [kind |-> kind, status |-> status, exec |-> None, proc |-> None, ord |-> 0,
   session |-> None, by |-> None, command |-> None]

SessionEvent(s, status) == [NewEvent("session", status) EXCEPT !.session = s]

AttemptEvent(a, e, s, status) ==
  [NewEvent("attempt", status) EXCEPT !.exec = e, !.proc = a[1], !.ord = a[2], !.session = s]

CommandEvent(c, e, status) ==
  [NewEvent("command", status) EXCEPT !.command = c, !.exec = e]

AttemptOf(ev) == <<ev.proc, ev.ord>>

-----------------------------------------------------------------------------
(* One transaction: the batch of events it appends, in order, and what      *)
(* _append_event_tx does to the rows for each of them.                      *)

\* Upsert of one row (INSERT ... ON CONFLICT DO UPDATE).
Upsert(table, key, row) ==
  [k \in DOMAIN table \cup {key} |-> IF k = key THEN row ELSE table[k]]

\* Sequence that the i-th event of a batch is given: MAX(sequence) + i.
SequenceOf(i) == Len(events) + i - 1

\* Positions of the batch with an attempt lifecycle event of a.
Concerning(batch, a) ==
  {i \in DOMAIN batch : batch[i].kind = "attempt" /\ AttemptOf(batch[i]) = a}

\* Mutation: every lifecycle event writes the row anew.
AttemptsAfterForgettingStart(batch) ==
  [a \in DOMAIN attempts \cup {AttemptOf(batch[i]) : i \in {j \in DOMAIN batch : batch[j].kind = "attempt"}} |->
     LET mine == Concerning(batch, a)
     IN  IF mine = {}
         THEN attempts[a]
         ELSE [exec |-> batch[Min(mine)].exec, session |-> batch[Min(mine)].session,
               first |-> SequenceOf(Min(mine)),
               status |-> batch[Max(mine)].status, last |-> SequenceOf(Max(mine))]]

\* _apply_attempt_event_tx: the first lifecycle event of an attempt inserts
\* its row, every one moves status and last_event_sequence.
AttemptsAfter(batch) ==
  [a \in DOMAIN attempts \cup {AttemptOf(batch[i]) : i \in {j \in DOMAIN batch : batch[j].kind = "attempt"}} |->
     LET mine == Concerning(batch, a)
         row == IF a \in DOMAIN attempts THEN attempts[a]
                ELSE [exec |-> batch[Min(mine)].exec, session |-> batch[Min(mine)].session,
                      first |-> SequenceOf(Min(mine)), status |-> "pending", last |-> 0]
     IN  IF mine = {} THEN row
         ELSE [row EXCEPT !.status = batch[Max(mine)].status, !.last = SequenceOf(Max(mine))]]

\* Mutation: events do not move last_event_sequence.
ExecutionsAfterWithoutTouch(batch) == executions

\* Every event with a known execution_id moves that row's last_event_sequence.
ExecutionsAfter(batch) ==
  [e \in DOMAIN executions |->
     LET mine == {i \in DOMAIN batch : batch[i].exec = e}
     IN  IF mine = {} THEN executions[e]
         ELSE [executions[e] EXCEPT !.last = SequenceOf(Max(mine))]]

\* The part of every transaction that _append_event_tx does.  Methods that
\* also write an execution row do so on ExecutionsAfter(batch).
Journal(batch) ==
  /\ Len(events) + Len(batch) <= MaxEvents
  /\ events' = events \o batch
  /\ attempts' = AttemptsAfter(batch)

-----------------------------------------------------------------------------
(* Backend session leases.                                                  *)

\* What a caller's clock reading may be when its transaction commits.
Now == {t \in 0..clock : clock - t <= Lag}

ActiveSessions == {s \in DOMAIN sessions : sessions[s].status = "active"}

\* Mutation: the expiry test is off by one tick.
HeldOneTickShorter(s, now) == sessions[s].expires > now + 1

\* The lease of s is unexpired for a caller whose clock reads now.
Held(s, now) == sessions[s].expires > now

\* _require_live_session_tx: what renew, release and reconcile demand.
Live(s, o, now) ==
  /\ s \in ActiveSessions
  /\ sessions[s].owner = o
  /\ Held(s, now)

Leased(o, now, ttl) == [owner |-> o, status |-> "active", expires |-> now + ttl]

\* The tail of acquire_backend_session: `closing` are the events of the lease
\* it ends, `table` the session rows after ending it.
Grant(s, o, now, ttl, closing, table) ==
  LET batch == closing \o <<SessionEvent(s, "acquired")>>
  IN  /\ Journal(batch)
      /\ executions' = ExecutionsAfter(batch)
      /\ sessions' = Upsert(table, s, Leased(o, now, ttl))
      /\ UNCHANGED <<specs, commands, clock>>

\* Mutation: a takeover journals no backend_session.expired.
AcquireUnjournaledExpiry(s, o, now, ttl) ==
  /\ s \notin DOMAIN sessions
  /\ \/ ActiveSessions = {} /\ Grant(s, o, now, ttl, <<>>, sessions)
     \/ \E t \in ActiveSessions :
          /\ ~Held(t, now)
          /\ Grant(s, o, now, ttl, <<>>, [sessions EXCEPT ![t].status = "expired"])

\* acquire_backend_session: a held lease conflicts; a stale one is expired in
\* the transaction that grants the new one; a used session id is refused.
AcquireBackendSession(s, o, now, ttl) ==
  /\ s \notin DOMAIN sessions
  /\ \/ ActiveSessions = {} /\ Grant(s, o, now, ttl, <<>>, sessions)
     \/ \E t \in ActiveSessions :
          /\ ~Held(t, now)
          /\ Grant(s, o, now, ttl, <<SessionEvent(t, "expired")>>,
                   [sessions EXCEPT ![t].status = "expired"])

\* A session event on its own: renewal and release.
UpdateSession(s, status, row) ==
  LET batch == <<SessionEvent(s, status)>>
  IN  /\ Journal(batch)
      /\ executions' = ExecutionsAfter(batch)
      /\ sessions' = [sessions EXCEPT ![s] = row]
      /\ UNCHANGED <<specs, commands, clock>>

RenewBackendSession(s, o, now, ttl) ==
  /\ Live(s, o, now)
  /\ UpdateSession(s, "renewed", Leased(o, now, ttl))

ReleaseBackendSession(s, o, now) ==
  /\ Live(s, o, now)
  /\ UpdateSession(s, "released", [sessions[s] EXCEPT !.status = "released"])

-----------------------------------------------------------------------------
(* Execution waves and process attempts.                                    *)

Unfinished == {"pending", "running"}

\* begin_execution.  The kind has to be "initial" for ordinal 1 and
\* "continue" for the others, so the ordinal stands for it.
BeginExecution(e, s) ==
  LET ordinal == Cardinality(DOMAIN executions) + 1
      batch == <<[NewEvent("execution", "pending") EXCEPT !.exec = e, !.session = s, !.ord = ordinal]>>
  IN  /\ e \notin DOMAIN executions
      /\ Journal(batch)
      /\ executions' = Upsert(ExecutionsAfter(batch), e,
                         [ordinal |-> ordinal, session |-> s, status |-> "pending",
                          first |-> SequenceOf(1), last |-> SequenceOf(1)])
      /\ UNCHANGED <<specs, sessions, commands, clock>>

NextStatuses(status) ==
  CASE status = "pending" -> {"running", "cancelled", "interrupted"}
    [] status = "running" -> ExecutionFinal
    [] OTHER -> {}

TransitionExecution(e, status) ==
  LET batch == <<[NewEvent("execution", status) EXCEPT !.exec = e]>>
  IN  /\ e \in DOMAIN executions
      /\ status \in NextStatuses(executions[e].status)
      /\ Journal(batch)
      /\ executions' = [ExecutionsAfter(batch) EXCEPT ![e].status = status]
      /\ UNCHANGED <<specs, sessions, commands, clock>>

\* declare_process: the first declaration journals process.created, an equal
\* one is a no-op, a different one raises.
DeclareProcess(p, spec) ==
  LET batch == <<[NewEvent("process", "pending") EXCEPT !.proc = p]>>
  IN  /\ specs[p] = None
      /\ specs' = [specs EXCEPT ![p] = spec]
      /\ Journal(batch)
      /\ executions' = ExecutionsAfter(batch)
      /\ UNCHANGED <<sessions, commands, clock>>

\* write_process_specs: an upsert of any number of specs that journals nothing.
WriteProcessSpecs(written) ==
  /\ specs' = [p \in Process |-> IF p \in DOMAIN written THEN written[p] ELSE specs[p]]
  /\ UNCHANGED <<events, executions, attempts, sessions, commands, clock>>

Ordinals(p) == {n \in 1..MaxEvents : <<p, n>> \in DOMAIN attempts}

\* Mutation: the first ordinal is 0.
NextOrdinalFromZero(p) == Max(Ordinals(p) \cup {-1}) + 1

\* Mutation: ordinals count the attempts of every process.
NextOrdinalAcrossProcesses(p) == Cardinality(DOMAIN attempts) + 1

\* SELECT COALESCE(MAX(ordinal), 0) + 1 of one process.
NextOrdinal(p) == Max(Ordinals(p) \cup {0}) + 1

StartAttempt(p, e, s) ==
  LET a == <<p, NextOrdinal(p)>>
      batch == <<AttemptEvent(a, e, s, "pending"), AttemptEvent(a, e, s, "running")>>
  IN  /\ Journal(batch)
      /\ executions' = ExecutionsAfter(batch)
      /\ UNCHANGED <<specs, sessions, commands, clock>>

\* Mutation: the status of the execution is not tested.
BeginAttemptInAnyExecution(p, e, s) ==
  /\ specs[p] # None
  /\ e \in DOMAIN executions
  /\ executions[e].session \in {None, s}
  /\ StartAttempt(p, e, s)

\* begin_process_attempt: the execution must be known, unfinished and not
\* owned by another session.  Whether the lease of s is live is not asked.
BeginProcessAttempt(p, e, s) ==
  /\ specs[p] # None
  /\ e \in DOMAIN executions
  /\ executions[e].status \in Unfinished
  /\ executions[e].session \in {None, s}
  /\ StartAttempt(p, e, s)

RecordOutcome(a, outcome) ==
  LET batch == <<AttemptEvent(a, attempts[a].exec, attempts[a].session, outcome)>>
  IN  /\ Journal(batch)
      /\ executions' = ExecutionsAfter(batch)
      /\ UNCHANGED <<specs, sessions, commands, clock>>

\* Mutation: a second outcome overwrites the first.
FinishAnyAttempt(a, outcome) ==
  /\ a \in DOMAIN attempts
  /\ RecordOutcome(a, outcome)

\* finish_process_attempt: terminal attempts reject a second outcome.
FinishProcessAttempt(a, outcome) ==
  /\ a \in DOMAIN attempts
  /\ attempts[a].status \in Unfinished
  /\ RecordOutcome(a, outcome)

\* append of an event that is no lifecycle event: progress, a checkpoint, the
\* skip a reporter records.  The execution id is the caller's and unchecked.
AppendObservation(e) ==
  LET batch == <<[NewEvent("progress", "running") EXCEPT !.exec = e]>>
  IN  /\ Journal(batch)
      /\ executions' = ExecutionsAfter(batch)
      /\ UNCHANGED <<specs, sessions, commands, clock>>

-----------------------------------------------------------------------------
(* Reconciliation of the work of lost sessions.                             *)

\* Unfinished executions that the reconciling session s does not own.
StaleExecutions(s) ==
  {e \in DOMAIN executions : executions[e].status \in Unfinished /\ executions[e].session # s}

\* Mutation: attempts of stale executions are not looked for.
StaleAttemptsByOwnSession(s) ==
  {a \in DOMAIN attempts :
     attempts[a].status \in Unfinished /\ attempts[a].session \notin {None, s}}

StaleAttempts(s) ==
  {a \in DOMAIN attempts :
     /\ attempts[a].status \in Unfinished
     /\ \/ attempts[a].exec \in StaleExecutions(s)
        \/ attempts[a].session \notin {None, s}}

\* ORDER BY process_id, ordinal.
AttemptOrder(s) ==
  {f \in Surjection(1..Cardinality(StaleAttempts(s)), StaleAttempts(s)) :
     \A i, j \in DOMAIN f : i < j =>
       f[i][1] < f[j][1] \/ (f[i][1] = f[j][1] /\ f[i][2] < f[j][2])}

\* ORDER BY ordinal.
ExecutionOrder(s) ==
  {f \in Surjection(1..Cardinality(StaleExecutions(s)), StaleExecutions(s)) :
     \A i, j \in DOMAIN f : i < j => executions[f[i]].ordinal < executions[f[j]].ordinal}

InterruptedAttempt(a, s) ==
  [AttemptEvent(a, attempts[a].exec, attempts[a].session, "interrupted") EXCEPT !.by = s]

InterruptedExecution(e, s) ==
  [NewEvent("execution", "interrupted") EXCEPT !.exec = e, !.by = s]

\* The events one reconciliation appends, given the two row orders.
Interruptions(s, as, es) ==
  [i \in DOMAIN as |-> InterruptedAttempt(as[i], s)]
    \o [i \in DOMAIN es |-> InterruptedExecution(es[i], s)]

\* Mutation: the execution rows are left as they are.
ReconcileWithoutExecutionRows(s, o, now) ==
  /\ Live(s, o, now)
  /\ \E as \in AttemptOrder(s), es \in ExecutionOrder(s) :
       /\ Journal(Interruptions(s, as, es))
       /\ executions' = ExecutionsAfter(Interruptions(s, as, es))
  /\ UNCHANGED <<specs, sessions, commands, clock>>

\* Mutation: any known session may reconcile.
ReconcileWithoutLease(s, o, now) ==
  /\ s \in DOMAIN sessions
  /\ \E as \in AttemptOrder(s), es \in ExecutionOrder(s) :
       LET batch == Interruptions(s, as, es)
           touched == ExecutionsAfter(batch)
       IN  /\ Journal(batch)
           /\ executions' = [e \in DOMAIN executions |->
                IF e \in StaleExecutions(s) THEN [touched[e] EXCEPT !.status = "interrupted"]
                ELSE touched[e]]
  /\ UNCHANGED <<specs, sessions, commands, clock>>

\* reconcile_interrupted_work: the live session s interrupts, in one
\* transaction, every stale attempt and then every stale execution.
ReconcileInterruptedWork(s, o, now) ==
  /\ Live(s, o, now)
  /\ \E as \in AttemptOrder(s), es \in ExecutionOrder(s) :
       LET batch == Interruptions(s, as, es)
           touched == ExecutionsAfter(batch)
       IN  /\ Journal(batch)
           /\ executions' = [e \in DOMAIN executions |->
                IF e \in StaleExecutions(s) THEN [touched[e] EXCEPT !.status = "interrupted"]
                ELSE touched[e]]
  /\ UNCHANGED <<specs, sessions, commands, clock>>

-----------------------------------------------------------------------------
(* Durable commands: idempotency receipts.                                  *)

\* Mutation: a finished command id is accepted anew.
AcceptAgain(c, e) ==
  LET batch == <<CommandEvent(c, e, "accepted")>>
      row == [exec |-> e, status |-> "accepted", first |-> SequenceOf(1), last |-> SequenceOf(1)]
  IN  /\ c \in DOMAIN commands => commands[c].status # "accepted"
      /\ Journal(batch)
      /\ executions' = ExecutionsAfter(batch)
      /\ commands' = Upsert(commands, c, row)
      /\ UNCHANGED <<specs, sessions, clock>>

\* reserve_command of an unused id.  With a used id the call returns the
\* receipt or raises a conflict, by request fingerprint, and writes nothing
\* either way, so the request itself is not kept.
ReserveCommand(c, e) ==
  LET batch == <<CommandEvent(c, e, "accepted")>>
      row == [exec |-> e, status |-> "accepted", first |-> SequenceOf(1), last |-> SequenceOf(1)]
  IN  /\ c \notin DOMAIN commands
      /\ Journal(batch)
      /\ executions' = ExecutionsAfter(batch)
      /\ commands' = Upsert(commands, c, row)
      /\ UNCHANGED <<specs, sessions, clock>>

\* Mutation: the receipt keeps its first sequence.
FinishCommandWithoutSequence(c, status) ==
  LET batch == <<CommandEvent(c, commands[c].exec, status)>>
  IN  /\ c \in DOMAIN commands
      /\ commands[c].status = "accepted"
      /\ Journal(batch)
      /\ executions' = ExecutionsAfter(batch)
      /\ commands' = [commands EXCEPT ![c].status = status]
      /\ UNCHANGED <<specs, sessions, clock>>

\* finish_command of an accepted command; a finished one is returned or
\* refused without a write.
FinishCommand(c, status) ==
  LET batch == <<CommandEvent(c, commands[c].exec, status)>>
  IN  /\ c \in DOMAIN commands
      /\ commands[c].status = "accepted"
      /\ Journal(batch)
      /\ executions' = ExecutionsAfter(batch)
      /\ commands' = [commands EXCEPT ![c].status = status, ![c].last = SequenceOf(1)]
      /\ UNCHANGED <<specs, sessions, clock>>

-----------------------------------------------------------------------------

Empty == [x \in {} |-> x]

\* create: an initialized lineage with an identity and no rows.
Init ==
  /\ events = <<>>
  /\ specs = [p \in Process |-> None]
  /\ executions = Empty /\ attempts = Empty
  /\ sessions = Empty /\ commands = Empty
  /\ clock = 0

Tick ==
  /\ clock < MaxTime
  /\ clock' = clock + 1
  /\ UNCHANGED <<events, specs, executions, attempts, sessions, commands>>

SessionCall ==
  \E s \in SessionId, o \in Owner, now \in Now :
    \/ \E ttl \in Ttl : AcquireBackendSession(s, o, now, ttl)
    \/ \E ttl \in Ttl : RenewBackendSession(s, o, now, ttl)
    \/ ReleaseBackendSession(s, o, now)
    \/ ReconcileInterruptedWork(s, o, now)

ExecutionCall ==
  \E e \in Execution :
    \/ \E s \in SessionId \cup {None} : BeginExecution(e, s)
    \/ \E status \in {"running"} \cup WaveOutcome : TransitionExecution(e, status)
    \/ AppendObservation(e)

AttemptCall ==
  \/ \E p \in Process, e \in Execution, s \in SessionId \cup {None} : BeginProcessAttempt(p, e, s)
  \/ \E a \in DOMAIN attempts, outcome \in AttemptOutcome : FinishProcessAttempt(a, outcome)

DeclarationCall ==
  \/ \E p \in Process, spec \in SpecVersion : DeclareProcess(p, spec)
  \/ \E some \in SUBSET Process : \E written \in [some -> SpecVersion] : WriteProcessSpecs(written)

CommandCall ==
  \E c \in Command :
    \/ \E e \in Execution \cup {None} : ReserveCommand(c, e)
    \/ \E status \in CommandFinal : FinishCommand(c, status)

Next == Tick \/ SessionCall \/ ExecutionCall \/ AttemptCall \/ DeclarationCall \/ CommandCall

Spec == Init /\ [][Next]_vars

-----------------------------------------------------------------------------
(* What rebuild_ledger and rebuild_commands compute from the journal alone. *)

\* The first and the last event of a non-empty set of positions, as sequences.
FirstOf(positions) == Min(positions) - 1
LastOf(positions) == Max(positions) - 1

\* Positions of a journal with execution.created of e.
Created(journal, e) ==
  {i \in DOMAIN journal :
     journal[i].kind = "execution" /\ journal[i].status = "pending" /\ journal[i].exec = e}

\* RuntimeExecutionLedgerReducer raises on a duplicate execution.created and
\* on an event naming an execution that no earlier event created.
Reducible(journal) ==
  /\ \A e \in Execution : Cardinality(Created(journal, e)) <= 1
  /\ \A i \in DOMAIN journal :
       journal[i].exec # None => \E j \in 1..i : j \in Created(journal, journal[i].exec)

RebuiltExecutions(journal) ==
  [e \in {x \in Execution : Created(journal, x) # {}} |->
     LET declared == journal[Min(Created(journal, e))]
         moves == {i \in DOMAIN journal : journal[i].kind = "execution" /\ journal[i].exec = e}
     IN  [ordinal |-> declared.ord, session |-> declared.session,
          status |-> journal[Max(moves)].status,
          first |-> FirstOf(Created(journal, e)),
          last |-> LastOf({i \in DOMAIN journal : journal[i].exec = e})]]

\* Mutation: later events do not move last_event_sequence.
RebuiltAttemptsKeepingFirst(journal) ==
  [a \in {AttemptOf(journal[i]) : i \in {j \in DOMAIN journal : journal[j].kind = "attempt"}} |->
     LET mine == Concerning(journal, a)
     IN  [exec |-> journal[Min(mine)].exec, session |-> journal[Min(mine)].session,
          status |-> journal[Max(mine)].status, first |-> FirstOf(mine), last |-> FirstOf(mine)]]

\* _apply_attempt_event: the first event of an attempt makes it, every one
\* moves its status.
RebuiltAttempts(journal) ==
  [a \in {AttemptOf(journal[i]) : i \in {j \in DOMAIN journal : journal[j].kind = "attempt"}} |->
     LET mine == Concerning(journal, a)
     IN  [exec |-> journal[Min(mine)].exec, session |-> journal[Min(mine)].session,
          status |-> journal[Max(mine)].status, first |-> FirstOf(mine), last |-> LastOf(mine)]]

CommandEvents(journal, c) ==
  {i \in DOMAIN journal : journal[i].kind = "command" /\ journal[i].command = c}

RebuiltCommands(journal) ==
  [c \in {x \in Command : CommandEvents(journal, x) # {}} |->
     LET mine == CommandEvents(journal, c)
     IN  [exec |-> journal[Min(mine)].exec, status |-> journal[Max(mine)].status,
          first |-> FirstOf(mine), last |-> LastOf(mine)]]

-----------------------------------------------------------------------------
(* Properties.                                                              *)

ExecutionRow == [ordinal: Nat \ {0}, session: SessionId \cup {None}, status: ExecutionStatus,
                 first: Nat, last: Nat]
AttemptRow == [exec: Execution, session: SessionId \cup {None}, status: AttemptStatus,
               first: Nat, last: Nat]
SessionRow == [owner: Owner, status: SessionStatus, expires: Nat]
CommandRow == [exec: Execution \cup {None}, status: {"accepted"} \cup CommandFinal,
               first: Nat, last: Nat]

\* Every row and event is one the Python models can hold; attempt ordinals
\* start at 1 (RuntimeProcessAttempt, RuntimeExecutionRecord validators).
TypeOK ==
  /\ events \in Seq(Event)
  /\ specs \in [Process -> SpecVersion \cup {None}]
  /\ DOMAIN executions \subseteq Execution
  /\ \A e \in DOMAIN executions : executions[e] \in ExecutionRow
  /\ DOMAIN attempts \subseteq Process \X (Nat \ {0})
  /\ \A a \in DOMAIN attempts : attempts[a] \in AttemptRow
  /\ DOMAIN sessions \subseteq SessionId
  /\ \A s \in DOMAIN sessions : sessions[s] \in SessionRow
  /\ DOMAIN commands \subseteq Command
  /\ \A c \in DOMAIN commands : commands[c] \in CommandRow
  /\ clock \in Nat

\* "Ledger and projection can be deleted and rebuilt identically from events":
\* whatever calls were interleaved, rebuild_ledger reproduces the execution
\* rows, last_event_sequence included.  (The reducer refuses a journal that
\* names an execution nobody began.)
ExecutionsMatchJournal == Reducible(events) => executions = RebuiltExecutions(events)

\* The same for the attempt rows: owner, wave, status and event bounds.
AttemptsMatchJournal == Reducible(events) => attempts = RebuiltAttempts(events)

\* rebuild_commands reproduces the receipts, whatever else is in the journal.
CommandsMatchJournal == commands = RebuiltCommands(events)

SessionEvents == {i \in DOMAIN events : events[i].kind = "session"}

\* The lease history can be read off the journal: ownership passes only over
\* a released or expired event, renewals come from the holder, and the active
\* row, at most one, is the session the journal names last.
JournalNamesTheOwner ==
  /\ \A i \in SessionEvents :
       LET before == {j \in SessionEvents : j < i}
           previous == events[Max(before)]
       IN  IF events[i].status = "acquired"
           THEN before # {} => previous.status \in {"released", "expired"}
           ELSE /\ before # {}
                /\ previous.status \in {"acquired", "renewed"}
                /\ previous.session = events[i].session
  /\ ActiveSessions =
       {s \in SessionId : \E i \in SessionEvents :
          /\ i = Max(SessionEvents)
          /\ events[i].session = s
          /\ events[i].status \in {"acquired", "renewed"}}

\* Waves and the attempts of one process are numbered without gaps or
\* repetition in the order in which the journal first names them.
OrdinalsFollowJournal ==
  /\ {executions[e].ordinal : e \in DOMAIN executions} = 1..Cardinality(DOMAIN executions)
  /\ \A e, f \in DOMAIN executions :
       executions[e].ordinal < executions[f].ordinal <=> executions[e].first < executions[f].first
  /\ \A p \in Process : Ordinals(p) = 1..Cardinality(Ordinals(p))
  /\ \A a, b \in DOMAIN attempts :
       a[1] = b[1] => (a[2] < b[2] <=> attempts[a].first < attempts[b].first)

\* Once a reconciliation has interrupted a wave, nothing runs in it: its late
\* owner can neither leave it running nor start another attempt under it.
ReconciledWorkIsQuiet ==
  \A i \in DOMAIN events :
    events[i].kind = "execution" /\ events[i].by # None =>
      /\ executions[events[i].exec].status = "interrupted"
      /\ \A a \in DOMAIN attempts :
           attempts[a].exec = events[i].exec => attempts[a].status \in AttemptFinal

\* "Continue never changes completed attempt history": a finished attempt,
\* wave or command is never reopened, rewritten or removed (a wave's
\* last_event_sequence may still advance with late observations).
HistoryIsFinal ==
  [][/\ \A a \in DOMAIN attempts : attempts[a].status \in AttemptFinal =>
          a \in DOMAIN attempts' /\ attempts'[a] = attempts[a]
     /\ \A e \in DOMAIN executions : executions[e].status \in ExecutionFinal =>
          e \in DOMAIN executions' /\ executions'[e].status = executions[e].status
     /\ \A c \in DOMAIN commands : commands[c].status \in CommandFinal =>
          c \in DOMAIN commands' /\ commands'[c] = commands[c]]_vars

\* "An unexpired owner prevents takeover": a lease ends as expired only when
\* the clock has passed its expiry, however stale the reading of the taker.
LeaseNotStolen ==
  [][\A s \in ActiveSessions :
       sessions'[s].status = "expired" => sessions[s].expires <= clock]_vars

\* Interruptions written by reconciliations in this step.
NewInterruptions == {i \in Len(events) + 1 .. Len(events') : events'[i].by # None}

\* Reconciliation never interrupts a wave owned by the session that holds the
\* lease, nor an attempt such a session runs in an owned wave.
OnlyLostWorkInterrupted ==
  [][\A i \in NewInterruptions :
       LET ev == events'[i]
       IN  IF ev.kind = "execution"
           THEN executions[ev.exec].session \notin ActiveSessions
           ELSE executions[ev.exec].session # None => ev.session \notin ActiveSessions]_vars

\* "Reconciliation is idempotent": after one that wrote anything, the same
\* session finds no stale execution or attempt.
ReconciliationIsIdempotent ==
  [][\A s \in SessionId :
       (\E i \in NewInterruptions : events'[i].by = s) =>
         StaleExecutions(s)' = {} /\ StaleAttempts(s)' = {}]_vars

=============================================================================
