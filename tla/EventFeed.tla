----------------------------- MODULE EventFeed -----------------------------
(***************************************************************************)
(* How what a job writes into its managers gets to a reader of its events. *)
(* Passes over the managers append the changes to an event list that is    *)
(* also a JSONL file, and a reader follows the list from the id it got     *)
(* last.  There are two such feeds.  In the one of a job back end an       *)
(* EventBuffer numbers the events, a mirror thread and the reader itself   *)
(* make the passes, and the back end may die and load the file again.  In  *)
(* the one of RuntimeExecutor a RuntimeEventJsonlStore takes events with   *)
(* the ids their authors give them: the manager bridge, in the calls of    *)
(* the executor, and the contexts of the processes.                        *)
(***************************************************************************)
EXTENDS Integers, Sequences, FiniteSetsExt

CONSTANTS
  Feeds,       \* "buffer" and "store": the feeds looked at
  MaxRecords,  \* bound: records of a run
  MaxChanges,  \* bound: changes of its value
  MaxRuns      \* bound: starts of the back end, calls of the executor

ASSUME FeedsAssumption == Feeds \subseteq {"buffer", "store"}

VARIABLES
  sink,     \* the feed of this behaviour
  job,      \* "running" or "ended"; of the executor, the step of run_process
  run,      \* the start of the back end, or the call of the executor
  records,  \* how many records the log manager has; streams and telemetry are alike
  value,    \* the version of a signal; the progress of a task is alike
  offsets,  \* what was mirrored last
  passes,   \* the pass an actor makes, with its local variables
  feed,     \* the events
  nextId,   \* of the buffer, or of the context of the running process
  written,  \* how many records there were when the last event of the job was emitted
  reader    \* where the reader is, and what it has been given

vars == <<sink, job, run, records, value, offsets, passes, feed, nextId, written, reader>>

Actors == {"mirror", "reader", "executor"}
NewOffsets == [records |-> 0, value |-> 0]
NoPass == [at |-> "none"]
InPass(a) == passes[a] # NoPass

\* What a reader that has no id yet passes as since: None, and all is listed.
NoId == -1

\* Events are delivered as their places in the feed.  A batch is a set of
\* places; it is gone through in the order of the feed.
NewReader(via) ==
  [via |-> via, at |-> "wait", last |-> NoId, batch |-> {}, loaded |-> 0, got |-> <<>>]

Init ==
  /\ sink \in Feeds
  /\ job = IF sink = "buffer" THEN "running" ELSE "idle"
  /\ run = 1 /\ records = 0 /\ value = 0
  /\ offsets = NewOffsets
  /\ passes = [a \in Actors |-> NoPass]
  /\ feed = <<>> /\ nextId = 1 /\ written = 0
  /\ \E via \in IF sink = "buffer" THEN {"live"} ELSE {"store", "jsonl"} : reader = NewReader(via)

-----------------------------------------------------------------------------
(* The two lists.                                                           *)

\* Mutation: loading the file does not count the ids in it.
NextAfterNone(first, events) == first

\* One more than the greatest id: load_from_file and the bridge, for which the
\* first id is 1, and _context_for, for which it is 0.
NextAfter(first, events) == Max({first} \cup {events[i].id + 1 : i \in DOMAIN events})

Event(id, kind, n) == [id |-> id, kind |-> kind, run |-> run, n |-> n]

\* EventBuffer.emit: number, list and file under one lock.
EmitNumbered(kind, n) ==
  feed' = Append(feed, Event(nextId, kind, n)) /\ nextId' = nextId + 1

\* RuntimeManagerEventBridge._append.
AppendBridged(kind, n) ==
  feed' = Append(feed, Event(NextAfter(1, feed), kind, n)) /\ UNCHANGED nextId

Emit(kind, n) == IF sink = "buffer" THEN EmitNumbered(kind, n) ELSE AppendBridged(kind, n)

\* list(since): by id.
Since(id, upTo) == {i \in 1..upTo : feed[i].id > id}

-----------------------------------------------------------------------------
(* A pass: mirror_runtime_events, and sync of the manager bridge.  The      *)
(* offsets are shared and not locked.                                       *)

Goto(a, pass) == passes' = [passes EXCEPT ![a] = pass]

StartPass(a) == Goto(a, [at |-> "value", value |-> value])

MirrorValue(a) ==
  /\ passes[a].at = "value"
  /\ Goto(a, [passes[a] EXCEPT !.at = "records"])
  /\ IF offsets.value = passes[a].value THEN UNCHANGED <<feed, nextId>>
     ELSE Emit("value", passes[a].value)
  /\ UNCHANGED <<sink, job, run, records, value, offsets, written, reader>>

\* The records are copied and those behind the offset are taken.
CopyRecords(a) ==
  /\ passes[a].at = "records"
  /\ offsets' = [offsets EXCEPT !.value = passes[a].value]
  /\ Goto(a, [at |-> "emit", upTo |-> records, next |-> offsets.records + 1])
  /\ UNCHANGED <<sink, job, run, records, value, feed, nextId, written, reader>>

EmitRecord(a) ==
  /\ passes[a].at = "emit" /\ passes[a].next <= passes[a].upTo
  /\ Emit("log", passes[a].next)
  /\ Goto(a, [passes[a] EXCEPT !.next = @ + 1])
  /\ UNCHANGED <<sink, job, run, records, value, offsets, written, reader>>

\* Mutation: the offset is the number of records there are by now.
NotedAnew(upTo) == records

Noted(upTo) == upTo

EndPass(a) ==
  /\ passes[a].at = "emit" /\ passes[a].next > passes[a].upTo
  /\ offsets' = [offsets EXCEPT !.records = Noted(passes[a].upTo)]
  /\ Goto(a, NoPass)
  /\ UNCHANGED <<sink, job, run, records, value, feed, nextId, written, reader>>

Pass(a) ==
  MirrorValue(a) \/ CopyRecords(a) \/ EmitRecord(a) \/ EndPass(a)

\* The mirror thread of a back end, while its job runs.
MirrorAgain ==
  /\ sink = "buffer" /\ job = "running" /\ ~InPass("mirror")
  /\ StartPass("mirror")
  /\ UNCHANGED <<sink, job, run, records, value, offsets, feed, nextId, written, reader>>

-----------------------------------------------------------------------------
(* The job.                                                                 *)

\* It writes while it runs; under the executor its threads may any time.
WriteRecord ==
  /\ job # "ended" /\ records < MaxRecords
  /\ records' = records + 1
  /\ UNCHANGED <<sink, job, run, value, offsets, passes, feed, nextId, written, reader>>

WriteValue ==
  /\ job # "ended" /\ value < MaxChanges
  /\ value' = value + 1
  /\ UNCHANGED <<sink, job, run, records, offsets, passes, feed, nextId, written, reader>>

\* A back end emits the terminal job_state.
EndJob ==
  /\ sink = "buffer" /\ job = "running"
  /\ EmitNumbered("terminal", 0)
  /\ job' = "ended" /\ written' = records
  /\ UNCHANGED <<sink, run, records, value, offsets, passes, reader>>

\* The back end dies and starts again: what was in memory is lost, the events
\* come back from the file, and the reader connects again where it was.
Restart ==
  /\ sink = "buffer" /\ job = "running" /\ run < MaxRuns
  /\ run' = run + 1
  /\ records' = 0 /\ value' = 0 /\ offsets' = NewOffsets
  /\ passes' = [a \in Actors |-> NoPass]
  /\ nextId' = NextAfter(1, feed)
  /\ reader' = [reader EXCEPT !.at = "wait", !.batch = {}]
  /\ UNCHANGED <<sink, job, feed, written>>

\* run_process: the context takes its first id, the managers are synced, the
\* process emits with ids the context counts, and the managers are synced again.
RunProcess ==
  /\ sink = "store" /\ job = "idle"
  /\ job' = "begun"
  /\ nextId' = NextAfter(0, feed)
  /\ StartPass("executor")
  /\ UNCHANGED <<sink, run, records, value, offsets, feed, written, reader>>

EmitStatus ==
  /\ sink = "store" /\ job = "begun" /\ ~InPass("executor")
  /\ job' = "started"
  /\ EmitNumbered("status", 0)
  /\ UNCHANGED <<sink, run, records, value, offsets, passes, written, reader>>

FinishProcess ==
  /\ sink = "store" /\ job = "started"
  /\ job' = "finished"
  /\ EmitNumbered("terminal", 0)
  /\ written' = records
  /\ StartPass("executor")
  /\ UNCHANGED <<sink, run, records, value, offsets, reader>>

RunReturns ==
  /\ sink = "store" /\ job = "finished" /\ ~InPass("executor")
  /\ job' = IF run < MaxRuns THEN "idle" ELSE "ended"
  /\ run' = IF run < MaxRuns THEN run + 1 ELSE run
  /\ UNCHANGED <<sink, records, value, offsets, passes, feed, nextId, written, reader>>

-----------------------------------------------------------------------------
(* The reader: stream_runtime_events, stream_runtime_event_store and        *)
(* stream_runtime_event_jsonl.                                              *)

Read(at, batch) == reader' = [reader EXCEPT !.at = at, !.batch = batch, !.loaded = Len(feed)]

\* wait_runtime_events mirrors before it lists.
ReaderMirrors ==
  /\ reader.via = "live" /\ reader.at \in {"wait", "terminal"}
  /\ reader' = [reader EXCEPT !.at = IF @ = "wait" THEN "list" ELSE "trailing"]
  /\ StartPass("reader")
  /\ UNCHANGED <<sink, job, run, records, value, offsets, feed, nextId, written>>

ReaderLists ==
  /\ reader.at = (IF reader.via = "live" THEN "list" ELSE "wait") /\ ~InPass("reader")
  /\ LET batch == Since(reader.last, Len(feed))
     IN  Read(IF batch = {} THEN "wait" ELSE "yield", batch)
  /\ UNCHANGED <<sink, job, run, records, value, offsets, passes, feed, nextId, written>>

\* What is listed after a terminal event: the file as it was loaded, or as it is.
Trailing == Since(reader.last, IF reader.via = "jsonl" THEN reader.loaded ELSE Len(feed))

ReaderYields ==
  /\ reader.at \in {"yield", "last"} /\ reader.batch # {}
  /\ LET i == Min(reader.batch)
     IN  reader' = [reader EXCEPT !.last = feed[i].id, !.got = Append(@, i),
                                  !.batch = @ \ {i},
                                  !.at = IF @ = "yield" /\ feed[i].kind = "terminal"
                                         THEN "terminal" ELSE @]
  /\ UNCHANGED <<sink, job, run, records, value, offsets, passes, feed, nextId, written>>

ReaderGoesOn ==
  /\ reader.batch = {} /\ reader.at \in {"yield", "last"}
  /\ reader' = [reader EXCEPT !.at = IF @ = "yield" THEN "wait" ELSE "ended"]
  /\ UNCHANGED <<sink, job, run, records, value, offsets, passes, feed, nextId, written>>

\* Mutation: no pass after the terminal event.
TerminalAtOnce(at) == at \in {"terminal", "trailing"}

Drained(at) == at = IF reader.via = "live" THEN "trailing" ELSE "terminal"

ReaderTrails ==
  /\ Drained(reader.at) /\ ~InPass("reader")
  /\ Read("last", Trailing)
  /\ UNCHANGED <<sink, job, run, records, value, offsets, passes, feed, nextId, written>>

\* A client that lost its connection asks again for what is behind its last event.
Reconnect ==
  /\ reader.at \in {"yield", "last"}
  /\ reader' = [reader EXCEPT !.at = "wait", !.batch = {}]
  /\ UNCHANGED <<sink, job, run, records, value, offsets, passes, feed, nextId, written>>

Next ==
  \/ \E a \in Actors : Pass(a)
  \/ MirrorAgain \/ WriteRecord \/ WriteValue \/ EndJob \/ Restart
  \/ RunProcess \/ EmitStatus \/ FinishProcess \/ RunReturns
  \/ ReaderMirrors \/ ReaderLists \/ ReaderYields \/ ReaderGoesOn \/ ReaderTrails \/ Reconnect

Spec == Init /\ [][Next]_vars

-----------------------------------------------------------------------------
(* Properties                                                               *)

\* Through passes of two threads, reconnections and restarts of the back end,
\* the reader of a buffer is given the events of the file, each once, in order.
ReaderSeesFeed ==
  sink = "buffer" => reader.got = [i \in 1..Len(reader.got) |-> i]

\* A reader of a buffer that has got to the end has what the job had written.
ReaderGotAll ==
  reader.via = "live" /\ reader.at = "ended" =>
    \A n \in 1..written : \E i \in DOMAIN reader.got :
      LET e == feed[reader.got[i]] IN e.kind = "log" /\ e.run = run /\ e.n = n

Logged == {i \in DOMAIN feed : feed[i].kind = "log"}

\* "Append manager changes since the previous call": between two calls the
\* bridge has appended what was behind its offset, each record once, in order.
BridgedOnce ==
  sink = "store" /\ ~InPass("executor") =>
    /\ {feed[i].n : i \in Logged} = 1..offsets.records
    /\ \A i, j \in Logged : i < j => feed[i].n < feed[j].n
    /\ job = "ended" => offsets.records >= written

\* At the end of a job its feed holds all that it wrote.
CompleteAtTheEnd == ReaderGotAll /\ BridgedOnce
=============================================================================
