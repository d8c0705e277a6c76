----------------------------- MODULE Collectors -----------------------------
(***************************************************************************)
(* A manager of the driver (logs, streams, telemetry, progress or signals) *)
(* and the proxies it gives to workers.  A proxy puts what a worker        *)
(* writes into the queue of its channel, multiprocessing or Ray, and a     *)
(* consumer thread of the manager applies it.  The managers differ in what *)
(* a message does, in the channels they have and in how they close.        *)
(***************************************************************************)
EXTENDS Integers, Sequences, FiniteSetsExt

CONSTANTS
  Managers,   \* the managers looked at
  Workers,    \* processes that get a proxy
  MaxKept,    \* max_records, max_chunks and max_events
  MaxWrites   \* bound: writes of all writers

VARIABLES
  manager,   \* the manager of this behaviour
  kept,      \* the records it keeps: logs, streams, telemetry
  counts,    \* progress: the current of each task; signals: the version
  queue,     \* of each channel
  open,      \* the manager has a queue for the channel
  consumer,  \* of each channel: "none", "looping", "getting", "ended"
  link,      \* the channel of a worker's proxy, "none", or "detached"
  cache,     \* the counts a worker sees
  writes,    \* what each writer has written
  made,      \* the increments of the shared count by the driver and attached workers
  closing    \* how many steps of close are done

collectorsVars ==
  <<manager, kept, counts, queue, open, consumer, link, cache, writes, made, closing>>

Collecting == {"logs", "streams", "telemetry"}
Driver == "driver"
Writers == Workers \cup {Driver}

\* There are five managers.
ASSUME ManagersAssumption == Managers \subseteq Collecting \cup {"progress", "signals"}

\* The task all increment, or the signal all update, and a task of each worker.
Shared == "shared"
Tasks == Workers \cup {Shared}
Absent == -1

\* The driver and the shared task are told apart from the workers.
ASSUME WorkersAssumption == Driver \notin Workers /\ Shared \notin Workers

AllChannels == {"mp", "ray"}
Channels == IF manager = "signals" THEN {"ray"} ELSE AllChannels

Stop == [op |-> "stop"]
Message(op, w, task, n) == [op |-> op, from |-> w, task |-> task, n |-> n]

CollectorsInit ==
  /\ manager \in Managers
  /\ kept = <<>>
  /\ counts = [t \in Tasks |-> IF t = Shared /\ manager = "progress" THEN 0 ELSE Absent]
  /\ queue = [c \in AllChannels |-> <<>>]
  /\ open = [c \in AllChannels |-> FALSE]
  /\ consumer = [c \in AllChannels |-> "none"]
  /\ link = [w \in Workers |-> "none"]
  /\ cache = [w \in Workers |-> [t \in Tasks |-> Absent]]
  /\ writes = [w \in Writers |-> 0]
  /\ made = 0
  /\ closing = 0

-----------------------------------------------------------------------------
(* What a message does.                                                     *)

\* Mutation: at the limit the new record is dropped.
KeptOldest(records, m) == IF Len(records) < MaxKept THEN Append(records, m) ELSE records

\* _append_local: the oldest records make room.
Kept(records, m) ==
  LET all == Append(records, m)
  IN  IF Len(all) > MaxKept THEN Tail(all) ELSE all

\* A registration starts again from 0; nothing happens to a task nobody registered.
Registered(tasks, t) == [tasks EXCEPT ![t] = 0]
SetTo(tasks, t, n) == [tasks EXCEPT ![t] = IF @ = Absent THEN @ ELSE n]
Incremented(tasks, t, n) == [tasks EXCEPT ![t] = IF @ = Absent THEN @ ELSE @ + n]

Counted(tasks, m) ==
  CASE m.op = "register"  -> Registered(tasks, m.task)
    [] m.op = "set"       -> SetTo(tasks, m.task, m.n)
    [] m.op = "increment" -> Incremented(tasks, m.task, m.n)

\* update of a signal, and _apply_local of its proxy: an unknown one is made.
Versioned(signals, m) == [signals EXCEPT ![m.task] = IF @ = Absent THEN 1 ELSE @ + 1]

Updated(view, m) == IF m.op = "update" THEN Versioned(view, m) ELSE Counted(view, m)

Apply(m) ==
  IF m.op = "append" THEN kept' = Kept(kept, m) /\ UNCHANGED counts
  ELSE counts' = Updated(counts, m) /\ UNCHANGED kept

-----------------------------------------------------------------------------
(* Proxies and consumers.                                                   *)

\* Mutation: only the first channel gets a consumer.
ConnectFirst(c) ==
  IF open[c] THEN UNCHANGED <<open, consumer>>
  ELSE /\ open' = [open EXCEPT ![c] = TRUE]
       /\ consumer' = IF \A d \in AllChannels : consumer[d] = "none"
                      THEN [consumer EXCEPT ![c] = "looping"] ELSE consumer

\* The first proxy of a channel makes its queue and starts its consumer.
Connect(c) ==
  IF open[c] THEN UNCHANGED <<open, consumer>>
  ELSE /\ open' = [open EXCEPT ![c] = TRUE]
       /\ consumer' = [consumer EXCEPT ![c] = "looping"]

\* What becomes of a proxy that is pickled: that of multiprocessing loses its queue.
Pickled(c) == IF c = "mp" THEN "detached" ELSE c

\* get_mp_proxy or get_ray_proxy, and the way of the proxy to a worker: a
\* process that was forked has it as it is.
GetProxy(w, c) ==
  /\ closing = 0 /\ link[w] = "none" /\ c \in Channels
  /\ Connect(c)
  /\ \E to \in {c, Pickled(c)} : link' = [link EXCEPT ![w] = to]
  /\ cache' = [cache EXCEPT ![w] = counts]
  /\ UNCHANGED <<manager, kept, counts, queue, writes, made, closing>>

\* The consumer reads the field of its queue.  Once close has reset it that
\* raises, which is swallowed, and the loop goes on for ever.
Loop(c) ==
  /\ consumer[c] = "looping" /\ open[c]
  /\ consumer' = [consumer EXCEPT ![c] = "getting"]
  /\ UNCHANGED <<manager, kept, counts, queue, open, link, cache, writes, made, closing>>

\* Half a second without a message.
Timeout(c) ==
  /\ consumer[c] = "getting" /\ queue[c] = <<>>
  /\ consumer' = [consumer EXCEPT ![c] = "looping"]
  /\ UNCHANGED <<manager, kept, counts, queue, open, link, cache, writes, made, closing>>

Receive(c) ==
  /\ consumer[c] = "getting" /\ queue[c] # <<>>
  /\ queue' = [queue EXCEPT ![c] = Tail(@)]
  /\ IF Head(queue[c]) = Stop
     THEN consumer' = [consumer EXCEPT ![c] = "ended"] /\ UNCHANGED <<kept, counts>>
     ELSE consumer' = [consumer EXCEPT ![c] = "looping"] /\ Apply(Head(queue[c]))
  /\ UNCHANGED <<manager, open, link, cache, writes, made, closing>>

-----------------------------------------------------------------------------
(* Writers.                                                                 *)

MayWrite == MapThenSumSet(LAMBDA w : writes[w], Writers) < MaxWrites

\* Attached workers have a queue to put their messages into.
Attached == {w \in Workers : link[w] \in AllChannels}

Put(w, m) ==
  IF w \in Attached
  THEN queue' = [queue EXCEPT ![link[w]] = Append(@, m)] ELSE UNCHANGED queue

\* A write of a worker: first into its own view, then to the driver.
Send(w, m) ==
  /\ link[w] # "none" /\ MayWrite
  /\ writes' = [writes EXCEPT ![w] = @ + 1]
  /\ Put(w, m)
  /\ UNCHANGED <<manager, kept, counts, open, consumer, link, closing>>

SendRecord(w) ==
  /\ Send(w, Message("append", w, Shared, writes[w] + 1))
  /\ UNCHANGED <<cache, made>>

\* log, write_chunk with a text that is not empty, and emit, whoever calls it: a
\* metric, a checkpoint or a sampler.
Log(w) == manager = "logs" /\ SendRecord(w)
WriteChunk(w) == manager = "streams" /\ SendRecord(w)
EmitTelemetry(w) == manager = "telemetry" /\ SendRecord(w)

\* Mutation: the proxy sends the count it sees.
SentTotal(w, m) ==
  IF m.op = "increment" THEN Message("set", w, m.task, Counted(cache[w], m)[m.task]) ELSE m

Sent(w, m) == m

\* register_task and update_progress: of the worker's own task the first write
\* registers it, the others set it; the shared one is incremented.
SendProgress(w) ==
  /\ manager = "progress"
  /\ \E m \in {Message("increment", w, Shared, 1),
               IF cache[w][w] = Absent THEN Message("register", w, w, 0)
               ELSE Message("set", w, w, writes[w])} :
       /\ cache' = [cache EXCEPT ![w] = Counted(@, m)]
       /\ made' = IF w \in Attached /\ m.op = "increment" THEN made + 1 ELSE made
       /\ Send(w, Sent(w, m))

SendSignal(w) ==
  /\ manager = "signals"
  /\ LET m == Message("update", w, Shared, 1)
     IN  Send(w, m) /\ cache' = [cache EXCEPT ![w] = Versioned(@, m)]
  /\ made' = IF w \in Attached THEN made + 1 ELSE made

\* The driver writes into the manager itself.
WriteLocally ==
  /\ MayWrite
  /\ writes' = [writes EXCEPT ![Driver] = @ + 1]
  /\ Apply(CASE manager \in Collecting -> Message("append", Driver, Shared, writes'[Driver])
             [] manager = "progress"   -> Message("increment", Driver, Shared, 1)
             [] manager = "signals"    -> Message("update", Driver, Shared, 1))
  /\ made' = made + 1
  /\ UNCHANGED <<manager, queue, open, consumer, link, cache, closing>>

Clear ==
  /\ manager \in Collecting /\ kept # <<>>
  /\ kept' = <<>>
  /\ UNCHANGED <<manager, counts, queue, open, consumer, link, cache, writes, made, closing>>

-----------------------------------------------------------------------------
(* close.                                                                   *)

Step(do, c) == [do |-> do, channel |-> c]

\* Mutation: progress closes as the collectors do.
ProgressCloseEarly ==
  <<Step("stop", "mp"), Step("forget", "mp"), Step("stop", "ray"), Step("forget", "ray"),
    Step("join", "mp"), Step("join", "ray")>>

\* The fields of the queues are reset when the consumers have ended.
ProgressClose ==
  <<Step("stop", "mp"), Step("stop", "ray"), Step("join", "mp"), Step("join", "ray"),
    Step("forget", "mp"), Step("forget", "ray")>>

\* Each field is reset at once, whatever its consumer has still to read.
LogsClose ==
  <<Step("stop", "mp"), Step("forget", "mp"), Step("stop", "ray"), Step("forget", "ray"),
    Step("join", "mp"), Step("join", "ray")>>

\* The same in the source; telemetry stops its samplers first.
StreamsClose == LogsClose
TelemetryClose == LogsClose

SignalsClose == <<Step("stop", "ray"), Step("forget", "ray"), Step("join", "ray")>>

CloseSteps ==
  CASE manager = "logs"      -> LogsClose
    [] manager = "streams"   -> StreamsClose
    [] manager = "telemetry" -> TelemetryClose
    [] manager = "progress"  -> ProgressClose
    [] manager = "signals"   -> SignalsClose

\* A join of two seconds: it is enough for a consumer that ends, and over for
\* one that loops for ever.
Joined(c) ==
  \/ consumer[c] \in {"none", "ended"}
  \/ consumer[c] = "looping" /\ ~open[c]

Close ==
  /\ closing < Len(CloseSteps)
  /\ closing' = closing + 1
  /\ LET step == CloseSteps[closing']
         c == step.channel
     IN  /\ queue' = IF step.do = "stop" /\ open[c]
                     THEN [queue EXCEPT ![c] = Append(@, Stop)] ELSE queue
         /\ open' = IF step.do = "forget" THEN [open EXCEPT ![c] = FALSE] ELSE open
         /\ step.do = "join" => Joined(c)
  /\ UNCHANGED <<manager, kept, counts, consumer, link, cache, writes, made>>

Consume(c) == Loop(c) \/ Timeout(c) \/ Receive(c)

CollectorsNext ==
  \/ \E c \in AllChannels : Consume(c) \/ \E w \in Workers : GetProxy(w, c)
  \/ \E w \in Workers :
       Log(w) \/ WriteChunk(w) \/ EmitTelemetry(w) \/ SendProgress(w) \/ SendSignal(w)
  \/ WriteLocally \/ Clear \/ Close

\* The consumer threads run; nobody has to write, or to close.
CollectorsSpec ==
  /\ CollectorsInit /\ [][CollectorsNext]_collectorsVars
  /\ \A c \in AllChannels : WF_collectorsVars(Consume(c))

-----------------------------------------------------------------------------
(* Properties                                                               *)

\* The records of an attached worker, those the manager keeps and those in the
\* queue, are its last ones, in its order and each once.
RecordsInOrder ==
  manager \in Collecting =>
    \A w \in Attached :
      LET all == kept \o queue[link[w]]
          of == {i \in DOMAIN all : all[i] # Stop /\ all[i].from = w}
      IN  /\ \A i, j \in of : i < j => all[i].n < all[j].n
          /\ \A i \in of : /\ all[i].n <= writes[w]
                           /\ \A n \in all[i].n..writes[w] : \E j \in of : all[j].n = n

\* The counts when the messages of a queue have been applied to them.
Taken(tasks, m) == IF m = Stop THEN tasks ELSE Updated(tasks, m)

After(tasks, messages) ==
  LET after[i \in 0..Len(messages)] ==
        IF i = 0 THEN tasks ELSE Taken(after[i - 1], messages[i])
  IN  after[Len(messages)]

\* The counts of the manager when all that is in its queues has been applied.
Settled == After(After(counts, queue["mp"]), queue["ray"])

\* The shared count is what everyone attached has made of it; the task of a
\* worker is as the worker sees it.
CountsAddUp ==
  manager \notin Collecting =>
    /\ Settled[Shared] = IF manager = "signals" /\ made = 0 THEN Absent ELSE made
    /\ \A w \in Attached : Settled[w] = cache[w][w]

\* "writes update the local cache and send a message": between the views of two
\* workers, two channels and the driver, nothing an attached worker wrote is
\* lost, doubled or out of order, whoever wrote in between.
NothingLostInTransit == RecordsInOrder /\ CountsAddUp

\* Whatever is in a queue is applied, unless the manager is being closed; and a
\* close of the progress manager waits for all that was written before it.
EverythingArrives ==
  \A c \in AllChannels :
    queue[c] # <<>> ~> \/ queue[c] = <<>>
                       \/ closing > 0 /\ manager # "progress"
                       \/ consumer[c] = "ended"
=============================================================================
