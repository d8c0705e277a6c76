-------------------------- MODULE EventFeedProofs --------------------------
(***************************************************************************)
(* TLAPS proofs about EventFeed, for any number of records, changes and    *)
(* runs: a reader of a buffer is given the events of the file, each once   *)
(* and in order, through restarts and reconnections; and a feed holds in   *)
(* the end what its job had written, although the passes of two threads    *)
(* share their offsets and may emit a record twice.                        *)
(*                                                                         *)
(* The second part is about Collectors, where records come from: for any   *)
(* number of workers, what they write arrives in the managers of the       *)
(* driver once and in order, and counts add up.                            *)
(***************************************************************************)
EXTENDS EventFeed, Collectors, IntervalTheorems

-----------------------------------------------------------------------------
(* The inductive invariant.                                                 *)

Events == [id: Nat, kind: {"value", "log", "status", "terminal"}, run: Nat, n: Nat]

Passes ==
  {NoPass} \cup [at: {"value", "records"}, value: Nat] \cup [at: {"emit"}, upTo: Nat, next: Nat]

Readers ==
  [via: {"live", "store", "jsonl"},
   at: {"wait", "list", "yield", "terminal", "trailing", "last", "ended"},
   last: Nat \cup {NoId}, batch: SUBSET Nat, loaded: Nat, got: Seq(Nat)]

FeedType ==
  /\ sink \in {"buffer", "store"}
  /\ job \in {"running", "idle", "begun", "started", "finished", "ended"}
  /\ run \in Nat /\ records \in Nat /\ value \in Nat /\ nextId \in Nat /\ written \in Nat
  /\ offsets \in [records: Nat, value: Nat]
  /\ passes \in [Actors -> Passes]
  /\ feed \in Seq(Events)
  /\ reader \in Readers
  /\ reader.batch \subseteq 1..Len(feed) /\ reader.loaded <= Len(feed)

\* The first k records of the present run are among the first m events.
EmittedIn(m, k) ==
  \A n \in 1..k : \E i \in 1..m : feed[i].kind = "log" /\ feed[i].run = run /\ feed[i].n = n

Emitted(k) == EmittedIn(Len(feed), k)

\* A buffer numbers its events from 1, also after its file was loaded again.
Numbered ==
  nextId = Len(feed) + 1 /\ \A i \in 1..Len(feed) : feed[i].id = i

\* Whatever the other pass does, a record before the offset, or before the one
\* that a pass emits next, has been emitted.
PassesEmit ==
  /\ offsets.records <= records /\ Emitted(offsets.records)
  /\ \A a \in Actors : passes[a].at = "emit" =>
       /\ passes[a].upTo <= records
       /\ passes[a].next >= 1 /\ Emitted(passes[a].next - 1)

\* The reader has the events of the feed up to a point and is given the next.
ReaderFollows ==
  /\ reader.via = "live"
  /\ reader.got = [i \in 1..Len(reader.got) |-> i]
  /\ reader.last = IF Len(reader.got) = 0 THEN NoId ELSE Len(reader.got)
  /\ Len(reader.got) <= Len(feed)
  /\ reader.at \in {"yield", "last"} =>
       /\ Len(reader.got) <= reader.loaded /\ reader.loaded <= Len(feed)
       /\ reader.batch = (Len(reader.got) + 1)..reader.loaded

\* The job has ended when the reader gets its terminal event, and what it had
\* written comes with what is listed after that.
ReaderEnds ==
  /\ job \in {"running", "ended"}
  /\ job = "running" => \A i \in 1..Len(feed) : feed[i].kind # "terminal"
  /\ job = "ended" => written = records
  /\ reader.at \in {"terminal", "trailing", "last", "ended"} => job = "ended"
  /\ reader.at = "last" => EmittedIn(reader.loaded, written)
  /\ reader.at = "ended" => EmittedIn(Len(reader.got), written)

\* The pass the reader makes at the end gets to what was written last.
TrailingPass ==
  reader.at = "trailing" =>
    /\ passes["reader"].at = "emit" => passes["reader"].upTo >= written
    /\ passes["reader"].at = "none" => Emitted(written)

BufferInv == Numbered /\ PassesEmit /\ ReaderFollows /\ ReaderEnds /\ TrailingPass

\* How many records the bridge has appended.
Bridged ==
  IF passes["executor"].at = "emit" THEN passes["executor"].next - 1 ELSE offsets.records

\* Only the executor syncs, and not between its calls or while a process runs.
BridgeAlone ==
  /\ reader.via # "live" /\ job # "running"
  /\ \A a \in Actors : a # "executor" => passes[a].at = "none"
  /\ job \in {"idle", "started", "ended"} => passes["executor"].at = "none"

BridgeBounds ==
  /\ offsets.records <= records /\ written <= records
  /\ passes["executor"].at = "emit" =>
       /\ offsets.records <= Bridged /\ Bridged <= passes["executor"].upTo
       /\ passes["executor"].next >= 1 /\ passes["executor"].upTo <= records

\* In the order of the feed, from the first.
BridgeAppends ==
  /\ {feed[i].n : i \in Logged} = 1..Bridged
  /\ \A i, j \in Logged : i < j => feed[i].n < feed[j].n

\* The sync after a process takes what it had written.
BridgeEnds ==
  /\ job = "finished" /\ passes["executor"].at = "emit" => passes["executor"].upTo >= written
  /\ job = "finished" /\ passes["executor"].at = "none" => offsets.records >= written
  /\ job = "ended" => offsets.records >= written

StoreInv == BridgeAlone /\ BridgeBounds /\ BridgeAppends /\ BridgeEnds

FeedInv ==
  /\ FeedType
  /\ sink = "buffer" => BufferInv
  /\ sink = "store" => StoreInv

-----------------------------------------------------------------------------
(* Types.                                                                   *)

\* What a pass is at tells what it is.
LEMMA PassKinds ==
  ASSUME NEW p \in Passes
  PROVE  /\ p = NoPass <=> p.at = "none"
         /\ p.at \in {"none", "value", "records", "emit"}
         /\ p.at \in {"value", "records"} => p \in [at: {"value", "records"}, value: Nat]
         /\ p.at = "emit" => p \in [at: {"emit"}, upTo: Nat, next: Nat]
BY DEF Passes, NoPass

\* There is a next id, whatever the ids are.
LEMMA NextAfterType ==
  ASSUME NEW first \in Nat, feed \in Seq(Events)
  PROVE  NextAfter(first, feed) \in Nat
<1> DEFINE Ids == {first} \cup {feed[i].id + 1 : i \in DOMAIN feed}
           L == Len(feed)
           Bounded == {m \in 0..L : \E b \in Nat : \A i \in 1..m : feed[i].id + 1 <= b}
<1>1. L \in Nat /\ DOMAIN feed = 1..L /\ \A i \in 1..L : feed[i].id \in Nat
  <2>1. L \in Nat /\ DOMAIN feed = 1..L /\ \A i \in 1..L : feed[i] \in Events
    OBVIOUS
  <2> QED  BY <2>1 DEF Events
<1> HIDE DEF L
<1>2. 0 \in Bounded
  <2>1. \A i \in 1..0 : feed[i].id + 1 <= 0
    OBVIOUS
  <2> QED  BY <1>1, <2>1
<1>3. ASSUME NEW m \in 0..L, m < L, m \in Bounded PROVE m + 1 \in Bounded
  <2>1. PICK b \in Nat : \A i \in 1..m : feed[i].id + 1 <= b
    BY <1>3
  <2>2. m + 1 \in 1..L /\ feed[m + 1].id \in Nat
    BY <1>1, <1>3
  <2> DEFINE c == b + feed[m + 1].id + 1
  <2>3. c \in Nat /\ b <= c /\ feed[m + 1].id + 1 <= c
    BY <2>2
  <2>4. ASSUME NEW i \in 1..(m + 1) PROVE feed[i].id + 1 <= c
    <3>1. CASE i = m + 1
      BY <2>3, <3>1
    <3>2. CASE i # m + 1
      <4>1. i \in 1..m /\ i \in 1..L
        BY <1>1, <1>3, <2>2, <3>2
      <4>2. feed[i].id + 1 <= b /\ feed[i].id \in Nat
        BY <1>1, <2>1, <4>1
      <4> HIDE DEF c
      <4> QED  BY <2>3, <4>2
    <3> QED  BY <3>1, <3>2
  <2> HIDE DEF c
  <2>5. m + 1 \in 0..L
    BY <1>1, <2>2
  <2> QED  BY <2>3, <2>4, <2>5
<1> HIDE DEF Bounded
<1>4. 0..L \subseteq Bounded
  BY <1>1, <1>2, <1>3, InductionUpTo
<1>5. PICK b \in Nat : \A i \in 1..L : feed[i].id + 1 <= b
  <2>1. L \in Bounded
    BY <1>1, <1>4
  <2> QED  BY <2>1 DEF Bounded
<1>6. Ids \subseteq 0..(b + first)
  <2>1. \A i \in 1..L : feed[i].id + 1 \in 0..(b + first)
    BY <1>1, <1>5
  <2>2. first \in 0..(b + first)
    OBVIOUS
  <2> QED  BY <1>1, <2>1, <2>2
<1>7. first \in Ids /\ b + first \in Nat
  OBVIOUS
<1> HIDE DEF Ids
<1>8. Max(Ids) \in Ids
  BY <1>6, <1>7, GreatestExists
<1>9. NextAfter(first, feed) = Max(Ids)
  BY DEF NextAfter, Ids
<1>10. Max(Ids) \in 0..(b + first)
  BY <1>6, <1>8
<1> QED  BY <1>7, <1>9, <1>10

\* In a buffer it is one more than the number of events.
LEMMA NextAfterNumbered ==
  ASSUME feed \in Seq(Events), Numbered
  PROVE  NextAfter(1, feed) = Len(feed) + 1
<1> DEFINE Ids == {1} \cup {feed[i].id + 1 : i \in DOMAIN feed}
           L == Len(feed)
<1>1. L \in Nat /\ DOMAIN feed = 1..L /\ \A i \in 1..L : feed[i].id = i
  BY DEF Numbered
<1>2. Ids = 1..(L + 1)
  <2>1. \A i \in 1..L : feed[i].id + 1 \in 1..(L + 1)
    BY <1>1
  <2>2. ASSUME NEW k \in 1..(L + 1) PROVE k \in Ids
    <3>1. CASE k = 1
      BY <3>1
    <3>2. CASE k # 1
      <4>1. k - 1 \in 1..L /\ feed[k - 1].id + 1 = k
        BY <1>1, <3>2
      <4> QED  BY <1>1, <4>1
    <3> QED  BY <3>1, <3>2
  <2> QED  BY <1>1, <2>1, <2>2
<1> HIDE DEF Ids
<1>3. Ids \subseteq 0..(L + 1) /\ Ids # {} /\ L + 1 \in Nat
  <2>1. 1 \in Ids /\ Ids \subseteq 0..(L + 1)
    BY <1>1, <1>2
  <2> QED  BY <1>1, <2>1
<1>4. Max(Ids) \in Ids /\ \A x \in Ids : x <= Max(Ids)
  BY <1>3, GreatestExists
<1>5. Max(Ids) = L + 1
  BY <1>1, <1>2, <1>4
<1>6. NextAfter(1, feed) = Max(Ids)
  BY DEF NextAfter, Ids
<1> QED  BY <1>5, <1>6

\* One event more.
Grows(id, kind, n) == feed' = Append(feed, Event(id, kind, n))

LEMMA FeedGrows ==
  ASSUME feed \in Seq(Events), run \in Nat, NEW id \in Nat, NEW n \in Nat,
         NEW kind \in {"value", "log", "status", "terminal"}, Grows(id, kind, n)
  PROVE  /\ feed' \in Seq(Events) /\ Len(feed') = Len(feed) + 1 /\ Len(feed) \in Nat
         /\ DOMAIN feed = 1..Len(feed) /\ DOMAIN feed' = 1..(Len(feed) + 1)
         /\ \A i \in 1..Len(feed) : feed'[i] = feed[i]
         /\ feed'[Len(feed) + 1].id = id /\ feed'[Len(feed) + 1].kind = kind
         /\ feed'[Len(feed) + 1].run = run /\ feed'[Len(feed) + 1].n = n
<1> DEFINE e == Event(id, kind, n)
<1>1. e \in Events /\ e.id = id /\ e.kind = kind /\ e.run = run /\ e.n = n
  BY DEF Event, Events
<1> HIDE DEF e
<1>2. feed' = Append(feed, e)
  BY DEF Grows, e
<1> QED  BY <1>1, <1>2

\* One event is emitted; a buffer takes its number.
Emits(kind, n) ==
  /\ nextId' \in Nat
  /\ \E id \in Nat : Grows(id, kind, n) /\ (sink = "buffer" => id = nextId /\ nextId' = nextId + 1)

LEMMA EmitsOne ==
  ASSUME FeedType, NEW n \in Nat, NEW kind \in {"value", "log", "status", "terminal"},
         Emit(kind, n) \/ EmitNumbered(kind, n)
  PROVE  Emits(kind, n)
<1>1. nextId \in Nat /\ NextAfter(1, feed) \in Nat
  BY NextAfterType DEF FeedType
<1>2. CASE EmitNumbered(kind, n)
  BY <1>1, <1>2 DEF EmitNumbered, Grows, Emits
<1>3. CASE ~EmitNumbered(kind, n)
  BY <1>1, <1>3 DEF Emit, AppendBridged, Grows, Emits
<1> QED  BY <1>2, <1>3

\* What a reader is, after a step that sets the fields given here.
LEMMA ReaderSet ==
  ASSUME reader \in Readers, NEW at, NEW last, NEW batch, NEW loaded, NEW got,
         at \in {"wait", "list", "yield", "terminal", "trailing", "last", "ended"},
         last \in Nat \cup {NoId}, batch \in SUBSET Nat, loaded \in Nat, got \in Seq(Nat),
         reader' = [via |-> reader.via, at |-> at, last |-> last, batch |-> batch,
                    loaded |-> loaded, got |-> got]
  PROVE  reader' \in Readers
BY DEF Readers

\* A reader as the record of its fields.
LEMMA ReaderFields ==
  ASSUME reader \in Readers
  PROVE  /\ reader = [via |-> reader.via, at |-> reader.at, last |-> reader.last,
                      batch |-> reader.batch, loaded |-> reader.loaded, got |-> reader.got]
         /\ reader.via \in {"live", "store", "jsonl"}
         /\ reader.at \in {"wait", "list", "yield", "terminal", "trailing", "last", "ended"}
         /\ reader.last \in Nat \cup {NoId} /\ reader.batch \in SUBSET Nat
         /\ reader.loaded \in Nat /\ reader.got \in Seq(Nat)
BY DEF Readers

\* The places of a batch are events of the feed.
LEMMA SinceType ==
  ASSUME NEW id, NEW upTo \in Nat
  PROVE  Since(id, upTo) \in SUBSET Nat
BY DEF Since

\* The pass of a is set to p, or the feed is left alone: what the types need.
LEMMA PassSet ==
  ASSUME FeedType, NEW a \in Actors, NEW p \in Passes, Goto(a, p)
  PROVE  /\ passes' \in [Actors -> Passes] /\ passes'[a] = p
         /\ \A b \in Actors : b # a => passes'[b] = passes[b]
BY DEF FeedType, Goto

LEMMA PassStarts ==
  ASSUME FeedType, NEW a \in Actors, StartPass(a)
  PROVE  /\ passes' \in [Actors -> Passes]
         /\ passes'[a].at = "value" /\ passes'[a].value = value
         /\ \A b \in Actors : b # a => passes'[b] = passes[b]
<1> DEFINE p == [at |-> "value", value |-> value]
<1>1. p \in Passes /\ p.at = "value" /\ p.value = value
  BY DEF FeedType, Passes
<1>2. Goto(a, p)
  BY DEF StartPass
<1> HIDE DEF p
<1> QED  BY <1>1, <1>2, PassSet

\* The steps of a pass.
PassesSet(a) ==
  passes' \in [Actors -> Passes] /\ \A b \in Actors : b # a => passes'[b] = passes[b]

LEMMA MirrorValueSteps ==
  ASSUME FeedType, NEW a \in Actors, MirrorValue(a)
  PROVE  /\ PassesSet(a) /\ passes[a].at = "value" /\ passes'[a].at = "records"
         /\ UNCHANGED <<sink, job, run, records, value, offsets, written, reader>>
         /\ UNCHANGED <<feed, nextId>> \/ \E n \in Nat : Emits("value", n)
<1> DEFINE p == [passes[a] EXCEPT !.at = "records"]
<1>1. passes[a] \in Passes /\ passes[a].at = "value" /\ Goto(a, p)
  BY DEF MirrorValue, FeedType
<1>2. passes[a] \in [at: {"value", "records"}, value: Nat]
  BY <1>1, PassKinds
<1>3. p \in Passes /\ p.at = "records"
  BY <1>2 DEF Passes
<1> HIDE DEF p
<1>4. PassesSet(a) /\ passes'[a].at = "records"
  BY <1>1, <1>3, PassSet DEF PassesSet
<1>5. UNCHANGED <<feed, nextId>> \/ Emit("value", passes[a].value)
  BY DEF MirrorValue
<1>6. UNCHANGED <<feed, nextId>> \/ Emits("value", passes[a].value)
  BY <1>2, <1>5, EmitsOne
<1> QED  BY <1>1, <1>2, <1>4, <1>6 DEF MirrorValue

LEMMA CopyRecordsSteps ==
  ASSUME FeedType, NEW a \in Actors, CopyRecords(a)
  PROVE  /\ PassesSet(a) /\ passes[a].at = "records"
         /\ passes'[a].at = "emit" /\ passes'[a].upTo = records
         /\ passes'[a].next = offsets.records + 1
         /\ offsets' \in [records: Nat, value: Nat] /\ offsets'.records = offsets.records
         /\ UNCHANGED <<sink, job, run, records, value, feed, nextId, written, reader>>
<1> DEFINE p == [at |-> "emit", upTo |-> records, next |-> offsets.records + 1]
<1>1. passes[a] \in Passes /\ passes[a].at = "records" /\ Goto(a, p)
      /\ offsets' = [offsets EXCEPT !.value = passes[a].value]
      /\ offsets \in [records: Nat, value: Nat]
  BY DEF CopyRecords, FeedType
<1>2. passes[a] \in [at: {"value", "records"}, value: Nat]
  BY <1>1, PassKinds
<1>3. p \in Passes /\ p.at = "emit" /\ p.upTo = records /\ p.next = offsets.records + 1
  BY <1>1 DEF Passes, FeedType
<1> HIDE DEF p
<1>4. PassesSet(a) /\ passes'[a] = p
  BY <1>1, <1>3, PassSet DEF PassesSet
<1>5. offsets' \in [records: Nat, value: Nat] /\ offsets'.records = offsets.records
  BY <1>1, <1>2
<1> QED  BY <1>1, <1>3, <1>4, <1>5 DEF CopyRecords

LEMMA EmitRecordSteps ==
  ASSUME FeedType, NEW a \in Actors, EmitRecord(a)
  PROVE  /\ PassesSet(a) /\ passes[a].at = "emit" /\ passes'[a].at = "emit"
         /\ passes[a].next \in Nat /\ passes[a].upTo \in Nat /\ passes[a].next <= passes[a].upTo
         /\ passes'[a].upTo = passes[a].upTo /\ passes'[a].next = passes[a].next + 1
         /\ Emits("log", passes[a].next)
         /\ UNCHANGED <<sink, job, run, records, value, offsets, written, reader>>
<1> DEFINE p == [passes[a] EXCEPT !.next = @ + 1]
<1>1. passes[a] \in Passes /\ passes[a].at = "emit" /\ Goto(a, p) /\ Emit("log", passes[a].next)
      /\ passes[a].next <= passes[a].upTo
  BY DEF EmitRecord, FeedType
<1>2. passes[a] \in [at: {"emit"}, upTo: Nat, next: Nat]
  BY <1>1, PassKinds
<1>3. p \in Passes /\ p.at = "emit" /\ p.upTo = passes[a].upTo /\ p.next = passes[a].next + 1
  BY <1>2 DEF Passes
<1> HIDE DEF p
<1>4. PassesSet(a) /\ passes'[a] = p
  BY <1>1, <1>3, PassSet DEF PassesSet
<1>5. Emits("log", passes[a].next)
  BY <1>1, <1>2, EmitsOne
<1> QED  BY <1>1, <1>2, <1>3, <1>4, <1>5 DEF EmitRecord

LEMMA EndPassSteps ==
  ASSUME FeedType, NEW a \in Actors, EndPass(a)
  PROVE  /\ PassesSet(a) /\ passes[a].at = "emit" /\ passes'[a].at = "none"
         /\ passes[a].next \in Nat /\ passes[a].upTo \in Nat /\ passes[a].next > passes[a].upTo
         /\ offsets' \in [records: Nat, value: Nat] /\ offsets'.records = passes[a].upTo
         /\ UNCHANGED <<sink, job, run, records, value, feed, nextId, written, reader>>
<1>1. passes[a] \in Passes /\ passes[a].at = "emit" /\ Goto(a, NoPass)
      /\ passes[a].next > passes[a].upTo
      /\ offsets' = [offsets EXCEPT !.records = passes[a].upTo]
      /\ offsets \in [records: Nat, value: Nat]
  BY DEF EndPass, FeedType, Noted
<1>2. passes[a] \in [at: {"emit"}, upTo: Nat, next: Nat]
  BY <1>1, PassKinds
<1>3. NoPass \in Passes /\ NoPass.at = "none"
  BY DEF Passes, NoPass
<1>4. PassesSet(a) /\ passes'[a] = NoPass
  BY <1>1, <1>3, PassSet DEF PassesSet
<1>5. offsets' \in [records: Nat, value: Nat] /\ offsets'.records = passes[a].upTo
  BY <1>1, <1>2
<1> QED  BY <1>1, <1>2, <1>3, <1>4, <1>5 DEF EndPass

LEMMA StartPassSteps ==
  ASSUME FeedType, NEW a \in Actors, StartPass(a)
  PROVE  PassesSet(a) /\ passes'[a].at = "value"
BY PassStarts DEF PassesSet

LEMMA PassAbsent ==
  ASSUME FeedType, NEW a \in Actors
  PROVE  ~InPass(a) <=> passes[a].at = "none"
<1>1. passes[a] \in Passes
  BY DEF FeedType
<1> QED  BY <1>1, PassKinds DEF InPass

\* The steps of a reader.
LEMMA ReadSteps ==
  ASSUME FeedType, NEW at \in {"wait", "yield", "last"}, NEW batch \in SUBSET Nat, Read(at, batch)
  PROVE  /\ reader' \in Readers /\ reader'.via = reader.via /\ reader'.at = at
         /\ reader'.last = reader.last /\ reader'.batch = batch /\ reader'.loaded = Len(feed)
         /\ reader'.got = reader.got
<1> DEFINE L == Len(feed)
<1>1. reader \in Readers /\ L \in Nat
  BY DEF FeedType
<1> HIDE DEF L
<1>2. reader' = [reader EXCEPT !.at = at, !.batch = batch, !.loaded = L]
  BY DEF Read, L
<1>3. reader' = [via |-> reader.via, at |-> at, last |-> reader.last, batch |-> batch,
                 loaded |-> L, got |-> reader.got]
  BY <1>1, <1>2, ReaderFields
<1>4. reader' \in Readers
  BY <1>1, <1>3, ReaderFields, ReaderSet
<1> QED  BY <1>3, <1>4 DEF L

ReaderMoves(at) ==
  /\ reader' \in Readers /\ reader'.at = at
  /\ reader'.via = reader.via /\ reader'.last = reader.last /\ reader'.batch = reader.batch
  /\ reader'.loaded = reader.loaded /\ reader'.got = reader.got

LEMMA ReaderMovesTo ==
  ASSUME FeedType, NEW at \in {"wait", "list", "terminal", "trailing", "ended"},
         reader' = [reader EXCEPT !.at = at]
  PROVE  ReaderMoves(at)
<1>1. reader \in Readers
  BY DEF FeedType
<1>2. reader' = [via |-> reader.via, at |-> at, last |-> reader.last, batch |-> reader.batch,
                 loaded |-> reader.loaded, got |-> reader.got]
  BY <1>1, ReaderFields
<1>3. reader' \in Readers
  BY <1>1, <1>2 DEF Readers
<1> QED  BY <1>2, <1>3 DEF ReaderMoves

\* Restart and Reconnect.
ReaderWaits ==
  /\ reader' \in Readers /\ reader'.at = "wait"
  /\ reader'.via = reader.via /\ reader'.last = reader.last
  /\ reader'.loaded = reader.loaded /\ reader'.got = reader.got

LEMMA ReaderWaitsAgain ==
  ASSUME FeedType, reader' = [reader EXCEPT !.at = "wait", !.batch = {}]
  PROVE  ReaderWaits
<1>1. reader \in Readers
  BY DEF FeedType
<1>2. reader' = [via |-> reader.via, at |-> "wait", last |-> reader.last, batch |-> {},
                 loaded |-> reader.loaded, got |-> reader.got]
  BY <1>1, ReaderFields
<1>3. reader' \in Readers
  BY <1>1, <1>2 DEF Readers
<1> QED  BY <1>2, <1>3 DEF ReaderWaits

LEMMA ReaderYieldsSteps ==
  ASSUME FeedType, ReaderYields
  PROVE  \E i \in reader.batch :
           /\ \A x \in reader.batch : i <= x
           /\ i \in 1..Len(feed) /\ feed[i] \in Events
           /\ reader' \in Readers /\ reader'.via = reader.via /\ reader'.loaded = reader.loaded
           /\ reader'.last = feed[i].id /\ reader'.got = Append(reader.got, i)
           /\ reader'.batch = reader.batch \ {i}
           /\ reader'.at = IF reader.at = "yield" /\ feed[i].kind = "terminal"
                           THEN "terminal" ELSE reader.at
<1> DEFINE i == Min(reader.batch)
           at == IF reader.at = "yield" /\ feed[i].kind = "terminal" THEN "terminal" ELSE reader.at
<1>1. reader \in Readers /\ reader.batch \subseteq 1..Len(feed) /\ feed \in Seq(Events)
  BY DEF FeedType
<1>2. reader.batch \subseteq Nat /\ reader.batch # {} /\ reader.at \in {"yield", "last"}
  BY <1>1 DEF ReaderYields, Readers
<1>3. i \in reader.batch /\ \A x \in reader.batch : i <= x
  BY <1>2, LeastExists
<1>4. reader' = [reader EXCEPT !.last = feed[i].id, !.got = Append(@, i), !.batch = @ \ {i},
                               !.at = IF @ = "yield" /\ feed[i].kind = "terminal"
                                      THEN "terminal" ELSE @]
  BY DEF ReaderYields
<1>5. at \in {"terminal", "yield", "last"}
  BY <1>2
<1>6. i \in 1..Len(feed) /\ i \in Nat /\ feed[i] \in Events
  BY <1>1, <1>2, <1>3
<1>7. reader' = [via |-> reader.via, at |-> at, last |-> feed[i].id, batch |-> reader.batch \ {i},
                 loaded |-> reader.loaded, got |-> Append(reader.got, i)]
  <2> HIDE DEF i
  <2> QED  BY <1>1, <1>4, ReaderFields
<1> HIDE DEF i, at
<1>8. reader.got \in Seq(Nat) /\ Append(reader.got, i) \in Seq(Nat) /\ feed[i].id \in Nat
  BY <1>1, <1>6 DEF Readers, Events
<1>9. reader' \in Readers
  BY <1>1, <1>2, <1>5, <1>7, <1>8 DEF Readers
<1>10. /\ reader'.via = reader.via /\ reader'.loaded = reader.loaded
       /\ reader'.last = feed[i].id /\ reader'.got = Append(reader.got, i)
       /\ reader'.batch = reader.batch \ {i} /\ reader'.at = at
  BY <1>7
<1> QED  BY <1>3, <1>6, <1>9, <1>10 DEF at

\* What a step does to the feed and to the rest of what a job keeps.
FeedKept ==
  /\ feed' \in Seq(Events) /\ Len(feed) \in Nat /\ Len(feed') \in Nat /\ Len(feed) <= Len(feed')
  /\ \A i \in 1..Len(feed) : feed'[i] = feed[i]

LEMMA FeedIsKept ==
  ASSUME FeedType,
         UNCHANGED feed \/ \E kind \in {"value", "log", "status", "terminal"}, n \in Nat : Emits(kind, n)
  PROVE  FeedKept
<1>1. feed \in Seq(Events) /\ run \in Nat
  BY DEF FeedType
<1>2. CASE UNCHANGED feed
  BY <1>1, <1>2 DEF FeedKept
<1>3. CASE \E kind \in {"value", "log", "status", "terminal"}, n \in Nat : Emits(kind, n)
  <2>1. PICK kind \in {"value", "log", "status", "terminal"}, n \in Nat, id \in Nat : Grows(id, kind, n)
    BY <1>3 DEF Emits
  <2>2. /\ feed' \in Seq(Events) /\ Len(feed') = Len(feed) + 1 /\ Len(feed) \in Nat
        /\ \A i \in 1..Len(feed) : feed'[i] = feed[i]
    BY <1>1, <2>1, FeedGrows
  <2>3. Len(feed) <= Len(feed') /\ Len(feed') \in Nat
    BY <2>2
  <2> QED  BY <2>2, <2>3 DEF FeedKept
<1> QED  BY <1>2, <1>3

\* Every step appends to the feed.
LEMMA FeedTypeStep ==
  ASSUME FeedType, [Next]_vars
  PROVE  FeedType' /\ FeedKept
<1>1. /\ sink \in {"buffer", "store"}
      /\ job \in {"running", "idle", "begun", "started", "finished", "ended"}
      /\ run \in Nat /\ records \in Nat /\ value \in Nat /\ nextId \in Nat /\ written \in Nat
      /\ offsets \in [records: Nat, value: Nat] /\ passes \in [Actors -> Passes]
      /\ feed \in Seq(Events) /\ Len(feed) \in Nat /\ reader \in Readers
      /\ reader.batch \subseteq 1..Len(feed) /\ reader.loaded <= Len(feed)
      /\ reader.batch \in SUBSET Nat /\ reader.loaded \in Nat
  BY DEF FeedType, Readers
<1> DEFINE Kinds == {"value", "log", "status", "terminal"}
           Rest == /\ sink' \in {"buffer", "store"}
                   /\ job' \in {"running", "idle", "begun", "started", "finished", "ended"}
                   /\ run' \in Nat /\ records' \in Nat /\ value' \in Nat /\ written' \in Nat
                   /\ offsets' \in [records: Nat, value: Nat] /\ passes' \in [Actors -> Passes]
<1>2. ASSUME Rest, FeedKept, nextId' \in Nat, reader' \in Readers,
             reader'.batch \subseteq reader.batch, reader'.loaded = reader.loaded
      PROVE  FeedType' /\ FeedKept
  <2> HIDE DEF Rest
  <2>1. /\ Len(feed) \in Nat /\ Len(feed') \in Nat /\ Len(feed) <= Len(feed')
        /\ feed' \in Seq(Events)
    BY <1>2 DEF FeedKept
  <2>2. 1..Len(feed) \subseteq 1..Len(feed')
    BY <2>1
  <2>3. reader'.batch \subseteq 1..Len(feed')
    BY <1>1, <1>2, <2>2
  <2>4. reader'.loaded <= Len(feed')
    BY <1>1, <1>2, <2>1
  <2> USE DEF Rest
  <2> QED  BY <1>2, <2>1, <2>3, <2>4 DEF FeedType
<1>3. ASSUME Rest, UNCHANGED reader, UNCHANGED <<feed, nextId>> \/ \E kind \in Kinds, n \in Nat : Emits(kind, n)
      PROVE  FeedType' /\ FeedKept
  <2>1. nextId' \in Nat
    BY <1>1, <1>3 DEF Emits
  <2>2. FeedKept
    BY <1>3, FeedIsKept
  <2> HIDE DEF Rest
  <2> QED  BY <1>1, <1>2, <1>3, <2>1, <2>2
<1>4. ASSUME NEW a \in Actors, Pass(a) PROVE FeedType' /\ FeedKept
  <2>1. CASE MirrorValue(a)
    BY <1>1, <1>3, <2>1, MirrorValueSteps DEF PassesSet
  <2>2. CASE CopyRecords(a)
    BY <1>1, <1>3, <2>2, CopyRecordsSteps DEF PassesSet
  <2>3. CASE EmitRecord(a)
    BY <1>1, <1>3, <2>3, EmitRecordSteps DEF PassesSet
  <2>4. CASE EndPass(a)
    BY <1>1, <1>3, <2>4, EndPassSteps DEF PassesSet
  <2> QED  BY <1>4, <2>1, <2>2, <2>3, <2>4 DEF Pass
<1>5. CASE MirrorAgain
  <2>1. "mirror" \in Actors /\ StartPass("mirror")
    BY <1>5 DEF MirrorAgain, Actors
  <2> QED  BY <1>1, <1>3, <1>5, <2>1, StartPassSteps DEF MirrorAgain, PassesSet
<1>6. CASE WriteRecord
  BY <1>1, <1>3, <1>6 DEF WriteRecord
<1>7. CASE WriteValue
  BY <1>1, <1>3, <1>7 DEF WriteValue
<1>8. CASE EndJob
  <2>1. Emits("terminal", 0)
    BY <1>8, EmitsOne DEF EndJob
  <2> QED  BY <1>1, <1>3, <1>8, <2>1 DEF EndJob
<1>9. CASE Restart
  <2>1. nextId' \in Nat
    BY <1>1, <1>9, NextAfterType DEF Restart
  <2>2. passes' \in [Actors -> Passes]
    BY <1>9 DEF Restart, Passes
  <2>3. offsets' \in [records: Nat, value: Nat]
    BY <1>9 DEF Restart, NewOffsets
  <2>4. reader' \in Readers /\ reader'.batch = {} /\ reader'.loaded = reader.loaded
    BY <1>1, <1>9 DEF Restart, Readers
  <2>5. FeedKept
    BY <1>9, FeedIsKept DEF Restart
  <2> QED  BY <1>1, <1>2, <1>9, <2>1, <2>2, <2>3, <2>4, <2>5 DEF Restart
<1>10. CASE RunProcess
  <2>1. nextId' \in Nat
    BY <1>1, <1>10, NextAfterType DEF RunProcess
  <2>2. "executor" \in Actors /\ StartPass("executor")
    BY <1>10 DEF RunProcess, Actors
  <2>3. passes' \in [Actors -> Passes]
    BY <2>2, StartPassSteps DEF PassesSet
  <2>4. FeedKept
    BY <1>10, FeedIsKept DEF RunProcess
  <2> QED  BY <1>1, <1>2, <1>10, <2>1, <2>3, <2>4 DEF RunProcess
<1>11. CASE EmitStatus
  <2>1. Emits("status", 0)
    BY <1>11, EmitsOne DEF EmitStatus
  <2> QED  BY <1>1, <1>3, <1>11, <2>1 DEF EmitStatus
<1>12. CASE FinishProcess
  <2>1. Emits("terminal", 0)
    BY <1>12, EmitsOne DEF FinishProcess
  <2>2. "executor" \in Actors /\ StartPass("executor")
    BY <1>12 DEF FinishProcess, Actors
  <2>3. passes' \in [Actors -> Passes]
    BY <2>2, StartPassSteps DEF PassesSet
  <2> QED  BY <1>1, <1>3, <1>12, <2>1, <2>3 DEF FinishProcess
<1>13. CASE RunReturns
  BY <1>1, <1>3, <1>13 DEF RunReturns
<1>14. ASSUME NEW at \in {"wait", "yield", "last"}, NEW id, NEW upTo \in 0..Len(feed),
              Read(at, Since(id, upTo)),
              UNCHANGED <<sink, job, run, records, value, offsets, passes, feed, nextId, written>>
       PROVE  FeedType' /\ FeedKept
  <2> DEFINE batch == Since(id, upTo)
  <2>1. batch \in SUBSET Nat /\ batch \subseteq 1..Len(feed)
    BY <1>1 DEF Since
  <2> HIDE DEF batch
  <2>2. reader' \in Readers /\ reader'.batch = batch /\ reader'.loaded = Len(feed)
    BY <1>14, <2>1, ReadSteps DEF batch
  <2>3. FeedKept
    BY <1>14, FeedIsKept
  <2> QED  BY <1>1, <1>14, <2>1, <2>2, <2>3 DEF FeedType
<1>15. CASE ReaderMirrors
  <2>1. "reader" \in Actors /\ StartPass("reader")
    BY <1>15 DEF ReaderMirrors, Actors
  <2>2. passes' \in [Actors -> Passes]
    BY <2>1, StartPassSteps DEF PassesSet
  <2> DEFINE at == IF reader.at = "wait" THEN "list" ELSE "trailing"
  <2>3. reader' = [reader EXCEPT !.at = at] /\ at \in {"list", "trailing"}
    BY <1>15 DEF ReaderMirrors
  <2> HIDE DEF at
  <2>4. ReaderMoves(at)
    BY <2>3, ReaderMovesTo
  <2>5. FeedKept
    BY <1>15, FeedIsKept DEF ReaderMirrors
  <2> QED  BY <1>1, <1>2, <1>15, <2>2, <2>4, <2>5 DEF ReaderMirrors, ReaderMoves
<1>16. CASE ReaderLists
  <2> DEFINE at == IF Since(reader.last, Len(feed)) = {} THEN "wait" ELSE "yield"
  <2>1. at \in {"wait", "yield", "last"} /\ Read(at, Since(reader.last, Len(feed)))
        /\ Len(feed) \in 0..Len(feed)
    BY <1>1, <1>16 DEF ReaderLists
  <2> HIDE DEF at
  <2> QED  BY <1>14, <1>16, <2>1 DEF ReaderLists
<1>17. CASE ReaderYields
  <2>1. /\ reader' \in Readers /\ reader'.batch \subseteq reader.batch
        /\ reader'.loaded = reader.loaded
    BY <1>17, ReaderYieldsSteps
  <2>2. FeedKept
    BY <1>17, FeedIsKept DEF ReaderYields
  <2> QED  BY <1>1, <1>2, <1>17, <2>1, <2>2 DEF ReaderYields
<1>18. CASE ReaderGoesOn
  <2> DEFINE at == IF reader.at = "yield" THEN "wait" ELSE "ended"
  <2>1. reader' = [reader EXCEPT !.at = at] /\ at \in {"wait", "ended"}
    BY <1>18 DEF ReaderGoesOn
  <2> HIDE DEF at
  <2>2. ReaderMoves(at)
    BY <2>1, ReaderMovesTo
  <2>3. FeedKept
    BY <1>18, FeedIsKept DEF ReaderGoesOn
  <2> QED  BY <1>1, <1>2, <1>18, <2>2, <2>3 DEF ReaderGoesOn, ReaderMoves
<1>19. CASE ReaderTrails
  <2> DEFINE upTo == IF reader.via = "jsonl" THEN reader.loaded ELSE Len(feed)
  <2>1. upTo \in 0..Len(feed)
    BY <1>1
  <2>2. Trailing = Since(reader.last, upTo)
    BY DEF Trailing
  <2> HIDE DEF upTo
  <2> QED  BY <1>14, <1>19, <2>1, <2>2 DEF ReaderTrails
<1>20. CASE Reconnect
  <2>1. reader' \in Readers /\ reader'.batch = {} /\ reader'.loaded = reader.loaded
    BY <1>1, <1>20 DEF Reconnect, Readers
  <2>2. FeedKept
    BY <1>20, FeedIsKept DEF Reconnect
  <2> QED  BY <1>1, <1>2, <1>20, <2>1, <2>2 DEF Reconnect
<1>21. CASE UNCHANGED vars
  BY <1>1, <1>3, <1>21 DEF vars
<1> QED
  BY <1>4, <1>5, <1>6, <1>7, <1>8, <1>9, <1>10, <1>11, <1>12, <1>13, <1>15, <1>16, <1>17, <1>18,
     <1>19, <1>20, <1>21 DEF Next

-----------------------------------------------------------------------------
(* Buffers.                                                                 *)

\* EmittedIn and Emitted as they are after a step.
EmittedInAfter(m, k) ==
  \A n \in 1..k : \E i \in 1..m : feed'[i].kind = "log" /\ feed'[i].run = run' /\ feed'[i].n = n

EmittedAfter(k) == EmittedInAfter(Len(feed'), k)

\* What has been emitted stays in the feed.
LEMMA EmittedStays ==
  ASSUME FeedKept, run' = run
  PROVE  /\ \A m \in 0..Len(feed) : \A k : EmittedIn(m, k) => EmittedInAfter(m, k)
         /\ \A k : Emitted(k) => EmittedAfter(k)
<1>1. ASSUME NEW m \in 0..Len(feed), NEW k, EmittedIn(m, k) PROVE EmittedInAfter(m, k)
  BY <1>1 DEF EmittedIn, EmittedInAfter, FeedKept
<1>2. ASSUME NEW k, Emitted(k) PROVE EmittedAfter(k)
  <2>1. ASSUME NEW n \in 1..k
        PROVE  \E i \in 1..Len(feed') : feed'[i].kind = "log" /\ feed'[i].run = run' /\ feed'[i].n = n
    <3>1. PICK i \in 1..Len(feed) : feed[i].kind = "log" /\ feed[i].run = run /\ feed[i].n = n
      BY <1>2, <2>1 DEF Emitted, EmittedIn
    <3>2. i \in 1..Len(feed') /\ feed'[i] = feed[i]
      BY <3>1 DEF FeedKept
    <3> QED  BY <3>1, <3>2
  <2> QED  BY <2>1 DEF EmittedAfter, EmittedInAfter
<1> QED  BY <1>1, <1>2

\* One record more.
LEMMA EmittedGrows ==
  ASSUME FeedType, FeedKept, run' = run, NEW n \in Nat, n >= 1, Emits("log", n), Emitted(n - 1)
  PROVE  EmittedAfter(n)
<1>1. feed \in Seq(Events) /\ run \in Nat
  BY DEF FeedType
<1>2. EmittedAfter(n - 1)
  BY EmittedStays
<1>3. PICK id \in Nat : Grows(id, "log", n)
  BY DEF Emits
<1>4. /\ Len(feed) \in Nat /\ Len(feed') = Len(feed) + 1
      /\ feed'[Len(feed) + 1].kind = "log" /\ feed'[Len(feed) + 1].run = run
      /\ feed'[Len(feed) + 1].n = n
  BY <1>1, <1>3, FeedGrows
<1>5. ASSUME NEW k \in 1..n
      PROVE  \E i \in 1..Len(feed') : feed'[i].kind = "log" /\ feed'[i].run = run' /\ feed'[i].n = k
  <2>1. CASE k = n
    <3>1. Len(feed) + 1 \in 1..Len(feed')
      BY <1>4
    <3> QED  BY <1>4, <2>1, <3>1
  <2>2. CASE k # n
    <3>1. k \in 1..(n - 1)
      BY <2>2
    <3> QED  BY <1>2, <3>1 DEF EmittedAfter, EmittedInAfter
  <2> QED  BY <2>1, <2>2
<1> QED  BY <1>5 DEF EmittedAfter, EmittedInAfter

LEMMA NumberedStays ==
  ASSUME FeedType, sink = "buffer", Numbered,
         UNCHANGED <<feed, nextId>>
           \/ \E kind \in {"value", "log", "status", "terminal"}, n \in Nat : Emits(kind, n)
  PROVE  Numbered'
<1>1. CASE UNCHANGED <<feed, nextId>>
  BY <1>1 DEF Numbered
<1>2. CASE \E kind \in {"value", "log", "status", "terminal"}, n \in Nat : Emits(kind, n)
  <2>1. PICK kind \in {"value", "log", "status", "terminal"}, n \in Nat : Emits(kind, n)
    BY <1>2
  <2>2. nextId \in Nat /\ Grows(nextId, kind, n) /\ nextId' = nextId + 1
    BY <2>1 DEF Emits, FeedType
  <2>3. feed \in Seq(Events) /\ run \in Nat
    BY DEF FeedType
  <2>4. /\ Len(feed) \in Nat /\ Len(feed') = Len(feed) + 1
        /\ \A i \in 1..Len(feed) : feed'[i] = feed[i]
        /\ feed'[Len(feed) + 1].id = nextId
    BY <2>2, <2>3, FeedGrows
  <2>5. ASSUME NEW i \in 1..(Len(feed) + 1) PROVE feed'[i].id = i
    <3>1. i \in 1..Len(feed) \/ i = Len(feed) + 1
      BY <2>4
    <3> QED  BY <2>4, <3>1 DEF Numbered
  <2> QED  BY <2>2, <2>4, <2>5 DEF Numbered
<1> QED  BY <1>1, <1>2

\* A pass goes on, and emits before it notes; offsets get to where passes are.
PassGoesOn(a) ==
  /\ \A b \in Actors : b # a => passes'[b] = passes[b]
  /\ passes'[a].at = "emit" =>
       /\ passes'[a].upTo <= records' /\ passes'[a].next >= 1
       /\ EmittedAfter(passes'[a].next - 1)

OffsetsFollow ==
  \/ offsets'.records = offsets.records
  \/ offsets'.records \in Nat /\ offsets'.records <= records /\ Emitted(offsets'.records)

RecordsGrow == records' \in Nat /\ records <= records'

LEMMA PassesEmitStays ==
  ASSUME FeedType, FeedKept, run' = run, PassesEmit, RecordsGrow, OffsetsFollow,
         NEW a \in Actors, PassGoesOn(a)
  PROVE  PassesEmit'
<1> USE DEF PassGoesOn, OffsetsFollow, RecordsGrow
<1>1. offsets.records \in Nat /\ records \in Nat
  BY DEF FeedType
<1>2. offsets'.records \in Nat /\ offsets'.records <= records /\ Emitted(offsets'.records)
  BY <1>1 DEF PassesEmit
<1>3. offsets'.records <= records' /\ EmittedAfter(offsets'.records)
  BY <1>1, <1>2, EmittedStays
<1>4. ASSUME NEW b \in Actors, passes'[b].at = "emit"
      PROVE  /\ passes'[b].upTo <= records' /\ passes'[b].next >= 1
             /\ EmittedAfter(passes'[b].next - 1)
  <2>1. CASE b = a
    BY <1>4, <2>1
  <2>2. CASE b # a
    <3>1. passes'[b] = passes[b] /\ passes[b] \in Passes
      BY <2>2 DEF FeedType
    <3>2. passes[b].upTo \in Nat
      BY <1>4, <3>1, PassKinds
    <3>3. passes[b].upTo <= records /\ passes[b].next >= 1 /\ Emitted(passes[b].next - 1)
      BY <1>4, <3>1 DEF PassesEmit
    <3>4. EmittedAfter(passes[b].next - 1)
      BY <3>3, EmittedStays
    <3> QED  BY <1>1, <3>1, <3>2, <3>3, <3>4
  <2> QED  BY <2>1, <2>2
<1> QED  BY <1>3, <1>4 DEF PassesEmit, Emitted, EmittedIn, EmittedAfter, EmittedInAfter

\* Where the reader is not concerned.
LEMMA ReaderStays ==
  ASSUME FeedType, FeedKept, UNCHANGED <<run, reader, job, written>>, ReaderFollows, ReaderEnds,
         records' = records \/ job # "ended",
         UNCHANGED feed \/ \E kind \in {"value", "log"}, n \in Nat : Emits(kind, n)
  PROVE  ReaderFollows' /\ ReaderEnds'
<1>1. reader \in Readers /\ feed \in Seq(Events) /\ Len(feed) \in Nat /\ run \in Nat
      /\ reader.loaded \in Nat /\ reader.loaded <= Len(feed)
  BY DEF FeedType, Readers
<1>2. ReaderFollows'
  BY <1>1 DEF ReaderFollows, FeedKept, Readers
<1>3. job = "running" => \A i \in 1..Len(feed') : feed'[i].kind # "terminal"
  <2>1. CASE UNCHANGED feed
    BY <2>1 DEF ReaderEnds
  <2>2. CASE \E kind \in {"value", "log"}, n \in Nat : Emits(kind, n)
    <3>1. PICK kind \in {"value", "log"}, n \in Nat, id \in Nat : Grows(id, kind, n)
      BY <2>2 DEF Emits
    <3>2. /\ Len(feed') = Len(feed) + 1
          /\ \A i \in 1..Len(feed) : feed'[i] = feed[i]
          /\ feed'[Len(feed) + 1].kind = kind
      BY <1>1, <3>1, FeedGrows
    <3>3. \A i \in 1..Len(feed') : i \in 1..Len(feed) \/ i = Len(feed) + 1
      BY <1>1, <3>2
    <3> QED  BY <3>1, <3>2, <3>3 DEF ReaderEnds
  <2> QED  BY <2>1, <2>2
<1>4. EmittedIn(reader.loaded, written) => EmittedInAfter(reader.loaded, written)
  BY <1>1, EmittedStays
<1>5. EmittedIn(Len(reader.got), written) => EmittedInAfter(Len(reader.got), written)
  <2>1. Len(reader.got) \in 0..Len(feed)
    BY <1>1 DEF ReaderFollows, Readers
  <2> QED  BY <2>1, EmittedStays
<1>6. ReaderEnds'
  BY <1>3, <1>4, <1>5 DEF ReaderEnds, EmittedIn, EmittedInAfter
<1> QED  BY <1>2, <1>6

\* Where the reader's own pass is not concerned.
LEMMA TrailingStays ==
  ASSUME FeedKept, UNCHANGED <<run, written>>, TrailingPass,
         passes'["reader"] = passes["reader"],
         reader'.at = "trailing" => reader.at = "trailing"
  PROVE  TrailingPass'
<1>1. Emitted(written) => EmittedAfter(written)
  BY EmittedStays
<1> QED  BY <1>1 DEF TrailingPass, Emitted, EmittedIn, EmittedAfter, EmittedInAfter

\* The steps of a pass, of whomever.
LEMMA BufferPass ==
  ASSUME FeedType, FeedKept, sink = "buffer", BufferInv, NEW a \in Actors, Pass(a)
  PROVE  BufferInv'
<1>1. /\ Numbered /\ PassesEmit /\ ReaderFollows /\ ReaderEnds /\ TrailingPass
      /\ records \in Nat /\ offsets.records \in Nat /\ written \in Nat
      /\ "reader" \in Actors
  BY DEF BufferInv, FeedType, Actors
<1>2. reader.at = "trailing" => written = records
  BY <1>1 DEF ReaderEnds
<1>3. CASE MirrorValue(a)
  <2>1. /\ PassesSet(a) /\ passes[a].at = "value" /\ passes'[a].at = "records"
        /\ UNCHANGED <<run, records, job, offsets, written, reader>>
        /\ UNCHANGED <<feed, nextId>> \/ \E n \in Nat : Emits("value", n)
    BY <1>3, MirrorValueSteps
  <2>2. UNCHANGED <<feed, nextId>>
          \/ \E kind \in {"value", "log", "status", "terminal"}, n \in Nat : Emits(kind, n)
    BY <2>1
  <2>3. UNCHANGED feed \/ \E kind \in {"value", "log"}, n \in Nat : Emits(kind, n)
    BY <2>1
  <2>4. Numbered'
    BY <1>1, <2>2, NumberedStays
  <2>5. PassesEmit'
    <3>1. RecordsGrow /\ OffsetsFollow
      BY <1>1, <2>1 DEF RecordsGrow, OffsetsFollow
    <3>2. PassGoesOn(a)
      BY <1>1, <2>1 DEF PassGoesOn, PassesSet
    <3> QED  BY <1>1, <2>1, <3>1, <3>2, PassesEmitStays
  <2>6. ReaderFollows' /\ ReaderEnds'
    BY <1>1, <2>1, <2>3, ReaderStays
  <2>7. TrailingPass'
    <3>1. CASE a = "reader"
      BY <2>1, <3>1 DEF TrailingPass
    <3>2. CASE a # "reader"
      BY <1>1, <2>1, <3>2, TrailingStays DEF PassesSet
    <3> QED  BY <3>1, <3>2
  <2> QED  BY <2>4, <2>5, <2>6, <2>7 DEF BufferInv
<1>4. CASE CopyRecords(a)
  <2>1. /\ PassesSet(a) /\ passes'[a].at = "emit" /\ passes'[a].upTo = records
        /\ passes'[a].next = offsets.records + 1 /\ offsets'.records = offsets.records
        /\ UNCHANGED <<run, records, job, feed, nextId, written, reader>>
    BY <1>4, CopyRecordsSteps
  <2>2. Numbered'
    BY <1>1, <2>1, NumberedStays
  <2>3. passes'[a].next - 1 = offsets.records /\ EmittedAfter(offsets.records)
    BY <1>1, <2>1, EmittedStays DEF PassesEmit
  <2>4. PassesEmit'
    <3>1. RecordsGrow /\ OffsetsFollow
      BY <1>1, <2>1, <2>3 DEF RecordsGrow, OffsetsFollow
    <3>2. PassGoesOn(a)
      BY <1>1, <2>1, <2>3 DEF PassGoesOn, PassesSet
    <3> QED  BY <1>1, <2>1, <3>1, <3>2, PassesEmitStays
  <2>5. ReaderFollows' /\ ReaderEnds'
    BY <1>1, <2>1, ReaderStays
  <2>6. TrailingPass'
    <3>1. CASE a = "reader"
      BY <1>1, <1>2, <2>1, <3>1 DEF TrailingPass
    <3>2. CASE a # "reader"
      BY <1>1, <2>1, <3>2, TrailingStays DEF PassesSet
    <3> QED  BY <3>1, <3>2
  <2> QED  BY <2>2, <2>4, <2>5, <2>6 DEF BufferInv
<1>5. CASE EmitRecord(a)
  <2>1. /\ PassesSet(a) /\ passes[a].at = "emit" /\ passes'[a].at = "emit"
        /\ passes[a].next \in Nat /\ passes[a].upTo \in Nat
        /\ passes'[a].upTo = passes[a].upTo /\ passes'[a].next = passes[a].next + 1
        /\ Emits("log", passes[a].next)
        /\ UNCHANGED <<run, records, job, offsets, written, reader>>
    BY <1>5, EmitRecordSteps
  <2>2. Numbered'
    BY <1>1, <2>1, NumberedStays
  <2>3. /\ passes[a].next >= 1 /\ passes[a].upTo <= records /\ Emitted(passes[a].next - 1)
        /\ passes'[a].next - 1 = passes[a].next
    BY <1>1, <2>1 DEF PassesEmit
  <2>4. EmittedAfter(passes[a].next)
    BY <2>1, <2>3, EmittedGrows
  <2>5. PassesEmit'
    <3>1. RecordsGrow /\ OffsetsFollow
      BY <1>1, <2>1, <2>3, <2>4 DEF RecordsGrow, OffsetsFollow
    <3>2. PassGoesOn(a)
      BY <1>1, <2>1, <2>3, <2>4 DEF PassGoesOn, PassesSet
    <3> QED  BY <1>1, <2>1, <3>1, <3>2, PassesEmitStays
  <2>6. ReaderFollows' /\ ReaderEnds'
    BY <1>1, <2>1, ReaderStays
  <2>7. TrailingPass'
    <3>1. CASE a = "reader"
      BY <1>1, <2>1, <3>1 DEF TrailingPass
    <3>2. CASE a # "reader"
      BY <1>1, <2>1, <3>2, TrailingStays DEF PassesSet
    <3> QED  BY <3>1, <3>2
  <2> QED  BY <2>2, <2>5, <2>6, <2>7 DEF BufferInv
<1>6. CASE EndPass(a)
  <2>1. /\ PassesSet(a) /\ passes[a].at = "emit" /\ passes'[a].at = "none"
        /\ passes[a].next \in Nat /\ passes[a].upTo \in Nat /\ passes[a].next > passes[a].upTo
        /\ offsets'.records = passes[a].upTo
        /\ UNCHANGED <<run, records, job, feed, nextId, written, reader>>
    BY <1>6, EndPassSteps
  <2>2. Numbered'
    BY <1>1, <2>1, NumberedStays
  <2>3. passes[a].upTo <= records /\ Emitted(passes[a].next - 1)
    BY <1>1, <2>1 DEF PassesEmit
  <2>4. ASSUME NEW k \in Nat, k <= passes[a].upTo PROVE Emitted(k)
    <3>1. \A n \in 1..k : n \in 1..(passes[a].next - 1)
      BY <2>1, <2>4
    <3> QED  BY <2>3, <3>1 DEF Emitted, EmittedIn
  <2>5. Emitted(passes[a].upTo)
    BY <2>1, <2>4
  <2>6. PassesEmit'
    <3>1. RecordsGrow /\ OffsetsFollow
      BY <1>1, <2>1, <2>3, <2>5 DEF RecordsGrow, OffsetsFollow
    <3>2. PassGoesOn(a)
      BY <1>1, <2>1, <2>3, <2>5 DEF PassGoesOn, PassesSet
    <3> QED  BY <1>1, <2>1, <3>1, <3>2, PassesEmitStays
  <2>7. ReaderFollows' /\ ReaderEnds'
    BY <1>1, <2>1, ReaderStays
  <2>8. TrailingPass'
    <3>1. CASE a = "reader"
      <4>1. reader.at = "trailing" => EmittedAfter(written)
        BY <1>1, <2>1, <2>4, <3>1, EmittedStays DEF TrailingPass
      <4> QED  BY <2>1, <3>1, <4>1
               DEF TrailingPass, Emitted, EmittedIn, EmittedAfter, EmittedInAfter
    <3>2. CASE a # "reader"
      BY <1>1, <2>1, <3>2, TrailingStays DEF PassesSet
    <3> QED  BY <3>1, <3>2
  <2> QED  BY <2>2, <2>6, <2>7, <2>8 DEF BufferInv
<1> QED  BY <1>3, <1>4, <1>5, <1>6 DEF Pass

\* What the job, its mirror thread and its death do.
LEMMA BufferJob ==
  ASSUME FeedType, FeedKept, sink = "buffer", BufferInv,
         MirrorAgain \/ WriteRecord \/ WriteValue \/ EndJob \/ Restart
  PROVE  BufferInv'
<1>1. /\ Numbered /\ PassesEmit /\ ReaderFollows /\ ReaderEnds /\ TrailingPass
      /\ records \in Nat /\ offsets.records \in Nat /\ written \in Nat /\ run \in Nat
      /\ "reader" \in Actors /\ "mirror" \in Actors /\ "reader" # "mirror"
      /\ passes \in [Actors -> Passes] /\ reader \in Readers
  BY DEF BufferInv, FeedType, Actors
<1>2. CASE MirrorAgain
  <2>1. /\ PassesSet("mirror") /\ passes'["mirror"].at = "value"
        /\ UNCHANGED <<run, records, job, offsets, feed, nextId, written, reader>>
    BY <1>1, <1>2, StartPassSteps DEF MirrorAgain
  <2>2. Numbered'
    BY <1>1, <2>1, NumberedStays
  <2>3. PassesEmit'
    <3>1. RecordsGrow /\ OffsetsFollow
      BY <1>1, <2>1 DEF RecordsGrow, OffsetsFollow
    <3>2. PassGoesOn("mirror")
      BY <1>1, <2>1 DEF PassGoesOn, PassesSet
    <3> QED  BY <1>1, <2>1, <3>1, <3>2, PassesEmitStays
  <2>4. ReaderFollows' /\ ReaderEnds'
    BY <1>1, <2>1, ReaderStays
  <2>5. TrailingPass'
    BY <1>1, <2>1, TrailingStays DEF PassesSet
  <2> QED  BY <2>2, <2>3, <2>4, <2>5 DEF BufferInv
<1>3. CASE WriteRecord \/ WriteValue
  <2>1. /\ records' \in Nat /\ records <= records' /\ (records' = records \/ job # "ended")
        /\ UNCHANGED <<run, job, offsets, passes, feed, nextId, written, reader>>
    BY <1>1, <1>3 DEF WriteRecord, WriteValue
  <2>2. Numbered'
    BY <1>1, <2>1, NumberedStays
  <2>3. passes["reader"].at = "emit" =>
          /\ passes["reader"].upTo <= records' /\ passes["reader"].next >= 1
          /\ EmittedAfter(passes["reader"].next - 1)
    <3>1. passes["reader"] \in Passes
      BY <1>1
    <3>2. ASSUME passes["reader"].at = "emit"
          PROVE  /\ passes["reader"].upTo \in Nat /\ passes["reader"].upTo <= records
                 /\ passes["reader"].next >= 1 /\ EmittedAfter(passes["reader"].next - 1)
      BY <1>1, <2>1, <3>1, <3>2, PassKinds, EmittedStays DEF PassesEmit
    <3> QED  BY <1>1, <2>1, <3>2
  <2>4. PassesEmit'
    <3>1. RecordsGrow /\ OffsetsFollow
      BY <1>1, <2>1, <2>3 DEF RecordsGrow, OffsetsFollow
    <3>2. PassGoesOn("reader")
      BY <1>1, <2>1, <2>3 DEF PassGoesOn, PassesSet
    <3> QED  BY <1>1, <2>1, <3>1, <3>2, PassesEmitStays
  <2>5. ReaderFollows' /\ ReaderEnds'
    BY <1>1, <2>1, ReaderStays
  <2>6. TrailingPass'
    BY <1>1, <2>1, TrailingStays
  <2> QED  BY <2>2, <2>4, <2>5, <2>6 DEF BufferInv
<1>4. CASE EndJob
  <2>1. /\ job = "running" /\ job' = "ended" /\ written' = records
        /\ UNCHANGED <<run, records, offsets, passes, reader>> /\ Emits("terminal", 0)
    BY <1>4, EmitsOne DEF EndJob
  <2>2. Numbered'
    BY <1>1, <2>1, NumberedStays
  <2>3. passes["reader"].at = "emit" =>
          /\ passes["reader"].upTo <= records' /\ passes["reader"].next >= 1
          /\ EmittedAfter(passes["reader"].next - 1)
    BY <1>1, <2>1, EmittedStays DEF PassesEmit
  <2>4. PassesEmit'
    <3>1. RecordsGrow /\ OffsetsFollow
      BY <1>1, <2>1, <2>3 DEF RecordsGrow, OffsetsFollow
    <3>2. PassGoesOn("reader")
      BY <1>1, <2>1, <2>3 DEF PassGoesOn, PassesSet
    <3> QED  BY <1>1, <2>1, <3>1, <3>2, PassesEmitStays
  <2>5. reader.at \notin {"terminal", "trailing", "last", "ended"}
    BY <1>1, <2>1 DEF ReaderEnds
  <2>6. ReaderFollows'
    BY <1>1, <2>1 DEF ReaderFollows, FeedKept, Readers
  <2>7. ReaderEnds' /\ TrailingPass'
    BY <2>1, <2>5 DEF ReaderEnds, TrailingPass
  <2> QED  BY <2>2, <2>4, <2>6, <2>7 DEF BufferInv
<1>5. CASE Restart
  <2>1. /\ job = "running" /\ job' = "running" /\ records' = 0 /\ offsets' = NewOffsets
        /\ passes' = [a \in Actors |-> NoPass] /\ nextId' = NextAfter(1, feed)
        /\ feed' = feed /\ written' = written
        /\ reader' = [reader EXCEPT !.at = "wait", !.batch = {}]
    BY <1>5 DEF Restart
  <2>2. Numbered'
    BY <1>1, <2>1, NextAfterNumbered DEF Numbered, FeedType
  <2>3. PassesEmit'
    <3>1. offsets'.records = 0 /\ \A a \in Actors : passes'[a].at = "none"
      BY <2>1 DEF NewOffsets, NoPass
    <3>2. \A n \in 1..0 : FALSE
      OBVIOUS
    <3> QED  BY <2>1, <3>1, <3>2 DEF PassesEmit, Emitted, EmittedIn
  <2>4. ReaderWaits
    BY <2>1, ReaderWaitsAgain
  <2>5. ReaderFollows'
    BY <1>1, <2>1, <2>4 DEF ReaderFollows, ReaderWaits
  <2>6. ReaderEnds' /\ TrailingPass'
    BY <1>1, <2>1, <2>4 DEF ReaderEnds, TrailingPass, ReaderWaits
  <2> QED  BY <2>2, <2>3, <2>5, <2>6 DEF BufferInv
<1> QED  BY <1>2, <1>3, <1>4, <1>5

\* What a reader of a buffer lists is what it has not been given.
LEMMA SinceNumbered ==
  ASSUME FeedType, Numbered, ReaderFollows
  PROVE  Since(reader.last, Len(feed)) = (Len(reader.got) + 1)..Len(feed)
<1> DEFINE L == Len(feed)
           g == Len(reader.got)
<1>1. /\ L \in Nat /\ g \in Nat /\ reader.last = IF g = 0 THEN NoId ELSE g
      /\ \A i \in 1..L : feed[i].id = i
  BY DEF FeedType, Numbered, ReaderFollows, Readers
<1> HIDE DEF L, g
<1>2. \A i \in 1..L : feed[i].id > reader.last <=> i >= g + 1
  BY <1>1 DEF NoId
<1>3. Since(reader.last, L) = {i \in 1..L : i >= g + 1}
  BY <1>2 DEF Since
<1>4. {i \in 1..L : i >= g + 1} = (g + 1)..L
  BY <1>1
<1> QED  BY <1>3, <1>4 DEF L, g

\* What the reader does.
LEMMA BufferReader ==
  ASSUME FeedType, FeedKept, sink = "buffer", BufferInv,
         \/ ReaderMirrors \/ ReaderLists \/ ReaderYields \/ ReaderGoesOn \/ ReaderTrails
         \/ Reconnect
  PROVE  BufferInv'
<1>1. /\ Numbered /\ PassesEmit /\ ReaderFollows /\ ReaderEnds /\ TrailingPass
      /\ records \in Nat /\ offsets.records \in Nat /\ written \in Nat /\ run \in Nat
      /\ "reader" \in Actors /\ reader.via = "live"
      /\ passes \in [Actors -> Passes] /\ reader \in Readers
      /\ Len(feed) \in Nat /\ Len(reader.got) \in Nat /\ Len(reader.got) <= Len(feed)
      /\ reader.loaded \in Nat /\ reader.got \in Seq(Nat)
  BY DEF BufferInv, FeedType, Actors, ReaderFollows, Readers
<1>2. UNCHANGED <<job, run, records, offsets, feed, nextId, written>>
  BY DEF ReaderMirrors, ReaderLists, ReaderYields, ReaderGoesOn, ReaderTrails, Reconnect
<1>3. Numbered'
  BY <1>1, <1>2 DEF Numbered
<1>4. UNCHANGED passes => PassesEmit'
  BY <1>1, <1>2 DEF PassesEmit, Emitted, EmittedIn
<1>5. CASE ReaderMirrors
  <2>1. PassesSet("reader") /\ passes'["reader"].at = "value"
    BY <1>1, <1>5, StartPassSteps DEF ReaderMirrors
  <2>2. PassesEmit'
    <3>1. RecordsGrow /\ OffsetsFollow
      BY <1>1, <1>2 DEF RecordsGrow, OffsetsFollow
    <3>2. PassGoesOn("reader")
      BY <2>1 DEF PassGoesOn, PassesSet
    <3> QED  BY <1>1, <1>2, <3>1, <3>2, PassesEmitStays
  <2> DEFINE at == IF reader.at = "wait" THEN "list" ELSE "trailing"
  <2>3. /\ reader' = [reader EXCEPT !.at = at] /\ at \in {"list", "trailing"}
        /\ at = "trailing" => reader.at = "terminal"
    BY <1>5 DEF ReaderMirrors
  <2> HIDE DEF at
  <2>4. ReaderMoves(at)
    BY <2>3, ReaderMovesTo
  <2>5. ReaderFollows'
    BY <1>1, <1>2, <2>3, <2>4 DEF ReaderFollows, ReaderMoves
  <2>6. ReaderEnds' /\ TrailingPass'
    BY <1>1, <1>2, <2>1, <2>3, <2>4 DEF ReaderEnds, TrailingPass, ReaderMoves
  <2> QED  BY <1>3, <2>2, <2>5, <2>6 DEF BufferInv
<1>6. CASE ReaderLists
  <2> DEFINE batch == Since(reader.last, Len(feed))
             at == IF batch = {} THEN "wait" ELSE "yield"
  <2>1. Read(at, batch) /\ at \in {"wait", "yield"} /\ UNCHANGED passes
    BY <1>6 DEF ReaderLists
  <2>2. batch = (Len(reader.got) + 1)..Len(feed)
    BY <1>1, SinceNumbered
  <2> HIDE DEF batch, at
  <2>3. batch \in SUBSET Nat
    BY <1>1, <2>2
  <2>4. /\ reader'.via = reader.via /\ reader'.at = at /\ reader'.last = reader.last
        /\ reader'.batch = batch /\ reader'.loaded = Len(feed) /\ reader'.got = reader.got
    BY <2>1, <2>3, ReadSteps
  <2>5. ReaderFollows'
    BY <1>1, <1>2, <2>1, <2>2, <2>4 DEF ReaderFollows
  <2>6. ReaderEnds' /\ TrailingPass'
    BY <1>1, <1>2, <2>1, <2>4 DEF ReaderEnds, TrailingPass
  <2> QED  BY <1>3, <1>4, <2>1, <2>5, <2>6 DEF BufferInv
<1>7. CASE ReaderYields
  <2>1. UNCHANGED passes /\ reader.at \in {"yield", "last"}
    BY <1>7 DEF ReaderYields
  <2>2. PICK i \in reader.batch :
           /\ \A x \in reader.batch : i <= x
           /\ i \in 1..Len(feed) /\ feed[i] \in Events
           /\ reader' \in Readers /\ reader'.via = reader.via /\ reader'.loaded = reader.loaded
           /\ reader'.last = feed[i].id /\ reader'.got = Append(reader.got, i)
           /\ reader'.batch = reader.batch \ {i}
           /\ reader'.at = IF reader.at = "yield" /\ feed[i].kind = "terminal"
                           THEN "terminal" ELSE reader.at
    BY <1>7, ReaderYieldsSteps, Zenon
  <2>3. /\ reader.batch = (Len(reader.got) + 1)..reader.loaded /\ reader.loaded <= Len(feed)
        /\ reader.got = [k \in 1..Len(reader.got) |-> k]
    BY <1>1, <2>1 DEF ReaderFollows
  <2>4. i = Len(reader.got) + 1 /\ i <= reader.loaded
    <3> DEFINE g == Len(reader.got)
               l == reader.loaded
    <3>1. g \in Nat /\ l \in Nat /\ i \in (g + 1)..l /\ \A x \in (g + 1)..l : i <= x
      BY <1>1, <2>2, <2>3
    <3> HIDE DEF g, l
    <3>2. i \in Int /\ g + 1 <= i /\ i <= l
      BY <3>1
    <3>3. g + 1 \in (g + 1)..l
      BY <3>1, <3>2
    <3>4. i <= g + 1
      BY <3>1, <3>3
    <3>5. i = g + 1 /\ i <= l
      BY <3>1, <3>2, <3>4
    <3> QED  BY <3>5 DEF g, l
  <2>5. /\ Len(reader'.got) = i /\ reader'.last = i
        /\ reader'.got = [k \in 1..i |-> k]
    <3>1. Len(reader'.got) = i /\ reader'.got \in Seq(Nat)
      BY <1>1, <2>2, <2>4
    <3>2. \A k \in 1..i : reader'.got[k] = k
      BY <1>1, <2>2, <2>3, <2>4
    <3>3. reader'.got = [k \in 1..i |-> reader'.got[k]]
      BY <3>1
    <3>4. feed[i].id = i
      BY <1>1, <2>2 DEF Numbered
    <3> QED  BY <2>2, <3>1, <3>2, <3>3, <3>4
  <2>6. reader'.batch = (i + 1)..reader.loaded
    BY <1>1, <2>2, <2>3, <2>4
  <2>7. ReaderFollows'
    BY <1>1, <1>2, <2>1, <2>2, <2>3, <2>4, <2>5, <2>6 DEF ReaderFollows
  <2>8. ReaderEnds' /\ TrailingPass'
    <3>1. reader'.at = "terminal" => job = "ended"
      BY <1>1, <2>1, <2>2 DEF ReaderEnds
    <3>2. reader'.at = "last" => job = "ended" /\ EmittedIn(reader.loaded, written)
      BY <1>1, <2>1, <2>2 DEF ReaderEnds
    <3>3. reader'.at \notin {"trailing", "ended"}
      BY <2>1, <2>2
    <3> QED  BY <1>1, <1>2, <2>2, <3>1, <3>2, <3>3 DEF ReaderEnds, TrailingPass, EmittedIn
  <2> QED  BY <1>3, <1>4, <2>1, <2>7, <2>8 DEF BufferInv
<1>8. CASE ReaderGoesOn
  <2> DEFINE at == IF reader.at = "yield" THEN "wait" ELSE "ended"
  <2>1. /\ reader' = [reader EXCEPT !.at = at] /\ at \in {"wait", "ended"}
        /\ at = "ended" => reader.at = "last"
        /\ UNCHANGED passes /\ reader.batch = {}
    BY <1>8 DEF ReaderGoesOn
  <2> HIDE DEF at
  <2>2. ReaderMoves(at)
    BY <2>1, ReaderMovesTo
  <2>3. ReaderFollows'
    BY <1>1, <1>2, <2>1, <2>2 DEF ReaderFollows, ReaderMoves
  <2>4. at = "ended" => Len(reader.got) = reader.loaded
    <3>1. ASSUME at = "ended"
          PROVE  /\ (Len(reader.got) + 1)..reader.loaded = {}
                 /\ Len(reader.got) <= reader.loaded
      BY <1>1, <2>1, <3>1 DEF ReaderFollows
    <3> QED  BY <1>1, <3>1
  <2>5. ReaderEnds' /\ TrailingPass'
    BY <1>1, <1>2, <2>1, <2>2, <2>4 DEF ReaderEnds, TrailingPass, ReaderMoves, EmittedIn
  <2> QED  BY <1>3, <1>4, <2>1, <2>3, <2>5 DEF BufferInv
<1>9. CASE ReaderTrails
  <2> DEFINE batch == Since(reader.last, Len(feed))
  <2>1. /\ Read("last", batch) /\ UNCHANGED passes
        /\ reader.at = "trailing" /\ passes["reader"].at = "none"
    BY <1>1, <1>9, PassAbsent DEF ReaderTrails, Trailing, Drained
  <2>2. batch = (Len(reader.got) + 1)..Len(feed)
    BY <1>1, SinceNumbered
  <2> HIDE DEF batch
  <2>3. batch \in SUBSET Nat
    BY <1>1, <2>2
  <2>4. /\ reader'.via = reader.via /\ reader'.at = "last" /\ reader'.last = reader.last
        /\ reader'.batch = batch /\ reader'.loaded = Len(feed) /\ reader'.got = reader.got
    BY <2>1, <2>3, ReadSteps
  <2>5. ReaderFollows'
    BY <1>1, <1>2, <2>1, <2>2, <2>4 DEF ReaderFollows
  <2>6. EmittedIn(Len(feed), written) /\ job = "ended"
    BY <1>1, <2>1 DEF TrailingPass, ReaderEnds, Emitted
  <2>7. ReaderEnds' /\ TrailingPass'
    BY <1>1, <1>2, <2>4, <2>6 DEF ReaderEnds, TrailingPass, EmittedIn
  <2> QED  BY <1>3, <1>4, <2>1, <2>5, <2>7 DEF BufferInv
<1>10. CASE Reconnect
  <2>1. reader' = [reader EXCEPT !.at = "wait", !.batch = {}] /\ UNCHANGED passes
    BY <1>10 DEF Reconnect
  <2>2. ReaderWaits
    BY <2>1, ReaderWaitsAgain
  <2>3. ReaderFollows'
    BY <1>1, <1>2, <2>2 DEF ReaderFollows, ReaderWaits
  <2>4. ReaderEnds' /\ TrailingPass'
    BY <1>1, <1>2, <2>2 DEF ReaderEnds, TrailingPass, ReaderWaits
  <2> QED  BY <1>3, <1>4, <2>1, <2>3, <2>4 DEF BufferInv
<1> QED  BY <1>5, <1>6, <1>7, <1>8, <1>9, <1>10

-----------------------------------------------------------------------------
(* Stores.                                                                  *)

\* Events of another kind leave alone what was bridged.
LEMMA LogsStay ==
  ASSUME FeedType, BridgeAppends, Bridged' = Bridged,
         UNCHANGED feed \/ \E kind \in {"value", "status", "terminal"}, n \in Nat : Emits(kind, n)
  PROVE  BridgeAppends'
<1>1. CASE UNCHANGED feed
  BY <1>1 DEF BridgeAppends, Logged
<1>2. CASE \E kind \in {"value", "status", "terminal"}, n \in Nat : Emits(kind, n)
  <2>1. PICK kind \in {"value", "status", "terminal"}, n \in Nat, id \in Nat : Grows(id, kind, n)
    BY <1>2 DEF Emits
  <2>2. feed \in Seq(Events) /\ run \in Nat
    BY DEF FeedType
  <2>3. /\ Len(feed) \in Nat
        /\ DOMAIN feed = 1..Len(feed) /\ DOMAIN feed' = 1..(Len(feed) + 1)
        /\ \A i \in 1..Len(feed) : feed'[i] = feed[i]
        /\ feed'[Len(feed) + 1].kind = kind
    BY <2>1, <2>2, FeedGrows
  <2> DEFINE L == Len(feed)
  <2> HIDE DEF L
  <2>4. \A i : i \in 1..(L + 1) <=> i \in 1..L \/ i = L + 1
    BY <2>3 DEF L
  <2>5. Logged' = Logged
    BY <2>1, <2>3, <2>4 DEF Logged, L
  <2>6. \A i \in Logged : feed'[i] = feed[i]
    BY <2>3 DEF Logged
  <2> QED  BY <2>5, <2>6 DEF BridgeAppends
<1> QED  BY <1>1, <1>2

\* The record after the last one is appended.
LEMMA LogsGrow ==
  ASSUME FeedType, BridgeAppends, Bridged \in Nat, Bridged' = Bridged + 1, Emits("log", Bridged + 1)
  PROVE  BridgeAppends'
<1> DEFINE L == Len(feed)
           b == Bridged
<1>1. PICK id \in Nat : Grows(id, "log", b + 1)
  BY DEF Emits
<1>2. feed \in Seq(Events) /\ run \in Nat /\ b + 1 \in Nat
  BY DEF FeedType
<1>3. /\ L \in Nat
      /\ DOMAIN feed = 1..L /\ DOMAIN feed' = 1..(L + 1)
      /\ \A i \in 1..L : feed'[i] = feed[i]
      /\ feed'[L + 1].kind = "log" /\ feed'[L + 1].n = b + 1
  BY <1>1, <1>2, FeedGrows
<1>4. b \in Nat /\ Bridged' = b + 1
  OBVIOUS
<1>5. {feed[i].n : i \in Logged} = 1..b /\ \A i, j \in Logged : i < j => feed[i].n < feed[j].n
  BY DEF BridgeAppends
<1> HIDE DEF L, b
<1>6. L + 1 \notin 1..L /\ \A i : i \in 1..(L + 1) <=> i \in 1..L \/ i = L + 1
  BY <1>3
<1>7. Logged' = Logged \cup {L + 1} /\ Logged \subseteq 1..L
  BY <1>3, <1>6 DEF Logged
<1>8. \A i \in Logged : feed'[i] = feed[i] /\ i < L + 1 /\ feed[i].n \in 1..b
  BY <1>3, <1>5, <1>7
<1>9. {feed'[i].n : i \in Logged'} = {feed[i].n : i \in Logged} \cup {b + 1}
  BY <1>3, <1>7, <1>8
<1>10. 1..b \cup {b + 1} = 1..(b + 1)
  BY <1>4
<1>11. ASSUME NEW i \in Logged', NEW j \in Logged', i < j PROVE feed'[i].n < feed'[j].n
  <2>1. i \in Logged
    BY <1>3, <1>7, <1>8, <1>11
  <2>2. CASE j \in Logged
    BY <1>5, <1>8, <1>11, <2>1, <2>2
  <2>3. CASE j = L + 1
    <3>1. feed'[j].n = b + 1
      BY <1>3, <2>3
    <3>2. feed'[i].n \in 1..b
      BY <1>8, <2>1
    <3> QED  BY <1>4, <3>1, <3>2
  <2> QED  BY <1>7, <2>2, <2>3
<1>12. {feed'[i].n : i \in Logged'} = 1..Bridged'
  BY <1>4, <1>5, <1>9, <1>10
<1> QED  BY <1>11, <1>12 DEF BridgeAppends

\* Where the bridge is not concerned.
LEMMA BridgeRests ==
  ASSUME FeedType, sink = "store", StoreInv,
         UNCHANGED <<passes, offsets, feed, job, written>>, RecordsGrow, reader'.via = reader.via
  PROVE  StoreInv'
<1>1. BridgeAlone' /\ BridgeEnds'
  BY DEF StoreInv, BridgeAlone, BridgeEnds
<1>2. Bridged' = Bridged
  BY DEF Bridged
<1>3. BridgeAppends'
  BY <1>2, LogsStay DEF StoreInv
<1>4. offsets.records \in Nat /\ written \in Nat /\ records \in Nat
      /\ passes["executor"] \in Passes
  BY DEF FeedType, Actors
<1>5. passes["executor"].at = "emit" => passes["executor"].upTo \in Nat
  BY <1>4, PassKinds
<1>6. BridgeBounds'
  BY <1>2, <1>4, <1>5 DEF StoreInv, BridgeBounds, RecordsGrow
<1> QED  BY <1>1, <1>3, <1>6 DEF StoreInv

LEMMA StorePass ==
  ASSUME FeedType, FeedKept, sink = "store", StoreInv, NEW a \in Actors, Pass(a)
  PROVE  StoreInv'
<1>1. /\ BridgeAlone /\ BridgeBounds /\ BridgeAppends /\ BridgeEnds
      /\ records \in Nat /\ offsets.records \in Nat /\ written \in Nat
  BY DEF StoreInv, FeedType
<1>2. a = "executor"
  <2>1. passes[a].at # "none"
    <3>1. CASE MirrorValue(a)
      BY <3>1, MirrorValueSteps
    <3>2. CASE CopyRecords(a)
      BY <3>2, CopyRecordsSteps
    <3>3. CASE EmitRecord(a)
      BY <3>3, EmitRecordSteps
    <3>4. CASE EndPass(a)
      BY <3>4, EndPassSteps
    <3> QED  BY <3>1, <3>2, <3>3, <3>4 DEF Pass
  <2> QED  BY <1>1, <2>1 DEF BridgeAlone
<1>3. CASE MirrorValue(a)
  <2>1. /\ PassesSet(a) /\ passes[a].at = "value" /\ passes'[a].at = "records"
        /\ UNCHANGED <<records, job, offsets, written, reader>>
        /\ UNCHANGED <<feed, nextId>> \/ \E n \in Nat : Emits("value", n)
    BY <1>3, MirrorValueSteps
  <2>2. Bridged' = Bridged
    BY <1>2, <2>1 DEF Bridged
  <2>3. BridgeAppends'
    BY <1>1, <2>1, <2>2, LogsStay
  <2>4. BridgeAlone' /\ BridgeBounds' /\ BridgeEnds'
    BY <1>1, <1>2, <2>1 DEF BridgeAlone, BridgeBounds, BridgeEnds, PassesSet
  <2> QED  BY <2>3, <2>4 DEF StoreInv
<1>4. CASE CopyRecords(a)
  <2>1. /\ PassesSet(a) /\ passes[a].at = "records"
        /\ passes'[a].at = "emit" /\ passes'[a].upTo = records
        /\ passes'[a].next = offsets.records + 1 /\ offsets'.records = offsets.records
        /\ UNCHANGED <<records, job, feed, written, reader>>
    BY <1>4, CopyRecordsSteps
  <2>2. Bridged' = Bridged /\ Bridged' = offsets.records
    BY <1>1, <1>2, <2>1 DEF Bridged
  <2>3. BridgeAppends'
    BY <1>1, <2>1, <2>2, LogsStay
  <2>4. BridgeAlone' /\ BridgeEnds'
    BY <1>1, <1>2, <2>1 DEF BridgeAlone, BridgeBounds, BridgeEnds, PassesSet
  <2>5. BridgeBounds'
    BY <1>1, <1>2, <2>1, <2>2 DEF BridgeBounds
  <2> QED  BY <2>3, <2>4, <2>5 DEF StoreInv
<1>5. CASE EmitRecord(a)
  <2>1. /\ PassesSet(a) /\ passes[a].at = "emit" /\ passes'[a].at = "emit"
        /\ passes[a].next \in Nat /\ passes[a].upTo \in Nat /\ passes[a].next <= passes[a].upTo
        /\ passes'[a].upTo = passes[a].upTo /\ passes'[a].next = passes[a].next + 1
        /\ Emits("log", passes[a].next)
        /\ UNCHANGED <<records, job, offsets, written, reader>>
    BY <1>5, EmitRecordSteps
  <2>2. /\ passes[a].next >= 1 /\ Bridged = passes[a].next - 1 /\ Bridged' = passes[a].next
        /\ Bridged \in Nat /\ Bridged' = Bridged + 1 /\ passes[a].next = Bridged + 1
        /\ Bridged' <= passes[a].upTo /\ offsets.records <= Bridged
    BY <1>1, <1>2, <2>1 DEF Bridged, BridgeBounds
  <2>3. Emits("log", Bridged + 1)
    BY <2>1, <2>2
  <2>4. BridgeAppends'
    BY <1>1, <2>2, <2>3, LogsGrow
  <2>5. BridgeAlone' /\ BridgeEnds'
    BY <1>1, <1>2, <2>1 DEF BridgeAlone, BridgeEnds, PassesSet
  <2>6. BridgeBounds'
    BY <1>1, <1>2, <2>1, <2>2 DEF BridgeBounds
  <2> QED  BY <2>4, <2>5, <2>6 DEF StoreInv
<1>6. CASE EndPass(a)
  <2>1. /\ PassesSet(a) /\ passes[a].at = "emit" /\ passes'[a].at = "none"
        /\ passes[a].next \in Nat /\ passes[a].upTo \in Nat /\ passes[a].next > passes[a].upTo
        /\ offsets'.records = passes[a].upTo
        /\ UNCHANGED <<records, job, feed, written, reader>>
    BY <1>6, EndPassSteps
  <2>2. Bridged' = Bridged
    BY <1>1, <1>2, <2>1 DEF Bridged, BridgeBounds
  <2>3. BridgeAppends'
    BY <1>1, <2>1, <2>2, LogsStay
  <2>4. BridgeAlone' /\ BridgeBounds' /\ BridgeEnds'
    BY <1>1, <1>2, <2>1 DEF BridgeAlone, BridgeBounds, BridgeEnds, PassesSet
  <2> QED  BY <2>3, <2>4 DEF StoreInv
<1> QED  BY <1>3, <1>4, <1>5, <1>6 DEF Pass

LEMMA StoreJob ==
  ASSUME FeedType, sink = "store", StoreInv,
         WriteRecord \/ WriteValue \/ RunProcess \/ EmitStatus \/ FinishProcess \/ RunReturns
  PROVE  StoreInv'
<1>1. /\ BridgeAlone /\ BridgeBounds /\ BridgeAppends /\ BridgeEnds
      /\ records \in Nat /\ offsets.records \in Nat /\ written \in Nat /\ "executor" \in Actors
  BY DEF StoreInv, FeedType, Actors
<1>2. CASE WriteRecord \/ WriteValue
  BY <1>1, <1>2, BridgeRests DEF WriteRecord, WriteValue, RecordsGrow
<1>3. CASE RunProcess
  <2>1. /\ PassesSet("executor") /\ passes'["executor"].at = "value"
        /\ job = "idle" /\ job' = "begun"
        /\ UNCHANGED <<records, offsets, feed, written, reader>>
    BY <1>1, <1>3, StartPassSteps DEF RunProcess
  <2>2. Bridged' = Bridged
    BY <1>1, <2>1 DEF Bridged, BridgeAlone
  <2>3. BridgeAppends'
    BY <1>1, <2>1, <2>2, LogsStay
  <2>4. BridgeAlone' /\ BridgeBounds' /\ BridgeEnds'
    BY <1>1, <2>1 DEF BridgeAlone, BridgeBounds, BridgeEnds, PassesSet
  <2> QED  BY <2>3, <2>4 DEF StoreInv
<1>4. CASE EmitStatus
  <2>1. /\ Emits("status", 0) /\ passes["executor"].at = "none" /\ job' = "started"
        /\ UNCHANGED <<records, offsets, passes, written, reader>>
    BY <1>1, <1>4, EmitsOne, PassAbsent DEF EmitStatus
  <2>2. Bridged' = Bridged
    BY <2>1 DEF Bridged
  <2>3. BridgeAppends'
    BY <1>1, <2>1, <2>2, LogsStay
  <2>4. BridgeAlone' /\ BridgeBounds' /\ BridgeEnds'
    BY <1>1, <2>1 DEF BridgeAlone, BridgeBounds, BridgeEnds
  <2> QED  BY <2>3, <2>4 DEF StoreInv
<1>5. CASE FinishProcess
  <2>1. /\ Emits("terminal", 0) /\ PassesSet("executor") /\ passes'["executor"].at = "value"
        /\ job = "started" /\ job' = "finished" /\ written' = records
        /\ UNCHANGED <<records, offsets, reader>>
    BY <1>1, <1>5, EmitsOne, StartPassSteps DEF FinishProcess
  <2>2. Bridged' = Bridged
    BY <1>1, <2>1 DEF Bridged, BridgeAlone
  <2>3. BridgeAppends'
    BY <1>1, <2>1, <2>2, LogsStay
  <2>4. BridgeAlone' /\ BridgeBounds' /\ BridgeEnds'
    BY <1>1, <2>1 DEF BridgeAlone, BridgeBounds, BridgeEnds, PassesSet
  <2> QED  BY <2>3, <2>4 DEF StoreInv
<1>6. CASE RunReturns
  <2>1. /\ passes["executor"].at = "none" /\ job = "finished" /\ job' \in {"idle", "ended"}
        /\ UNCHANGED <<records, offsets, passes, feed, written, reader>>
    BY <1>1, <1>6, PassAbsent DEF RunReturns
  <2>2. Bridged' = Bridged
    BY <2>1 DEF Bridged
  <2>3. BridgeAppends'
    BY <1>1, <2>1, <2>2, LogsStay
  <2>4. BridgeAlone' /\ BridgeBounds' /\ BridgeEnds'
    BY <1>1, <2>1, <2>2 DEF BridgeAlone, BridgeBounds, BridgeEnds
  <2> QED  BY <2>3, <2>4 DEF StoreInv
<1> QED  BY <1>2, <1>3, <1>4, <1>5, <1>6

\* Its readers only read.
LEMMA StoreReader ==
  ASSUME FeedType, sink = "store", StoreInv,
         ReaderLists \/ ReaderYields \/ ReaderGoesOn \/ ReaderTrails \/ Reconnect
  PROVE  StoreInv'
<1>1. reader \in Readers /\ records \in Nat
  BY DEF FeedType
<1>2. UNCHANGED <<records, passes, offsets, feed, job, written>>
  BY DEF ReaderLists, ReaderYields, ReaderGoesOn, ReaderTrails, Reconnect
<1>3. RecordsGrow
  BY <1>1, <1>2 DEF RecordsGrow
<1>4. reader'.via = reader.via
  BY <1>1 DEF ReaderLists, ReaderYields, ReaderGoesOn, ReaderTrails, Reconnect, Read, Readers
<1> QED  BY <1>2, <1>3, <1>4, BridgeRests

-----------------------------------------------------------------------------
(* The theorems.                                                            *)

LEMMA FeedInit == Init => FeedInv
<1> SUFFICES ASSUME Init PROVE FeedInv
  OBVIOUS
<1>1. /\ sink \in {"buffer", "store"} /\ job = IF sink = "buffer" THEN "running" ELSE "idle"
      /\ run = 1 /\ records = 0 /\ value = 0 /\ offsets = NewOffsets
      /\ passes = [a \in Actors |-> NoPass] /\ feed = <<>> /\ nextId = 1 /\ written = 0
  BY FeedsAssumption DEF Init
<1>2. PICK via \in IF sink = "buffer" THEN {"live"} ELSE {"store", "jsonl"} : reader = NewReader(via)
  BY DEF Init
<1>3. /\ reader.via = via /\ reader.at = "wait" /\ reader.last = NoId /\ reader.batch = {}
      /\ reader.loaded = 0 /\ reader.got = <<>> /\ reader \in Readers
  BY <1>1, <1>2 DEF NewReader, Readers, NoId
<1>4. offsets.records = 0 /\ offsets.value = 0 /\ offsets \in [records: Nat, value: Nat]
  BY <1>1 DEF NewOffsets
<1>5. passes \in [Actors -> Passes] /\ \A a \in Actors : passes[a].at = "none"
  BY <1>1 DEF NoPass, Passes
<1>6. Len(feed) = 0 /\ feed \in Seq(Events) /\ DOMAIN feed = {}
  BY <1>1
<1>7. FeedType
  BY <1>1, <1>3, <1>4, <1>5, <1>6 DEF FeedType
<1>8. ASSUME sink = "buffer" PROVE BufferInv
  <2>1. Numbered
    BY <1>1, <1>6 DEF Numbered
  <2>2. PassesEmit
    BY <1>1, <1>4, <1>5 DEF PassesEmit, Emitted, EmittedIn
  <2>3. ReaderFollows
    <3>1. Len(reader.got) = 0 /\ reader.got = [i \in 1..0 |-> i]
      BY <1>3
    <3> QED  BY <1>2, <1>3, <1>6, <1>8, <3>1 DEF ReaderFollows
  <2>4. ReaderEnds /\ TrailingPass
    BY <1>1, <1>3, <1>6, <1>8 DEF ReaderEnds, TrailingPass
  <2> QED  BY <2>1, <2>2, <2>3, <2>4 DEF BufferInv
<1>9. ASSUME sink = "store" PROVE StoreInv
  <2>1. BridgeAlone
    BY <1>1, <1>2, <1>3, <1>5, <1>9 DEF BridgeAlone, Actors
  <2>2. passes["executor"].at = "none"
    BY <1>5 DEF Actors
  <2>3. BridgeBounds /\ BridgeEnds
    BY <1>1, <1>4, <1>9, <2>2 DEF BridgeBounds, BridgeEnds
  <2>4. Logged = {} /\ 1..Bridged = {}
    BY <1>4, <1>6, <2>2 DEF Logged, Bridged
  <2>5. BridgeAppends
    BY <2>4 DEF BridgeAppends
  <2> QED  BY <2>1, <2>3, <2>5 DEF StoreInv
<1> QED  BY <1>7, <1>8, <1>9 DEF FeedInv

LEMMA FeedStep == FeedInv /\ [Next]_vars => FeedInv'
<1> SUFFICES ASSUME FeedInv, [Next]_vars PROVE FeedInv'
  OBVIOUS
<1>1. FeedType /\ FeedType' /\ FeedKept
  BY FeedTypeStep DEF FeedInv
<1>2. sink' = sink
  <2>1. \A a \in Actors : Pass(a) => sink' = sink
    BY DEF Pass, MirrorValue, CopyRecords, EmitRecord, EndPass
  <2> QED  BY <2>1 DEF Next, vars, MirrorAgain, WriteRecord, WriteValue, EndJob, Restart, RunProcess,
              EmitStatus, FinishProcess, RunReturns, ReaderMirrors, ReaderLists, ReaderYields,
              ReaderGoesOn, ReaderTrails, Reconnect
<1>3. CASE UNCHANGED vars
  <2>1. BufferInv => BufferInv'
    BY <1>3 DEF vars, BufferInv, Numbered, PassesEmit, ReaderFollows, ReaderEnds, TrailingPass,
                Emitted, EmittedIn
  <2>2. StoreInv => StoreInv'
    BY <1>3 DEF vars, StoreInv, BridgeAlone, BridgeBounds, BridgeAppends, BridgeEnds, Bridged, Logged
  <2> QED  BY <1>1, <1>2, <2>1, <2>2 DEF FeedInv
<1>4. ASSUME Next, sink = "buffer" PROVE BufferInv'
  <2>1. BufferInv
    BY <1>4 DEF FeedInv
  <2>2. ~(RunProcess \/ EmitStatus \/ FinishProcess \/ RunReturns)
    BY <1>4 DEF RunProcess, EmitStatus, FinishProcess, RunReturns
  <2>3. (\E a \in Actors : Pass(a)) => BufferInv'
    BY <1>1, <1>4, <2>1, BufferPass
  <2>4. MirrorAgain \/ WriteRecord \/ WriteValue \/ EndJob \/ Restart => BufferInv'
    BY <1>1, <1>4, <2>1, BufferJob
  <2>5. \/ ReaderMirrors \/ ReaderLists \/ ReaderYields \/ ReaderGoesOn \/ ReaderTrails
        \/ Reconnect
        => BufferInv'
    BY <1>1, <1>4, <2>1, BufferReader
  <2> QED  BY <1>4, <2>2, <2>3, <2>4, <2>5 DEF Next
<1>5. ASSUME Next, sink = "store" PROVE StoreInv'
  <2>1. StoreInv
    BY <1>5 DEF FeedInv
  <2>2. ~(MirrorAgain \/ EndJob \/ Restart \/ ReaderMirrors)
    BY <1>5, <2>1 DEF MirrorAgain, EndJob, Restart, ReaderMirrors, StoreInv, BridgeAlone
  <2>3. (\E a \in Actors : Pass(a)) => StoreInv'
    BY <1>1, <1>5, <2>1, StorePass
  <2>4. WriteRecord \/ WriteValue \/ RunProcess \/ EmitStatus \/ FinishProcess \/ RunReturns
        => StoreInv'
    BY <1>1, <1>5, <2>1, StoreJob
  <2>5. ReaderLists \/ ReaderYields \/ ReaderGoesOn \/ ReaderTrails \/ Reconnect => StoreInv'
    BY <1>1, <1>5, <2>1, StoreReader
  <2> QED  BY <1>5, <2>2, <2>3, <2>4, <2>5 DEF Next
<1> QED  BY <1>1, <1>2, <1>3, <1>4, <1>5 DEF FeedInv

LEMMA FeedInvariant == Spec => []FeedInv
BY FeedInit, FeedStep, PTL DEF Spec

\* The reader of a buffer is given the events of its file, each once and in
\* order, through the passes of the mirror thread and its own, reconnections
\* (stream.py stream_runtime_events) and loads of the file after a death of the
\* back end (event_buffer.py load_from_file).
THEOREM ReaderIsGivenTheFeed == Spec => []ReaderSeesFeed
<1>1. FeedInv => ReaderSeesFeed
  BY DEF FeedInv, BufferInv, ReaderFollows, ReaderSeesFeed
<1> QED  BY <1>1, FeedInvariant, PTL

\* A reader of a buffer that has got to the end has every record that the job
\* had written when its terminal event was emitted; and the manager bridge
\* appends each record once and in order, those of a process by the end of its
\* call.
THEOREM FeedsAreComplete == Spec => []CompleteAtTheEnd
<1>1. FeedInv => CompleteAtTheEnd
  <2> SUFFICES ASSUME FeedInv PROVE ReaderGotAll /\ BridgedOnce
    BY DEF CompleteAtTheEnd
  <2>1. FeedType /\ (sink = "buffer" => BufferInv) /\ (sink = "store" => StoreInv)
        /\ sink \in {"buffer", "store"}
    BY DEF FeedInv, FeedType
  <2>2. ReaderGotAll
    <3> SUFFICES ASSUME reader.via = "live", reader.at = "ended", NEW n \in 1..written
                 PROVE  \E i \in DOMAIN reader.got :
                          /\ feed[reader.got[i]].kind = "log"
                          /\ feed[reader.got[i]].run = run /\ feed[reader.got[i]].n = n
      BY DEF ReaderGotAll
    <3>1. sink = "buffer"
      BY <2>1 DEF StoreInv, BridgeAlone
    <3>2. /\ EmittedIn(Len(reader.got), written)
          /\ reader.got = [i \in 1..Len(reader.got) |-> i]
      BY <2>1, <3>1 DEF BufferInv, ReaderEnds, ReaderFollows
    <3>3. PICK i \in 1..Len(reader.got) : feed[i].kind = "log" /\ feed[i].run = run /\ feed[i].n = n
      BY <3>2 DEF EmittedIn
    <3>4. i \in DOMAIN reader.got /\ reader.got[i] = i
      BY <3>2, <3>3
    <3> QED  BY <3>3, <3>4
  <2>3. BridgedOnce
    <3> SUFFICES ASSUME sink = "store", ~InPass("executor")
                 PROVE  /\ {feed[i].n : i \in Logged} = 1..offsets.records
                        /\ \A i, j \in Logged : i < j => feed[i].n < feed[j].n
                        /\ job = "ended" => offsets.records >= written
      BY DEF BridgedOnce
    <3>1. StoreInv /\ passes["executor"].at = "none"
      BY <2>1, PassAbsent DEF Actors
    <3>2. Bridged = offsets.records
      BY <3>1 DEF Bridged
    <3> QED  BY <3>1, <3>2 DEF StoreInv, BridgeAppends, BridgeEnds
  <2> QED  BY <2>2, <2>3
<1> QED  BY <1>1, FeedInvariant, PTL

-----------------------------------------------------------------------------
(* What a job writes on its way into the managers: the inductive invariant   *)
(* of Collectors.                                                           *)

Ops == {"append", "register", "set", "increment", "update"}

Messages == {Stop} \cup [op: Ops, from: Writers, task: Tasks, n: Nat]

CollectorsType ==
  /\ manager \in Collecting \cup {"progress", "signals"}
  /\ kept \in Seq(Messages)
  /\ counts \in [Tasks -> Int]
  /\ queue \in [AllChannels -> Seq(Messages)]
  /\ link \in [Workers -> AllChannels \cup {"none", "detached"}]
  /\ cache \in [Workers -> [Tasks -> Int]]
  /\ writes \in [Writers -> Nat]
  /\ made \in Nat

\* What a worker sends to each of the managers.
FitsManager(m) ==
  /\ manager \in Collecting => m.op = "append"
  /\ manager = "progress" =>
       \/ m.op = "increment" /\ m.task = Shared /\ m.n = 1
       \/ m.op \in {"register", "set"} /\ m.task = m.from
  /\ manager = "signals" => m.op = "update" /\ m.task = Shared /\ m.n = 1

\* The places of the messages of a worker, and their numbers.
Own(s, w) == {i \in 1..Len(s) : s[i] # Stop /\ s[i].from = w}
Numbers(s, w) == {s[i].n : i \in Own(s, w)}

\* A message is in the queue its sender is attached to.
SentOver(c, m) == m # Stop => m.from \in Workers /\ link[m.from] = c /\ FitsManager(m)

InItsQueue == \A c \in AllChannels : \A i \in 1..Len(queue[c]) : SentOver(c, queue[c][i])

\* What is kept of a worker came from an attached one.
KeptFromAttached ==
  \A w \in Workers : w \notin Attached => Own(kept, w) = {}

Increasing(s, w) == \A i, j \in Own(s, w) : i < j => s[i].n < s[j].n

\* RecordsInOrder, of the records kept and those of one queue.
Ordered(stored, messages, w, top) ==
  /\ Increasing(stored, w) /\ Increasing(messages, w)
  /\ \A m \in Numbers(stored, w), n \in Numbers(messages, w) : m < n
  /\ \A n \in Numbers(stored, w) \cup Numbers(messages, w) :
       n <= top /\ n..top \subseteq Numbers(stored, w) \cup Numbers(messages, w)

AllOrdered ==
  manager \in Collecting => \A w \in Attached : Ordered(kept, queue[link[w]], w, writes[w])

CollectorsInv == CollectorsType /\ InItsQueue /\ KeptFromAttached /\ AllOrdered /\ CountsAddUp

-----------------------------------------------------------------------------
(* What a message does to the counts.                                       *)

Counting == {"register", "set", "increment", "update"}

\* The messages that count.
CountMessages == {Stop} \cup [op: Counting, from: Writers, task: Tasks, n: Nat]

LEMMA StopIsNoMessage ==
  ASSUME NEW S, NEW T, NEW U, NEW V, "stop" \notin S
  PROVE  \A m \in [op: S, from: T, task: U, n: V] : m # Stop
<1> TAKE m \in [op: S, from: T, task: U, n: V]
<1>1. m.op \in S /\ Stop.op = "stop"
  BY DEF Stop
<1> QED  BY <1>1

\* Of one task only.
Changed(x, m) ==
  CASE m.op = "register" -> 0
    [] m.op = "set" -> IF x = Absent THEN x ELSE m.n
    [] m.op = "increment" -> IF x = Absent THEN x ELSE x + m.n
    [] m.op = "update" -> IF x = Absent THEN 1 ELSE x + 1

LEMMA ChangedType ==
  ASSUME NEW x \in Int, NEW m \in CountMessages, m # Stop
  PROVE  Changed(x, m) \in Int /\ m.task \in Tasks /\ m.op \in Counting
<1>1. m.op \in Counting /\ m.n \in Nat /\ m.task \in Tasks
  BY DEF CountMessages
<1> QED  BY <1>1 DEF Counting, Changed, Absent

LEMMA UpdatedOne ==
  ASSUME NEW tasks \in [Tasks -> Int], NEW m \in CountMessages, m # Stop
  PROVE  /\ Updated(tasks, m) = [tasks EXCEPT ![m.task] = Changed(tasks[m.task], m)]
         /\ Updated(tasks, m) \in [Tasks -> Int]
<1>1. m.op \in Counting /\ m.n \in Nat /\ m.task \in Tasks
  BY DEF CountMessages
<1>2. Updated(tasks, m) = [tasks EXCEPT ![m.task] = Changed(tasks[m.task], m)]
  <2>1. CASE m.op = "register"
    BY <2>1, <1>1 DEF Updated, Counted, Registered, Changed
  <2>2. CASE m.op = "set"
    BY <2>2, <1>1 DEF Updated, Counted, SetTo, Changed
  <2>3. CASE m.op = "increment"
    BY <2>3, <1>1 DEF Updated, Counted, Incremented, Changed
  <2>4. CASE m.op = "update"
    BY <2>4, <1>1 DEF Updated, Versioned, Changed
  <2> QED  BY <1>1, <2>1, <2>2, <2>3, <2>4 DEF Counting
<1>3. Changed(tasks[m.task], m) \in Int
  BY <1>1, ChangedType
<1> QED  BY <1>1, <1>2, <1>3

LEMMA TakenType ==
  ASSUME NEW tasks \in [Tasks -> Int], NEW m \in CountMessages
  PROVE  Taken(tasks, m) \in [Tasks -> Int]
BY UpdatedOne DEF Taken

\* The equation of the function in After.
AfterEquation(f, tasks, messages) ==
  f = [i \in 0..Len(messages) |-> IF i = 0 THEN tasks ELSE Taken(f[i - 1], messages[i])]

LEMMA AfterUnfolds ==
  ASSUME NEW tasks \in [Tasks -> Int], NEW messages \in Seq(CountMessages)
  PROVE  \E f \in [0..Len(messages) -> [Tasks -> Int]] :
           /\ After(tasks, messages) = f[Len(messages)]
           /\ f[0] = tasks
           /\ \A i \in 1..Len(messages) : f[i] = Taken(f[i - 1], messages[i])
<1> DEFINE L == Len(messages)
           step == [i \in 1..L |-> [x \in [Tasks -> Int] |-> Taken(x, messages[i])]]
<1>1. L \in Nat /\ \A i \in 1..L : messages[i] \in CountMessages
  OBVIOUS
<1>2. step \in [1..L -> [[Tasks -> Int] -> [Tasks -> Int]]]
  BY <1>1, TakenType
<1>3. \A i \in 1..L : \A x \in [Tasks -> Int] : step[i][x] = Taken(x, messages[i])
  OBVIOUS
<1> HIDE DEF step
<1>4. PICK f \in [0..L -> [Tasks -> Int]] : Iterates(f, L, tasks, step)
  BY <1>1, <1>2, RecursionUpTo
<1>5. f[0] = tasks /\ \A i \in 1..L : f[i] = step[i][f[i - 1]]
  BY <1>4 DEF Iterates
<1>6. \A i \in 1..L : f[i] = Taken(f[i - 1], messages[i])
  <2> TAKE i \in 1..L
  <2>1. i - 1 \in 0..L
    BY <1>1
  <2> QED  BY <2>1, <1>3, <1>5
<1>7. AfterEquation(f, tasks, messages)
  <2>1. \A i \in 0..L : f[i] = IF i = 0 THEN tasks ELSE Taken(f[i - 1], messages[i])
    BY <1>1, <1>5, <1>6
  <2> QED  BY <2>1 DEF AfterEquation
<1> DEFINE g == CHOOSE g : AfterEquation(g, tasks, messages)
<1>8. AfterEquation(g, tasks, messages) /\ After(tasks, messages) = g[L]
  <2>1. AfterEquation(g, tasks, messages)
    BY <1>7
  <2>2. After(tasks, messages) = g[L]
    BY Zenon DEF After, AfterEquation
  <2> QED  BY <2>1, <2>2
<1> HIDE DEF g
<1>9. /\ DOMAIN g = 0..L
      /\ \A i \in 0..L : g[i] = IF i = 0 THEN tasks ELSE Taken(g[i - 1], messages[i])
  BY <1>8 DEF AfterEquation
<1>10. g[0] = tasks /\ \A i \in 1..L : g[i] = Taken(g[i - 1], messages[i])
  BY <1>1, <1>9
<1> DEFINE same == {i \in 0..L : g[i] = f[i]}
<1>11. 0..L \subseteq same
  <2>1. 0 \in same
    BY <1>1, <1>5, <1>10
  <2>2. ASSUME NEW i \in 0..L, i < L, i \in same PROVE i + 1 \in same
    <3>1. i + 1 \in 1..L /\ (i + 1) - 1 = i
      BY <1>1, <2>2
    <3> QED  BY <3>1, <1>6, <1>10, <2>2
  <2> HIDE DEF same
  <2> QED  BY <1>1, <2>1, <2>2, InductionUpTo
<1>12. g[L] = f[L]
  BY <1>1, <1>11
<1> QED  BY <1>5, <1>6, <1>8, <1>12
\* Whatever has its values made so ends with the counts after the messages.
LEMMA AfterIs ==
  ASSUME NEW tasks \in [Tasks -> Int], NEW messages \in Seq(CountMessages),
         NEW f, f[0] = tasks,
         \A i \in 1..Len(messages) : f[i] = Taken(f[i - 1], messages[i])
  PROVE  After(tasks, messages) = f[Len(messages)] /\ f[Len(messages)] \in [Tasks -> Int]
<1> DEFINE L == Len(messages)
<1>1. L \in Nat
  OBVIOUS
<1>2. PICK g \in [0..L -> [Tasks -> Int]] :
        /\ After(tasks, messages) = g[L]
        /\ g[0] = tasks
        /\ \A i \in 1..L : g[i] = Taken(g[i - 1], messages[i])
  BY AfterUnfolds
<1>3. \A i \in 1..L : f[i] = Taken(f[i - 1], messages[i])
  OBVIOUS
<1> HIDE DEF L
<1> DEFINE same == {i \in 0..L : g[i] = f[i]}
<1>4. 0 \in same
  BY <1>1, <1>2
<1>5. ASSUME NEW i \in 0..L, i < L, i \in same PROVE i + 1 \in same
  <2>1. i + 1 \in 1..L /\ (i + 1) - 1 = i
    BY <1>1, <1>5
  <2> QED  BY <2>1, <1>2, <1>3, <1>5
<1> HIDE DEF same
<1>6. 0..L \subseteq same
  BY <1>1, <1>4, <1>5, InductionUpTo
<1>7. g[L] = f[L] /\ g[L] \in [Tasks -> Int]
  BY <1>1, <1>2, <1>6 DEF same
<1> QED  BY <1>2, <1>7 DEF L

LEMMA AfterType ==
  ASSUME NEW tasks \in [Tasks -> Int], NEW messages \in Seq(CountMessages)
  PROVE  After(tasks, messages) \in [Tasks -> Int]
<1>1. PICK f \in [0..Len(messages) -> [Tasks -> Int]] :
        After(tasks, messages) = f[Len(messages)]
  BY AfterUnfolds
<1> QED  BY <1>1

\* One more message.
LEMMA AfterAppend ==
  ASSUME NEW tasks \in [Tasks -> Int], NEW messages \in Seq(CountMessages),
         NEW m \in CountMessages
  PROVE  After(tasks, Append(messages, m)) = Taken(After(tasks, messages), m)
<1> DEFINE L == Len(messages)
           more == Append(messages, m)
<1>1. L \in Nat
  OBVIOUS
<1>2. PICK f \in [0..L -> [Tasks -> Int]] :
        /\ After(tasks, messages) = f[L]
        /\ f[0] = tasks
        /\ \A i \in 1..L : f[i] = Taken(f[i - 1], messages[i])
  BY AfterUnfolds
<1>3. /\ more \in Seq(CountMessages) /\ Len(more) = L + 1 /\ more[L + 1] = m
      /\ \A i \in 1..L : more[i] = messages[i]
  OBVIOUS
<1> HIDE DEF L, more
<1> DEFINE g == [i \in 0..(L + 1) |-> IF i = L + 1 THEN Taken(f[L], m) ELSE f[i]]
<1>4. g[0] = tasks /\ g[L + 1] = Taken(f[L], m) /\ \A i \in 0..L : g[i] = f[i]
  BY <1>1, <1>2
<1> HIDE DEF g
<1>5. \A i \in 1..(L + 1) : g[i] = Taken(g[i - 1], more[i])
  <2> TAKE i \in 1..(L + 1)
  <2>1. CASE i = L + 1
    BY <1>1, <1>3, <1>4, <2>1
  <2>2. CASE i # L + 1
    <3>1. i \in 1..L /\ i \in 0..L /\ i - 1 \in 0..L
      BY <1>1, <2>2
    <3> QED  BY <3>1, <1>2, <1>3, <1>4
  <2> QED  BY <2>1, <2>2
<1>6. After(tasks, more) = g[L + 1]
  <2>1. \A i \in 1..Len(more) : g[i] = Taken(g[i - 1], more[i])
    BY <1>3, <1>5
  <2>2. more \in Seq(CountMessages) /\ g[0] = tasks
    BY <1>3, <1>4
  <2>3. After(tasks, more) = g[Len(more)]
    BY <2>1, <2>2, AfterIs
  <2> QED  BY <1>3, <2>3
<1> QED  BY <1>2, <1>4, <1>6 DEF more

\* The first message comes first.
LEMMA AfterFirst ==
  ASSUME NEW tasks \in [Tasks -> Int], NEW messages \in Seq(CountMessages), messages # <<>>
  PROVE  After(tasks, messages) = After(Taken(tasks, Head(messages)), Tail(messages))
<1> DEFINE L == Len(messages)
           rest == Tail(messages)
           first == Taken(tasks, Head(messages))
<1>1. L \in Nat /\ L > 0 /\ Head(messages) = messages[1] /\ messages[1] \in CountMessages
  OBVIOUS
<1>2. /\ rest \in Seq(CountMessages) /\ Len(rest) = L - 1
      /\ \A i \in 1..(L - 1) : rest[i] = messages[i + 1]
  OBVIOUS
<1>3. first \in [Tasks -> Int]
  BY <1>1, TakenType
<1>4. PICK f \in [0..L -> [Tasks -> Int]] :
        /\ After(tasks, messages) = f[L]
        /\ f[0] = tasks
        /\ \A i \in 1..L : f[i] = Taken(f[i - 1], messages[i])
  BY AfterUnfolds
<1> HIDE DEF L, rest
<1>5. first = Taken(tasks, messages[1])
  BY <1>1
<1> HIDE DEF first
<1> DEFINE g == [i \in 0..(L - 1) |-> f[i + 1]]
<1>6. g[0] = first
  <2>1. 1 \in 1..L /\ 1 - 1 = 0
    BY <1>1
  <2> QED  BY <1>1, <1>4, <1>5, <2>1
<1>7. \A i \in 1..(L - 1) : g[i] = Taken(g[i - 1], rest[i])
  <2> TAKE i \in 1..(L - 1)
  <2>1. /\ i + 1 \in 1..L /\ (i + 1) - 1 = i /\ (i - 1) + 1 = i
        /\ i \in 0..(L - 1) /\ i - 1 \in 0..(L - 1)
    BY <1>1
  <2>2. g[i] = f[i + 1] /\ g[i - 1] = f[i]
    BY <2>1
  <2> QED  BY <2>1, <2>2, <1>2, <1>4
<1>8. g[L - 1] = f[L]
  BY <1>1
<1> HIDE DEF g
<1>9. After(first, rest) = g[L - 1]
  <2>1. \A i \in 1..Len(rest) : g[i] = Taken(g[i - 1], rest[i])
    BY <1>2, <1>7
  <2>2. rest \in Seq(CountMessages) /\ g[0] = first /\ first \in [Tasks -> Int]
    BY <1>2, <1>3, <1>6 DEF first
  <2>3. After(first, rest) = g[Len(rest)]
    BY <2>1, <2>2, AfterIs
  <2> QED  BY <1>2, <2>3
<1> QED  BY <1>4, <1>8, <1>9 DEF first, rest

\* Messages about other tasks leave the count of a task alone.
LEMMA AfterLeaves ==
  ASSUME NEW tasks \in [Tasks -> Int], NEW messages \in Seq(CountMessages), NEW t \in Tasks,
         \A i \in 1..Len(messages) : messages[i] # Stop => messages[i].task # t
  PROVE  After(tasks, messages)[t] = tasks[t]
<1> DEFINE L == Len(messages)
<1>1. L \in Nat /\ \A i \in 1..L : messages[i] \in CountMessages
  OBVIOUS
<1>2. PICK f \in [0..L -> [Tasks -> Int]] :
        /\ After(tasks, messages) = f[L]
        /\ f[0] = tasks
        /\ \A i \in 1..L : f[i] = Taken(f[i - 1], messages[i])
  BY AfterUnfolds
<1>3. \A i \in 1..L : messages[i] # Stop => messages[i].task # t
  OBVIOUS
<1> HIDE DEF L
<1> DEFINE left == {i \in 0..L : f[i][t] = tasks[t]}
<1>4. 0 \in left
  BY <1>1, <1>2
<1>5. ASSUME NEW i \in 0..L, i < L, i \in left PROVE i + 1 \in left
  <2>1. i + 1 \in 1..L /\ (i + 1) - 1 = i
    BY <1>1, <1>5
  <2>2. f[i + 1] = Taken(f[i], messages[i + 1]) /\ f[i] \in [Tasks -> Int]
    BY <2>1, <1>2, <1>5
  <2>3. f[i + 1][t] = f[i][t]
    <3>1. CASE messages[i + 1] = Stop
      BY <2>2, <3>1 DEF Taken
    <3>2. CASE messages[i + 1] # Stop
      <4>1. messages[i + 1] \in CountMessages /\ messages[i + 1].task # t
        BY <1>1, <1>3, <2>1, <3>2
      <4>2. Updated(f[i], messages[i + 1])[t] = f[i][t]
        <5> DEFINE m == messages[i + 1]
        <5>1. m \in CountMessages /\ m # Stop /\ m.task # t
          BY <3>2, <4>1
        <5> HIDE DEF m
        <5>2. Updated(f[i], m) = [f[i] EXCEPT ![m.task] = Changed(f[i][m.task], m)]
          BY <2>2, <5>1, UpdatedOne
        <5>3. Updated(f[i], m)[t] = f[i][t]
          BY <2>2, <5>1, <5>2
        <5> QED  BY <5>3 DEF m
      <4> QED  BY <2>2, <3>2, <4>2 DEF Taken
    <3> QED  BY <3>1, <3>2
  <2> QED  BY <2>1, <2>3, <1>5
<1> HIDE DEF left
<1>6. 0..L \subseteq left
  BY <1>1, <1>4, <1>5, InductionUpTo
<1> QED  BY <1>1, <1>2, <1>6 DEF left

\* Two messages that may come in either order: of different tasks, or the same.
Commute(m, n) ==
  \/ m = Stop
  \/ m.task # n.task
  \/ m.op = n.op /\ m.task = n.task /\ m.n = n.n

LEMMA EitherOrder ==
  ASSUME NEW tasks \in [Tasks -> Int],
         NEW m \in CountMessages, NEW n \in CountMessages, n # Stop, Commute(m, n)
  PROVE  Taken(Updated(tasks, n), m) = Updated(Taken(tasks, m), n)
<1>1. CASE m = Stop
  BY <1>1 DEF Taken
<1>2. CASE m # Stop
  <2> DEFINE x == Changed(tasks[m.task], m)
             y == Changed(tasks[n.task], n)
  <2>1. m.task \in Tasks /\ n.task \in Tasks
    BY <1>2, UpdatedOne DEF CountMessages
  <2>2. x \in Int /\ y \in Int
    BY <1>2, <2>1, ChangedType
  <2>3. /\ Updated(tasks, m) = [tasks EXCEPT ![m.task] = x]
        /\ Updated(tasks, m) \in [Tasks -> Int]
        /\ Updated(tasks, n) = [tasks EXCEPT ![n.task] = y]
        /\ Updated(tasks, n) \in [Tasks -> Int]
    BY <1>2, UpdatedOne
  <2>4. /\ Updated(Updated(tasks, n), m)
             = [Updated(tasks, n) EXCEPT ![m.task] = Changed(Updated(tasks, n)[m.task], m)]
        /\ Updated(Updated(tasks, m), n)
             = [Updated(tasks, m) EXCEPT ![n.task] = Changed(Updated(tasks, m)[n.task], n)]
    BY <1>2, <2>3, UpdatedOne
  <2>5. CASE m.task # n.task
    <3>1. Updated(tasks, n)[m.task] = tasks[m.task] /\ Updated(tasks, m)[n.task] = tasks[n.task]
      BY <2>1, <2>3, <2>5
    <3> HIDE DEF x, y
    <3>2. [[tasks EXCEPT ![n.task] = y] EXCEPT ![m.task] = x]
            = [[tasks EXCEPT ![m.task] = x] EXCEPT ![n.task] = y]
      BY <2>1, <2>2, <2>5
    <3> QED  BY <1>2, <2>3, <2>4, <3>1, <3>2 DEF Taken, x, y
  <2>6. CASE m.op = n.op /\ m.task = n.task /\ m.n = n.n
    <3>1. \A z : Changed(z, m) = Changed(z, n)
      BY <2>6 DEF Changed
    <3>2. Updated(tasks, n) = Updated(tasks, m)
      BY <2>3, <2>6, <3>1
    <3> QED  BY <1>2, <2>4, <2>6, <3>1, <3>2 DEF Taken
  <2> QED  BY <1>2, <2>5, <2>6 DEF Commute
<1> QED  BY <1>1, <1>2

\* A message that commutes with all of a queue may come before them or after.
LEMMA AfterCommutes ==
  ASSUME NEW tasks \in [Tasks -> Int], NEW messages \in Seq(CountMessages),
         NEW n \in CountMessages, n # Stop,
         \A i \in 1..Len(messages) : Commute(messages[i], n)
  PROVE  After(Updated(tasks, n), messages) = Updated(After(tasks, messages), n)
<1> DEFINE L == Len(messages)
<1>1. L \in Nat /\ \A i \in 1..L : messages[i] \in CountMessages
  OBVIOUS
<1>2. PICK f \in [0..L -> [Tasks -> Int]] :
        /\ After(tasks, messages) = f[L]
        /\ f[0] = tasks
        /\ \A i \in 1..L : f[i] = Taken(f[i - 1], messages[i])
  BY AfterUnfolds
<1>3. \A i \in 1..L : Commute(messages[i], n)
  OBVIOUS
<1>4. Updated(tasks, n) \in [Tasks -> Int]
  BY UpdatedOne
<1> HIDE DEF L
<1> DEFINE g == [i \in 0..L |-> Updated(f[i], n)]
<1>5. g[0] = Updated(tasks, n) /\ g[L] = Updated(f[L], n)
  BY <1>1, <1>2
<1>6. \A i \in 1..L : g[i] = Taken(g[i - 1], messages[i])
  <2> TAKE i \in 1..L
  <2>1. i \in 0..L /\ i - 1 \in 0..L
    BY <1>1
  <2>2. f[i - 1] \in [Tasks -> Int] /\ f[i] = Taken(f[i - 1], messages[i])
    BY <2>1, <1>2
  <2>3. Taken(Updated(f[i - 1], n), messages[i]) = Updated(Taken(f[i - 1], messages[i]), n)
    BY <1>1, <1>3, <2>2, EitherOrder
  <2> QED  BY <2>1, <2>2, <2>3
<1> HIDE DEF g
<1>7. After(Updated(tasks, n), messages) = g[L]
  BY <1>4, <1>5, <1>6, AfterIs DEF L
<1> QED  BY <1>2, <1>5, <1>7
-----------------------------------------------------------------------------
(* Records in order.                                                        *)

IsOwn(m, w) == m # Stop /\ m.from = w

LEMMA NumbersAreNumbers ==
  ASSUME NEW s \in Seq(Messages), NEW w
  PROVE  Numbers(s, w) \subseteq Nat /\ \A i \in Own(s, w) : s[i].n \in Nat
<1>1. \A i \in 1..Len(s) : s[i] \in Messages
  OBVIOUS
<1>2. \A m \in Messages : m # Stop => m.n \in Nat
  BY DEF Messages
<1>3. \A i \in Own(s, w) : s[i].n \in Nat
  BY <1>1, <1>2 DEF Own
<1> QED  BY <1>3 DEF Numbers

\* One more message, later than all others of its sender.
LEMMA AppendOwn ==
  ASSUME NEW s \in Seq(Messages), NEW m \in Messages, NEW w
  PROVE  /\ Append(s, m) \in Seq(Messages)
         /\ Numbers(Append(s, m), w) = IF IsOwn(m, w) THEN Numbers(s, w) \cup {m.n} ELSE Numbers(s, w)
         /\ Increasing(s, w) /\ (IsOwn(m, w) => \A n \in Numbers(s, w) : n < m.n)
              => Increasing(Append(s, m), w)
         /\ Own(s, w) = {} /\ ~IsOwn(m, w) => Own(Append(s, m), w) = {}
<1> DEFINE t == Append(s, m)
           L == Len(s)
<1>1. /\ t \in Seq(Messages) /\ L \in Nat /\ Len(t) = L + 1 /\ t[L + 1] = m
      /\ \A i \in 1..L : t[i] = s[i]
  OBVIOUS
<1>2. /\ \A i \in Own(s, w) : i \in 1..L /\ t[i] = s[i]
      /\ Own(t, w) = Own(s, w) \cup {i \in {L + 1} : IsOwn(m, w)}
  <2> HIDE DEF t
  <2>1. \A i \in Own(s, w) : i \in 1..L /\ t[i] = s[i]
    BY <1>1 DEF Own
  <2>2. ASSUME NEW i \in Own(t, w) PROVE i \in Own(s, w) \cup {j \in {L + 1} : IsOwn(m, w)}
    <3>1. i \in 1..(L + 1) /\ t[i] # Stop /\ t[i].from = w
      BY <1>1, <2>2 DEF Own
    <3>2. CASE i = L + 1
      BY <1>1, <3>1, <3>2 DEF IsOwn
    <3>3. CASE i # L + 1
      BY <1>1, <3>1, <3>3 DEF Own
    <3> QED  BY <3>2, <3>3
  <2>3. ASSUME NEW i \in Own(s, w) \cup {j \in {L + 1} : IsOwn(m, w)} PROVE i \in Own(t, w)
    <3>1. CASE i \in Own(s, w)
      BY <1>1, <3>1 DEF Own
    <3>2. CASE i = L + 1 /\ IsOwn(m, w)
      BY <1>1, <3>2 DEF Own, IsOwn
    <3> QED  BY <2>3, <3>1, <3>2
  <2> QED  BY <2>1, <2>2, <2>3
<1> HIDE DEF t, L
<1>3. Numbers(t, w) = IF IsOwn(m, w) THEN Numbers(s, w) \cup {m.n} ELSE Numbers(s, w)
  <2>1. CASE IsOwn(m, w)
    <3>1. Own(t, w) = Own(s, w) \cup {L + 1}
      BY <1>2, <2>1
    <3> QED  BY <1>1, <1>2, <2>1, <3>1 DEF Numbers
  <2>2. CASE ~IsOwn(m, w)
    <3>1. Own(t, w) = Own(s, w)
      BY <1>2, <2>2
    <3> QED  BY <1>2, <2>2, <3>1 DEF Numbers
  <2> QED  BY <2>1, <2>2
<1>4. ASSUME Increasing(s, w), IsOwn(m, w) => \A n \in Numbers(s, w) : n < m.n
      PROVE  Increasing(t, w)
  <2> SUFFICES ASSUME NEW i \in Own(t, w), NEW j \in Own(t, w), i < j PROVE t[i].n < t[j].n
    BY DEF Increasing
  <2>1. CASE j \in Own(s, w)
    <3>1. i \in Own(s, w)
      BY <1>1, <1>2, <2>1
    <3> QED  BY <1>2, <1>4, <2>1, <3>1 DEF Increasing
  <2>2. CASE j = L + 1 /\ IsOwn(m, w)
    <3>1. i \in Own(s, w)
      BY <1>1, <1>2, <2>2
    <3>2. t[i].n \in Numbers(s, w)
      BY <1>2, <3>1 DEF Numbers
    <3> QED  BY <1>1, <1>4, <2>2, <3>2
  <2> QED  BY <1>2, <2>1, <2>2
<1>5. Own(s, w) = {} /\ ~IsOwn(m, w) => Own(t, w) = {}
  BY <1>2
<1> QED  BY <1>1, <1>3, <1>4, <1>5 DEF t

\* Without the first.
LEMMA TailOwn ==
  ASSUME NEW s \in Seq(Messages), s # <<>>, NEW w
  PROVE  /\ Tail(s) \in Seq(Messages) /\ Head(s) \in Messages
         /\ Numbers(s, w) = IF IsOwn(Head(s), w) THEN Numbers(Tail(s), w) \cup {Head(s).n}
                            ELSE Numbers(Tail(s), w)
         /\ Increasing(s, w) =>
              /\ Increasing(Tail(s), w)
              /\ IsOwn(Head(s), w) => \A n \in Numbers(Tail(s), w) : Head(s).n < n
         /\ Own(s, w) = {} => Own(Tail(s), w) = {}
<1> DEFINE t == Tail(s)
           L == Len(s)
           h == Head(s)
<1>1. /\ t \in Seq(Messages) /\ h \in Messages /\ L \in Nat /\ L > 0 /\ Len(t) = L - 1
      /\ h = s[1] /\ \A i \in 1..(L - 1) : t[i] = s[i + 1]
  OBVIOUS
<1> HIDE DEF t, h
<1>2. \A i \in Own(t, w) : i \in 1..(L - 1) /\ i + 1 \in Own(s, w) /\ t[i] = s[i + 1]
  <2> TAKE i \in Own(t, w)
  <2>1. i \in 1..(L - 1) /\ t[i] # Stop /\ t[i].from = w
    BY <1>1 DEF Own
  <2>2. i + 1 \in 1..L /\ s[i + 1] = t[i]
    BY <1>1, <2>1
  <2> QED  BY <2>1, <2>2 DEF Own
<1>3. \A i \in Own(s, w) :
        \/ i = 1 /\ IsOwn(h, w) /\ s[i] = h
        \/ \E j \in Own(t, w) : i = j + 1 /\ s[i] = t[j]
  <2> TAKE i \in Own(s, w)
  <2>1. i \in 1..L /\ s[i] # Stop /\ s[i].from = w
    BY DEF Own
  <2>2. CASE i = 1
    BY <1>1, <2>1, <2>2 DEF IsOwn
  <2>3. CASE i # 1
    <3>1. i - 1 \in 1..(L - 1) /\ (i - 1) + 1 = i
      BY <1>1, <2>1, <2>3
    <3>2. t[i - 1] = s[i]
      BY <1>1, <3>1
    <3>3. i - 1 \in Own(t, w)
      BY <1>1, <2>1, <3>1, <3>2 DEF Own
    <3> QED  BY <3>1, <3>2, <3>3
  <2> QED  BY <2>2, <2>3
<1>4. IsOwn(h, w) => 1 \in Own(s, w)
  BY <1>1 DEF IsOwn, Own
<1> HIDE DEF L
<1>5. Numbers(s, w) = IF IsOwn(h, w) THEN Numbers(t, w) \cup {h.n} ELSE Numbers(t, w)
  <2>1. ASSUME NEW n \in Numbers(s, w) PROVE n \in Numbers(t, w) \/ (IsOwn(h, w) /\ n = h.n)
    <3>1. PICK i \in Own(s, w) : n = s[i].n
      BY <2>1 DEF Numbers
    <3>2. CASE i = 1 /\ IsOwn(h, w) /\ s[i] = h
      BY <3>1, <3>2
    <3>3. CASE \E j \in Own(t, w) : i = j + 1 /\ s[i] = t[j]
      BY <3>1, <3>3 DEF Numbers
    <3> QED  BY <1>3, <3>2, <3>3
  <2>2. ASSUME NEW n \in Numbers(t, w) PROVE n \in Numbers(s, w)
    BY <1>2, <2>2 DEF Numbers
  <2>3. IsOwn(h, w) => h.n \in Numbers(s, w)
    BY <1>1, <1>4 DEF Numbers
  <2> QED  BY <2>1, <2>2, <2>3
<1>6. ASSUME Increasing(s, w)
      PROVE  /\ Increasing(t, w)
             /\ IsOwn(h, w) => \A n \in Numbers(t, w) : h.n < n
  <2>1. ASSUME NEW i \in Own(t, w), NEW j \in Own(t, w), i < j PROVE t[i].n < t[j].n
    <3>1. i + 1 < j + 1 /\ i + 1 \in Own(s, w) /\ j + 1 \in Own(s, w)
      BY <1>1, <1>2, <2>1
    <3> QED  BY <1>2, <1>6, <3>1 DEF Increasing
  <2>2. ASSUME IsOwn(h, w), NEW n \in Numbers(t, w) PROVE h.n < n
    <3>1. PICK j \in Own(t, w) : n = t[j].n
      BY <2>2 DEF Numbers
    <3>2. 1 < j + 1 /\ j + 1 \in Own(s, w) /\ 1 \in Own(s, w)
      BY <1>1, <1>2, <1>4, <2>2
    <3> QED  BY <1>1, <1>2, <1>6, <3>1, <3>2 DEF Increasing
  <2> QED  BY <2>1, <2>2 DEF Increasing
<1>7. Own(s, w) = {} => Own(t, w) = {}
  BY <1>2
<1> QED  BY <1>1, <1>5, <1>6, <1>7 DEF t, h

LEMMA NothingOwn ==
  ASSUME NEW w
  PROVE  Own(<<>>, w) = {} /\ Numbers(<<>>, w) = {} /\ Increasing(<<>>, w)
BY DEF Own, Numbers, Increasing

\* A record is sent.
LEMMA OrderedSent ==
  ASSUME NEW stored \in Seq(Messages), NEW messages \in Seq(Messages), NEW m \in Messages,
         NEW w, NEW top \in Nat, Ordered(stored, messages, w, top),
         IsOwn(m, w) => m.n = top + 1
  PROVE  Ordered(stored, Append(messages, m), w, IF IsOwn(m, w) THEN top + 1 ELSE top)
<1> DEFINE A == Numbers(stored, w)
           B == Numbers(messages, w)
           C == Numbers(Append(messages, m), w)
<1>1. A \subseteq Nat /\ B \subseteq Nat
  BY NumbersAreNumbers
<1>2. /\ Increasing(stored, w) /\ Increasing(messages, w)
      /\ \A x \in A, y \in B : x < y
      /\ \A n \in A \cup B : n <= top /\ n..top \subseteq A \cup B
  BY DEF Ordered
<1>3. C = IF IsOwn(m, w) THEN B \cup {m.n} ELSE B
  BY AppendOwn
<1>4. Increasing(Append(messages, m), w)
  <2>1. IsOwn(m, w) => \A n \in B : n < m.n
    BY <1>1, <1>2
  <2> QED  BY <1>2, <2>1, AppendOwn
<1> HIDE DEF A, B, C
<1>5. CASE IsOwn(m, w)
  <2>1. C = B \cup {top + 1}
    BY <1>3, <1>5
  <2>2. \A x \in A, y \in C : x < y
    BY <1>1, <1>2, <2>1
  <2>3. ASSUME NEW n \in A \cup C PROVE n <= top + 1 /\ n..(top + 1) \subseteq A \cup C
    <3>1. CASE n = top + 1
      BY <2>1, <3>1
    <3>2. CASE n \in A \cup B
      <4>1. n \in Nat /\ n <= top /\ n..top \subseteq A \cup B
        BY <1>1, <1>2, <3>2
      <4>2. \A x \in n..(top + 1) : x \in n..top \/ x = top + 1
        BY <4>1
      <4> QED  BY <2>1, <4>1, <4>2
    <3> QED  BY <2>1, <2>3, <3>1, <3>2
  <2> QED  BY <1>2, <1>4, <1>5, <2>2, <2>3 DEF Ordered, A, C
<1>6. CASE ~IsOwn(m, w)
  BY <1>2, <1>3, <1>4, <1>6 DEF Ordered, A, B, C
<1> QED  BY <1>5, <1>6

\* The first message of the queue becomes a record.
LEMMA OrderedReceived ==
  ASSUME NEW stored \in Seq(Messages), NEW messages \in Seq(Messages), messages # <<>>,
         NEW w, NEW top \in Nat, Ordered(stored, messages, w, top)
  PROVE  /\ Head(messages) # Stop =>
              Ordered(Append(stored, Head(messages)), Tail(messages), w, top)
         /\ Head(messages) = Stop => Ordered(stored, Tail(messages), w, top)
<1> DEFINE h == Head(messages)
           A == Numbers(stored, w)
           B == Numbers(messages, w)
           C == Numbers(Tail(messages), w)
           D == Numbers(Append(stored, h), w)
<1>1. h \in Messages /\ Tail(messages) \in Seq(Messages)
  BY TailOwn
<1>2. A \subseteq Nat /\ B \subseteq Nat /\ C \subseteq Nat
  BY <1>1, NumbersAreNumbers
<1>3. /\ Increasing(stored, w) /\ Increasing(messages, w)
      /\ \A x \in A, y \in B : x < y
      /\ \A n \in A \cup B : n <= top /\ n..top \subseteq A \cup B
  BY DEF Ordered
<1>4. /\ B = IF IsOwn(h, w) THEN C \cup {h.n} ELSE C
      /\ Increasing(Tail(messages), w)
      /\ IsOwn(h, w) => \A n \in C : h.n < n
  BY <1>3, TailOwn
<1>5. D = IF IsOwn(h, w) THEN A \cup {h.n} ELSE A
  BY <1>1, AppendOwn
<1>6. Increasing(Append(stored, h), w)
  <2>1. IsOwn(h, w) => \A n \in A : n < h.n
    BY <1>3, <1>4
  <2> QED  BY <1>1, <1>3, <2>1, AppendOwn
<1>7. h = Stop => ~IsOwn(h, w)
  BY DEF IsOwn
<1> HIDE DEF h, A, B, C, D
<1>8. CASE IsOwn(h, w)
  <2>1. A \cup B = D \cup C
    BY <1>4, <1>5, <1>8
  <2>2. \A x \in D, y \in C : x < y
    BY <1>3, <1>4, <1>5, <1>8
  <2>3. Ordered(Append(stored, h), Tail(messages), w, top)
    BY <1>3, <1>4, <1>6, <2>1, <2>2 DEF Ordered, C, D
  <2> QED  BY <1>7, <1>8, <2>3 DEF h
<1>9. CASE ~IsOwn(h, w)
  <2>1. B = C /\ D = A
    BY <1>4, <1>5, <1>9
  <2>2. Ordered(Append(stored, h), Tail(messages), w, top)
    BY <1>3, <1>4, <1>6, <2>1 DEF Ordered, C, D
  <2>3. Ordered(stored, Tail(messages), w, top)
    BY <1>3, <1>4, <2>1 DEF Ordered, A, C
  <2> QED  BY <2>2, <2>3 DEF h
<1> QED  BY <1>8, <1>9

\* A record of somebody else.
LEMMA OrderedOther ==
  ASSUME NEW stored \in Seq(Messages), NEW messages \in Seq(Messages), NEW m \in Messages,
         NEW w, NEW top \in Nat, Ordered(stored, messages, w, top), ~IsOwn(m, w)
  PROVE  Ordered(Append(stored, m), messages, w, top)
<1>1. /\ Numbers(Append(stored, m), w) = Numbers(stored, w)
      /\ Increasing(stored, w) => Increasing(Append(stored, m), w)
  BY AppendOwn
<1> QED  BY <1>1 DEF Ordered

\* The oldest record is dropped, or all of them.
LEMMA OrderedDropped ==
  ASSUME NEW stored \in Seq(Messages), NEW messages \in Seq(Messages),
         NEW w, NEW top \in Nat, Ordered(stored, messages, w, top)
  PROVE  /\ stored # <<>> => Ordered(Tail(stored), messages, w, top)
         /\ Ordered(<<>>, messages, w, top)
<1> DEFINE A == Numbers(stored, w)
           B == Numbers(messages, w)
<1>1. A \subseteq Nat /\ B \subseteq Nat
  BY NumbersAreNumbers
<1>2. /\ Increasing(stored, w) /\ Increasing(messages, w)
      /\ \A x \in A, y \in B : x < y
      /\ \A n \in A \cup B : n <= top /\ n..top \subseteq A \cup B
  BY DEF Ordered
<1>3. ASSUME stored # <<>> PROVE Ordered(Tail(stored), messages, w, top)
  <2> DEFINE C == Numbers(Tail(stored), w)
             h == Head(stored)
  <2>1. /\ A = IF IsOwn(h, w) THEN C \cup {h.n} ELSE C
        /\ Increasing(Tail(stored), w)
        /\ IsOwn(h, w) => \A n \in C : h.n < n
    BY <1>2, <1>3, TailOwn
  <2> HIDE DEF A, B, C, h
  <2>2. CASE ~IsOwn(h, w)
    BY <1>2, <2>1, <2>2 DEF Ordered, B, C
  <2>3. CASE IsOwn(h, w)
    <3>1. A = C \cup {h.n} /\ h.n \in Nat /\ C \subseteq Nat
      BY <1>1, <2>1, <2>3
    <3>2. \A n \in C \cup B : h.n < n
      BY <1>2, <2>1, <2>3, <3>1
    <3>3. ASSUME NEW n \in C \cup B PROVE n <= top /\ n..top \subseteq C \cup B
      <4>1. n <= top /\ n..top \subseteq A \cup B /\ n \in Nat /\ h.n < n
        BY <1>1, <1>2, <3>1, <3>2
      <4>2. \A x \in n..top : x # h.n
        BY <3>1, <4>1
      <4> QED  BY <3>1, <4>1, <4>2
    <3> QED  BY <1>2, <2>1, <3>1, <3>3 DEF Ordered, B, C
  <2> QED  BY <2>2, <2>3
<1>4. Ordered(<<>>, messages, w, top)
  <2> HIDE DEF A, B
  <2>1. ASSUME NEW n \in B PROVE n <= top /\ n..top \subseteq B
    <3>1. n <= top /\ n..top \subseteq A \cup B /\ n \in Nat
      BY <1>1, <1>2, <2>1
    <3>2. \A x \in n..top : x \notin A
      BY <1>1, <1>2, <2>1, <3>1
    <3> QED  BY <3>1, <3>2
  <2>2. \A n \in {} \cup B : n <= top /\ n..top \subseteq {} \cup B
    BY <2>1
  <2> QED  BY <1>2, <2>2, NothingOwn DEF Ordered, B
<1> QED  BY <1>3, <1>4
-----------------------------------------------------------------------------
(* What is settled.                                                         *)

Settle(tasks, mp, ray) == After(After(tasks, mp), ray)

\* A message is sent, over either channel.
LEMMA SettleSent ==
  ASSUME NEW tasks \in [Tasks -> Int],
         NEW mp \in Seq(CountMessages), NEW ray \in Seq(CountMessages), NEW m \in CountMessages
  PROVE  /\ m # Stop /\ (\A i \in 1..Len(ray) : Commute(ray[i], m))
              => Settle(tasks, Append(mp, m), ray) = Updated(Settle(tasks, mp, ray), m)
         /\ m # Stop => Settle(tasks, mp, Append(ray, m)) = Updated(Settle(tasks, mp, ray), m)
         /\ m = Stop => /\ Settle(tasks, Append(mp, m), ray) = Settle(tasks, mp, ray)
                        /\ Settle(tasks, mp, Append(ray, m)) = Settle(tasks, mp, ray)
         /\ Settle(tasks, mp, ray) \in [Tasks -> Int]
<1>1. After(tasks, mp) \in [Tasks -> Int]
  BY AfterType
<1>2. After(tasks, Append(mp, m)) = Taken(After(tasks, mp), m)
  BY AfterAppend
<1>3. After(After(tasks, mp), Append(ray, m)) = Taken(After(After(tasks, mp), ray), m)
  BY <1>1, AfterAppend
<1>4. ASSUME m # Stop, \A i \in 1..Len(ray) : Commute(ray[i], m)
      PROVE  After(Updated(After(tasks, mp), m), ray) = Updated(After(After(tasks, mp), ray), m)
  BY <1>1, <1>4, AfterCommutes
<1>5. After(After(tasks, mp), ray) \in [Tasks -> Int]
  BY <1>1, AfterType
<1> QED  BY <1>2, <1>3, <1>4, <1>5 DEF Settle, Taken

\* The driver counts itself.
LEMMA SettleLocal ==
  ASSUME NEW tasks \in [Tasks -> Int],
         NEW mp \in Seq(CountMessages), NEW ray \in Seq(CountMessages),
         NEW m \in CountMessages, m # Stop,
         \A i \in 1..Len(mp) : Commute(mp[i], m), \A i \in 1..Len(ray) : Commute(ray[i], m)
  PROVE  Settle(Updated(tasks, m), mp, ray) = Updated(Settle(tasks, mp, ray), m)
<1>1. After(Updated(tasks, m), mp) = Updated(After(tasks, mp), m)
  BY AfterCommutes
<1>2. After(tasks, mp) \in [Tasks -> Int]
  BY AfterType
<1>3. After(Updated(After(tasks, mp), m), ray) = Updated(After(After(tasks, mp), ray), m)
  BY <1>2, AfterCommutes
<1> QED  BY <1>1, <1>3 DEF Settle

\* A message is received.
LEMMA SettleReceived ==
  ASSUME NEW tasks \in [Tasks -> Int],
         NEW mp \in Seq(CountMessages), NEW ray \in Seq(CountMessages)
  PROVE  /\ mp # <<>> => Settle(tasks, mp, ray) = Settle(Taken(tasks, Head(mp)), Tail(mp), ray)
         /\ ray # <<>> /\ (Head(ray) # Stop => \A i \in 1..Len(mp) : Commute(mp[i], Head(ray)))
              => Settle(tasks, mp, ray) = Settle(Taken(tasks, Head(ray)), mp, Tail(ray))
<1>1. mp # <<>> => After(tasks, mp) = After(Taken(tasks, Head(mp)), Tail(mp))
  BY AfterFirst
<1>2. ASSUME ray # <<>>, Head(ray) # Stop => \A i \in 1..Len(mp) : Commute(mp[i], Head(ray))
      PROVE  Settle(tasks, mp, ray) = Settle(Taken(tasks, Head(ray)), mp, Tail(ray))
  <2> DEFINE h == Head(ray)
  <2>1. h \in CountMessages
    BY <1>2
  <2>2. After(tasks, mp) \in [Tasks -> Int]
    BY AfterType
  <2>3. After(After(tasks, mp), ray) = After(Taken(After(tasks, mp), h), Tail(ray))
    BY <1>2, <2>2, AfterFirst
  <2>4. Taken(After(tasks, mp), h) = After(Taken(tasks, h), mp)
    <3>1. CASE h = Stop
      BY <3>1 DEF Taken
    <3>2. CASE h # Stop
      <4>1. \A i \in 1..Len(mp) : Commute(mp[i], h)
        BY <1>2, <3>2
      <4> HIDE DEF h
      <4>2. After(Updated(tasks, h), mp) = Updated(After(tasks, mp), h)
        BY <2>1, <3>2, <4>1, AfterCommutes
      <4> QED  BY <3>2, <4>2 DEF Taken
    <3> QED  BY <3>1, <3>2
  <2> QED  BY <2>3, <2>4 DEF Settle
<1> QED  BY <1>1, <1>2 DEF Settle

-----------------------------------------------------------------------------
(* The messages of the managers that count.                                 *)

\* What all send to the one task they share.
Sharing(m) ==
  /\ m.task = Shared /\ m.n = 1
  /\ manager = "progress" => m.op = "increment"
  /\ manager = "signals" => m.op = "update"

LEMMA CountingManagers ==
  ASSUME CollectorsType, manager \notin Collecting
  PROVE  manager \in {"progress", "signals"}
BY DEF CollectorsType

LEMMA SentCounts ==
  ASSUME CollectorsType, manager \notin Collecting, NEW m \in Messages, FitsManager(m), m # Stop
  PROVE  /\ m \in CountMessages /\ m.op # "append"
         /\ Sharing(m) \/ (manager = "progress" /\ m.op \in {"register", "set"} /\ m.task = m.from)
<1>1. m \in [op: Ops, from: Writers, task: Tasks, n: Nat]
  BY DEF Messages
<1>2. m.op \in Counting /\ m.op # "append"
  BY CountingManagers DEF FitsManager, Counting
<1>3. m = [op |-> m.op, from |-> m.from, task |-> m.task, n |-> m.n]
  BY <1>1
<1>4. m \in [op: Counting, from: Writers, task: Tasks, n: Nat]
  BY <1>1, <1>2, <1>3
<1> QED  BY <1>2, <1>4, CountingManagers DEF FitsManager, Sharing, CountMessages

LEMMA SharingCommutes ==
  ASSUME CollectorsType, manager \notin Collecting, NEW c, NEW m \in Messages, SentOver(c, m),
         NEW n, Sharing(n)
  PROVE  Commute(m, n)
<1>1. CASE m = Stop
  BY <1>1 DEF Commute
<1>2. CASE m # Stop
  <2>1. FitsManager(m) /\ m.from \in Workers
    BY <1>2 DEF SentOver
  <2>2. CASE Sharing(m)
    BY <2>2, CountingManagers DEF Sharing, Commute
  <2>3. CASE m.task = m.from
    BY <2>1, <2>3, WorkersAssumption DEF Sharing, Commute
  <2> QED  BY <1>2, <2>1, <2>2, <2>3, SentCounts
<1> QED  BY <1>1, <1>2

LEMMA ChannelsCommute ==
  ASSUME CollectorsType, manager \notin Collecting, NEW c, NEW d, c # d,
         NEW m \in Messages, SentOver(c, m), NEW n \in Messages, SentOver(d, n), n # Stop
  PROVE  Commute(m, n)
<1>1. CASE m = Stop
  BY <1>1 DEF Commute
<1>2. CASE Sharing(n)
  BY <1>2, SharingCommutes
<1>3. CASE m # Stop /\ ~Sharing(n)
  <2>1. /\ FitsManager(m) /\ m.from \in Workers /\ link[m.from] = c
        /\ FitsManager(n) /\ n.from \in Workers /\ link[n.from] = d
    BY <1>3 DEF SentOver
  <2>2. n.task = n.from
    BY <1>3, <2>1, SentCounts
  <2>3. CASE Sharing(m)
    BY <2>1, <2>2, <2>3, WorkersAssumption DEF Sharing, Commute
  <2>4. CASE m.task = m.from
    BY <2>1, <2>2, <2>4 DEF Commute
  <2> QED  BY <1>3, <2>1, <2>3, <2>4, SentCounts
<1> QED  BY <1>1, <1>2, <1>3

LEMMA QueuesCount ==
  ASSUME CollectorsType, InItsQueue, manager \notin Collecting, NEW c \in AllChannels
  PROVE  /\ queue[c] \in Seq(CountMessages)
         /\ \A i \in 1..Len(queue[c]) : queue[c][i] \in Messages /\ SentOver(c, queue[c][i])
<1> DEFINE q == queue[c]
<1>1. q \in Seq(Messages)
  BY DEF CollectorsType
<1>2. \A i \in 1..Len(q) : q[i] \in Messages /\ SentOver(c, q[i])
  BY <1>1 DEF InItsQueue
<1> HIDE DEF q
<1>3. \A i \in 1..Len(q) : q[i] \in CountMessages
  <2> TAKE i \in 1..Len(q)
  <2>1. CASE q[i] = Stop
    BY <2>1 DEF CountMessages
  <2>2. CASE q[i] # Stop
    BY <1>2, <2>2, SentCounts DEF SentOver
  <2> QED  BY <2>1, <2>2
<1>4. q \in Seq(CountMessages)
  BY <1>1, <1>3
<1> QED  BY <1>2, <1>4 DEF q
-----------------------------------------------------------------------------
(* The steps.                                                               *)

\* A record is kept, the oldest may go.
LEMMA KeptIs ==
  ASSUME NEW stored \in Seq(Messages), NEW m \in Messages
  PROVE  /\ Kept(stored, m) \in Seq(Messages)
         /\ \A w : Own(stored, w) = {} /\ ~IsOwn(m, w) => Own(Kept(stored, m), w) = {}
         /\ \A messages \in Seq(Messages), top \in Nat : \A w :
              Ordered(Append(stored, m), messages, w, top)
                => Ordered(Kept(stored, m), messages, w, top)
<1> DEFINE all == Append(stored, m)
<1>1. all \in Seq(Messages) /\ all # <<>>
  <2>1. all \in Seq(Messages) /\ Len(all) = Len(stored) + 1 /\ Len(stored) \in Nat
    OBVIOUS
  <2>2. Len(all) # 0
    BY <2>1
  <2> QED  BY <2>1, <2>2
<1>2. Kept(stored, m) = all \/ Kept(stored, m) = Tail(all)
  BY DEF Kept
<1>3. Tail(all) \in Seq(Messages)
  BY <1>1
<1>4. \A w : Own(stored, w) = {} /\ ~IsOwn(m, w) => Own(all, w) = {}
  BY AppendOwn
<1> HIDE DEF all
<1>5. \A w : Own(all, w) = {} => Own(Tail(all), w) = {}
  BY <1>1, TailOwn
<1>6. ASSUME NEW messages \in Seq(Messages), NEW w, NEW top \in Nat,
             Ordered(all, messages, w, top)
      PROVE  Ordered(Tail(all), messages, w, top)
  BY <1>1, <1>6, OrderedDropped
<1> QED  BY <1>1, <1>2, <1>3, <1>4, <1>5, <1>6 DEF all

LEMMA CollectorsStart == CollectorsInit => CollectorsInv
<1> SUFFICES ASSUME CollectorsInit PROVE CollectorsInv
  OBVIOUS
<1>1. CollectorsType
  <2>1. manager \in Collecting \cup {"progress", "signals"}
    BY ManagersAssumption DEF CollectorsInit
  <2>2. kept \in Seq(Messages) /\ made \in Nat
    BY DEF CollectorsInit
  <2>3. counts \in [Tasks -> Int]
    BY DEF CollectorsInit, Absent
  <2>4. queue \in [AllChannels -> Seq(Messages)]
    BY DEF CollectorsInit
  <2>5. link \in [Workers -> AllChannels \cup {"none", "detached"}]
    BY DEF CollectorsInit
  <2>6. cache \in [Workers -> [Tasks -> Int]]
    BY DEF CollectorsInit, Absent
  <2>7. writes \in [Writers -> Nat]
    BY DEF CollectorsInit
  <2> QED  BY <2>1, <2>2, <2>3, <2>4, <2>5, <2>6, <2>7 DEF CollectorsType
<1>2. Attached = {}
  BY DEF CollectorsInit, Attached, AllChannels
<1>3. InItsQueue
  BY DEF CollectorsInit, InItsQueue
<1>4. KeptFromAttached
  BY NothingOwn DEF CollectorsInit, KeptFromAttached
<1>5. AllOrdered
  BY <1>2 DEF AllOrdered
<1>6. CountsAddUp
  <2> SUFFICES ASSUME manager \notin Collecting
               PROVE  Settled[Shared] = IF manager = "signals" /\ made = 0 THEN Absent ELSE made
    BY <1>2 DEF CountsAddUp
  <2>1. manager \in {"progress", "signals"}
    BY <1>1, CountingManagers
  <2>2. Shared \in Tasks /\ <<>> \in Seq(CountMessages) /\ counts \in [Tasks -> Int]
    BY <1>1 DEF Tasks, CollectorsType
  <2>3. /\ queue["mp"] = <<>> /\ queue["ray"] = <<>> /\ made = 0
        /\ counts[Shared] = IF manager = "progress" THEN 0 ELSE Absent
    BY <2>2 DEF CollectorsInit, AllChannels
  <2> DEFINE none == <<>>
  <2>4. none \in Seq(CountMessages) /\ \A i \in 1..Len(none) : none[i] # Stop => none[i].task # Shared
    OBVIOUS
  <2> HIDE DEF none
  <2>5. After(counts, none) \in [Tasks -> Int] /\ After(counts, none)[Shared] = counts[Shared]
    BY <2>2, <2>4, AfterType, AfterLeaves
  <2>6. After(After(counts, none), none)[Shared] = counts[Shared]
    BY <2>2, <2>5, <2>4, AfterLeaves
  <2> QED  BY <2>1, <2>3, <2>6 DEF Settled, none
<1> QED  BY <1>1, <1>3, <1>4, <1>5, <1>6 DEF CollectorsInv

\* What consumers and proxies do besides.
LEMMA CollectorsStutter ==
  ASSUME CollectorsInv, UNCHANGED <<manager, kept, counts, queue, link, cache, writes, made>>
  PROVE  CollectorsInv'
<1>1. Attached' = Attached /\ Settled' = Settled
  BY DEF Attached, Settled
<1>2. CollectorsType'
  BY DEF CollectorsInv, CollectorsType
<1>3. InItsQueue'
  BY DEF CollectorsInv, InItsQueue, SentOver, FitsManager
<1>4. KeptFromAttached'
  BY <1>1 DEF CollectorsInv, KeptFromAttached
<1>5. AllOrdered'
  BY <1>1 DEF CollectorsInv, AllOrdered
<1>6. CountsAddUp'
  BY <1>1 DEF CollectorsInv, CountsAddUp
<1> QED  BY <1>2, <1>3, <1>4, <1>5, <1>6 DEF CollectorsInv

\* The facts of a state in which a manager counts.
LEMMA CountFacts ==
  ASSUME CollectorsInv, manager \notin Collecting
  PROVE  /\ manager \in {"progress", "signals"} /\ Shared \in Tasks
         /\ counts \in [Tasks -> Int] /\ cache \in [Workers -> [Tasks -> Int]] /\ made \in Nat
         /\ queue["mp"] \in Seq(CountMessages) /\ queue["ray"] \in Seq(CountMessages)
         /\ Settled = Settle(counts, queue["mp"], queue["ray"])
         /\ Settled \in [Tasks -> Int]
         /\ Settled[Shared] = IF manager = "signals" /\ made = 0 THEN Absent ELSE made
         /\ \A w \in Attached : Settled[w] = cache[w][w]
<1>1. manager \in {"progress", "signals"}
  BY CountingManagers DEF CollectorsInv
<1>2. queue["mp"] \in Seq(CountMessages) /\ queue["ray"] \in Seq(CountMessages)
  BY QueuesCount DEF CollectorsInv, AllChannels
<1>3. Settled = Settle(counts, queue["mp"], queue["ray"])
  BY DEF Settled, Settle
<1>4. counts \in [Tasks -> Int] /\ cache \in [Workers -> [Tasks -> Int]] /\ made \in Nat
  BY DEF CollectorsInv, CollectorsType
<1>5. Settled \in [Tasks -> Int]
  <2>1. Stop \in CountMessages
    BY DEF CountMessages
  <2> QED  BY <1>2, <1>3, <1>4, <2>1, SettleSent
<1> QED  BY <1>1, <1>2, <1>3, <1>4, <1>5 DEF CollectorsInv, CountsAddUp, Tasks

\* What becomes of the shared count.
LEMMA SharingAdds ==
  ASSUME CollectorsInv, manager \notin Collecting, NEW m \in CountMessages, m # Stop, Sharing(m)
  PROVE  Updated(Settled, m)[Shared] = made + 1
<1>1. /\ manager \in {"progress", "signals"} /\ Shared \in Tasks /\ made \in Nat
      /\ Settled \in [Tasks -> Int]
      /\ Settled[Shared] = IF manager = "signals" /\ made = 0 THEN Absent ELSE made
  BY CountFacts
<1>2. Updated(Settled, m) = [Settled EXCEPT ![m.task] = Changed(Settled[m.task], m)]
  BY <1>1, UpdatedOne
<1>3. Updated(Settled, m)[Shared] = Changed(Settled[Shared], m)
  BY <1>1, <1>2 DEF Sharing
<1>4. Changed(Settled[Shared], m) = made + 1
  BY <1>1 DEF Sharing, Changed, Absent
<1> QED  BY <1>3, <1>4

LEMMA ClearKeeps ==
  ASSUME CollectorsInv, Clear
  PROVE  CollectorsInv'
<1> USE DEF Clear
<1>1. Attached' = Attached /\ manager \in Collecting /\ manager' = manager
  BY DEF Attached
<1>2. CollectorsType'
  BY DEF CollectorsInv, CollectorsType
<1>3. InItsQueue'
  BY DEF CollectorsInv, InItsQueue, SentOver, FitsManager
<1>4. KeptFromAttached'
  BY <1>1, NothingOwn DEF KeptFromAttached
<1>5. AllOrdered'
  <2> SUFFICES ASSUME NEW w \in Attached PROVE Ordered(<<>>, queue[link[w]], w, writes[w])
    BY <1>1 DEF AllOrdered
  <2>1. /\ kept \in Seq(Messages) /\ queue[link[w]] \in Seq(Messages) /\ writes[w] \in Nat
    BY DEF CollectorsInv, CollectorsType, Attached, Writers
  <2>2. Ordered(kept, queue[link[w]], w, writes[w])
    BY <1>1 DEF CollectorsInv, AllOrdered
  <2> QED  BY <2>1, <2>2, OrderedDropped
<1>6. CountsAddUp'
  BY <1>1 DEF CountsAddUp
<1> QED  BY <1>2, <1>3, <1>4, <1>5, <1>6 DEF CollectorsInv

LEMMA GetProxyKeeps ==
  ASSUME CollectorsInv, NEW v \in Workers, NEW c \in AllChannels, GetProxy(v, c)
  PROVE  CollectorsInv'
<1>1. /\ link[v] = "none" /\ cache' = [cache EXCEPT ![v] = counts]
      /\ UNCHANGED <<manager, kept, counts, queue, writes, made>>
  BY DEF GetProxy
<1>2. PICK to \in {c, Pickled(c)} : link' = [link EXCEPT ![v] = to]
  BY DEF GetProxy
<1>3. to \in AllChannels \cup {"none", "detached"}
  BY DEF AllChannels, Pickled
<1>4. /\ link \in [Workers -> AllChannels \cup {"none", "detached"}]
      /\ counts \in [Tasks -> Int] /\ cache \in [Workers -> [Tasks -> Int]]
      /\ queue \in [AllChannels -> Seq(Messages)]
  BY DEF CollectorsInv, CollectorsType
<1>5. CollectorsType'
  <2>1. link' \in [Workers -> AllChannels \cup {"none", "detached"}]
    BY <1>2, <1>3, <1>4
  <2>2. cache' \in [Workers -> [Tasks -> Int]]
    BY <1>1, <1>4
  <2> QED  BY <1>1, <2>1, <2>2 DEF CollectorsInv, CollectorsType
<1>6. v \notin Attached /\ \A w \in Workers : w # v => link'[w] = link[w] /\ cache'[w] = cache[w]
  BY <1>1, <1>2, <1>4 DEF Attached, AllChannels
<1>7. Attached' \subseteq Attached \cup {v} /\ Attached \subseteq Attached'
  BY <1>6 DEF Attached
<1>8. \A d \in AllChannels : \A i \in 1..Len(queue[d]) :
        queue[d][i] # Stop => /\ queue[d][i].from \in Workers /\ queue[d][i].from # v
                              /\ link[queue[d][i].from] = d /\ FitsManager(queue[d][i])
  BY <1>1 DEF CollectorsInv, InItsQueue, SentOver, AllChannels
<1>9. InItsQueue'
  <2> SUFFICES ASSUME NEW d \in AllChannels, NEW i \in 1..Len(queue[d]), queue[d][i] # Stop
               PROVE  /\ queue[d][i].from \in Workers /\ link'[queue[d][i].from] = d
                      /\ FitsManager(queue[d][i])'
    BY <1>1 DEF InItsQueue, SentOver
  <2> QED  BY <1>1, <1>6, <1>8 DEF FitsManager
<1>10. KeptFromAttached'
  BY <1>1, <1>7 DEF CollectorsInv, KeptFromAttached
<1>11. AllOrdered'
  <2> SUFFICES ASSUME manager \in Collecting, NEW w \in Attached'
               PROVE  Ordered(kept, queue[link'[w]], w, writes[w])
    BY <1>1 DEF AllOrdered
  <2>1. CASE w \in Attached
    <3>1. w \in Workers /\ w # v
      BY <1>6, <2>1 DEF Attached
    <3> QED  BY <1>6, <2>1, <3>1 DEF CollectorsInv, AllOrdered
  <2>2. CASE w = v
    <3>1. link'[v] \in AllChannels
      BY <2>2 DEF Attached
    <3>2. Own(kept, v) = {}
      BY <1>6 DEF CollectorsInv, KeptFromAttached
    <3>3. Own(queue[link'[v]], v) = {}
      BY <1>8, <3>1 DEF Own
    <3> QED  BY <2>2, <3>2, <3>3 DEF Ordered, Increasing, Numbers
  <2> QED  BY <1>7, <2>1, <2>2
<1>12. CountsAddUp'
  <2> SUFFICES ASSUME manager \notin Collecting
               PROVE  /\ Settled'[Shared] = IF manager = "signals" /\ made = 0 THEN Absent ELSE made
                      /\ \A w \in Attached' : Settled'[w] = cache'[w][w]
    BY <1>1 DEF CountsAddUp
  <2>1. Settled' = Settled
    BY <1>1 DEF Settled
  <2>2. ASSUME NEW w \in Attached' PROVE Settled[w] = cache'[w][w]
    <3>1. CASE w \in Attached
      <4>1. w \in Workers /\ w # v
        BY <1>6, <3>1 DEF Attached
      <4> QED  BY <1>6, <3>1, <4>1, CountFacts
    <3>2. CASE w = v
      <4>1. cache'[v][v] = counts[v] /\ v \in Tasks
        BY <1>1, <1>4 DEF Tasks
      <4>2. ASSUME NEW d \in AllChannels
            PROVE  \A i \in 1..Len(queue[d]) : queue[d][i] # Stop => queue[d][i].task # v
        <5> SUFFICES ASSUME NEW i \in 1..Len(queue[d]), queue[d][i] # Stop
                     PROVE  queue[d][i].task # v
          OBVIOUS
        <5> DEFINE m == queue[d][i]
        <5>1. m \in Messages /\ m # Stop /\ FitsManager(m) /\ m.from # v
          BY <1>8, QueuesCount DEF CollectorsInv
        <5> HIDE DEF m
        <5>2. CollectorsType
          BY DEF CollectorsInv
        <5>3. m.task = Shared \/ m.task = m.from
          BY <5>1, <5>2, SentCounts DEF Sharing
        <5>4. m.task # v
          BY <5>1, <5>3, WorkersAssumption
        <5> QED  BY <5>4 DEF m
      <4>3. After(counts, queue["mp"])[v] = counts[v] /\ After(counts, queue["mp"]) \in [Tasks -> Int]
        BY <4>1, <4>2, CountFacts, AfterLeaves, AfterType DEF AllChannels
      <4>4. After(After(counts, queue["mp"]), queue["ray"])[v] = counts[v]
        BY <4>1, <4>2, <4>3, CountFacts, AfterLeaves DEF AllChannels
      <4> QED  BY <3>2, <4>1, <4>4 DEF Settled
    <3> QED  BY <1>7, <2>2, <3>1, <3>2
  <2> QED  BY <2>1, <2>2, CountFacts
<1> QED  BY <1>5, <1>9, <1>10, <1>11, <1>12 DEF CollectorsInv

\* The queue a worker is attached to gets its message.
LEMMA SendPuts ==
  ASSUME CollectorsInv, NEW v \in Workers, NEW m \in Messages, m # Stop, m.from = v,
         FitsManager(m), Send(v, m)
  PROVE  /\ UNCHANGED <<manager, kept, counts, link>> /\ Attached' = Attached
         /\ v \in Attached => queue' = [queue EXCEPT ![link[v]] = Append(queue[link[v]], m)]
         /\ v \notin Attached => queue' = queue
         /\ queue' \in [AllChannels -> Seq(Messages)]
         /\ InItsQueue' /\ KeptFromAttached'
<1>1. UNCHANGED <<manager, kept, counts, link>>
  BY DEF Send
<1>2. Attached' = Attached
  BY <1>1 DEF Attached
<1>3. /\ v \in Attached => queue' = [queue EXCEPT ![link[v]] = Append(queue[link[v]], m)]
      /\ v \notin Attached => queue' = queue
  BY DEF Send, Put
<1>4. queue \in [AllChannels -> Seq(Messages)] /\ (v \in Attached => link[v] \in AllChannels)
  BY DEF CollectorsInv, CollectorsType, Attached
<1>5. queue' \in [AllChannels -> Seq(Messages)]
  <2>1. CASE v \in Attached
    <3>1. Append(queue[link[v]], m) \in Seq(Messages)
      BY <1>4, <2>1
    <3> QED  BY <1>3, <1>4, <2>1, <3>1
  <2> QED  BY <1>3, <1>4, <2>1
<1>6. ASSUME NEW c \in AllChannels, NEW i \in 1..Len(queue'[c]) PROVE SentOver(c, queue'[c][i])
  <2>1. \A d \in AllChannels : \A j \in 1..Len(queue[d]) : SentOver(d, queue[d][j])
    BY DEF CollectorsInv, InItsQueue
  <2>2. CASE v \in Attached /\ c = link[v]
    <3> DEFINE q == queue[c]
    <3>1. q \in Seq(Messages) /\ queue'[c] = Append(q, m) /\ \A j \in 1..Len(q) : SentOver(c, q[j])
      BY <1>3, <1>4, <2>1, <2>2
    <3>2. SentOver(c, m)
      BY <2>2 DEF SentOver
    <3> HIDE DEF q
    <3>3. i \in 1..(Len(q) + 1) /\ Len(q) \in Nat
      BY <1>6, <3>1
    <3>4. CASE i = Len(q) + 1
      BY <3>1, <3>2, <3>4
    <3>5. CASE i # Len(q) + 1
      BY <3>1, <3>3, <3>5
    <3> QED  BY <3>4, <3>5
  <2>3. CASE ~(v \in Attached /\ c = link[v])
    <3>1. queue'[c] = queue[c]
      BY <1>3, <1>4, <2>3
    <3> QED  BY <1>6, <2>1, <3>1
  <2> QED  BY <2>2, <2>3
<1>7. InItsQueue'
  BY <1>1, <1>6 DEF InItsQueue, SentOver, FitsManager
<1>8. KeptFromAttached'
  BY <1>1, <1>2 DEF CollectorsInv, KeptFromAttached
<1> QED  BY <1>1, <1>2, <1>3, <1>5, <1>7, <1>8

\* A record is sent.
LEMMA RecordKeeps ==
  ASSUME CollectorsInv, NEW v \in Workers, manager \in Collecting, SendRecord(v)
  PROVE  CollectorsInv'
<1> DEFINE m == Message("append", v, Shared, writes[v] + 1)
<1>1. /\ Send(v, m) /\ UNCHANGED <<cache, made>>
      /\ writes' = [writes EXCEPT ![v] = writes[v] + 1]
  BY DEF SendRecord, Send
<1>2. writes \in [Writers -> Nat] /\ v \in Writers
  BY DEF CollectorsInv, CollectorsType, Writers
<1>3. /\ m \in [op: Ops, from: Writers, task: Tasks, n: Nat]
      /\ m.from = v /\ m.n = writes[v] + 1 /\ m.op = "append"
  BY <1>2 DEF Message, Ops, Tasks
<1>4. m \in Messages /\ m # Stop /\ FitsManager(m)
  <2>1. m # Stop
    BY <1>3 DEF Stop
  <2>2. manager # "progress" /\ manager # "signals"
    BY DEF Collecting
  <2> QED  BY <1>3, <2>1, <2>2 DEF Messages, FitsManager
<1> HIDE DEF m
<1>5. /\ UNCHANGED <<manager, kept, counts, link>> /\ Attached' = Attached
      /\ v \in Attached => queue' = [queue EXCEPT ![link[v]] = Append(queue[link[v]], m)]
      /\ v \notin Attached => queue' = queue
      /\ queue' \in [AllChannels -> Seq(Messages)]
      /\ InItsQueue' /\ KeptFromAttached'
  BY <1>1, <1>3, <1>4, SendPuts
<1>6. writes' \in [Writers -> Nat] /\ \A w \in Workers : w # v => writes'[w] = writes[w]
  BY <1>1, <1>2 DEF Writers
<1>7. CollectorsType'
  BY <1>1, <1>5, <1>6 DEF CollectorsInv, CollectorsType
<1>8. AllOrdered'
  <2> SUFFICES ASSUME NEW w \in Attached PROVE Ordered(kept, queue'[link[w]], w, writes'[w])
    BY <1>5 DEF AllOrdered
  <2> DEFINE q == queue[link[w]]
  <2>1. /\ w \in Workers /\ link[w] \in AllChannels
        /\ kept \in Seq(Messages) /\ q \in Seq(Messages) /\ writes[w] \in Nat
    BY DEF CollectorsInv, CollectorsType, Attached, Writers
  <2>2. Ordered(kept, q, w, writes[w])
    BY DEF CollectorsInv, AllOrdered
  <2>3. writes'[w] = IF IsOwn(m, w) THEN writes[w] + 1 ELSE writes[w]
    BY <1>1, <1>2, <1>3, <1>4, <1>6, <2>1 DEF IsOwn
  <2>4. queue \in [AllChannels -> Seq(Messages)]
    BY DEF CollectorsInv, CollectorsType
  <2> HIDE DEF q
  <2>5. CASE v \in Attached /\ link[v] = link[w]
    <3>1. queue'[link[w]] = Append(q, m)
      BY <1>5, <2>1, <2>4, <2>5 DEF q
    <3>2. IsOwn(m, w) => m.n = writes[w] + 1
      BY <1>3 DEF IsOwn
    <3>3. Ordered(kept, Append(q, m), w, IF IsOwn(m, w) THEN writes[w] + 1 ELSE writes[w])
      BY <1>4, <2>1, <2>2, <3>2, OrderedSent
    <3> QED  BY <2>3, <3>1, <3>3
  <2>6. CASE ~(v \in Attached /\ link[v] = link[w])
    <3>1. queue'[link[w]] = q /\ w # v
      BY <1>5, <2>1, <2>4, <2>6 DEF q
    <3> QED  BY <1>6, <2>1, <2>2, <3>1
  <2> QED  BY <2>5, <2>6
<1>9. CountsAddUp'
  BY <1>5 DEF CountsAddUp
<1> QED  BY <1>5, <1>7, <1>8, <1>9 DEF CollectorsInv

\* A worker that is attached counts, and what is settled counts it too.
LEMMA SendSettles ==
  ASSUME CollectorsInv, manager \notin Collecting,
         NEW v \in Workers, NEW m \in Messages, m # Stop, m.from = v, FitsManager(m), Send(v, m)
  PROVE  Settled' = IF v \in Attached THEN Updated(Settled, m) ELSE Settled
<1>1. /\ counts' = counts
      /\ v \in Attached => queue' = [queue EXCEPT ![link[v]] = Append(queue[link[v]], m)]
      /\ v \notin Attached => queue' = queue
  BY SendPuts
<1>2. CollectorsType /\ InItsQueue /\ queue \in [AllChannels -> Seq(Messages)]
  BY DEF CollectorsInv, CollectorsType
<1>3. m \in CountMessages
  BY <1>2, SentCounts
<1>4. Settled' = Settle(counts, queue'["mp"], queue'["ray"])
  BY <1>1 DEF Settled, Settle
<1> DEFINE mp == queue["mp"]
           ray == queue["ray"]
<1>5. /\ counts \in [Tasks -> Int] /\ mp \in Seq(CountMessages) /\ ray \in Seq(CountMessages)
      /\ Settled = Settle(counts, mp, ray)
  BY CountFacts
<1>6. /\ (\A i \in 1..Len(ray) : Commute(ray[i], m))
           => Settle(counts, Append(mp, m), ray) = Updated(Settle(counts, mp, ray), m)
      /\ Settle(counts, mp, Append(ray, m)) = Updated(Settle(counts, mp, ray), m)
  <2> HIDE DEF mp, ray
  <2> QED  BY <1>3, <1>5, SettleSent
<1>7. CASE v \in Attached /\ link[v] = "mp"
  <2>1. queue'["mp"] = Append(queue["mp"], m) /\ queue'["ray"] = queue["ray"]
    BY <1>1, <1>2, <1>7 DEF AllChannels
  <2>2. \A i \in 1..Len(queue["ray"]) : Commute(queue["ray"][i], m)
    <3>1. SentOver("mp", m)
      BY <1>7 DEF SentOver
    <3>2. \A i \in 1..Len(queue["ray"]) : queue["ray"][i] \in Messages /\ SentOver("ray", queue["ray"][i])
      BY <1>2, QueuesCount DEF AllChannels
    <3> QED  BY <1>2, <3>1, <3>2, ChannelsCommute
  <2>3. Settle(counts, Append(queue["mp"], m), queue["ray"])
          = Updated(Settle(counts, queue["mp"], queue["ray"]), m)
    BY <1>6, <2>2
  <2> QED  BY <1>4, <1>7, <2>1, <2>3, CountFacts
<1>8. CASE v \in Attached /\ link[v] = "ray"
  <2>1. queue'["ray"] = Append(queue["ray"], m) /\ queue'["mp"] = queue["mp"]
    BY <1>1, <1>2, <1>8 DEF AllChannels
  <2>2. Settle(counts, queue["mp"], Append(queue["ray"], m))
          = Updated(Settle(counts, queue["mp"], queue["ray"]), m)
    BY <1>6
  <2> QED  BY <1>4, <1>8, <2>1, <2>2, CountFacts
<1>9. CASE v \notin Attached
  BY <1>1, <1>4, <1>9, CountFacts
<1> QED  BY <1>7, <1>8, <1>9 DEF Attached, AllChannels

\* The view of the worker and what is settled agree again.
LEMMA CountKeeps ==
  ASSUME CollectorsInv, manager \notin Collecting,
         NEW v \in Workers, NEW m \in Messages, m # Stop, m.from = v, FitsManager(m), Send(v, m),
         cache' = [cache EXCEPT ![v] = Updated(cache[v], m)],
         made' = IF v \in Attached /\ Sharing(m) THEN made + 1 ELSE made
  PROVE  CollectorsInv'
<1>1. /\ UNCHANGED <<manager, kept, counts, link>> /\ Attached' = Attached
      /\ queue' \in [AllChannels -> Seq(Messages)]
      /\ InItsQueue' /\ KeptFromAttached'
  BY SendPuts
<1>2. Settled' = IF v \in Attached THEN Updated(Settled, m) ELSE Settled
  BY SendSettles
<1>3. CollectorsType /\ cache \in [Workers -> [Tasks -> Int]] /\ made \in Nat /\ v \in Tasks
  BY DEF CollectorsInv, CollectorsType, Tasks
<1>4. /\ m \in CountMessages
      /\ Sharing(m) \/ (m.op \in {"register", "set"} /\ m.task = v)
  BY <1>3, SentCounts
<1>5. /\ Updated(cache[v], m) = [cache[v] EXCEPT ![m.task] = Changed(cache[v][m.task], m)]
      /\ Updated(cache[v], m) \in [Tasks -> Int]
  BY <1>3, <1>4, UpdatedOne
<1>6. /\ Updated(Settled, m) = [Settled EXCEPT ![m.task] = Changed(Settled[m.task], m)]
      /\ Settled \in [Tasks -> Int]
  BY <1>4, CountFacts, UpdatedOne
<1>7. CollectorsType'
  <2>1. writes' \in [Writers -> Nat]
    BY DEF Send, CollectorsInv, CollectorsType, Writers
  <2>2. cache' \in [Workers -> [Tasks -> Int]]
    BY <1>3, <1>5
  <2> QED  BY <1>1, <1>3, <2>1, <2>2 DEF CollectorsInv, CollectorsType
<1>8. AllOrdered'
  BY <1>1 DEF AllOrdered
<1>9. CountsAddUp'
  <2>1. Settled'[Shared] = IF manager = "signals" /\ made' = 0 THEN Absent ELSE made'
    <3>1. CASE v \in Attached /\ Sharing(m)
      <4>1. Updated(Settled, m)[Shared] = made + 1
        BY <1>4, <3>1, SharingAdds
      <4> QED  BY <1>2, <1>3, <3>1, <4>1
    <3>2. CASE v \in Attached /\ ~Sharing(m)
      <4>1. Updated(Settled, m)[Shared] = Settled[Shared]
        BY <1>3, <1>4, <1>6, <3>2, WorkersAssumption DEF Tasks
      <4> QED  BY <1>2, <3>2, <4>1, CountFacts
    <3>3. CASE v \notin Attached
      BY <1>2, <3>3, CountFacts
    <3> QED  BY <3>1, <3>2, <3>3
  <2>2. ASSUME NEW w \in Attached PROVE Settled'[w] = cache'[w][w]
    <3>1. w \in Workers /\ w \in Tasks /\ Settled[w] = cache[w][w]
      BY CountFacts DEF Attached, Tasks
    <3>2. CASE w = v
      <4>1. Settled' = Updated(Settled, m) /\ cache'[v] = Updated(cache[v], m)
        BY <1>2, <1>3, <2>2, <3>2
      <4>2. CASE m.task = v
        <5>1. Settled'[v] = Changed(Settled[v], m) /\ cache'[v][v] = Changed(cache[v][v], m)
          BY <1>3, <1>5, <1>6, <4>1, <4>2
        <5> QED  BY <3>1, <3>2, <5>1
      <4>3. CASE m.task # v
        <5>1. Settled'[v] = Settled[v] /\ cache'[v][v] = cache[v][v]
          BY <1>3, <1>5, <1>6, <4>1, <4>3
        <5> QED  BY <3>1, <3>2, <5>1
      <4> QED  BY <4>2, <4>3
    <3>3. CASE w # v
      <4>1. cache'[w] = cache[w] /\ m.task # w
        BY <1>3, <1>4, <3>1, <3>3, WorkersAssumption DEF Sharing
      <4>2. Updated(Settled, m)[w] = Settled[w]
        BY <1>6, <3>1, <4>1
      <4> QED  BY <1>2, <3>1, <4>1, <4>2
    <3> QED  BY <3>2, <3>3
  <2> QED  BY <1>1, <2>1, <2>2 DEF CountsAddUp
<1> QED  BY <1>1, <1>7, <1>8, <1>9 DEF CollectorsInv

LEMMA ProgressKeeps ==
  ASSUME CollectorsInv, NEW v \in Workers, SendProgress(v)
  PROVE  CollectorsInv'
<1>1. manager = "progress" /\ manager \notin Collecting
  BY DEF SendProgress, Collecting
<1>2. PICK m \in {Message("increment", v, Shared, 1),
                  IF cache[v][v] = Absent THEN Message("register", v, v, 0)
                  ELSE Message("set", v, v, writes[v])} :
        /\ cache' = [cache EXCEPT ![v] = Counted(@, m)]
        /\ made' = IF v \in Attached /\ m.op = "increment" THEN made + 1 ELSE made
        /\ Send(v, m)
  BY DEF SendProgress, Sent
<1>3. writes[v] \in Nat /\ v \in Writers /\ v \in Tasks /\ Shared \in Tasks
  BY DEF CollectorsInv, CollectorsType, Writers, Tasks
<1>4. /\ m \in [op: Ops, from: Writers, task: Tasks, n: Nat]
      /\ m.from = v /\ m.op \in {"increment", "register", "set"}
      /\ m.op = "increment" => m.task = Shared /\ m.n = 1
      /\ m.op \in {"register", "set"} => m.task = v
  <2>1. CASE m = Message("increment", v, Shared, 1)
    BY <1>3, <2>1 DEF Message, Ops
  <2>2. CASE m = Message("register", v, v, 0)
    BY <1>3, <2>2 DEF Message, Ops
  <2>3. CASE m = Message("set", v, v, writes[v])
    BY <1>3, <2>3 DEF Message, Ops
  <2> QED  BY <1>2, <2>1, <2>2, <2>3
<1>5. m \in Messages /\ m # Stop /\ FitsManager(m)
  <2>1. m # Stop
    BY <1>4 DEF Stop
  <2> QED  BY <1>1, <1>4, <2>1 DEF Messages, FitsManager
<1>6. cache' = [cache EXCEPT ![v] = Updated(cache[v], m)]
  <2>1. Updated(cache[v], m) = Counted(cache[v], m)
    BY <1>4 DEF Updated
  <2> QED  BY <1>2, <2>1
<1>7. made' = IF v \in Attached /\ Sharing(m) THEN made + 1 ELSE made
  BY <1>1, <1>2, <1>4 DEF Sharing
<1> QED  BY <1>1, <1>2, <1>4, <1>5, <1>6, <1>7, CountKeeps

LEMMA SignalKeeps ==
  ASSUME CollectorsInv, NEW v \in Workers, SendSignal(v)
  PROVE  CollectorsInv'
<1> DEFINE m == Message("update", v, Shared, 1)
<1>1. manager = "signals" /\ manager \notin Collecting
  BY DEF SendSignal, Collecting
<1>2. /\ m \in [op: Ops, from: Writers, task: Tasks, n: Nat]
      /\ m.from = v /\ m.op = "update" /\ m.task = Shared /\ m.n = 1
  BY DEF Message, Ops, Tasks, Writers
<1>3. /\ Send(v, m) /\ cache' = [cache EXCEPT ![v] = Versioned(cache[v], m)]
      /\ made' = IF v \in Attached THEN made + 1 ELSE made
  BY DEF SendSignal
<1> HIDE DEF m
<1>4. m \in Messages /\ m # Stop /\ FitsManager(m) /\ Sharing(m)
  <2>1. m # Stop
    BY <1>2 DEF Stop
  <2> QED  BY <1>1, <1>2, <2>1 DEF Messages, FitsManager, Sharing
<1>5. cache' = [cache EXCEPT ![v] = Updated(cache[v], m)]
  BY <1>2, <1>3 DEF Updated
<1>6. made' = IF v \in Attached /\ Sharing(m) THEN made + 1 ELSE made
  BY <1>3, <1>4
<1> QED  BY <1>1, <1>2, <1>3, <1>4, <1>5, <1>6, CountKeeps

\* A worker's records stay in order when one of the driver is kept.
LEMMA LocalRecordKeeps ==
  ASSUME CollectorsInv, WriteLocally, manager \in Collecting
  PROVE  CollectorsInv'
<1> DEFINE m == Message("append", Driver, Shared, writes'[Driver])
<1>1. /\ writes' = [writes EXCEPT ![Driver] = writes[Driver] + 1] /\ made' = made + 1
      /\ UNCHANGED <<manager, queue, link, cache>> /\ Attached' = Attached
  BY DEF WriteLocally, Attached
<1>2. writes \in [Writers -> Nat] /\ Driver \in Writers
  BY DEF CollectorsInv, CollectorsType, Writers
<1>3. /\ writes'[Driver] \in Nat /\ writes' \in [Writers -> Nat]
      /\ \A w \in Workers : writes'[w] = writes[w]
  BY <1>1, <1>2, WorkersAssumption DEF Writers
<1>4. m \in [op: Ops, from: Writers, task: Tasks, n: Nat] /\ m.from = Driver /\ m.op = "append"
  BY <1>2, <1>3 DEF Message, Ops, Tasks
<1>5. m \in Messages /\ \A w \in Workers : ~IsOwn(m, w)
  BY <1>4, WorkersAssumption DEF Messages, IsOwn
<1>6. kept' = Kept(kept, m) /\ counts' = counts
  <2> DEFINE local ==
        CASE manager \in Collecting -> Message("append", Driver, Shared, writes'[Driver])
          [] manager = "progress"   -> Message("increment", Driver, Shared, 1)
          [] manager = "signals"    -> Message("update", Driver, Shared, 1)
  <2>1. local = m
    BY DEF Collecting
  <2>2. IF local.op = "append" THEN kept' = Kept(kept, local) /\ UNCHANGED counts
        ELSE counts' = Updated(counts, local) /\ UNCHANGED kept
    BY DEF WriteLocally, Apply
  <2> HIDE DEF m, local
  <2> QED  BY <1>4, <2>1, <2>2
<1>7. kept \in Seq(Messages)
  BY DEF CollectorsInv, CollectorsType
<1> HIDE DEF m
<1>8. CollectorsType'
  BY <1>1, <1>3, <1>5, <1>6, <1>7, KeptIs DEF CollectorsInv, CollectorsType
<1>9. InItsQueue'
  BY <1>1 DEF CollectorsInv, InItsQueue, SentOver, FitsManager
<1>10. KeptFromAttached'
  BY <1>1, <1>5, <1>6, <1>7, KeptIs DEF CollectorsInv, KeptFromAttached
<1>11. AllOrdered'
  <2> SUFFICES ASSUME NEW w \in Attached PROVE Ordered(kept', queue[link[w]], w, writes'[w])
    BY <1>1 DEF AllOrdered
  <2>1. /\ w \in Workers /\ queue[link[w]] \in Seq(Messages) /\ writes[w] \in Nat
    BY DEF CollectorsInv, CollectorsType, Attached, Writers
  <2>2. Ordered(kept, queue[link[w]], w, writes[w])
    BY DEF CollectorsInv, AllOrdered
  <2>3. Ordered(Append(kept, m), queue[link[w]], w, writes[w])
    BY <1>5, <1>7, <2>1, <2>2, OrderedOther
  <2>4. Ordered(Kept(kept, m), queue[link[w]], w, writes[w])
    BY <1>5, <1>7, <2>1, <2>3, KeptIs
  <2> QED  BY <1>3, <1>6, <2>1, <2>4
<1>12. CountsAddUp'
  BY <1>1 DEF CountsAddUp
<1> QED  BY <1>8, <1>9, <1>10, <1>11, <1>12 DEF CollectorsInv

LEMMA LocalCountKeeps ==
  ASSUME CollectorsInv, WriteLocally, manager \notin Collecting
  PROVE  CollectorsInv'
<1> DEFINE m == Message(IF manager = "progress" THEN "increment" ELSE "update", Driver, Shared, 1)
           mp == queue["mp"]
           ray == queue["ray"]
<1>1. /\ writes' = [writes EXCEPT ![Driver] = writes[Driver] + 1] /\ made' = made + 1
      /\ UNCHANGED <<manager, queue, link, cache>> /\ Attached' = Attached
  BY DEF WriteLocally, Attached
<1>2. manager \in {"progress", "signals"} /\ CollectorsType
  BY CountFacts DEF CollectorsInv
<1>3. m = IF manager = "progress" THEN Message("increment", Driver, Shared, 1)
          ELSE Message("update", Driver, Shared, 1)
  OBVIOUS
<1>4. Apply(m)
  BY <1>2, <1>3 DEF WriteLocally
<1>5. /\ m \in [op: Ops, from: Writers, task: Tasks, n: Nat]
      /\ m.op \in Counting /\ m.op # "append" /\ Sharing(m)
  BY <1>2 DEF Message, Ops, Tasks, Writers, Counting, Sharing
<1> HIDE DEF m
<1>6. m \in CountMessages /\ m # Stop
  <2>1. m # Stop
    BY <1>5 DEF Stop, Counting
  <2>2. m = [op |-> m.op, from |-> m.from, task |-> m.task, n |-> m.n]
    BY <1>5
  <2>3. m \in [op: Counting, from: Writers, task: Tasks, n: Nat]
    BY <1>5, <2>2
  <2> QED  BY <2>1, <2>3 DEF CountMessages
<1>7. kept' = kept /\ counts' = Updated(counts, m)
  BY <1>4, <1>5 DEF Apply
<1>8. /\ counts \in [Tasks -> Int] /\ mp \in Seq(CountMessages) /\ ray \in Seq(CountMessages)
      /\ Settled = Settle(counts, mp, ray)
  BY CountFacts
<1>9. ASSUME NEW c \in AllChannels PROVE \A i \in 1..Len(queue[c]) : Commute(queue[c][i], m)
  <2>1. \A i \in 1..Len(queue[c]) : queue[c][i] \in Messages /\ SentOver(c, queue[c][i])
    BY QueuesCount DEF CollectorsInv
  <2> QED  BY <1>2, <1>5, <2>1, SharingCommutes
<1>10. Settled' = Updated(Settled, m)
  <2>1. /\ \A i \in 1..Len(mp) : Commute(mp[i], m)
        /\ \A i \in 1..Len(ray) : Commute(ray[i], m)
    BY <1>9 DEF AllChannels
  <2>2. Settled' = Settle(Updated(counts, m), mp, ray)
    BY <1>1, <1>7 DEF Settled, Settle
  <2> HIDE DEF mp, ray
  <2> QED  BY <1>6, <1>8, <2>1, <2>2, SettleLocal
<1>11. CollectorsType'
  <2>1. counts' \in [Tasks -> Int]
    BY <1>6, <1>7, <1>8, UpdatedOne
  <2>2. writes' \in [Writers -> Nat]
    BY <1>1 DEF CollectorsInv, CollectorsType, Writers
  <2> QED  BY <1>1, <1>7, <2>1, <2>2 DEF CollectorsInv, CollectorsType
<1>12. InItsQueue'
  BY <1>1 DEF CollectorsInv, InItsQueue, SentOver, FitsManager
<1>13. KeptFromAttached'
  BY <1>1, <1>7 DEF CollectorsInv, KeptFromAttached
<1>14. AllOrdered'
  BY <1>1 DEF AllOrdered
<1>15. CountsAddUp'
  <2>1. Settled'[Shared] = made + 1
    BY <1>5, <1>6, <1>10, SharingAdds
  <2>2. ASSUME NEW w \in Attached PROVE Settled'[w] = cache[w][w]
    <3>1. w \in Tasks /\ w # Shared
      BY WorkersAssumption DEF Attached, Tasks
    <3>2. Updated(Settled, m) = [Settled EXCEPT ![m.task] = Changed(Settled[m.task], m)]
      BY <1>6, CountFacts, UpdatedOne
    <3>3. Updated(Settled, m)[w] = Settled[w]
      BY <1>5, <3>1, <3>2, CountFacts DEF Sharing
    <3> QED  BY <1>10, <3>3, CountFacts
  <2>3. made + 1 # 0
    BY CountFacts
  <2> QED  BY <1>1, <2>1, <2>2, <2>3 DEF CountsAddUp
<1> QED  BY <1>11, <1>12, <1>13, <1>14, <1>15 DEF CollectorsInv

\* The message at the head of a queue arrives.
LEMMA ReceiveKeeps ==
  ASSUME CollectorsInv, NEW c \in AllChannels, Receive(c)
  PROVE  CollectorsInv'
<1> DEFINE q == queue[c]
           h == Head(q)
<1>1. /\ q # <<>> /\ queue' = [queue EXCEPT ![c] = Tail(q)]
      /\ h = Stop => UNCHANGED <<kept, counts>>
      /\ h # Stop => Apply(h)
      /\ UNCHANGED <<manager, link, cache, writes, made>> /\ Attached' = Attached
  BY DEF Receive, Attached
<1>2. queue \in [AllChannels -> Seq(Messages)] /\ kept \in Seq(Messages) /\ CollectorsType
  BY DEF CollectorsInv, CollectorsType
<1>3. /\ q \in Seq(Messages) /\ h \in Messages /\ Tail(q) \in Seq(Messages) /\ Len(q) \in Nat
      /\ queue'[c] = Tail(q) /\ \A d \in AllChannels : d # c => queue'[d] = queue[d]
      /\ queue' \in [AllChannels -> Seq(Messages)]
  <2>1. q \in Seq(Messages) /\ Len(q) \in Nat
    BY <1>2
  <2>2. h \in Messages /\ Tail(q) \in Seq(Messages)
    BY <1>1, <2>1, TailOwn
  <2> QED  BY <1>1, <1>2, <2>1, <2>2
<1>4. SentOver(c, h)
  <2>1. h = q[1] /\ 1 \in 1..Len(q)
    BY <1>1, <1>3
  <2> QED  BY <2>1 DEF CollectorsInv, InItsQueue
<1>5. InItsQueue'
  <2>1. manager' = manager /\ link' = link
    BY <1>1
  <2> HIDE DEF h, q
  <2> SUFFICES ASSUME NEW d \in AllChannels, NEW i \in 1..Len(queue'[d])
               PROVE  SentOver(d, queue'[d][i])
    BY <2>1 DEF InItsQueue, SentOver, FitsManager
  <2> USE DEF q
  <2>2. CASE d = c
    <3>1. i + 1 \in 1..Len(q) /\ queue'[d][i] = q[i + 1]
      BY <1>1, <1>3, <2>2
    <3> QED  BY <2>2, <3>1 DEF CollectorsInv, InItsQueue
  <2>3. CASE d # c
    BY <1>3, <2>3 DEF CollectorsInv, InItsQueue
  <2> QED  BY <2>2, <2>3
<1>6. h # Stop => h.from \in Attached
  BY <1>4 DEF SentOver, Attached
<1> HIDE DEF h
<1>7. CASE manager \in Collecting
  <2>1. h # Stop => kept' = Kept(kept, h) /\ counts' = counts
    BY <1>1, <1>4, <1>7 DEF SentOver, FitsManager, Apply
  <2>2. CollectorsType'
    BY <1>1, <1>2, <1>3, <2>1, KeptIs DEF CollectorsType
  <2>3. KeptFromAttached'
    <3> SUFFICES ASSUME NEW w \in Workers, w \notin Attached PROVE Own(kept', w) = {}
      BY <1>1 DEF KeptFromAttached
    <3>1. Own(kept, w) = {} /\ ~IsOwn(h, w)
      BY <1>6 DEF CollectorsInv, KeptFromAttached, IsOwn
    <3>2. Own(Kept(kept, h), w) = {}
      BY <1>2, <1>3, <3>1, KeptIs
    <3> QED  BY <1>1, <2>1, <3>1, <3>2
  <2>4. AllOrdered'
    <3> SUFFICES ASSUME NEW w \in Attached PROVE Ordered(kept', queue'[link[w]], w, writes[w])
      BY <1>1 DEF AllOrdered
    <3>1. /\ w \in Workers /\ link[w] \in AllChannels /\ queue[link[w]] \in Seq(Messages)
          /\ writes[w] \in Nat
      BY <1>2 DEF CollectorsType, Attached, Writers
    <3>2. Ordered(kept, queue[link[w]], w, writes[w])
      BY <1>7 DEF CollectorsInv, AllOrdered
    <3>3. CASE link[w] = c
      <4>1. /\ h # Stop => Ordered(Append(kept, h), Tail(q), w, writes[w])
            /\ h = Stop => Ordered(kept, Tail(q), w, writes[w])
        BY <1>1, <1>2, <1>3, <3>1, <3>2, <3>3, OrderedReceived DEF h
      <4>2. h # Stop => Ordered(Kept(kept, h), Tail(q), w, writes[w])
        BY <1>2, <1>3, <3>1, <4>1, KeptIs
      <4> QED  BY <1>1, <1>3, <2>1, <3>3, <4>1, <4>2
    <3>4. CASE link[w] # c
      <4>1. ~IsOwn(h, w) /\ queue'[link[w]] = queue[link[w]]
        BY <1>3, <1>4, <3>1, <3>4 DEF IsOwn, SentOver
      <4>2. Ordered(Append(kept, h), queue[link[w]], w, writes[w])
        BY <1>2, <1>3, <3>1, <3>2, <4>1, OrderedOther
      <4>3. Ordered(Kept(kept, h), queue[link[w]], w, writes[w])
        BY <1>2, <1>3, <3>1, <4>2, KeptIs
      <4> QED  BY <1>1, <2>1, <3>2, <4>1, <4>3
    <3> QED  BY <3>3, <3>4
  <2>5. CountsAddUp'
    BY <1>1, <1>7 DEF CountsAddUp
  <2> QED  BY <1>5, <2>2, <2>3, <2>4, <2>5 DEF CollectorsInv
<1>8. CASE manager \notin Collecting
  <2>1. h # Stop => h \in CountMessages /\ h.op # "append"
    BY <1>2, <1>3, <1>4, <1>8, SentCounts DEF SentOver
  <2>2. kept' = kept /\ counts' = Taken(counts, h)
    BY <1>1, <2>1 DEF Apply, Taken
  <2>3. h \in CountMessages
    BY <2>1 DEF CountMessages
  <2>4. CollectorsType'
    <3>1. counts' \in [Tasks -> Int]
      BY <1>8, <2>2, <2>3, CountFacts, TakenType
    <3> QED  BY <1>1, <1>2, <1>3, <2>2, <3>1 DEF CollectorsType
  <2>5. KeptFromAttached'
    BY <1>1, <2>2 DEF CollectorsInv, KeptFromAttached
  <2>6. AllOrdered'
    BY <1>1, <1>8 DEF AllOrdered
  <2>7. Settled' = Settled
    <3> DEFINE mp == queue["mp"]
               ray == queue["ray"]
    <3>1. /\ counts \in [Tasks -> Int] /\ mp \in Seq(CountMessages) /\ ray \in Seq(CountMessages)
          /\ Settled = Settle(counts, mp, ray)
      BY <1>8, CountFacts
    <3>2. Settled' = Settle(Taken(counts, h), queue'["mp"], queue'["ray"])
      BY <2>2 DEF Settled, Settle
    <3>3. CASE c = "mp"
      <4>1. mp # <<>> /\ h = Head(mp) /\ queue'["mp"] = Tail(mp) /\ queue'["ray"] = ray
        BY <1>1, <1>3, <3>3 DEF h, AllChannels
      <4> HIDE DEF mp, ray
      <4> QED  BY <3>1, <3>2, <4>1, SettleReceived
    <3>4. CASE c = "ray"
      <4>1. ray # <<>> /\ h = Head(ray) /\ queue'["ray"] = Tail(ray) /\ queue'["mp"] = mp
        BY <1>1, <1>3, <3>4 DEF h, AllChannels
      <4>2. h # Stop => \A i \in 1..Len(mp) : Commute(mp[i], h)
        <5> SUFFICES ASSUME h # Stop, NEW i \in 1..Len(mp) PROVE Commute(mp[i], h)
          OBVIOUS
        <5>1. mp[i] \in Messages /\ SentOver("mp", mp[i])
          BY <1>8, QueuesCount DEF CollectorsInv, AllChannels
        <5> QED  BY <1>2, <1>3, <1>4, <1>8, <3>4, <5>1, ChannelsCommute
      <4> HIDE DEF mp, ray
      <4> QED  BY <3>1, <3>2, <4>1, <4>2, SettleReceived
    <3> QED  BY <3>3, <3>4 DEF AllChannels
  <2>8. CountsAddUp'
    BY <1>1, <2>7 DEF CollectorsInv, CountsAddUp
  <2> QED  BY <1>5, <2>4, <2>5, <2>6, <2>8 DEF CollectorsInv
<1> QED  BY <1>7, <1>8

\* A consumer is told to stop.
LEMMA CloseKeeps ==
  ASSUME CollectorsInv, Close
  PROVE  CollectorsInv'
<1>1. UNCHANGED <<manager, kept, counts, link, cache, writes, made>> /\ Attached' = Attached
  BY DEF Close, Attached
<1>2. PICK c : queue' = queue \/ queue' = [queue EXCEPT ![c] = Append(queue[c], Stop)]
  BY DEF Close
<1>3. queue \in [AllChannels -> Seq(Messages)] /\ kept \in Seq(Messages) /\ Stop \in Messages
  BY DEF CollectorsInv, CollectorsType, Messages
<1>4. CASE queue' = queue
  BY <1>1, <1>4, CollectorsStutter
<1>5. CASE c \in AllChannels /\ queue' = [queue EXCEPT ![c] = Append(queue[c], Stop)]
  <2> DEFINE q == queue[c]
  <2>1. /\ q \in Seq(Messages) /\ queue'[c] = Append(q, Stop)
        /\ Append(q, Stop) \in Seq(Messages)
        /\ \A d \in AllChannels : d # c => queue'[d] = queue[d]
        /\ queue' \in [AllChannels -> Seq(Messages)]
    <3>1. q \in Seq(Messages) /\ Append(q, Stop) \in Seq(Messages)
      BY <1>3, <1>5
    <3> QED  BY <1>3, <1>5, <3>1
  <2>2. CollectorsType'
    BY <1>1, <2>1 DEF CollectorsInv, CollectorsType
  <2>3. InItsQueue'
    <3> SUFFICES ASSUME NEW d \in AllChannels, NEW i \in 1..Len(queue'[d])
                 PROVE  SentOver(d, queue'[d][i])
      BY <1>1 DEF InItsQueue, SentOver, FitsManager
    <3>1. CASE d = c /\ i \in 1..Len(q)
      <4>1. queue'[d][i] = q[i]
        BY <2>1, <3>1
      <4> QED  BY <3>1, <4>1 DEF CollectorsInv, InItsQueue
    <3>2. CASE d = c /\ i \notin 1..Len(q)
      <4>1. queue'[d][i] = Stop
        BY <2>1, <3>2
      <4> QED  BY <4>1 DEF SentOver
    <3>3. CASE d # c
      BY <2>1, <3>3 DEF CollectorsInv, InItsQueue
    <3> QED  BY <3>1, <3>2, <3>3
  <2>4. KeptFromAttached'
    BY <1>1 DEF CollectorsInv, KeptFromAttached
  <2>5. AllOrdered'
    <3> SUFFICES ASSUME manager \in Collecting, NEW w \in Attached
                 PROVE  Ordered(kept, queue'[link[w]], w, writes[w])
      BY <1>1 DEF AllOrdered
    <3>1. /\ w \in Workers /\ link[w] \in AllChannels /\ writes[w] \in Nat
      BY DEF CollectorsInv, CollectorsType, Attached, Writers
    <3>2. Ordered(kept, queue[link[w]], w, writes[w])
      BY DEF CollectorsInv, AllOrdered
    <3>3. CASE link[w] = c
      <4>1. ~IsOwn(Stop, w)
        BY DEF IsOwn
      <4>2. Ordered(kept, q, w, writes[w])
        BY <3>2, <3>3
      <4> HIDE DEF q
      <4>3. Ordered(kept, Append(q, Stop), w, writes[w])
        BY <1>3, <2>1, <3>1, <4>1, <4>2, OrderedSent
      <4> QED  BY <2>1, <3>3, <4>3
    <3>4. CASE link[w] # c
      BY <2>1, <3>1, <3>2, <3>4
    <3> QED  BY <3>3, <3>4
  <2>6. CountsAddUp'
    <3>1. CASE manager \in Collecting
      BY <1>1, <3>1 DEF CountsAddUp
    <3>2. CASE manager \notin Collecting
      <4> DEFINE mp == queue["mp"]
                 ray == queue["ray"]
      <4>1. /\ counts \in [Tasks -> Int] /\ mp \in Seq(CountMessages) /\ ray \in Seq(CountMessages)
            /\ Settled = Settle(counts, mp, ray) /\ Stop \in CountMessages
        BY <3>2, CountFacts DEF CountMessages
      <4>2. Settled' = Settle(counts, queue'["mp"], queue'["ray"])
        BY <1>1 DEF Settled, Settle
      <4>3. \/ queue'["mp"] = Append(mp, Stop) /\ queue'["ray"] = ray
            \/ queue'["mp"] = mp /\ queue'["ray"] = Append(ray, Stop)
        BY <1>5, <2>1 DEF AllChannels
      <4> HIDE DEF mp, ray
      <4>4. /\ Settle(counts, Append(mp, Stop), ray) = Settle(counts, mp, ray)
            /\ Settle(counts, mp, Append(ray, Stop)) = Settle(counts, mp, ray)
        BY <4>1, SettleSent
      <4>5. Settled' = Settled
        BY <4>1, <4>2, <4>3, <4>4
      <4> QED  BY <1>1, <4>5 DEF CollectorsInv, CountsAddUp
    <3> QED  BY <3>1, <3>2
  <2> QED  BY <2>2, <2>3, <2>4, <2>5, <2>6 DEF CollectorsInv
<1>6. CASE c \notin AllChannels /\ queue' = [queue EXCEPT ![c] = Append(queue[c], Stop)]
  <2>1. queue' = queue
    BY <1>3, <1>6
  <2> QED  BY <1>1, <2>1, CollectorsStutter
<1> QED  BY <1>2, <1>4, <1>5, <1>6

LEMMA CollectorsStep == CollectorsInv /\ [CollectorsNext]_collectorsVars => CollectorsInv'
<1> SUFFICES ASSUME CollectorsInv, [CollectorsNext]_collectorsVars PROVE CollectorsInv'
  OBVIOUS
<1>1. CASE UNCHANGED collectorsVars
  BY <1>1, CollectorsStutter DEF collectorsVars
<1>2. ASSUME NEW c \in AllChannels, Consume(c) PROVE CollectorsInv'
  <2>1. CASE Loop(c)
    BY <2>1, CollectorsStutter DEF Loop
  <2>2. CASE Timeout(c)
    BY <2>2, CollectorsStutter DEF Timeout
  <2>3. CASE Receive(c)
    BY <2>3, ReceiveKeeps
  <2> QED  BY <1>2, <2>1, <2>2, <2>3 DEF Consume
<1>3. ASSUME NEW c \in AllChannels, NEW w \in Workers, GetProxy(w, c) PROVE CollectorsInv'
  BY <1>3, GetProxyKeeps
<1>4. ASSUME NEW w \in Workers, Log(w) \/ WriteChunk(w) \/ EmitTelemetry(w)
      PROVE  CollectorsInv'
  <2>1. manager \in Collecting /\ SendRecord(w)
    BY <1>4 DEF Log, WriteChunk, EmitTelemetry, Collecting
  <2> QED  BY <2>1, RecordKeeps
<1>5. ASSUME NEW w \in Workers, SendProgress(w) PROVE CollectorsInv'
  BY <1>5, ProgressKeeps
<1>6. ASSUME NEW w \in Workers, SendSignal(w) PROVE CollectorsInv'
  BY <1>6, SignalKeeps
<1>7. CASE WriteLocally
  BY <1>7, LocalRecordKeeps, LocalCountKeeps
<1>8. CASE Clear
  BY <1>8, ClearKeeps
<1>9. CASE Close
  BY <1>9, CloseKeeps
<1> QED  BY <1>1, <1>2, <1>3, <1>4, <1>5, <1>6, <1>7, <1>8, <1>9 DEF CollectorsNext

\* RecordsInOrder, of the records of one worker among all.
InOrder(all, w, top) ==
  LET of == {i \in DOMAIN all : all[i] # Stop /\ all[i].from = w}
  IN  /\ \A i, j \in of : i < j => all[i].n < all[j].n
      /\ \A i \in of : /\ all[i].n <= top
                       /\ \A n \in all[i].n..top : \E j \in of : all[j].n = n

\* The records of the one queue behind those that are kept.
LEMMA InOrderTogether ==
  ASSUME NEW stored \in Seq(Messages), NEW messages \in Seq(Messages),
         NEW w, NEW top \in Nat, Ordered(stored, messages, w, top)
  PROVE  InOrder(stored \o messages, w, top)
<1> DEFINE all == stored \o messages
           K == Len(stored)
           M == Len(messages)
           A == Numbers(stored, w)
           B == Numbers(messages, w)
           of == {k \in DOMAIN all : all[k] # Stop /\ all[k].from = w}
<1>1. /\ K \in Nat /\ M \in Nat /\ DOMAIN all = 1..(K + M)
      /\ \A i \in 1..K : all[i] = stored[i]
      /\ \A i \in 1..M : all[K + i] = messages[i]
  OBVIOUS
<1> HIDE DEF K, M, all
<1>2. \A i \in of : \/ i \in Own(stored, w) /\ all[i] = stored[i]
                    \/ i > K /\ i - K \in Own(messages, w) /\ all[i] = messages[i - K]
  <2> TAKE i \in of
  <2>1. i \in 1..(K + M) /\ all[i] # Stop /\ all[i].from = w
    BY <1>1
  <2>2. CASE i \in 1..K
    BY <1>1, <2>1, <2>2 DEF Own, K
  <2>3. CASE i \notin 1..K
    <3>1. i > K /\ i - K \in 1..M /\ K + (i - K) = i
      BY <1>1, <2>1, <2>3
    <3>2. all[i] = messages[i - K]
      BY <1>1, <3>1
    <3> QED  BY <2>1, <3>1, <3>2 DEF Own, M
  <2> QED  BY <2>2, <2>3
<1>3. /\ \A i \in Own(stored, w) : i \in of /\ i <= K /\ all[i] = stored[i]
      /\ \A i \in Own(messages, w) : K + i \in of /\ all[K + i] = messages[i]
  <2>1. ASSUME NEW i \in Own(stored, w) PROVE i \in of /\ i <= K /\ all[i] = stored[i]
    <3>1. i \in 1..K /\ stored[i] # Stop /\ stored[i].from = w
      BY DEF Own, K
    <3> QED  BY <1>1, <3>1
  <2>2. ASSUME NEW i \in Own(messages, w) PROVE K + i \in of /\ all[K + i] = messages[i]
    <3>1. i \in 1..M /\ messages[i] # Stop /\ messages[i].from = w
      BY DEF Own, M
    <3>2. K + i \in 1..(K + M) /\ all[K + i] = messages[i]
      BY <1>1, <3>1
    <3> QED  BY <1>1, <3>1, <3>2
  <2> QED  BY <2>1, <2>2
<1> HIDE DEF of
<1>4. /\ Increasing(stored, w) /\ Increasing(messages, w)
      /\ \A x \in A, y \in B : x < y
      /\ \A n \in A \cup B : n <= top /\ n..top \subseteq A \cup B
  BY DEF Ordered
<1>5. /\ \A i \in Own(stored, w) : stored[i].n \in A
      /\ \A i \in Own(messages, w) : messages[i].n \in B
  BY DEF Numbers
<1>6. ASSUME NEW i \in of, NEW j \in of, i < j PROVE all[i].n < all[j].n
  <2>1. CASE i \in Own(stored, w) /\ j \in Own(stored, w)
    BY <1>3, <1>4, <1>6, <2>1 DEF Increasing
  <2>2. CASE i \in Own(stored, w) /\ all[i] = stored[i] /\ j > K /\ j - K \in Own(messages, w) /\ all[j] = messages[j - K]
    BY <1>4, <1>5, <2>2
  <2>3. CASE /\ i > K /\ i - K \in Own(messages, w) /\ all[i] = messages[i - K]
             /\ j > K /\ j - K \in Own(messages, w) /\ all[j] = messages[j - K]
    <3>1. i - K \in Int /\ j - K \in Int /\ i \in Int /\ j \in Int
      BY <1>1 DEF of
    <3>2. i - K < j - K
      BY <1>1, <1>6, <3>1
    <3> QED  BY <1>4, <2>3, <3>2 DEF Increasing
  <2>4. CASE i > K /\ j \in Own(stored, w)
    <3>1. j <= K /\ i \in Int /\ j \in Int
      BY <1>1, <1>3, <2>4 DEF of
    <3> QED  BY <1>1, <1>6, <2>4, <3>1
  <2> QED  BY <1>2, <2>1, <2>2, <2>3, <2>4
<1>7. ASSUME NEW i \in of
      PROVE  all[i].n <= top /\ \A n \in all[i].n..top : \E j \in of : all[j].n = n
  <2>1. all[i].n \in A \cup B
    BY <1>2, <1>5
  <2>2. all[i].n <= top /\ all[i].n..top \subseteq A \cup B
    BY <1>4, <2>1
  <2>3. ASSUME NEW n \in A \cup B PROVE \E j \in of : all[j].n = n
    <3>1. CASE n \in A
      <4>1. PICK j \in Own(stored, w) : n = stored[j].n
        BY <3>1 DEF Numbers
      <4> QED  BY <1>3, <4>1
    <3>2. CASE n \in B
      <4>1. PICK j \in Own(messages, w) : n = messages[j].n
        BY <3>2 DEF Numbers
      <4> QED  BY <1>3, <4>1
    <3> QED  BY <2>3, <3>1, <3>2
  <2> QED  BY <2>2, <2>3
<1> QED  BY <1>6, <1>7 DEF of, all, InOrder

\* Between the caches of the workers, two channels and the driver, nothing an
\* attached worker wrote is lost, doubled or out of order.
THEOREM NothingIsLost == CollectorsSpec => []NothingLostInTransit
<1>1. CollectorsInv => NothingLostInTransit
  <2> SUFFICES ASSUME CollectorsInv PROVE NothingLostInTransit
    OBVIOUS
  <2>1. ASSUME manager \in Collecting, NEW w \in Attached
        PROVE  InOrder(kept \o queue[link[w]], w, writes[w])
    <3>1. /\ kept \in Seq(Messages) /\ queue[link[w]] \in Seq(Messages) /\ writes[w] \in Nat
      BY DEF CollectorsInv, CollectorsType, Attached, Writers
    <3>2. Ordered(kept, queue[link[w]], w, writes[w])
      BY <2>1 DEF CollectorsInv, AllOrdered
    <3> QED  BY <3>1, <3>2, InOrderTogether
  <2>2. RecordsInOrder
    BY <2>1, Zenon DEF RecordsInOrder, InOrder
  <2> QED  BY <2>2 DEF CollectorsInv, NothingLostInTransit
<1> QED  BY <1>1, CollectorsStart, CollectorsStep, PTL DEF CollectorsSpec
=============================================================================
