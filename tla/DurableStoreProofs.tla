------------------------- MODULE DurableStoreProofs -------------------------
(***************************************************************************)
(* TLAPS proofs about DurableStore and StoreMaintenance, for every value   *)
(* of their constants: type correctness; on top of it the safety           *)
(* properties that concern leases, finished work and reconciliation; then, *)
(* following a journal through its transactions, that the tables are what  *)
(* a rebuild computes from the journal alone: attempt rows, command        *)
(* receipts, wave rows, the numbering of waves and attempts, and the       *)
(* succession of owners; and last what refreshes, rebuilds and ledger      *)
(* reads leave true when they come between the calls of the store.         *)
(***************************************************************************)
EXTENDS StoreMaintenance, IntervalTheorems, SequenceTheorems, FiniteSetTheorems

-----------------------------------------------------------------------------
(* What a transaction's batch of events may be and what it does to rows.    *)

\* The batches the store's methods append.
WellFormed(batch) ==
  /\ batch \in Seq(Event)
  /\ \A i \in DOMAIN batch : batch[i].kind = "attempt" =>
       /\ batch[i].exec \in Execution
       /\ AttemptOf(batch[i]) \in Process \X (Nat \ {0})
       /\ batch[i].status \in AttemptStatus

\* Positions in a batch have a first and a last element.
LEMMA PositionsExtrema ==
  ASSUME NEW batch \in Seq(Event), NEW S, S \subseteq DOMAIN batch, S # {}
  PROVE  /\ Min(S) \in S /\ Max(S) \in S
         /\ SequenceOf(Min(S)) = Len(events) + Min(S) - 1
         /\ SequenceOf(Max(S)) = Len(events) + Max(S) - 1
<1>1. Len(batch) \in Nat /\ DOMAIN batch = 1..Len(batch)
  OBVIOUS
<1>2. S \subseteq Nat /\ S \subseteq 0..Len(batch)
  BY <1>1
<1> QED
  BY <1>1, <1>2, LeastExists, GreatestExists DEF SequenceOf

\* Appending events only moves last_event_sequence of execution rows.
LEMMA ExecutionsAfterRows ==
  ASSUME TypeOK, NEW batch, WellFormed(batch)
  PROVE  /\ DOMAIN ExecutionsAfter(batch) = DOMAIN executions
         /\ \A e \in DOMAIN executions :
              /\ ExecutionsAfter(batch)[e] \in ExecutionRow
              /\ ExecutionsAfter(batch)[e].status = executions[e].status
              /\ ExecutionsAfter(batch)[e].session = executions[e].session
              /\ ExecutionsAfter(batch)[e].ordinal = executions[e].ordinal
              /\ ExecutionsAfter(batch)[e].first = executions[e].first
<1>1. DOMAIN ExecutionsAfter(batch) = DOMAIN executions
  BY DEF ExecutionsAfter
<1>2. ASSUME NEW e \in DOMAIN executions
      PROVE  /\ ExecutionsAfter(batch)[e] \in ExecutionRow
             /\ ExecutionsAfter(batch)[e].status = executions[e].status
             /\ ExecutionsAfter(batch)[e].session = executions[e].session
             /\ ExecutionsAfter(batch)[e].ordinal = executions[e].ordinal
             /\ ExecutionsAfter(batch)[e].first = executions[e].first
  <2> DEFINE mine == {i \in DOMAIN batch : batch[i].exec = e}
  <2>1. executions[e] \in ExecutionRow
    BY <1>2 DEF TypeOK
  <2>2. CASE mine = {}
    BY <2>1, <2>2 DEF ExecutionsAfter
  <2>3. CASE mine # {}
    <3>1. ExecutionsAfter(batch)[e] = [executions[e] EXCEPT !.last = SequenceOf(Max(mine))]
      BY <2>3 DEF ExecutionsAfter
    <3>2. batch \in Seq(Event) /\ mine \subseteq DOMAIN batch
      BY DEF WellFormed
    <3> HIDE DEF mine
    <3>3. SequenceOf(Max(mine)) \in Nat
      <4>1. Max(mine) \in mine /\ SequenceOf(Max(mine)) = Len(events) + Max(mine) - 1
        BY <2>3, <3>2, PositionsExtrema
      <4>2. Len(events) \in Nat /\ Len(batch) \in Nat /\ DOMAIN batch = 1..Len(batch)
        BY <3>2 DEF TypeOK
      <4> QED
        BY <3>2, <4>1, <4>2
    <3> QED
      BY <2>1, <3>1, <3>3 DEF ExecutionRow
  <2> QED
    BY <2>2, <2>3
<1> QED
  BY <1>1, <1>2

\* Appending events keeps every attempt row, its wave, owner and first event;
\* a row changes status only to that of an event naming it.
LEMMA AttemptsAfterRows ==
  ASSUME TypeOK, NEW batch, WellFormed(batch)
  PROVE  /\ DOMAIN attempts \subseteq DOMAIN AttemptsAfter(batch)
         /\ DOMAIN AttemptsAfter(batch) \subseteq Process \X (Nat \ {0})
         /\ \A a \in DOMAIN AttemptsAfter(batch) :
              /\ AttemptsAfter(batch)[a] \in AttemptRow
              /\ a \in DOMAIN attempts /\ Concerning(batch, a) = {} =>
                   AttemptsAfter(batch)[a] = attempts[a]
              /\ a \in DOMAIN attempts =>
                   /\ AttemptsAfter(batch)[a].exec = attempts[a].exec
                   /\ AttemptsAfter(batch)[a].session = attempts[a].session
              /\ Concerning(batch, a) # {} =>
                   \E i \in Concerning(batch, a) : AttemptsAfter(batch)[a].status = batch[i].status
              /\ a \notin DOMAIN attempts =>
                   \E i \in Concerning(batch, a) :
                     /\ AttemptsAfter(batch)[a].exec = batch[i].exec
                     /\ AttemptsAfter(batch)[a].session = batch[i].session
<1> DEFINE named == {AttemptOf(batch[i]) : i \in {j \in DOMAIN batch : batch[j].kind = "attempt"}}
           after == AttemptsAfter(batch)
<1>1. DOMAIN after = DOMAIN attempts \cup named
  BY DEF AttemptsAfter
<1>2. named \subseteq Process \X (Nat \ {0})
  BY DEF WellFormed
<1>3. DOMAIN attempts \subseteq Process \X (Nat \ {0})
  BY DEF TypeOK
<1>4. ASSUME NEW a \in DOMAIN after
      PROVE  /\ after[a] \in AttemptRow
             /\ a \in DOMAIN attempts /\ Concerning(batch, a) = {} => after[a] = attempts[a]
             /\ a \in DOMAIN attempts =>
                  /\ after[a].exec = attempts[a].exec
                  /\ after[a].session = attempts[a].session
             /\ Concerning(batch, a) # {} =>
                  \E i \in Concerning(batch, a) : after[a].status = batch[i].status
             /\ a \notin DOMAIN attempts =>
                  \E i \in Concerning(batch, a) :
                    after[a].exec = batch[i].exec /\ after[a].session = batch[i].session
  <2> DEFINE mine == Concerning(batch, a)
             row == IF a \in DOMAIN attempts THEN attempts[a]
                    ELSE [exec |-> batch[Min(mine)].exec, session |-> batch[Min(mine)].session,
                          first |-> SequenceOf(Min(mine)), status |-> "pending", last |-> 0]
  <2>1. after[a] = IF mine = {} THEN row
                   ELSE [row EXCEPT !.status = batch[Max(mine)].status, !.last = SequenceOf(Max(mine))]
    BY <1>1, <1>4 DEF AttemptsAfter
  <2>2. batch \in Seq(Event) /\ mine \subseteq DOMAIN batch
    BY DEF WellFormed, Concerning
  <2>3. Len(events) \in Nat /\ DOMAIN batch = 1..Len(batch) /\ Len(batch) \in Nat
    BY <2>2 DEF TypeOK
  <2>4. a \in DOMAIN attempts => attempts[a] \in AttemptRow
    BY DEF TypeOK
  <2>5. a \notin DOMAIN attempts => mine # {}
    BY <1>1, <1>4 DEF Concerning
  <2>6. CASE mine = {}
    <3>1. a \in DOMAIN attempts
      BY <2>5, <2>6
    <3>2. after[a] = attempts[a]
      BY <2>1, <2>6, <3>1
    <3> QED
      BY <2>4, <2>6, <3>1, <3>2
  <2>7. CASE mine # {}
    <3> HIDE DEF mine
    <3>1. Min(mine) \in mine /\ Max(mine) \in mine
          /\ SequenceOf(Min(mine)) \in Nat /\ SequenceOf(Max(mine)) \in Nat
      <4>1. /\ Min(mine) \in mine /\ Max(mine) \in mine
            /\ SequenceOf(Min(mine)) = Len(events) + Min(mine) - 1
            /\ SequenceOf(Max(mine)) = Len(events) + Max(mine) - 1
        BY <2>2, <2>7, PositionsExtrema
      <4> QED
        BY <4>1, <2>2, <2>3
    <3>2. \A i \in mine : /\ batch[i] \in Event /\ batch[i].exec \in Execution
                          /\ batch[i].status \in AttemptStatus
                          /\ batch[i].session \in SessionId \cup {None}
      <4> TAKE i \in mine
      <4>1. batch[i] \in Event /\ batch[i].kind = "attempt"
        BY <2>2 DEF mine, Concerning
      <4> QED
        BY <2>2, <4>1 DEF WellFormed, Event
    <3>3. row \in AttemptRow
      BY <2>4, <3>1, <3>2 DEF AttemptRow, AttemptStatus
    <3>4. after[a] = [row EXCEPT !.status = batch[Max(mine)].status, !.last = SequenceOf(Max(mine))]
      BY <2>1, <2>7
    <3>5. /\ after[a] \in AttemptRow /\ after[a].exec = row.exec /\ after[a].session = row.session
          /\ after[a].status = batch[Max(mine)].status
      <4> HIDE DEF row
      <4> QED
        BY <3>1, <3>2, <3>3, <3>4 DEF AttemptRow
    <3>6. a \in DOMAIN attempts => row = attempts[a]
      OBVIOUS
    <3>7. a \notin DOMAIN attempts => /\ row.exec = batch[Min(mine)].exec
                                   /\ row.session = batch[Min(mine)].session
      OBVIOUS
    <3> QED
      BY <2>7, <3>1, <3>5, <3>6, <3>7 DEF mine
  <2> QED
    BY <2>6, <2>7
<1> QED
  BY <1>1, <1>2, <1>3, <1>4

\* What Journal leaves behind: a typed journal, longer by the batch, and typed
\* attempt rows.
LEMMA JournalTyped ==
  ASSUME TypeOK, NEW batch, WellFormed(batch), Journal(batch)
  PROVE  /\ events' \in Seq(Event)
         /\ Len(events') = Len(events) + Len(batch)
         /\ Len(events') \in Nat /\ Len(events') <= MaxEvents
         /\ DOMAIN attempts' \subseteq Process \X (Nat \ {0})
         /\ \A a \in DOMAIN attempts' : attempts'[a] \in AttemptRow
<1>1. events \in Seq(Event) /\ batch \in Seq(Event)
  BY DEF TypeOK, WellFormed
<1>2. events' = events \o batch /\ Len(events) + Len(batch) <= MaxEvents /\ attempts' = AttemptsAfter(batch)
  BY DEF Journal
<1>3. events' \in Seq(Event) /\ Len(events') = Len(events) + Len(batch)
  BY <1>1, <1>2
<1>4. /\ DOMAIN AttemptsAfter(batch) \subseteq Process \X (Nat \ {0})
      /\ \A a \in DOMAIN AttemptsAfter(batch) : AttemptsAfter(batch)[a] \in AttemptRow
  BY AttemptsAfterRows
<1>5. Len(events') \in Nat
  BY <1>3
<1> QED
  BY <1>2, <1>3, <1>4, <1>5

\* The batches of one event that is no attempt lifecycle event.
LEMMA SingleEvent ==
  ASSUME NEW ev \in Event, ev.kind # "attempt"
  PROVE  WellFormed(<<ev>>)
<1>1. <<ev>> \in Seq(Event) /\ DOMAIN <<ev>> = {1} /\ <<ev>>[1] = ev
  OBVIOUS
<1> QED
  BY <1>1 DEF WellFormed

LEMMA EventTypes ==
  ASSUME NEW s \in SessionId, NEW status \in EventStatus
  PROVE  /\ SessionEvent(s, status) \in Event
         /\ SessionEvent(s, status).kind = "session"
  BY DurableStoreAssumption DEF SessionEvent, NewEvent, Event, EventKind

LEMMA AttemptEventType ==
  ASSUME NEW a \in Process \X (Nat \ {0}), NEW e \in Execution,
         NEW s \in SessionId \cup {None}, NEW status \in AttemptStatus
  PROVE  /\ AttemptEvent(a, e, s, status) \in Event
         /\ AttemptEvent(a, e, s, status).kind = "attempt"
         /\ AttemptEvent(a, e, s, status).exec = e
         /\ AttemptEvent(a, e, s, status).session = s
         /\ AttemptEvent(a, e, s, status).by = None
         /\ AttemptEvent(a, e, s, status).status = status
         /\ AttemptOf(AttemptEvent(a, e, s, status)) = a
<1>1. status \in EventStatus
  BY DEF EventStatus
<1>2. PICK p \in Process, n \in Nat \ {0} : a = <<p, n>>
  OBVIOUS
<1>3. a[1] = p /\ a[2] = n
  BY <1>2
<1>4. AttemptEvent(a, e, s, status) \in Event
  BY <1>1, <1>3 DEF AttemptEvent, NewEvent, Event, EventKind
<1>5. /\ AttemptEvent(a, e, s, status).kind = "attempt"
      /\ AttemptEvent(a, e, s, status).exec = e
      /\ AttemptEvent(a, e, s, status).session = s
      /\ AttemptEvent(a, e, s, status).by = None
      /\ AttemptEvent(a, e, s, status).status = status
      /\ AttemptEvent(a, e, s, status).proc = p
      /\ AttemptEvent(a, e, s, status).ord = n
  BY <1>3 DEF AttemptEvent, NewEvent
<1> QED
  BY <1>2, <1>4, <1>5 DEF AttemptOf

\* The two events of a new attempt and the one of an outcome.
LEMMA AttemptBatches ==
  ASSUME NEW a \in Process \X (Nat \ {0}), NEW e \in Execution,
         NEW s \in SessionId \cup {None}, NEW status \in AttemptStatus
  PROVE  /\ WellFormed(<<AttemptEvent(a, e, s, status)>>)
         /\ WellFormed(<<AttemptEvent(a, e, s, "pending"), AttemptEvent(a, e, s, "running")>>)
<1> DEFINE ev(x) == AttemptEvent(a, e, s, x)
<1>1. \A x \in AttemptStatus :
        /\ ev(x) \in Event /\ ev(x).kind = "attempt" /\ ev(x).exec = e
        /\ ev(x).status = x /\ AttemptOf(ev(x)) = a
  BY AttemptEventType
<1>2. "pending" \in AttemptStatus /\ "running" \in AttemptStatus
  BY DEF AttemptStatus
<1> HIDE DEF ev
<1>3. <<ev(status)>> \in Seq(Event) /\ DOMAIN <<ev(status)>> = {1}
  BY <1>1
<1>4. /\ <<ev("pending"), ev("running")>> \in Seq(Event)
      /\ DOMAIN <<ev("pending"), ev("running")>> = {1, 2}
  BY <1>1, <1>2
<1>5. WellFormed(<<ev(status)>>)
  BY <1>1, <1>3 DEF WellFormed
<1>6. WellFormed(<<ev("pending"), ev("running")>>)
  BY <1>1, <1>2, <1>4 DEF WellFormed
<1> QED
  BY <1>5, <1>6 DEF ev

-----------------------------------------------------------------------------
(* Typing.  Counting rows needs finite tables, and an ordinal is new only    *)
(* because every ordinal is at most the length of the bounded journal.       *)

TypeInv ==
  /\ TypeOK
  /\ IsFiniteSet(DOMAIN executions)
  /\ IsFiniteSet(DOMAIN attempts)
  /\ Len(events) <= MaxEvents
  /\ \A a \in DOMAIN attempts : a[2] <= Len(events)

\* begin_process_attempt numbers an attempt with an ordinal not in use.
LEMMA NextOrdinalIsNew ==
  ASSUME TypeInv, NEW p \in Process
  PROVE  /\ NextOrdinal(p) \in Nat \ {0}
         /\ NextOrdinal(p) <= Len(events) + 1
         /\ <<p, NextOrdinal(p)>> \notin DOMAIN attempts
<1> DEFINE used == Ordinals(p) \cup {0}
<1>1. Len(events) \in Nat /\ MaxEvents \in Nat /\ Len(events) <= MaxEvents
  BY DurableStoreAssumption DEF TypeInv, TypeOK
<1>2. \A n \in Ordinals(p) : n \in 1..Len(events)
  <2> TAKE n \in Ordinals(p)
  <2>1. n \in 1..MaxEvents /\ <<p, n>> \in DOMAIN attempts
    BY DEF Ordinals
  <2>2. <<p, n>>[2] <= Len(events)
    BY <2>1 DEF TypeInv
  <2> QED
    BY <1>1, <2>1, <2>2
<1>3. used \subseteq 0..Len(events) /\ used # {}
  BY <1>1, <1>2
<1> HIDE DEF used
<1>4. Max(used) \in used /\ \A n \in used : n <= Max(used)
  BY <1>1, <1>3, GreatestExists
<1>5. NextOrdinal(p) = Max(used) + 1 /\ Max(used) \in 0..Len(events)
  BY <1>3, <1>4 DEF NextOrdinal, used
<1>6. NextOrdinal(p) \in 1..Len(events) + 1
  BY <1>1, <1>5
<1>7. <<p, NextOrdinal(p)>> \notin DOMAIN attempts
  <2> SUFFICES ASSUME <<p, NextOrdinal(p)>> \in DOMAIN attempts
               PROVE  FALSE
    OBVIOUS
  <2>1. <<p, NextOrdinal(p)>>[2] <= Len(events)
    BY DEF TypeInv
  <2>2. NextOrdinal(p) \in 1..MaxEvents
    BY <1>1, <1>6, <2>1
  <2>3. NextOrdinal(p) \in used
    BY <2>2 DEF Ordinals, used
  <2> QED
    BY <1>4, <1>5, <2>3
<1> QED
  BY <1>1, <1>6, <1>7

\* A function on 1..m is a sequence of length m.
LEMMA FunctionOnInterval ==
  ASSUME NEW m \in Nat, NEW S, NEW f \in [1..m -> S]
  PROVE  f \in Seq(S) /\ Len(f) = m
  OBVIOUS

\* Attempts and executions that a reconciliation finds are rows.
LEMMA StaleRows ==
  ASSUME TypeInv, NEW s
  PROVE  /\ StaleAttempts(s) \subseteq DOMAIN attempts
         /\ StaleExecutions(s) \subseteq DOMAIN executions
         /\ StaleAttempts(s) \subseteq Process \X (Nat \ {0})
         /\ StaleExecutions(s) \subseteq Execution
         /\ Cardinality(StaleAttempts(s)) \in Nat
         /\ Cardinality(StaleExecutions(s)) \in Nat
<1>1. StaleAttempts(s) \subseteq DOMAIN attempts /\ StaleExecutions(s) \subseteq DOMAIN executions
  BY DEF StaleAttempts, StaleExecutions
<1>2. IsFiniteSet(StaleAttempts(s)) /\ IsFiniteSet(StaleExecutions(s))
  BY <1>1, FS_Subset DEF TypeInv
<1>3. Cardinality(StaleAttempts(s)) \in Nat /\ Cardinality(StaleExecutions(s)) \in Nat
  BY <1>2, FS_CardinalityType
<1> QED
  BY <1>1, <1>3 DEF TypeInv, TypeOK

\* What reconcile_interrupted_work appends: an interruption of every stale
\* attempt, an interruption of every stale execution, and nothing else.
LEMMA InterruptionBatch ==
  ASSUME TypeInv, NEW s \in SessionId, NEW as \in AttemptOrder(s), NEW es \in ExecutionOrder(s)
  PROVE  /\ WellFormed(Interruptions(s, as, es))
         /\ \A i \in DOMAIN Interruptions(s, as, es) :
              LET ev == Interruptions(s, as, es)[i]
              IN  /\ ev.by = s /\ ev.status = "interrupted"
                  /\ \/ /\ ev.kind = "attempt"
                        /\ AttemptOf(ev) \in StaleAttempts(s)
                        /\ ev.exec = attempts[AttemptOf(ev)].exec
                        /\ ev.session = attempts[AttemptOf(ev)].session
                     \/ /\ ev.kind = "execution"
                        /\ ev.exec \in StaleExecutions(s)
         /\ \A a \in StaleAttempts(s) : Concerning(Interruptions(s, as, es), a) # {}
<1> DEFINE A == [i \in DOMAIN as |-> InterruptedAttempt(as[i], s)]
           E == [i \in DOMAIN es |-> InterruptedExecution(es[i], s)]
           m == Cardinality(StaleAttempts(s))
           n == Cardinality(StaleExecutions(s))
<1>1. m \in Nat /\ n \in Nat /\ StaleAttempts(s) \subseteq DOMAIN attempts
      /\ StaleAttempts(s) \subseteq Process \X (Nat \ {0})
      /\ StaleExecutions(s) \subseteq Execution
  BY StaleRows
<1>2. as \in [1..m -> StaleAttempts(s)] /\ \A a \in StaleAttempts(s) : \E i \in 1..m : as[i] = a
  BY DEF AttemptOrder, Surjection
<1>3. es \in [1..n -> StaleExecutions(s)]
  BY DEF ExecutionOrder, Surjection
<1>4. \A a \in StaleAttempts(s) :
        /\ InterruptedAttempt(a, s) \in Event
        /\ InterruptedAttempt(a, s).kind = "attempt"
        /\ InterruptedAttempt(a, s).status = "interrupted"
        /\ InterruptedAttempt(a, s).by = s
        /\ InterruptedAttempt(a, s).exec = attempts[a].exec
        /\ InterruptedAttempt(a, s).session = attempts[a].session
        /\ AttemptOf(InterruptedAttempt(a, s)) = a
        /\ attempts[a].exec \in Execution
  <2> TAKE a \in StaleAttempts(s)
  <2> DEFINE plain == AttemptEvent(a, attempts[a].exec, attempts[a].session, "interrupted")
  <2>1. attempts[a].exec \in Execution /\ attempts[a].session \in SessionId \cup {None}
    BY <1>1 DEF TypeInv, TypeOK, AttemptRow
  <2>2. "interrupted" \in AttemptStatus
    BY DEF AttemptStatus, AttemptFinal
  <2>3. /\ plain \in Event /\ plain.kind = "attempt" /\ plain.exec = attempts[a].exec
        /\ plain.session = attempts[a].session /\ plain.status = "interrupted"
        /\ AttemptOf(plain) = a
    BY <1>1, <2>1, <2>2, AttemptEventType
  <2>4. InterruptedAttempt(a, s) = [plain EXCEPT !.by = s]
    BY DEF InterruptedAttempt
  <2> HIDE DEF plain
  <2> QED
    BY <2>1, <2>3, <2>4 DEF Event, AttemptOf
<1>5. \A e \in StaleExecutions(s) :
        /\ InterruptedExecution(e, s) \in Event
        /\ InterruptedExecution(e, s).kind = "execution"
        /\ InterruptedExecution(e, s).status = "interrupted"
        /\ InterruptedExecution(e, s).by = s
        /\ InterruptedExecution(e, s).exec = e
  BY <1>1, DurableStoreAssumption
     DEF InterruptedExecution, NewEvent, Event, EventKind, EventStatus, ExecutionStatus, ExecutionFinal
<1>6. A \in Seq(Event) /\ Len(A) = m /\ \A i \in 1..m : A[i] = InterruptedAttempt(as[i], s)
  <2>1. DOMAIN as = 1..m /\ \A i \in 1..m : as[i] \in StaleAttempts(s)
    BY <1>2
  <2>2. \A i \in 1..m : InterruptedAttempt(as[i], s) \in Event
    BY <1>4, <2>1
  <2>3. A = [i \in 1..m |-> InterruptedAttempt(as[i], s)]
    BY <2>1
  <2>4. m \in Nat
    BY <1>1
  <2> HIDE DEF A, m
  <2>5. A \in [1..m -> Event] /\ \A i \in 1..m : A[i] = InterruptedAttempt(as[i], s)
    BY <2>2, <2>3
  <2> QED
    BY <2>4, <2>5, FunctionOnInterval
<1>7. E \in Seq(Event) /\ Len(E) = n /\ \A i \in 1..n : E[i] = InterruptedExecution(es[i], s)
  BY <1>1, <1>3, <1>5
<1>8. Interruptions(s, as, es) = A \o E
  BY DEF Interruptions
<1> HIDE DEF A, E, m, n
<1>9. /\ A \o E \in Seq(Event) /\ DOMAIN (A \o E) = 1..(m + n)
      /\ \A i \in 1..m : (A \o E)[i] = InterruptedAttempt(as[i], s)
      /\ \A i \in 1..(m + n) : i \notin 1..m =>
           i - m \in 1..n /\ (A \o E)[i] = InterruptedExecution(es[i - m], s)
  <2>1. /\ A \o E \in Seq(Event) /\ Len(A \o E) = m + n
        /\ \A i \in 1..(m + n) : (A \o E)[i] = IF i <= m THEN A[i] ELSE E[i - m]
    BY <1>1, <1>6, <1>7
  <2>2. \A i \in 1..(m + n) : i \notin 1..m => i - m \in 1..n /\ ~(i <= m)
    BY <1>1
  <2>3. \A i \in 1..m : i \in 1..(m + n) /\ i <= m
    BY <1>1
  <2>4. DOMAIN (A \o E) = 1..(m + n)
    BY <2>1
  <2> QED
    BY <1>6, <1>7, <2>1, <2>2, <2>3, <2>4
<1>10. ASSUME NEW i \in DOMAIN (A \o E)
       PROVE  \/ \E a \in StaleAttempts(s) : (A \o E)[i] = InterruptedAttempt(a, s)
              \/ \E e \in StaleExecutions(s) : (A \o E)[i] = InterruptedExecution(e, s)
  <2>1. CASE i \in 1..m
    BY <1>2, <1>9, <2>1
  <2>2. CASE i \notin 1..m
    BY <1>3, <1>9, <1>10, <2>2
  <2> QED
    BY <2>1, <2>2
<1>11. ASSUME NEW a \in StaleAttempts(s)
       PROVE  Concerning(A \o E, a) # {}
  <2>1. PICK i \in 1..m : as[i] = a
    BY <1>2, <1>11
  <2>2. i \in DOMAIN (A \o E) /\ (A \o E)[i] = InterruptedAttempt(a, s)
    <3>1. i \in 1..(m + n)
      BY <1>1
    <3> QED
      BY <1>9, <2>1, <3>1
  <2>3. (A \o E)[i].kind = "attempt" /\ AttemptOf((A \o E)[i]) = a
    BY <1>4, <1>11, <2>2
  <2>4. i \in Concerning(A \o E, a)
    BY <2>2, <2>3, Zenon DEF Concerning
  <2> QED
    BY <2>4
<1>12. WellFormed(A \o E)
  <2>1. ASSUME NEW i \in DOMAIN (A \o E), (A \o E)[i].kind = "attempt"
        PROVE  /\ (A \o E)[i].exec \in Execution
               /\ AttemptOf((A \o E)[i]) \in Process \X (Nat \ {0})
               /\ (A \o E)[i].status \in AttemptStatus
    BY <1>1, <1>4, <1>5, <1>10, <2>1 DEF AttemptStatus, AttemptFinal
  <2> QED
    BY <1>9, <2>1 DEF WellFormed
<1> QED
  BY <1>4, <1>5, <1>8, <1>10, <1>11, <1>12

\* The parts of TypeInv that a batch of events can disturb.
JournalPart ==
  /\ events \in Seq(Event)
  /\ DOMAIN attempts \subseteq Process \X (Nat \ {0})
  /\ \A a \in DOMAIN attempts : attempts[a] \in AttemptRow
  /\ IsFiniteSet(DOMAIN attempts)
  /\ Len(events) <= MaxEvents
  /\ \A a \in DOMAIN attempts : a[2] <= Len(events)

ExecutionPart ==
  /\ DOMAIN executions \subseteq Execution
  /\ \A e \in DOMAIN executions : executions[e] \in ExecutionRow
  /\ IsFiniteSet(DOMAIN executions)

SessionPart ==
  /\ DOMAIN sessions \subseteq SessionId
  /\ \A s \in DOMAIN sessions : sessions[s] \in SessionRow

CommandPart ==
  /\ DOMAIN commands \subseteq Command
  /\ \A c \in DOMAIN commands : commands[c] \in CommandRow

SpecPart == specs \in [Process -> SpecVersion \cup {None}]

\* Attempts named by a batch are known or have the next ordinal.
Allocated(batch) ==
  \A i \in DOMAIN batch : batch[i].kind = "attempt" =>
    AttemptOf(batch[i]) \in DOMAIN attempts \/ batch[i].ord <= Len(events) + 1

\* Appending a batch keeps the journal and the attempt rows in order.
LEMMA JournalKept ==
  ASSUME TypeInv, NEW batch, WellFormed(batch), Allocated(batch), Journal(batch)
  PROVE  JournalPart'
<1> DEFINE J == {j \in DOMAIN batch : batch[j].kind = "attempt"}
           named == {AttemptOf(batch[i]) : i \in J}
           f == [i \in J |-> AttemptOf(batch[i])]
<1>1. /\ events' \in Seq(Event)
      /\ Len(events') = Len(events) + Len(batch) /\ Len(events') <= MaxEvents
      /\ DOMAIN attempts' \subseteq Process \X (Nat \ {0})
      /\ \A a \in DOMAIN attempts' : attempts'[a] \in AttemptRow
  BY JournalTyped DEF TypeInv
<1>2. DOMAIN attempts' = DOMAIN attempts \cup named
  BY DEF Journal, AttemptsAfter
<1>3. Len(batch) \in Nat /\ DOMAIN batch = 1..Len(batch) /\ Len(events) \in Nat
  BY DEF WellFormed, TypeInv, TypeOK
<1>4. IsFiniteSet(DOMAIN attempts')
  <2>1. IsFiniteSet(1..Len(batch))
    BY <1>3, FS_Interval
  <2>2. IsFiniteSet(J)
    BY <1>3, <2>1, FS_Subset
  <2>3. f \in Surjection(J, named)
    BY DEF Surjection
  <2> HIDE DEF f, J, named
  <2>4. IsFiniteSet(named)
    BY <2>2, <2>3, FS_Surjection
  <2> QED
    BY <1>2, <2>4, FS_Union DEF TypeInv
<1>5. ASSUME NEW a \in DOMAIN attempts'
      PROVE  a[2] <= Len(events')
  <2>1. CASE a \in DOMAIN attempts
    <3>1. a[2] \in Nat /\ a[2] <= Len(events)
      BY <1>1, <1>5, <2>1 DEF TypeInv
    <3> QED
      BY <1>1, <1>3, <3>1
  <2>2. CASE a \notin DOMAIN attempts
    <3>1. PICK i \in DOMAIN batch : batch[i].kind = "attempt" /\ AttemptOf(batch[i]) = a
      BY <1>2, <1>5, <2>2
    <3>2. batch[i].ord <= Len(events) + 1 /\ a[2] = batch[i].ord
      BY <2>2, <3>1 DEF Allocated, AttemptOf
    <3>3. Len(batch) >= 1
      BY <1>3, <3>1
    <3>4. a[2] \in Nat
      BY <1>1, <1>5
    <3> QED
      BY <1>1, <1>3, <3>2, <3>3, <3>4
  <2> QED
    BY <2>1, <2>2
<1> QED
  BY <1>1, <1>4, <1>5 DEF JournalPart

\* Moving last_event_sequence keeps the execution rows in order.
LEMMA ExecutionsKept ==
  ASSUME TypeInv, NEW batch, WellFormed(batch), executions' = ExecutionsAfter(batch)
  PROVE  ExecutionPart'
<1>1. /\ DOMAIN executions' = DOMAIN executions
      /\ \A e \in DOMAIN executions : executions'[e] \in ExecutionRow
  BY ExecutionsAfterRows DEF TypeInv
<1> QED
  BY <1>1 DEF TypeInv, TypeOK, ExecutionPart

\* A batch of one event that is no attempt event satisfies both conditions.
LEMMA PlainBatch ==
  ASSUME NEW ev \in Event, ev.kind # "attempt"
  PROVE  WellFormed(<<ev>>) /\ Allocated(<<ev>>)
<1>1. DOMAIN <<ev>> = {1} /\ <<ev>>[1] = ev
  OBVIOUS
<1> QED
  BY <1>1, SingleEvent DEF Allocated

LEMMA SessionStatuses ==
  {"acquired", "renewed", "released", "expired"} \subseteq EventStatus
  BY DEF EventStatus

\* acquire_backend_session keeps every row well typed.
LEMMA AcquireTyped ==
  ASSUME TypeInv, NEW s \in SessionId, NEW o \in Owner, NEW now \in Now, NEW ttl \in Ttl,
         AcquireBackendSession(s, o, now, ttl)
  PROVE  TypeInv'
<1>1. ASSUME NEW closing, NEW table, Grant(s, o, now, ttl, closing, table),
             DOMAIN table \subseteq SessionId, \A t \in DOMAIN table : table[t] \in SessionRow,
             closing = <<>> \/ \E t \in SessionId : closing = <<SessionEvent(t, "expired")>>
      PROVE  TypeInv'
  <2> DEFINE batch == closing \o <<SessionEvent(s, "acquired")>>
  <2>1. \A t \in SessionId, x \in {"acquired", "expired"} :
          SessionEvent(t, x) \in Event /\ SessionEvent(t, x).kind = "session"
    BY EventTypes, SessionStatuses
  <2>2. batch \in Seq(Event) /\ \A i \in DOMAIN batch : batch[i].kind = "session"
    <3> DEFINE opening == <<SessionEvent(s, "acquired")>>
    <3>1. closing \in Seq(Event) /\ \A i \in 1..Len(closing) : closing[i].kind = "session"
      <4>1. CASE closing = <<>>
        BY <4>1
      <4>2. CASE closing # <<>>
        <5>1. PICK t \in SessionId : closing = <<SessionEvent(t, "expired")>>
          BY <1>1, <4>2
        <5> QED
          BY <2>1, <5>1
      <4> QED
        BY <4>1, <4>2
    <3>2. opening \in Seq(Event) /\ Len(opening) = 1 /\ opening[1].kind = "session"
      BY <2>1
    <3>3. batch = closing \o opening
      OBVIOUS
    <3> HIDE DEF batch, opening
    <3>4. /\ batch \in Seq(Event) /\ Len(closing) \in Nat
          /\ DOMAIN batch = 1..(Len(closing) + 1)
          /\ \A i \in DOMAIN batch :
               batch[i] = IF i <= Len(closing) THEN closing[i] ELSE opening[i - Len(closing)]
      <4>1. batch \in Seq(Event) /\ Len(closing) \in Nat /\ Len(batch) = Len(closing) + 1
        <5>1. batch \in Seq(Event) /\ Len(batch) = Len(closing) + Len(opening)
          BY <3>1, <3>2, <3>3, ConcatProperties
        <5>2. Len(closing) \in Nat
          BY <3>1, LenProperties
        <5> QED
          BY <3>2, <5>1, <5>2
      <4>2. DOMAIN batch = 1..(Len(closing) + 1)
        <5>1. DOMAIN batch = 1..Len(batch)
          BY <4>1
        <5> QED
          BY <4>1, <5>1, Zenon
      <4>3. \A i \in 1..(Len(closing) + 1) :
              batch[i] = IF i <= Len(closing) THEN closing[i] ELSE opening[i - Len(closing)]
        BY <3>1, <3>2, <3>3, ConcatProperties
      <4> QED
        BY <4>1, <4>2, <4>3
    <3>5. ASSUME NEW i \in DOMAIN batch
          PROVE  batch[i].kind = "session"
      <4>1. CASE i <= Len(closing)
        BY <3>1, <3>4, <4>1
      <4>2. CASE ~(i <= Len(closing))
        <5>1. i - Len(closing) = 1
          BY <3>4, <4>2
        <5> QED
          BY <3>2, <3>4, <4>2, <5>1
      <4> QED
        BY <4>1, <4>2
    <3> QED
      BY <3>4, <3>5
  <2>3. Journal(batch) /\ executions' = ExecutionsAfter(batch)
        /\ sessions' = Upsert(table, s, Leased(o, now, ttl))
        /\ UNCHANGED <<specs, commands, clock>>
    BY <1>1 DEF Grant
  <2> HIDE DEF batch
  <2>4. WellFormed(batch) /\ Allocated(batch)
    BY <2>2 DEF WellFormed, Allocated
  <2>5. JournalPart' /\ ExecutionPart'
    BY <2>3, <2>4, JournalKept, ExecutionsKept
  <2>6. SessionPart'
    <3>1. now + ttl \in Nat
      BY DurableStoreAssumption DEF Now, TypeInv, TypeOK
    <3>2. Leased(o, now, ttl) \in SessionRow
      BY <3>1 DEF Leased, SessionRow, SessionStatus
    <3> QED
      BY <1>1, <2>3, <3>2 DEF Upsert, SessionPart
  <2>7. CommandPart' /\ SpecPart' /\ clock' \in Nat
    BY <2>3 DEF CommandPart, SpecPart, TypeInv, TypeOK
  <2> QED
    BY <2>5, <2>6, <2>7
       DEF TypeInv, TypeOK, JournalPart, ExecutionPart, SessionPart, CommandPart, SpecPart
<1>2. \A t \in ActiveSessions :
        /\ DOMAIN [sessions EXCEPT ![t].status = "expired"] \subseteq SessionId
        /\ \A u \in DOMAIN sessions : [sessions EXCEPT ![t].status = "expired"][u] \in SessionRow
        /\ t \in SessionId
  BY DEF ActiveSessions, TypeInv, TypeOK, SessionRow, SessionStatus
<1>3. DOMAIN sessions \subseteq SessionId /\ \A t \in DOMAIN sessions : sessions[t] \in SessionRow
  BY DEF TypeInv, TypeOK
<1> QED
  BY <1>1, <1>2, <1>3 DEF AcquireBackendSession

\* What a transaction that appends one plain event does to journal and rows.
LEMMA PlainStep ==
  ASSUME TypeInv, NEW ev \in Event, ev.kind # "attempt",
         Journal(<<ev>>), executions' = ExecutionsAfter(<<ev>>)
  PROVE  JournalPart' /\ ExecutionPart'
  BY PlainBatch, JournalKept, ExecutionsKept

\* Renewal and release keep every row well typed.
LEMMA SessionUpdateTyped ==
  ASSUME TypeInv, NEW s \in SessionId, NEW status \in {"renewed", "released"},
         NEW row \in SessionRow, UpdateSession(s, status, row)
  PROVE  TypeInv'
<1>1. SessionEvent(s, status) \in Event /\ SessionEvent(s, status).kind = "session"
  BY EventTypes, SessionStatuses
<1>2. JournalPart' /\ ExecutionPart'
  BY <1>1, PlainStep DEF UpdateSession
<1>3. SessionPart'
  BY DEF UpdateSession, SessionPart, TypeInv, TypeOK
<1>4. CommandPart' /\ SpecPart' /\ clock' \in Nat
  BY DEF UpdateSession, CommandPart, SpecPart, TypeInv, TypeOK
<1> QED
  BY <1>2, <1>3, <1>4 DEF TypeInv, TypeOK, JournalPart, ExecutionPart, SessionPart, CommandPart, SpecPart

\* The calls of a live session other than reconciliation.
LEMMA RenewReleaseTyped ==
  ASSUME TypeInv, NEW s \in SessionId, NEW o \in Owner, NEW now \in Now,
         \/ \E ttl \in Ttl : RenewBackendSession(s, o, now, ttl)
         \/ ReleaseBackendSession(s, o, now)
  PROVE  TypeInv'
<1>1. \A ttl \in Ttl : now + ttl \in Nat
  BY DurableStoreAssumption DEF Now, TypeInv, TypeOK
<1>2. \A ttl \in Ttl : Leased(o, now, ttl) \in SessionRow
  BY <1>1 DEF Leased, SessionRow, SessionStatus
<1>3. s \in ActiveSessions => [sessions[s] EXCEPT !.status = "released"] \in SessionRow
  BY DEF ActiveSessions, TypeInv, TypeOK, SessionRow, SessionStatus
<1> QED
  BY <1>2, <1>3, SessionUpdateTyped DEF RenewBackendSession, ReleaseBackendSession, Live

\* reconcile_interrupted_work keeps every row well typed.
LEMMA ReconcileTyped ==
  ASSUME TypeInv, NEW s \in SessionId, NEW o \in Owner, NEW now \in Now,
         ReconcileInterruptedWork(s, o, now)
  PROVE  TypeInv'
<1>1. PICK as \in AttemptOrder(s), es \in ExecutionOrder(s) :
        /\ Journal(Interruptions(s, as, es))
        /\ executions' = [e \in DOMAIN executions |->
             IF e \in StaleExecutions(s)
             THEN [ExecutionsAfter(Interruptions(s, as, es))[e] EXCEPT !.status = "interrupted"]
             ELSE ExecutionsAfter(Interruptions(s, as, es))[e]]
  BY DEF ReconcileInterruptedWork
<1> DEFINE batch == Interruptions(s, as, es)
<1>2. WellFormed(batch) /\ Allocated(batch)
  BY InterruptionBatch, StaleRows DEF Allocated
<1> HIDE DEF batch
<1>3. JournalPart'
  BY <1>1, <1>2, JournalKept DEF batch
<1>4. ExecutionPart'
  <2>1. \A e \in DOMAIN executions : ExecutionsAfter(batch)[e] \in ExecutionRow
    BY <1>2, ExecutionsAfterRows DEF TypeInv
  <2>2. \A e \in DOMAIN executions :
          [ExecutionsAfter(batch)[e] EXCEPT !.status = "interrupted"] \in ExecutionRow
    BY <2>1 DEF ExecutionRow, ExecutionStatus, ExecutionFinal
  <2>3. DOMAIN executions' = DOMAIN executions
        /\ \A e \in DOMAIN executions : executions'[e] \in ExecutionRow
    BY <1>1, <2>1, <2>2 DEF batch
  <2> QED
    BY <2>3 DEF ExecutionPart, TypeInv, TypeOK
<1>5. SessionPart' /\ CommandPart' /\ SpecPart' /\ clock' \in Nat
  BY DEF ReconcileInterruptedWork, SessionPart, CommandPart, SpecPart, TypeInv, TypeOK
<1> QED
  BY <1>3, <1>4, <1>5 DEF TypeInv, TypeOK, JournalPart, ExecutionPart, SessionPart, CommandPart, SpecPart

\* begin_execution inserts one row with a positive ordinal.
LEMMA BeginExecutionTyped ==
  ASSUME TypeInv, NEW e \in Execution, NEW s \in SessionId \cup {None}, BeginExecution(e, s)
  PROVE  TypeInv'
<1> DEFINE n == Cardinality(DOMAIN executions) + 1
           ev == [NewEvent("execution", "pending") EXCEPT !.exec = e, !.session = s, !.ord = n]
           row == [ordinal |-> n, session |-> s, status |-> "pending",
                   first |-> SequenceOf(1), last |-> SequenceOf(1)]
<1>1. n \in Nat \ {0}
  <2>1. Cardinality(DOMAIN executions) \in Nat
    BY FS_CardinalityType DEF TypeInv
  <2> QED
    BY <2>1
<1>2. Journal(<<ev>>) /\ executions' = Upsert(ExecutionsAfter(<<ev>>), e, row)
      /\ UNCHANGED <<specs, sessions, commands, clock>>
  BY DEF BeginExecution
<1>3. row \in ExecutionRow
  <2>1. SequenceOf(1) \in Nat
    BY DEF SequenceOf, TypeInv, TypeOK
  <2> QED
    BY <1>1, <2>1 DEF ExecutionRow, ExecutionStatus
<1> HIDE DEF n, row
<1>4. ev \in Event /\ ev.kind = "execution"
  BY <1>1 DEF NewEvent, Event, EventKind, EventStatus, ExecutionStatus
<1> HIDE DEF ev
<1>5. WellFormed(<<ev>>) /\ Allocated(<<ev>>)
  BY <1>4, PlainBatch
<1>6. JournalPart'
  BY <1>2, <1>5, JournalKept
<1>7. ExecutionPart'
  <2>1. /\ DOMAIN ExecutionsAfter(<<ev>>) = DOMAIN executions
        /\ \A f \in DOMAIN executions : ExecutionsAfter(<<ev>>)[f] \in ExecutionRow
    BY <1>5, ExecutionsAfterRows DEF TypeInv
  <2>2. DOMAIN executions' = DOMAIN executions \cup {e}
        /\ \A f \in DOMAIN executions' : executions'[f] \in ExecutionRow
    BY <1>2, <1>3, <2>1 DEF Upsert
  <2>3. IsFiniteSet(DOMAIN executions')
    BY <2>2, FS_AddElement DEF TypeInv
  <2> QED
    BY <2>2, <2>3 DEF ExecutionPart, TypeInv, TypeOK
<1>8. SessionPart' /\ CommandPart' /\ SpecPart' /\ clock' \in Nat
  BY <1>2 DEF SessionPart, CommandPart, SpecPart, TypeInv, TypeOK
<1> QED
  BY <1>6, <1>7, <1>8 DEF TypeInv, TypeOK, JournalPart, ExecutionPart, SessionPart, CommandPart, SpecPart

\* transition_execution rewrites the status of one row.
LEMMA TransitionTyped ==
  ASSUME TypeInv, NEW e \in Execution, NEW status \in {"running"} \cup WaveOutcome,
         TransitionExecution(e, status)
  PROVE  TypeInv'
<1> DEFINE ev == [NewEvent("execution", status) EXCEPT !.exec = e]
<1>1. status \in ExecutionStatus
  BY DurableStoreAssumption DEF ExecutionStatus
<1>2. ev \in Event /\ ev.kind = "execution"
  BY <1>1 DEF NewEvent, Event, EventKind, EventStatus
<1>3. Journal(<<ev>>) /\ executions' = [ExecutionsAfter(<<ev>>) EXCEPT ![e].status = status]
      /\ UNCHANGED <<specs, sessions, commands, clock>> /\ e \in DOMAIN executions
  BY DEF TransitionExecution
<1> HIDE DEF ev
<1>4. WellFormed(<<ev>>) /\ Allocated(<<ev>>)
  BY <1>2, PlainBatch
<1>5. JournalPart'
  BY <1>3, <1>4, JournalKept
<1>6. ExecutionPart'
  <2>1. /\ DOMAIN ExecutionsAfter(<<ev>>) = DOMAIN executions
        /\ \A f \in DOMAIN executions : ExecutionsAfter(<<ev>>)[f] \in ExecutionRow
    BY <1>4, ExecutionsAfterRows DEF TypeInv
  <2>2. DOMAIN executions' = DOMAIN executions
        /\ \A f \in DOMAIN executions' : executions'[f] \in ExecutionRow
    BY <1>1, <1>3, <2>1 DEF ExecutionRow
  <2> QED
    BY <2>2 DEF ExecutionPart, TypeInv, TypeOK
<1>7. SessionPart' /\ CommandPart' /\ SpecPart' /\ clock' \in Nat
  BY <1>3 DEF SessionPart, CommandPart, SpecPart, TypeInv, TypeOK
<1> QED
  BY <1>5, <1>6, <1>7 DEF TypeInv, TypeOK, JournalPart, ExecutionPart, SessionPart, CommandPart, SpecPart

\* An observation and a declaration only append an event.
LEMMA ObservationTyped ==
  ASSUME TypeInv, NEW e \in Execution, AppendObservation(e)
  PROVE  TypeInv'
<1> DEFINE ev == [NewEvent("progress", "running") EXCEPT !.exec = e]
<1>1. ev \in Event /\ ev.kind = "progress"
  BY DEF NewEvent, Event, EventKind, EventStatus, ExecutionStatus
<1>2. Journal(<<ev>>) /\ executions' = ExecutionsAfter(<<ev>>)
      /\ UNCHANGED <<specs, sessions, commands, clock>>
  BY DEF AppendObservation
<1> HIDE DEF ev
<1>3. JournalPart' /\ ExecutionPart'
  BY <1>1, <1>2, PlainStep
<1>4. SessionPart' /\ CommandPart' /\ SpecPart' /\ clock' \in Nat
  BY <1>2 DEF SessionPart, CommandPart, SpecPart, TypeInv, TypeOK
<1> QED
  BY <1>3, <1>4 DEF TypeInv, TypeOK, JournalPart, ExecutionPart, SessionPart, CommandPart, SpecPart

LEMMA DeclarationTyped ==
  ASSUME TypeInv, NEW p \in Process, NEW spec \in SpecVersion, DeclareProcess(p, spec)
  PROVE  TypeInv'
<1> DEFINE ev == [NewEvent("process", "pending") EXCEPT !.proc = p]
<1>1. ev \in Event /\ ev.kind = "process"
  BY DEF NewEvent, Event, EventKind, EventStatus, ExecutionStatus
<1>2. Journal(<<ev>>) /\ executions' = ExecutionsAfter(<<ev>>)
      /\ specs' = [specs EXCEPT ![p] = spec] /\ UNCHANGED <<sessions, commands, clock>>
  BY DEF DeclareProcess
<1> HIDE DEF ev
<1>3. JournalPart' /\ ExecutionPart'
  BY <1>1, <1>2, PlainStep
<1>4. SpecPart' /\ SessionPart' /\ CommandPart' /\ clock' \in Nat
  BY <1>2 DEF SpecPart, SessionPart, CommandPart, TypeInv, TypeOK
<1> QED
  BY <1>3, <1>4 DEF TypeInv, TypeOK, JournalPart, ExecutionPart, SessionPart, CommandPart, SpecPart

LEMMA SpecsWrittenTyped ==
  ASSUME TypeInv, NEW some \in SUBSET Process, NEW written \in [some -> SpecVersion],
         WriteProcessSpecs(written)
  PROVE  TypeInv'
<1>1. SpecPart'
  BY DEF WriteProcessSpecs, SpecPart, TypeInv, TypeOK
<1>2. UNCHANGED <<events, executions, attempts, sessions, commands, clock>>
  BY DEF WriteProcessSpecs
<1> QED
  BY <1>1, <1>2 DEF TypeInv, TypeOK, JournalPart, ExecutionPart, SessionPart, CommandPart, SpecPart

\* begin_process_attempt and finish_process_attempt.
LEMMA AttemptTyped ==
  ASSUME TypeInv,
         \/ \E p \in Process, e \in Execution, s \in SessionId \cup {None} : BeginProcessAttempt(p, e, s)
         \/ \E a \in DOMAIN attempts, outcome \in AttemptOutcome : FinishProcessAttempt(a, outcome)
  PROVE  TypeInv'
<1>1. ASSUME NEW batch, WellFormed(batch), Allocated(batch), Journal(batch),
             executions' = ExecutionsAfter(batch), UNCHANGED <<specs, sessions, commands, clock>>
      PROVE  TypeInv'
  <2>1. JournalPart' /\ ExecutionPart'
    BY <1>1, JournalKept, ExecutionsKept
  <2>2. SessionPart' /\ CommandPart' /\ SpecPart' /\ clock' \in Nat
    BY <1>1 DEF SessionPart, CommandPart, SpecPart, TypeInv, TypeOK
  <2> QED
    BY <2>1, <2>2 DEF TypeInv, TypeOK, JournalPart, ExecutionPart, SessionPart, CommandPart, SpecPart
<1>2. ASSUME NEW p \in Process, NEW e \in Execution, NEW s \in SessionId \cup {None},
             BeginProcessAttempt(p, e, s)
      PROVE  TypeInv'
  <2> DEFINE a == <<p, NextOrdinal(p)>>
             batch == <<AttemptEvent(a, e, s, "pending"), AttemptEvent(a, e, s, "running")>>
  <2>1. NextOrdinal(p) \in Nat \ {0} /\ NextOrdinal(p) <= Len(events) + 1
    BY NextOrdinalIsNew
  <2>2. a \in Process \X (Nat \ {0})
    BY <2>1
  <2>3. Journal(batch) /\ executions' = ExecutionsAfter(batch)
        /\ UNCHANGED <<specs, sessions, commands, clock>>
    BY <1>2 DEF BeginProcessAttempt, StartAttempt
  <2>4. WellFormed(batch)
    BY <2>2, AttemptBatches DEF AttemptStatus
  <2>5. Allocated(batch)
    <3>1. /\ AttemptEvent(a, e, s, "pending").ord = NextOrdinal(p)
          /\ AttemptEvent(a, e, s, "running").ord = NextOrdinal(p)
      BY DEF AttemptEvent, NewEvent
    <3>2. DOMAIN batch = {1, 2} /\ batch[1].ord = NextOrdinal(p) /\ batch[2].ord = NextOrdinal(p)
      BY <3>1
    <3> HIDE DEF batch
    <3> QED
      BY <2>1, <3>2 DEF Allocated
  <2> HIDE DEF batch
  <2> QED
    BY <1>1, <2>3, <2>4, <2>5
<1>3. ASSUME NEW a \in DOMAIN attempts, NEW outcome \in AttemptOutcome, FinishProcessAttempt(a, outcome)
      PROVE  TypeInv'
  <2> DEFINE ev == AttemptEvent(a, attempts[a].exec, attempts[a].session, outcome)
             batch == <<ev>>
  <2>1. a \in Process \X (Nat \ {0}) /\ attempts[a].exec \in Execution
        /\ attempts[a].session \in SessionId \cup {None} /\ outcome \in AttemptStatus
    BY DurableStoreAssumption DEF TypeInv, TypeOK, AttemptRow, AttemptStatus
  <2>2. Journal(batch) /\ executions' = ExecutionsAfter(batch)
        /\ UNCHANGED <<specs, sessions, commands, clock>>
    BY <1>3 DEF FinishProcessAttempt, RecordOutcome
  <2>3. WellFormed(batch)
    BY <2>1, AttemptBatches
  <2>4. AttemptOf(ev) = a
    BY <2>1, AttemptEventType
  <2> HIDE DEF ev
  <2>5. Allocated(batch)
    BY <2>4 DEF Allocated
  <2> HIDE DEF batch
  <2> QED
    BY <1>1, <2>2, <2>3, <2>5
<1> QED
  BY <1>2, <1>3

\* reserve_command and finish_command.
LEMMA CommandTyped ==
  ASSUME TypeInv, NEW c \in Command, NEW e \in Execution \cup {None}, NEW status \in CommandFinal,
         ReserveCommand(c, e) \/ FinishCommand(c, status)
  PROVE  TypeInv'
<1>1. SequenceOf(1) \in Nat
  BY DEF SequenceOf, TypeInv, TypeOK
<1>2. ASSUME NEW f \in Execution \cup {None}, NEW x \in {"accepted"} \cup CommandFinal
      PROVE  CommandEvent(c, f, x) \in Event /\ CommandEvent(c, f, x).kind = "command"
  BY DEF CommandEvent, NewEvent, Event, EventKind, EventStatus, ExecutionStatus,
         ExecutionFinal, CommandFinal
<1>3. CASE ReserveCommand(c, e)
  <2> DEFINE row == [exec |-> e, status |-> "accepted", first |-> SequenceOf(1), last |-> SequenceOf(1)]
  <2>1. Journal(<<CommandEvent(c, e, "accepted")>>)
        /\ executions' = ExecutionsAfter(<<CommandEvent(c, e, "accepted")>>)
        /\ commands' = Upsert(commands, c, row)
        /\ UNCHANGED <<specs, sessions, clock>>
    BY <1>3 DEF ReserveCommand
  <2>2. JournalPart' /\ ExecutionPart'
    BY <1>2, <2>1, PlainStep
  <2>3. row \in CommandRow
    BY <1>1 DEF CommandRow
  <2> HIDE DEF row
  <2>4. CommandPart'
    BY <2>1, <2>3 DEF Upsert, CommandPart, TypeInv, TypeOK
  <2>5. SessionPart' /\ SpecPart' /\ clock' \in Nat
    BY <2>1 DEF SessionPart, SpecPart, TypeInv, TypeOK
  <2> QED
    BY <2>2, <2>4, <2>5 DEF TypeInv, TypeOK, JournalPart, ExecutionPart, SessionPart, CommandPart, SpecPart
<1>4. CASE FinishCommand(c, status)
  <2> DEFINE ev == CommandEvent(c, commands[c].exec, status)
  <2>1. Journal(<<ev>>) /\ executions' = ExecutionsAfter(<<ev>>)
        /\ commands' = [commands EXCEPT ![c].status = status, ![c].last = SequenceOf(1)]
        /\ UNCHANGED <<specs, sessions, clock>> /\ c \in DOMAIN commands
    BY <1>4 DEF FinishCommand
  <2>2. commands[c] \in CommandRow
    BY <2>1 DEF TypeInv, TypeOK
  <2>3. ev \in Event /\ ev.kind = "command"
    BY <1>2, <2>2 DEF CommandRow
  <2> HIDE DEF ev
  <2>4. JournalPart' /\ ExecutionPart'
    BY <2>1, <2>3, PlainStep
  <2>5. CommandPart'
    BY <1>1, <2>1 DEF CommandPart, CommandRow, TypeInv, TypeOK
  <2>6. SessionPart' /\ SpecPart' /\ clock' \in Nat
    BY <2>1 DEF SessionPart, SpecPart, TypeInv, TypeOK
  <2> QED
    BY <2>4, <2>5, <2>6 DEF TypeInv, TypeOK, JournalPart, ExecutionPart, SessionPart, CommandPart, SpecPart
<1> QED
  BY <1>3, <1>4

\* A new store satisfies the typing invariant.
LEMMA InitTyped == Init => TypeInv
<1> SUFFICES ASSUME Init PROVE TypeInv
  OBVIOUS
<1>1. DOMAIN executions = {} /\ DOMAIN attempts = {} /\ DOMAIN sessions = {} /\ DOMAIN commands = {}
  BY DEF Init, Empty
<1>2. events = <<>> /\ clock = 0 /\ specs \in [Process -> SpecVersion \cup {None}]
  BY DEF Init
<1>3. Len(events) <= MaxEvents /\ events \in Seq(Event)
  BY <1>2, DurableStoreAssumption
<1> QED
  BY <1>1, <1>2, <1>3, FS_EmptySet DEF TypeInv, TypeOK

\* Every call keeps the typing invariant.
LEMMA NextTyped == TypeInv /\ [Next]_vars => TypeInv'
<1> SUFFICES ASSUME TypeInv, [Next]_vars PROVE TypeInv'
  OBVIOUS
<1>1. CASE Tick
  BY <1>1 DEF Tick, TypeInv, TypeOK, JournalPart, ExecutionPart, SessionPart, CommandPart, SpecPart
<1>2. CASE SessionCall
  BY <1>2, AcquireTyped, RenewReleaseTyped, ReconcileTyped, DurableStoreAssumption DEF SessionCall
<1>3. CASE ExecutionCall
  BY <1>3, BeginExecutionTyped, TransitionTyped, ObservationTyped DEF ExecutionCall
<1>4. CASE AttemptCall
  BY <1>4, AttemptTyped DEF AttemptCall
<1>5. CASE DeclarationCall
  BY <1>5, DeclarationTyped, SpecsWrittenTyped DEF DeclarationCall
<1>6. CASE CommandCall
  BY <1>6, CommandTyped DEF CommandCall, CommandFinal
<1>7. CASE UNCHANGED vars
  BY <1>7 DEF vars, TypeInv, TypeOK, JournalPart, ExecutionPart, SessionPart, CommandPart, SpecPart
<1> QED
  BY <1>1, <1>2, <1>3, <1>4, <1>5, <1>6, <1>7 DEF Next

\* Tables stay finite, ordinals are at most the number of events.
LEMMA TypeInvariant == Spec => []TypeInv
  BY InitTyped, NextTyped, PTL DEF Spec

\* Whatever calls are interleaved, every row and event is one the models of
\* the program can hold; in particular attempts are numbered from 1.
THEOREM TypeCorrect == Spec => []TypeOK
<1>1. TypeInv => TypeOK
  BY DEF TypeInv
<1> QED
  BY <1>1, TypeInvariant, PTL

-----------------------------------------------------------------------------
(* What one call may do to the history.                                     *)

\* A batch names unfinished attempts, or new ones of a wave that is open to
\* the session they run in.
Lawful(batch) ==
  \A i \in DOMAIN batch : batch[i].kind = "attempt" =>
    \/ /\ AttemptOf(batch[i]) \in DOMAIN attempts
       /\ attempts[AttemptOf(batch[i])].status \in Unfinished
    \/ /\ AttemptOf(batch[i]) \notin DOMAIN attempts
       /\ batch[i].exec \in DOMAIN executions
       /\ executions[batch[i].exec].status \in Unfinished
       /\ executions[batch[i].exec].session \in {None, batch[i].session}

\* No event of the batch comes from a reconciliation.
Ordinary(batch) == \A i \in DOMAIN batch : batch[i].by = None

\* The journal only grows.
JournalGrows ==
  /\ DOMAIN events \subseteq DOMAIN events'
  /\ \A i \in DOMAIN events : events'[i] = events[i]

\* Attempts keep their wave and session, finished ones everything; a new one
\* belongs to a wave that was open to it.
AttemptsGrow ==
  /\ DOMAIN attempts \subseteq DOMAIN attempts'
  /\ \A a \in DOMAIN attempts :
       /\ attempts'[a].exec = attempts[a].exec
       /\ attempts'[a].session = attempts[a].session
       /\ attempts[a].status \in AttemptFinal => attempts'[a] = attempts[a]
  /\ \A a \in DOMAIN attempts' : a \notin DOMAIN attempts =>
       /\ attempts'[a].exec \in DOMAIN executions
       /\ executions[attempts'[a].exec].status \in Unfinished
       /\ executions[attempts'[a].exec].session \in {None, attempts'[a].session}

\* Waves keep their session, finished ones their status.
ExecutionsGrow ==
  /\ DOMAIN executions \subseteq DOMAIN executions'
  /\ \A e \in DOMAIN executions :
       /\ executions'[e].session = executions[e].session
       /\ executions[e].status \in ExecutionFinal => executions'[e].status = executions[e].status

\* Events of reconciliations are the work of a reconciliation.
InterruptionsExplained ==
  \A i \in DOMAIN events' : i \notin DOMAIN events /\ events'[i].by # None =>
    /\ events'[i].by \in SessionId
    /\ \E o \in Owner, now \in Now : ReconcileInterruptedWork(events'[i].by, o, now)

LEMMA JournalAppends ==
  ASSUME TypeInv, NEW batch, WellFormed(batch), Journal(batch)
  PROVE  /\ JournalGrows
         /\ \A i \in DOMAIN events' : i \notin DOMAIN events =>
              i - Len(events) \in DOMAIN batch /\ events'[i] = batch[i - Len(events)]
<1>1. events \in Seq(Event) /\ batch \in Seq(Event) /\ events' = events \o batch
  BY DEF TypeInv, TypeOK, WellFormed, Journal
<1>2. Len(events) \in Nat /\ Len(batch) \in Nat /\ Len(events') = Len(events) + Len(batch)
  BY <1>1
<1>3. DOMAIN events = 1..Len(events) /\ DOMAIN batch = 1..Len(batch)
      /\ DOMAIN events' = 1..(Len(events) + Len(batch))
  BY <1>1
<1>4. \A i \in 1..(Len(events) + Len(batch)) :
        events'[i] = IF i <= Len(events) THEN events[i] ELSE batch[i - Len(events)]
  BY <1>1, ConcatProperties
<1>5. \A i \in DOMAIN events : i \in DOMAIN events' /\ i <= Len(events)
  BY <1>2, <1>3
<1>6. \A i \in DOMAIN events' : i \notin DOMAIN events =>
        i - Len(events) \in DOMAIN batch /\ ~(i <= Len(events))
  BY <1>2, <1>3
<1> QED
  BY <1>3, <1>4, <1>5, <1>6 DEF JournalGrows

\* A lawful batch moves no finished attempt.
LEMMA AttemptsAppend ==
  ASSUME TypeInv, NEW batch, WellFormed(batch), Lawful(batch), Journal(batch)
  PROVE  AttemptsGrow
<1>1. attempts' = AttemptsAfter(batch)
  BY DEF Journal
<1>2. /\ DOMAIN attempts \subseteq DOMAIN attempts'
      /\ \A a \in DOMAIN attempts' :
           /\ a \in DOMAIN attempts /\ Concerning(batch, a) = {} => attempts'[a] = attempts[a]
           /\ a \in DOMAIN attempts =>
                /\ attempts'[a].exec = attempts[a].exec
                /\ attempts'[a].session = attempts[a].session
           /\ a \notin DOMAIN attempts =>
                \E i \in Concerning(batch, a) :
                  attempts'[a].exec = batch[i].exec /\ attempts'[a].session = batch[i].session
  BY <1>1, AttemptsAfterRows DEF TypeInv
<1>3. ASSUME NEW a \in DOMAIN attempts, attempts[a].status \in AttemptFinal
      PROVE  attempts'[a] = attempts[a]
  <2>1. attempts[a].status \notin Unfinished
    BY <1>3 DEF AttemptFinal, Unfinished
  <2>2. Concerning(batch, a) = {}
    BY <2>1 DEF Lawful, Concerning
  <2> QED
    BY <1>2, <2>2
<1>4. ASSUME NEW a \in DOMAIN attempts', a \notin DOMAIN attempts
      PROVE  /\ attempts'[a].exec \in DOMAIN executions
             /\ executions[attempts'[a].exec].status \in Unfinished
             /\ executions[attempts'[a].exec].session \in {None, attempts'[a].session}
  <2>1. PICK i \in Concerning(batch, a) :
          attempts'[a].exec = batch[i].exec /\ attempts'[a].session = batch[i].session
    BY <1>2, <1>4
  <2>2. i \in DOMAIN batch /\ batch[i].kind = "attempt" /\ AttemptOf(batch[i]) = a
    BY DEF Concerning
  <2> QED
    BY <1>4, <2>1, <2>2 DEF Lawful
<1> QED
  BY <1>2, <1>3, <1>4 DEF AttemptsGrow

\* An ordinary batch explains every reconciliation event: it has none.
LEMMA OrdinaryAppends ==
  ASSUME TypeInv, NEW batch, WellFormed(batch), Journal(batch), Ordinary(batch)
  PROVE  InterruptionsExplained
  BY JournalAppends DEF Ordinary, InterruptionsExplained

HistoryGrows == JournalGrows /\ AttemptsGrow /\ ExecutionsGrow /\ InterruptionsExplained

\* Touching execution rows keeps session and status of each.
LEMMA TouchGrows ==
  ASSUME TypeInv, NEW batch, WellFormed(batch), executions' = ExecutionsAfter(batch)
  PROVE  ExecutionsGrow
  BY ExecutionsAfterRows DEF ExecutionsGrow, TypeInv

\* A call that appends one plain event of its own.
LEMMA PlainCallGrows ==
  ASSUME TypeInv, NEW ev \in Event, ev.kind # "attempt", ev.by = None,
         Journal(<<ev>>), ExecutionsGrow
  PROVE  HistoryGrows
<1>1. WellFormed(<<ev>>) /\ Lawful(<<ev>>) /\ Ordinary(<<ev>>)
  <2>1. DOMAIN <<ev>> = {1} /\ <<ev>>[1] = ev
    OBVIOUS
  <2> QED
    BY <2>1, SingleEvent DEF Lawful, Ordinary
<1> QED
  BY <1>1, JournalAppends, AttemptsAppend, OrdinaryAppends DEF HistoryGrows

LEMMA PlainTouchGrows ==
  ASSUME TypeInv, NEW ev \in Event, ev.kind # "attempt", ev.by = None,
         Journal(<<ev>>), executions' = ExecutionsAfter(<<ev>>)
  PROVE  HistoryGrows
  BY SingleEvent, TouchGrows, PlainCallGrows

LEMMA SessionCallGrows ==
  ASSUME TypeInv, NEW s \in SessionId, NEW o \in Owner, NEW now \in Now,
         \/ \E ttl \in Ttl : AcquireBackendSession(s, o, now, ttl)
         \/ \E ttl \in Ttl : RenewBackendSession(s, o, now, ttl)
         \/ ReleaseBackendSession(s, o, now)
  PROVE  HistoryGrows
<1>1. \A t \in SessionId, x \in {"acquired", "renewed", "released", "expired"} :
        /\ SessionEvent(t, x) \in Event /\ SessionEvent(t, x).kind = "session"
        /\ SessionEvent(t, x).by = None
  BY EventTypes, SessionStatuses DEF SessionEvent, NewEvent
<1>2. ASSUME NEW x \in {"renewed", "released"}, NEW row, UpdateSession(s, x, row)
      PROVE  HistoryGrows
  BY <1>1, <1>2, PlainTouchGrows DEF UpdateSession
<1>3. ASSUME NEW ttl, NEW table, Grant(s, o, now, ttl, <<>>, table)
      PROVE  HistoryGrows
  <2>1. <<>> \o <<SessionEvent(s, "acquired")>> = <<SessionEvent(s, "acquired")>>
    BY <1>1, ConcatEmptySeq
  <2> QED
    BY <1>1, <1>3, <2>1, PlainTouchGrows DEF Grant
<1>4. ASSUME NEW ttl, NEW table, NEW t \in SessionId,
             Grant(s, o, now, ttl, <<SessionEvent(t, "expired")>>, table)
      PROVE  HistoryGrows
  <2> DEFINE x == SessionEvent(t, "expired")
             y == SessionEvent(s, "acquired")
             batch == <<x>> \o <<y>>
  <2>1. x \in Event /\ x.kind = "session" /\ x.by = None /\ y \in Event /\ y.kind = "session" /\ y.by = None
    BY <1>1
  <2>2. Journal(batch) /\ executions' = ExecutionsAfter(batch)
    BY <1>4 DEF Grant
  <2> HIDE DEF x, y
  <2>3. <<x>> \in Seq(Event) /\ <<y>> \in Seq(Event) /\ Len(<<x>>) = 1 /\ Len(<<y>>) = 1
    BY <2>1
  <2>4. /\ batch \in Seq(Event) /\ Len(batch) = 2
        /\ \A i \in 1..2 : batch[i] = IF i <= 1 THEN <<x>>[i] ELSE <<y>>[i - 1]
    BY <2>3, ConcatProperties
  <2> HIDE DEF batch
  <2>5. WellFormed(batch) /\ Lawful(batch) /\ Ordinary(batch)
    <3>1. DOMAIN batch = {1, 2} /\ batch[1] = x /\ batch[2] = y
      BY <2>4
    <3> QED
      BY <2>1, <2>4, <3>1 DEF WellFormed, Lawful, Ordinary
  <2> QED
    BY <2>2, <2>5, JournalAppends, AttemptsAppend, OrdinaryAppends, TouchGrows DEF HistoryGrows
<1>5. CASE \E ttl \in Ttl : AcquireBackendSession(s, o, now, ttl)
  BY <1>3, <1>4, <1>5 DEF AcquireBackendSession, ActiveSessions, TypeInv, TypeOK
<1>6. CASE (\E ttl \in Ttl : RenewBackendSession(s, o, now, ttl)) \/ ReleaseBackendSession(s, o, now)
  BY <1>2, <1>6 DEF RenewBackendSession, ReleaseBackendSession
<1> QED
  BY <1>5, <1>6

LEMMA ExecutionCallGrows ==
  ASSUME TypeInv, NEW e \in Execution,
         \/ \E s \in SessionId \cup {None} : BeginExecution(e, s)
         \/ \E status \in {"running"} \cup WaveOutcome : TransitionExecution(e, status)
         \/ AppendObservation(e)
  PROVE  HistoryGrows
<1>1. ASSUME NEW s \in SessionId \cup {None}, BeginExecution(e, s)
      PROVE  HistoryGrows
  <2> DEFINE n == Cardinality(DOMAIN executions) + 1
             ev == [NewEvent("execution", "pending") EXCEPT !.exec = e, !.session = s, !.ord = n]
             row == [ordinal |-> n, session |-> s, status |-> "pending",
                     first |-> SequenceOf(1), last |-> SequenceOf(1)]
  <2>1. Cardinality(DOMAIN executions) \in Nat
    BY FS_CardinalityType DEF TypeInv
  <2>2. n \in Nat
    BY <2>1
  <2>3. Journal(<<ev>>) /\ executions' = Upsert(ExecutionsAfter(<<ev>>), e, row)
        /\ e \notin DOMAIN executions
    BY <1>1 DEF BeginExecution
  <2> HIDE DEF n, row
  <2>4. ev \in Event /\ ev.kind = "execution" /\ ev.by = None
    BY <2>2 DEF NewEvent, Event, EventKind, EventStatus, ExecutionStatus
  <2> HIDE DEF ev
  <2>5. /\ DOMAIN ExecutionsAfter(<<ev>>) = DOMAIN executions
        /\ \A f \in DOMAIN executions :
             /\ ExecutionsAfter(<<ev>>)[f].status = executions[f].status
             /\ ExecutionsAfter(<<ev>>)[f].session = executions[f].session
    BY <2>4, SingleEvent, ExecutionsAfterRows DEF TypeInv
  <2>6. ExecutionsGrow
    BY <2>3, <2>5 DEF Upsert, ExecutionsGrow
  <2> QED
    BY <2>3, <2>4, <2>6, PlainCallGrows
<1>2. ASSUME NEW status \in {"running"} \cup WaveOutcome, TransitionExecution(e, status)
      PROVE  HistoryGrows
  <2> DEFINE ev == [NewEvent("execution", status) EXCEPT !.exec = e]
  <2>1. status \in ExecutionStatus
    BY DurableStoreAssumption DEF ExecutionStatus
  <2>2. ev \in Event /\ ev.kind = "execution" /\ ev.by = None
    BY <2>1 DEF NewEvent, Event, EventKind, EventStatus
  <2>3. Journal(<<ev>>) /\ executions' = [ExecutionsAfter(<<ev>>) EXCEPT ![e].status = status]
        /\ e \in DOMAIN executions /\ status \in NextStatuses(executions[e].status)
    BY <1>2 DEF TransitionExecution
  <2> HIDE DEF ev
  <2>4. /\ DOMAIN ExecutionsAfter(<<ev>>) = DOMAIN executions
        /\ \A f \in DOMAIN executions :
             /\ ExecutionsAfter(<<ev>>)[f] \in ExecutionRow
             /\ ExecutionsAfter(<<ev>>)[f].status = executions[f].status
             /\ ExecutionsAfter(<<ev>>)[f].session = executions[f].session
    BY <2>2, SingleEvent, ExecutionsAfterRows DEF TypeInv
  <2>5. executions[e].status \notin ExecutionFinal
    BY <2>3 DEF NextStatuses, ExecutionFinal
  <2>6. \A f \in DOMAIN executions : f # e => executions'[f] = ExecutionsAfter(<<ev>>)[f]
    BY <2>3, <2>4
  <2>7. executions'[e].session = ExecutionsAfter(<<ev>>)[e].session
    BY <2>3, <2>4 DEF ExecutionRow
  <2>8. ExecutionsGrow
    BY <2>3, <2>4, <2>5, <2>6, <2>7 DEF ExecutionsGrow
  <2> QED
    BY <2>2, <2>3, <2>8, PlainCallGrows
<1>3. CASE AppendObservation(e)
  <2> DEFINE ev == [NewEvent("progress", "running") EXCEPT !.exec = e]
  <2>1. ev \in Event /\ ev.kind = "progress" /\ ev.by = None
    BY DEF NewEvent, Event, EventKind, EventStatus, ExecutionStatus
  <2>2. Journal(<<ev>>) /\ executions' = ExecutionsAfter(<<ev>>)
    BY <1>3 DEF AppendObservation
  <2> HIDE DEF ev
  <2> QED
    BY <2>1, <2>2, PlainTouchGrows
<1> QED
  BY <1>1, <1>2, <1>3

LEMMA AttemptCallGrows ==
  ASSUME TypeInv, AttemptCall
  PROVE  HistoryGrows
<1>1. ASSUME NEW batch, WellFormed(batch), Lawful(batch), Ordinary(batch), Journal(batch),
             executions' = ExecutionsAfter(batch)
      PROVE  HistoryGrows
  BY <1>1, JournalAppends, AttemptsAppend, OrdinaryAppends, TouchGrows DEF HistoryGrows
<1>2. ASSUME NEW p \in Process, NEW e \in Execution, NEW s \in SessionId \cup {None},
             BeginProcessAttempt(p, e, s)
      PROVE  HistoryGrows
  <2> DEFINE a == <<p, NextOrdinal(p)>>
             ev(x) == AttemptEvent(a, e, s, x)
             batch == <<ev("pending"), ev("running")>>
  <2>1. a \in Process \X (Nat \ {0}) /\ a \notin DOMAIN attempts
    BY NextOrdinalIsNew
  <2>2. Journal(batch) /\ executions' = ExecutionsAfter(batch)
    BY <1>2 DEF BeginProcessAttempt, StartAttempt
  <2>3. WellFormed(batch)
    BY <2>1, AttemptBatches DEF AttemptStatus
  <2>4. \A x \in {"pending", "running"} :
          /\ ev(x).exec = e /\ ev(x).session = s /\ ev(x).by = None /\ AttemptOf(ev(x)) = a
    BY <2>1, AttemptEventType DEF AttemptStatus
  <2>5. e \in DOMAIN executions /\ executions[e].status \in Unfinished
        /\ executions[e].session \in {None, s}
    BY <1>2 DEF BeginProcessAttempt
  <2> HIDE DEF ev
  <2>6. DOMAIN batch = {1, 2} /\ batch[1] = ev("pending") /\ batch[2] = ev("running")
    OBVIOUS
  <2> HIDE DEF a, batch
  <2>7. Lawful(batch) /\ Ordinary(batch)
    BY <2>1, <2>4, <2>5, <2>6 DEF Lawful, Ordinary
  <2> QED
    BY <1>1, <2>2, <2>3, <2>7
<1>3. ASSUME NEW a \in DOMAIN attempts, NEW outcome \in AttemptOutcome, FinishProcessAttempt(a, outcome)
      PROVE  HistoryGrows
  <2> DEFINE ev == AttemptEvent(a, attempts[a].exec, attempts[a].session, outcome)
             batch == <<ev>>
  <2>1. a \in Process \X (Nat \ {0}) /\ attempts[a].exec \in Execution
        /\ attempts[a].session \in SessionId \cup {None} /\ outcome \in AttemptStatus
    BY DurableStoreAssumption DEF TypeInv, TypeOK, AttemptRow, AttemptStatus
  <2>2. Journal(batch) /\ executions' = ExecutionsAfter(batch) /\ attempts[a].status \in Unfinished
    BY <1>3 DEF FinishProcessAttempt, RecordOutcome
  <2>3. WellFormed(batch)
    BY <2>1, AttemptBatches
  <2>4. AttemptOf(ev) = a /\ ev.by = None
    BY <2>1, AttemptEventType
  <2> HIDE DEF ev
  <2>5. Lawful(batch) /\ Ordinary(batch)
    BY <2>2, <2>4 DEF Lawful, Ordinary
  <2> HIDE DEF batch
  <2> QED
    BY <1>1, <2>2, <2>3, <2>5
<1> QED
  BY <1>2, <1>3 DEF AttemptCall

LEMMA OtherCallGrows ==
  ASSUME TypeInv, DeclarationCall \/ CommandCall
  PROVE  HistoryGrows
<1>1. ASSUME NEW p \in Process, NEW spec, DeclareProcess(p, spec)
      PROVE  HistoryGrows
  <2> DEFINE ev == [NewEvent("process", "pending") EXCEPT !.proc = p]
  <2>1. ev \in Event /\ ev.kind = "process" /\ ev.by = None
    BY DEF NewEvent, Event, EventKind, EventStatus, ExecutionStatus
  <2>2. Journal(<<ev>>) /\ executions' = ExecutionsAfter(<<ev>>)
    BY <1>1 DEF DeclareProcess
  <2> HIDE DEF ev
  <2> QED
    BY <2>1, <2>2, PlainTouchGrows
<1>2. ASSUME NEW written, WriteProcessSpecs(written)
      PROVE  HistoryGrows
  BY <1>2 DEF WriteProcessSpecs, HistoryGrows, JournalGrows, AttemptsGrow, ExecutionsGrow,
              InterruptionsExplained
<1>3. ASSUME NEW c \in Command, NEW e \in Execution \cup {None}, NEW x \in {"accepted"} \cup CommandFinal,
             Journal(<<CommandEvent(c, e, x)>>), executions' = ExecutionsAfter(<<CommandEvent(c, e, x)>>)
      PROVE  HistoryGrows
  <2>1. /\ CommandEvent(c, e, x) \in Event /\ CommandEvent(c, e, x).kind = "command"
        /\ CommandEvent(c, e, x).by = None
    BY DEF CommandEvent, NewEvent, Event, EventKind, EventStatus, ExecutionStatus,
           ExecutionFinal, CommandFinal
  <2> QED
    BY <1>3, <2>1, PlainTouchGrows
<1>4. \A c \in DOMAIN commands : commands[c].exec \in Execution \cup {None}
  BY DEF TypeInv, TypeOK, CommandRow
<1> QED
  BY <1>1, <1>2, <1>3, <1>4 DEF DeclarationCall, CommandCall, ReserveCommand, FinishCommand

\* What a reconciliation of session s leaves behind.
ReconciledBy(s) ==
  /\ s \in ActiveSessions /\ sessions' = sessions
  /\ \A e \in DOMAIN executions :
       /\ executions'[e].session = executions[e].session
       /\ e \in StaleExecutions(s) => executions'[e].status = "interrupted"
       /\ e \notin StaleExecutions(s) => executions'[e].status = executions[e].status
  /\ \A a \in DOMAIN attempts :
       /\ a \in StaleAttempts(s) => attempts'[a].status = "interrupted"
       /\ a \notin StaleAttempts(s) => attempts'[a] = attempts[a]
  /\ DOMAIN attempts' = DOMAIN attempts /\ DOMAIN executions' = DOMAIN executions
  /\ \A i \in DOMAIN events' : i \notin DOMAIN events =>
       \/ /\ events'[i].kind = "attempt"
          /\ AttemptOf(events'[i]) \in StaleAttempts(s)
          /\ events'[i].exec = attempts[AttemptOf(events'[i])].exec
          /\ events'[i].session = attempts[AttemptOf(events'[i])].session
       \/ events'[i].kind = "execution" /\ events'[i].exec \in StaleExecutions(s)

LEMMA ReconcileGrows ==
  ASSUME TypeInv, NEW s \in SessionId, NEW o \in Owner, NEW now \in Now,
         ReconcileInterruptedWork(s, o, now)
  PROVE  HistoryGrows /\ ReconciledBy(s)
<1>1. PICK as \in AttemptOrder(s), es \in ExecutionOrder(s) :
        /\ Journal(Interruptions(s, as, es))
        /\ executions' = [e \in DOMAIN executions |->
             IF e \in StaleExecutions(s)
             THEN [ExecutionsAfter(Interruptions(s, as, es))[e] EXCEPT !.status = "interrupted"]
             ELSE ExecutionsAfter(Interruptions(s, as, es))[e]]
  BY DEF ReconcileInterruptedWork
<1> DEFINE batch == Interruptions(s, as, es)
<1>2. /\ WellFormed(batch)
      /\ \A i \in DOMAIN batch :
           /\ batch[i].by = s /\ batch[i].status = "interrupted"
           /\ \/ /\ batch[i].kind = "attempt"
                 /\ AttemptOf(batch[i]) \in StaleAttempts(s)
                 /\ batch[i].exec = attempts[AttemptOf(batch[i])].exec
                 /\ batch[i].session = attempts[AttemptOf(batch[i])].session
              \/ batch[i].kind = "execution" /\ batch[i].exec \in StaleExecutions(s)
      /\ \A a \in StaleAttempts(s) : Concerning(batch, a) # {}
  BY InterruptionBatch
<1>3. /\ Journal(batch)
      /\ executions' = [e \in DOMAIN executions |->
           IF e \in StaleExecutions(s) THEN [ExecutionsAfter(batch)[e] EXCEPT !.status = "interrupted"]
           ELSE ExecutionsAfter(batch)[e]]
  BY <1>1
<1> HIDE DEF batch
<1>4. StaleAttempts(s) \subseteq DOMAIN attempts /\ StaleExecutions(s) \subseteq DOMAIN executions
  BY StaleRows
<1>5. Lawful(batch)
  BY <1>2, <1>4 DEF Lawful, StaleAttempts
<1>6. JournalGrows /\ AttemptsGrow
  BY <1>2, <1>3, <1>5, JournalAppends, AttemptsAppend
<1>7. ASSUME NEW e \in DOMAIN executions
      PROVE  /\ executions'[e].session = executions[e].session
             /\ e \in StaleExecutions(s) => executions'[e].status = "interrupted"
             /\ e \notin StaleExecutions(s) => executions'[e].status = executions[e].status
  <2>1. ExecutionsAfter(batch)[e] \in ExecutionRow
        /\ ExecutionsAfter(batch)[e].session = executions[e].session
        /\ ExecutionsAfter(batch)[e].status = executions[e].status
    BY <1>2, ExecutionsAfterRows DEF TypeInv
  <2>2. executions'[e] = IF e \in StaleExecutions(s)
                         THEN [ExecutionsAfter(batch)[e] EXCEPT !.status = "interrupted"]
                         ELSE ExecutionsAfter(batch)[e]
    BY <1>3
  <2> QED
    BY <2>1, <2>2 DEF ExecutionRow
<1>8. DOMAIN executions' = DOMAIN executions
  BY <1>3
<1>9. ExecutionsGrow
  BY <1>7, <1>8 DEF ExecutionsGrow, StaleExecutions, Unfinished, ExecutionFinal
<1>10. InterruptionsExplained
  <2>1. \A i \in DOMAIN events' : i \notin DOMAIN events => events'[i].by = s
    BY <1>2, <1>3, JournalAppends
  <2> QED
    BY <2>1 DEF InterruptionsExplained
<1>11. ASSUME NEW a \in StaleAttempts(s)
       PROVE  attempts'[a].status = "interrupted"
  <2>1. a \in DOMAIN AttemptsAfter(batch) /\ Concerning(batch, a) # {} /\ attempts' = AttemptsAfter(batch)
    BY <1>2, <1>3, <1>4, AttemptsAfterRows DEF Journal, TypeInv
  <2>2. PICK i \in Concerning(batch, a) : AttemptsAfter(batch)[a].status = batch[i].status
    BY <1>2, <2>1, AttemptsAfterRows DEF TypeInv
  <2> QED
    BY <1>2, <2>1, <2>2 DEF Concerning
<1>12. DOMAIN attempts' = DOMAIN attempts
  BY <1>2, <1>3, <1>4 DEF Journal, AttemptsAfter
<1>15. ASSUME NEW a \in DOMAIN attempts, a \notin StaleAttempts(s)
       PROVE  attempts'[a] = attempts[a]
  <2>1. Concerning(batch, a) = {}
    BY <1>2, <1>15 DEF Concerning
  <2> QED
    BY <1>2, <1>3, <1>12, <2>1, AttemptsAfterRows DEF Journal, TypeInv
<1>13. \A i \in DOMAIN events' : i \notin DOMAIN events =>
         \/ /\ events'[i].kind = "attempt"
            /\ AttemptOf(events'[i]) \in StaleAttempts(s)
            /\ events'[i].exec = attempts[AttemptOf(events'[i])].exec
            /\ events'[i].session = attempts[AttemptOf(events'[i])].session
         \/ events'[i].kind = "execution" /\ events'[i].exec \in StaleExecutions(s)
  <2>1. \A i \in DOMAIN events' : i \notin DOMAIN events =>
          i - Len(events) \in DOMAIN batch /\ events'[i] = batch[i - Len(events)]
    BY <1>2, <1>3, JournalAppends
  <2> QED
    BY <1>2, <2>1
<1>14. s \in ActiveSessions /\ sessions' = sessions
  BY DEF ReconcileInterruptedWork, Live
<1> QED
  BY <1>4, <1>6, <1>7, <1>8, <1>9, <1>10, <1>11, <1>12, <1>13, <1>14, <1>15
     DEF HistoryGrows, ReconciledBy

\* Every call respects the history.
LEMMA NextGrows ==
  ASSUME TypeInv, [Next]_vars
  PROVE  HistoryGrows
<1>1. CASE Tick
  BY <1>1 DEF Tick, HistoryGrows, JournalGrows, AttemptsGrow, ExecutionsGrow, InterruptionsExplained
<1>2. CASE SessionCall
  BY <1>2, SessionCallGrows, ReconcileGrows DEF SessionCall
<1>3. CASE ExecutionCall
  BY <1>3, ExecutionCallGrows DEF ExecutionCall
<1>4. CASE AttemptCall
  BY <1>4, AttemptCallGrows
<1>5. CASE DeclarationCall \/ CommandCall
  BY <1>5, OtherCallGrows
<1>6. CASE UNCHANGED vars
  BY <1>6 DEF vars, HistoryGrows, JournalGrows, AttemptsGrow, ExecutionsGrow, InterruptionsExplained
<1> QED
  BY <1>1, <1>2, <1>3, <1>4, <1>5, <1>6 DEF Next

-----------------------------------------------------------------------------
(* Finished work.                                                           *)

\* Receipts of finished commands are not written again.
LEMMA CommandsGrow ==
  ASSUME [Next]_vars
  PROVE  \A c \in DOMAIN commands : commands[c].status \in CommandFinal =>
           c \in DOMAIN commands' /\ commands'[c] = commands[c]
<1>1. ASSUME NEW d, NEW e, ReserveCommand(d, e)
      PROVE  \A c \in DOMAIN commands : c \in DOMAIN commands' /\ commands'[c] = commands[c]
  BY <1>1 DEF ReserveCommand, Upsert
<1>2. ASSUME NEW d, NEW status, FinishCommand(d, status)
      PROVE  \A c \in DOMAIN commands : commands[c].status \in CommandFinal =>
               c \in DOMAIN commands' /\ commands'[c] = commands[c]
  BY <1>2 DEF FinishCommand, CommandFinal
<1>3. CASE UNCHANGED commands
  BY <1>3
<1>4. UNCHANGED commands \/ CommandCall
  <2>1. CASE Tick \/ UNCHANGED vars
    BY <2>1 DEF Tick, vars
  <2>2. CASE SessionCall
    <3>1. \A s, o, now, ttl : AcquireBackendSession(s, o, now, ttl) => UNCHANGED commands
      BY DEF AcquireBackendSession, Grant
    <3>2. \A s, o, now, ttl : RenewBackendSession(s, o, now, ttl) => UNCHANGED commands
      BY DEF RenewBackendSession, UpdateSession
    <3>3. \A s, o, now : ReleaseBackendSession(s, o, now) => UNCHANGED commands
      BY DEF ReleaseBackendSession, UpdateSession
    <3>4. \A s, o, now : ReconcileInterruptedWork(s, o, now) => UNCHANGED commands
      BY DEF ReconcileInterruptedWork
    <3> QED
      BY <2>2, <3>1, <3>2, <3>3, <3>4 DEF SessionCall
  <2>3. CASE ExecutionCall
    BY <2>3 DEF ExecutionCall, BeginExecution, TransitionExecution, AppendObservation
  <2>4. CASE AttemptCall
    BY <2>4 DEF AttemptCall, BeginProcessAttempt, StartAttempt, FinishProcessAttempt, RecordOutcome
  <2>5. CASE DeclarationCall
    BY <2>5 DEF DeclarationCall, DeclareProcess, WriteProcessSpecs
  <2> QED
    BY <2>1, <2>2, <2>3, <2>4, <2>5 DEF Next
<1> QED
  BY <1>1, <1>2, <1>3, <1>4 DEF CommandCall

\* "Continue never changes completed attempt history": for any number of
\* processes, sessions and commands no call reopens, rewrites or removes a
\* finished attempt, wave or command.
THEOREM FinishedWorkIsFinal == Spec => HistoryIsFinal
<1>1. ASSUME TypeInv, [Next]_vars
      PROVE  /\ \A a \in DOMAIN attempts : attempts[a].status \in AttemptFinal =>
                  a \in DOMAIN attempts' /\ attempts'[a] = attempts[a]
             /\ \A e \in DOMAIN executions : executions[e].status \in ExecutionFinal =>
                  e \in DOMAIN executions' /\ executions'[e].status = executions[e].status
             /\ \A c \in DOMAIN commands : commands[c].status \in CommandFinal =>
                  c \in DOMAIN commands' /\ commands'[c] = commands[c]
  <2>1. AttemptsGrow /\ ExecutionsGrow
    BY <1>1, NextGrows DEF HistoryGrows
  <2> QED
    BY <1>1, <2>1, CommandsGrow DEF AttemptsGrow, ExecutionsGrow
<1> QED
  BY <1>1, TypeInvariant, PTL DEF Spec, HistoryIsFinal

-----------------------------------------------------------------------------
(* Leases.                                                                  *)

\* At most one session is active: acquisition ends the lease it replaces.
OneOwner == \A s, t \in ActiveSessions : s = t

\* Who may change session rows, and how.
LEMMA SessionsChange ==
  ASSUME [Next]_vars
  PROVE  \/ UNCHANGED sessions
         \/ \E s \in SessionId, o \in Owner, now \in Now, ttl \in Ttl : AcquireBackendSession(s, o, now, ttl)
         \/ \E s \in ActiveSessions, o \in Owner, now \in Now, ttl \in Ttl :
              sessions' = [sessions EXCEPT ![s] = Leased(o, now, ttl)]
         \/ \E s \in ActiveSessions :
              sessions' = [sessions EXCEPT ![s] = [sessions[s] EXCEPT !.status = "released"]]
<1>1. CASE Tick \/ UNCHANGED vars
  BY <1>1 DEF Tick, vars
<1>2. CASE SessionCall
  BY <1>2 DEF SessionCall, RenewBackendSession, Live, ReleaseBackendSession, UpdateSession,
              ReconcileInterruptedWork
<1>3. CASE ExecutionCall
  BY <1>3 DEF ExecutionCall, BeginExecution, TransitionExecution, AppendObservation
<1>4. CASE AttemptCall
  BY <1>4 DEF AttemptCall, BeginProcessAttempt, StartAttempt, FinishProcessAttempt, RecordOutcome
<1>5. CASE DeclarationCall
  BY <1>5 DEF DeclarationCall, DeclareProcess, WriteProcessSpecs
<1>6. CASE CommandCall
  BY <1>6 DEF CommandCall, ReserveCommand, FinishCommand
<1> QED
  BY <1>1, <1>2, <1>3, <1>4, <1>5, <1>6 DEF Next

LEMMA OneOwnerStep ==
  ASSUME TypeInv, OneOwner, [Next]_vars
  PROVE  OneOwner'
<1>1. CASE UNCHANGED sessions
  BY <1>1 DEF OneOwner, ActiveSessions
<1>2. ASSUME NEW s \in SessionId, NEW o \in Owner, NEW now \in Now, NEW ttl \in Ttl,
             AcquireBackendSession(s, o, now, ttl)
      PROVE  OneOwner'
  <2>1. CASE ActiveSessions = {} /\ Grant(s, o, now, ttl, <<>>, sessions)
    <3>1. sessions' = Upsert(sessions, s, Leased(o, now, ttl))
      BY <2>1 DEF Grant
    <3>2. \A t \in DOMAIN sessions' : t # s => t \in DOMAIN sessions /\ sessions'[t] = sessions[t]
      BY <3>1 DEF Upsert
    <3> QED
      BY <2>1, <3>2 DEF OneOwner, ActiveSessions
  <2>2. ASSUME NEW t \in ActiveSessions, ~Held(t, now),
               Grant(s, o, now, ttl, <<SessionEvent(t, "expired")>>,
                     [sessions EXCEPT ![t].status = "expired"])
        PROVE  OneOwner'
    <3>1. sessions' = Upsert([sessions EXCEPT ![t].status = "expired"], s, Leased(o, now, ttl))
      BY <2>2 DEF Grant
    <3>2. t \in DOMAIN sessions /\ sessions[t] \in SessionRow
      BY <2>2 DEF ActiveSessions, TypeInv, TypeOK
    <3>3. \A u \in DOMAIN sessions' : u # s => u \in DOMAIN sessions
            /\ sessions'[u] = [sessions EXCEPT ![t].status = "expired"][u]
      BY <3>1 DEF Upsert
    <3>4. s # t => sessions'[t].status = "expired"
      BY <3>2, <3>1 DEF Upsert, SessionRow
    <3>5. \A u \in DOMAIN sessions' : u # s /\ u # t => u \in DOMAIN sessions /\ sessions'[u] = sessions[u]
      BY <3>2, <3>3
    <3> QED
      BY <3>2, <3>4, <3>5 DEF OneOwner, ActiveSessions
  <2> QED
    BY <1>2, <2>1, <2>2 DEF AcquireBackendSession
<1>3. ASSUME NEW s \in ActiveSessions, NEW row, sessions' = [sessions EXCEPT ![s] = row]
      PROVE  OneOwner'
  <2>1. DOMAIN sessions' = DOMAIN sessions
        /\ \A u \in DOMAIN sessions : u # s => sessions'[u] = sessions[u]
    BY <1>3
  <2> QED
    BY <2>1 DEF OneOwner, ActiveSessions
<1> QED
  BY <1>1, <1>2, <1>3, SessionsChange

LEMMA OneOwnerInvariant == Spec => []OneOwner
<1>1. Init => OneOwner
  BY DEF Init, Empty, OneOwner, ActiveSessions
<1>2. TypeInv /\ OneOwner /\ [Next]_vars => OneOwner'
  BY OneOwnerStep
<1> QED
  BY <1>1, <1>2, TypeInvariant, PTL DEF Spec

\* "An unexpired owner prevents takeover", for any lag of the taker's clock
\* and any lease durations: a lease that ends as expired has run out.
THEOREM LeasesRunOut == Spec => LeaseNotStolen
<1>1. ASSUME TypeInv, [Next]_vars, NEW t \in ActiveSessions, sessions'[t].status = "expired"
      PROVE  sessions[t].expires <= clock
  <2>1. t \in DOMAIN sessions /\ sessions[t].status = "active" /\ sessions[t] \in SessionRow
    BY <1>1 DEF ActiveSessions, TypeInv, TypeOK
  <2>2. sessions' # sessions
    BY <1>1, <2>1
  <2>3. ASSUME NEW s \in ActiveSessions, NEW row, sessions' = [sessions EXCEPT ![s] = row],
               row.status # "expired"
        PROVE  FALSE
    BY <1>1, <2>1, <2>3
  <2>4. \A o, now, ttl : Leased(o, now, ttl).status = "active"
    BY DEF Leased
  <2>5. \A s \in ActiveSessions : [sessions[s] EXCEPT !.status = "released"].status # "expired"
    BY <1>1 DEF ActiveSessions, TypeInv, TypeOK, SessionRow
  <2>6. PICK s \in SessionId, o \in Owner, now \in Now, ttl \in Ttl : AcquireBackendSession(s, o, now, ttl)
    <3>1. ASSUME NEW s \in ActiveSessions, NEW o, NEW now, NEW ttl,
                 sessions' = [sessions EXCEPT ![s] = Leased(o, now, ttl)]
          PROVE  FALSE
      <4> DEFINE row == Leased(o, now, ttl)
      <4>1. row.status # "expired" /\ sessions' = [sessions EXCEPT ![s] = row]
        BY <2>4, <3>1
      <4> HIDE DEF row
      <4> QED
        BY <2>3, <4>1
    <3>2. ASSUME NEW s \in ActiveSessions,
                 sessions' = [sessions EXCEPT ![s] = [sessions[s] EXCEPT !.status = "released"]]
          PROVE  FALSE
      <4> DEFINE row == [sessions[s] EXCEPT !.status = "released"]
      <4>1. row.status # "expired" /\ sessions' = [sessions EXCEPT ![s] = row]
        BY <2>5, <3>2
      <4> HIDE DEF row
      <4> QED
        BY <2>3, <4>1
    <3> QED
      BY <1>1, <2>2, <3>1, <3>2, SessionsChange
  <2>7. s \notin DOMAIN sessions /\ s # t
    BY <2>1, <2>6 DEF AcquireBackendSession
  <2>8. PICK u \in ActiveSessions :
          /\ ~Held(u, now)
          /\ Grant(s, o, now, ttl, <<SessionEvent(u, "expired")>>,
                   [sessions EXCEPT ![u].status = "expired"])
    BY <1>1, <2>6 DEF AcquireBackendSession
  <2>9. sessions'[t] = [sessions EXCEPT ![u].status = "expired"][t]
    BY <2>1, <2>7, <2>8 DEF Grant, Upsert
  <2>10. t = u
    BY <1>1, <2>1, <2>9
  <2>11. now \in Nat /\ now <= clock /\ clock \in Nat /\ sessions[t].expires \in Nat
    BY <1>1, <2>1 DEF Now, TypeInv, TypeOK, SessionRow
  <2> QED
    BY <2>8, <2>10, <2>11 DEF Held
<1>2. TypeInv /\ [Next]_vars =>
        \A s \in ActiveSessions : sessions'[s].status = "expired" => sessions[s].expires <= clock
  BY <1>1
<1> QED
  BY <1>2, TypeInvariant, PTL DEF Spec, LeaseNotStolen

-----------------------------------------------------------------------------
(* Reconciliation.                                                          *)

\* An attempt runs in a known wave that is its session's or nobody's.
WaveOwnership ==
  \A a \in DOMAIN attempts :
    /\ attempts[a].exec \in DOMAIN executions
    /\ executions[attempts[a].exec].session \in {None, attempts[a].session}

LEMMA WaveOwnershipInvariant == Spec => []WaveOwnership
<1>1. Init => WaveOwnership
  BY DEF Init, Empty, WaveOwnership
<1>2. ASSUME TypeInv, WaveOwnership, [Next]_vars
      PROVE  WaveOwnership'
  <2>1. AttemptsGrow /\ ExecutionsGrow
    BY <1>2, NextGrows DEF HistoryGrows
  <2>2. ASSUME NEW a \in DOMAIN attempts'
        PROVE  /\ attempts'[a].exec \in DOMAIN executions
               /\ executions[attempts'[a].exec].session \in {None, attempts'[a].session}
    BY <1>2, <2>1 DEF AttemptsGrow, WaveOwnership
  <2> QED
    BY <2>1, <2>2 DEF ExecutionsGrow, WaveOwnership
<1> QED
  BY <1>1, <1>2, TypeInvariant, PTL DEF Spec

\* New events that name a reconciling session come from its reconciliation.
LEMMA Interrupter ==
  ASSUME TypeInv, [Next]_vars, NEW i \in NewInterruptions
  PROVE  /\ events'[i].by \in SessionId /\ ReconciledBy(events'[i].by)
         /\ i \in DOMAIN events' /\ i \notin DOMAIN events
<1>1. JournalGrows /\ InterruptionsExplained
  BY NextGrows DEF HistoryGrows
<1>2. events' \in Seq(Event) /\ events \in Seq(Event)
  BY NextTyped DEF TypeInv, TypeOK
<1>3. i \in DOMAIN events' /\ i \notin DOMAIN events /\ events'[i].by # None
  BY <1>2 DEF NewInterruptions
<1> QED
  BY <1>1, <1>3, ReconcileGrows DEF InterruptionsExplained

\* No reconciliation interrupts a wave owned by the session that holds the
\* lease, nor an attempt which that session runs in an owned wave.
THEOREM LiveWorkSurvives == Spec => OnlyLostWorkInterrupted
<1>1. ASSUME TypeInv, OneOwner, WaveOwnership, [Next]_vars, NEW i \in NewInterruptions
      PROVE  IF events'[i].kind = "execution"
             THEN executions[events'[i].exec].session \notin ActiveSessions
             ELSE executions[events'[i].exec].session # None => events'[i].session \notin ActiveSessions
  <2> DEFINE s == events'[i].by
             ev == events'[i]
  <2>1. s \in SessionId /\ ReconciledBy(s) /\ i \in DOMAIN events' /\ i \notin DOMAIN events
    BY <1>1, Interrupter
  <2>2. ActiveSessions = {s}
    BY <1>1, <2>1 DEF OneOwner, ReconciledBy
  <2>3. \/ /\ ev.kind = "attempt"
           /\ AttemptOf(ev) \in StaleAttempts(s)
           /\ ev.exec = attempts[AttemptOf(ev)].exec
           /\ ev.session = attempts[AttemptOf(ev)].session
        \/ ev.kind = "execution" /\ ev.exec \in StaleExecutions(s)
    BY <2>1 DEF ReconciledBy
  <2> HIDE DEF s, ev
  <2>4. CASE ev.kind = "execution"
    BY <2>2, <2>3, <2>4 DEF StaleExecutions, ev
  <2>5. CASE ev.kind = "attempt"
    <3>1. PICK a \in StaleAttempts(s) : ev.exec = attempts[a].exec /\ ev.session = attempts[a].session
      BY <2>3, <2>5
    <3>2. a \in DOMAIN attempts /\ executions[ev.exec].session \in {None, ev.session}
      BY <1>1, <3>1 DEF WaveOwnership, StaleAttempts
    <3>3. ev.exec \in StaleExecutions(s) \/ ev.session \notin {None, s}
      BY <3>1 DEF StaleAttempts
    <3>4. executions[ev.exec].session # None => ev.session # s
      BY <3>2, <3>3 DEF StaleExecutions
    <3> QED
      BY <2>2, <2>5, <3>4 DEF ev
  <2> QED
    BY <2>3, <2>4, <2>5
<1>2. TypeInv /\ OneOwner /\ WaveOwnership /\ [Next]_vars =>
        \A i \in NewInterruptions :
          LET ev == events'[i]
          IN  IF ev.kind = "execution"
              THEN executions[ev.exec].session \notin ActiveSessions
              ELSE executions[ev.exec].session # None => ev.session \notin ActiveSessions
  BY <1>1
<1> QED
  BY <1>2, TypeInvariant, OneOwnerInvariant, WaveOwnershipInvariant, PTL
     DEF Spec, OnlyLostWorkInterrupted

\* "Reconciliation is idempotent": after one that wrote anything there is
\* nothing left for the same session to interrupt.
THEOREM ReconcilingOnceIsEnough == Spec => ReconciliationIsIdempotent
<1>1. ASSUME NEW s, ReconciledBy(s)
      PROVE  StaleExecutions(s)' = {}
  <2>1. \A e \in DOMAIN executions' :
          executions'[e].status \in Unfinished => executions'[e].session = s
    BY <1>1 DEF ReconciledBy, StaleExecutions, Unfinished
  <2> QED
    BY <2>1 DEF StaleExecutions
<1>2. ASSUME NEW s, ReconciledBy(s)
      PROVE  StaleAttempts(s)' = {}
  <2>1. \A a \in DOMAIN attempts' :
          attempts'[a].status \in Unfinished => attempts'[a].session \in {None, s}
    BY <1>2 DEF ReconciledBy, StaleAttempts, Unfinished
  <2> QED
    BY <1>1, <1>2, <2>1 DEF StaleAttempts
<1>3. TypeInv /\ [Next]_vars =>
        \A s \in SessionId : (\E i \in NewInterruptions : events'[i].by = s) =>
          StaleExecutions(s)' = {} /\ StaleAttempts(s)' = {}
  BY <1>1, <1>2, Interrupter
<1> QED
  BY <1>3, TypeInvariant, PTL DEF Spec, ReconciliationIsIdempotent

\* ReconciledWorkIsQuiet with the fact that the interrupted wave is known.
Settled(ev) ==
  /\ ev.exec \in DOMAIN executions
  /\ executions[ev.exec].status = "interrupted"
  /\ \A a \in DOMAIN attempts : attempts[a].exec = ev.exec => attempts[a].status \in AttemptFinal

QuietInv ==
  \A i \in DOMAIN events : events[i].kind = "execution" /\ events[i].by # None => Settled(events[i])

\* A wave that is settled stays settled: its attempts are final, and a new
\* attempt would need it unfinished.
LEMMA SettledStays ==
  ASSUME TypeInv, AttemptsGrow, ExecutionsGrow, NEW ev, Settled(ev)
  PROVE  /\ ev.exec \in DOMAIN executions'
         /\ executions'[ev.exec].status = "interrupted"
         /\ \A a \in DOMAIN attempts' :
              attempts'[a].exec = ev.exec => attempts'[a].status \in AttemptFinal
<1>1. ev.exec \in DOMAIN executions' /\ executions'[ev.exec].status = "interrupted"
  BY DEF Settled, ExecutionsGrow, ExecutionFinal
<1>2. ASSUME NEW a \in DOMAIN attempts', attempts'[a].exec = ev.exec
      PROVE  attempts'[a].status \in AttemptFinal
  <2>1. CASE a \in DOMAIN attempts
    BY <1>2, <2>1 DEF Settled, AttemptsGrow
  <2>2. CASE a \notin DOMAIN attempts
    BY <1>2, <2>2 DEF Settled, AttemptsGrow, Unfinished
  <2> QED
    BY <2>1, <2>2
<1> QED
  BY <1>1, <1>2

LEMMA QuietInvariant == Spec => []QuietInv
<1>1. Init => QuietInv
  BY DEF Init, QuietInv
<1>2. ASSUME TypeInv, QuietInv, [Next]_vars
      PROVE  QuietInv'
  <2>1. JournalGrows /\ AttemptsGrow /\ ExecutionsGrow
    BY <1>2, NextGrows DEF HistoryGrows
  <2>2. ASSUME NEW i \in DOMAIN events', events'[i].kind = "execution", events'[i].by # None
        PROVE  /\ events'[i].exec \in DOMAIN executions'
               /\ executions'[events'[i].exec].status = "interrupted"
               /\ \A a \in DOMAIN attempts' :
                    attempts'[a].exec = events'[i].exec => attempts'[a].status \in AttemptFinal
    <3>1. CASE i \in DOMAIN events
      <4>1. events'[i] = events[i] /\ Settled(events[i])
        BY <1>2, <2>1, <2>2, <3>1 DEF JournalGrows, QuietInv
      <4> QED
        BY <1>2, <2>1, <4>1, SettledStays
    <3>2. CASE i \notin DOMAIN events
      <4> DEFINE s == events'[i].by
                 e == events'[i].exec
      <4>1. s \in SessionId /\ ReconciledBy(s)
        <5>1. events' \in Seq(Event) /\ events \in Seq(Event)
          BY <1>2, NextTyped DEF TypeInv, TypeOK
        <5>2. i \in NewInterruptions
          BY <2>2, <3>2, <5>1 DEF NewInterruptions
        <5> QED
          BY <1>2, <5>2, Interrupter
      <4>2. e \in StaleExecutions(s)
        BY <2>2, <3>2, <4>1 DEF ReconciledBy
      <4> HIDE DEF s, e
      <4>3. e \in DOMAIN executions /\ e \in DOMAIN executions' /\ executions'[e].status = "interrupted"
        BY <4>1, <4>2 DEF ReconciledBy, StaleExecutions
      <4>4. ASSUME NEW a \in DOMAIN attempts', attempts'[a].exec = e
            PROVE  attempts'[a].status \in AttemptFinal
        <5>1. a \in DOMAIN attempts /\ attempts[a].exec = e /\ attempts[a] \in AttemptRow
          BY <1>2, <2>1, <4>1, <4>4 DEF ReconciledBy, AttemptsGrow, TypeInv, TypeOK
        <5>2. CASE a \in StaleAttempts(s)
          BY <4>1, <5>1, <5>2 DEF ReconciledBy, AttemptFinal
        <5>3. CASE a \notin StaleAttempts(s)
          <6>1. attempts'[a] = attempts[a] /\ attempts[a].status \notin Unfinished
            BY <4>1, <4>2, <5>1, <5>3 DEF ReconciledBy, StaleAttempts
          <6> QED
            BY <5>1, <6>1 DEF AttemptRow, AttemptStatus, Unfinished
        <5> QED
          BY <5>2, <5>3
      <4> QED
        BY <4>3, <4>4 DEF e
    <3> QED
      BY <3>1, <3>2
  <2> QED
    BY <2>2 DEF QuietInv, Settled
<1> QED
  BY <1>1, <1>2, TypeInvariant, PTL DEF Spec

\* Once a wave is interrupted by a reconciliation nothing runs in it again,
\* whatever its late owner calls.
THEOREM ReconciledWorkStaysQuiet == Spec => []ReconciledWorkIsQuiet
<1>1. QuietInv => ReconciledWorkIsQuiet
  BY DEF QuietInv, Settled, ReconciledWorkIsQuiet
<1> QED
  BY <1>1, QuietInvariant, PTL


-----------------------------------------------------------------------------
(* Positions in a journal that has become longer by a batch.                *)

\* Positions of a batch, behind n events.
Behind(n, S) == {n + i : i \in S}

\* The first and the last of positions S in the journal and T in the batch.
ExtremaJoin(n, S, T) ==
  /\ S # {} => Min(S \cup Behind(n, T)) = Min(S) /\ Min(S) \in S
  /\ S # {} /\ T = {} => Max(S \cup Behind(n, T)) = Max(S) /\ Max(S) \in S
  /\ T # {} => Max(S \cup Behind(n, T)) = n + Max(T) /\ Max(T) \in T
  /\ T # {} /\ S = {} => Min(S \cup Behind(n, T)) = n + Min(T) /\ Min(T) \in T

LEMMA ExtremaBehind ==
  ASSUME NEW n \in Nat, NEW m \in Nat, NEW S, S \subseteq 1..n, NEW T, T \subseteq 1..m
  PROVE  ExtremaJoin(n, S, T)
<1> DEFINE U == S \cup Behind(n, T)
<1>1. /\ \A i \in T : i \in Nat /\ n + i \in Nat /\ n + i > n /\ n + i \in U /\ n + i <= n + m
      /\ \A i \in S : i \in Nat /\ i <= n /\ i \in U
      /\ \A u \in U : u \in S \/ \E i \in T : u = n + i
  BY DEF Behind
<1>2. U \subseteq Nat /\ U \subseteq 0..(n + m) /\ S \subseteq Nat /\ S \subseteq 0..n
      /\ T \subseteq Nat /\ T \subseteq 0..m /\ n + m \in Nat
  <2>1. S \subseteq Nat /\ S \subseteq 0..n /\ T \subseteq Nat /\ T \subseteq 0..m /\ n + m \in Nat
    OBVIOUS
  <2> HIDE DEF U
  <2>2. ASSUME NEW u \in U PROVE u \in 0..(n + m)
    <3>1. CASE u \in S
      BY <1>1, <3>1
    <3>2. CASE \E i \in T : u = n + i
      BY <1>1, <3>2
    <3> QED
      BY <1>1, <3>1, <3>2
  <2>3. 0..(n + m) \subseteq Nat
    BY <2>1
  <2> QED
    BY <2>1, <2>2, <2>3
<1>3. /\ S # {} => Min(S) \in S /\ Max(S) \in S /\ \A x \in S : Min(S) <= x /\ x <= Max(S)
      /\ T # {} => Min(T) \in T /\ Max(T) \in T /\ \A x \in T : Min(T) <= x /\ x <= Max(T)
  BY <1>2, LeastExists, GreatestExists
<1> HIDE DEF U
<1>4. U # {} => Min(U) \in U /\ Max(U) \in U /\ \A x \in U : Min(U) <= x /\ x <= Max(U)
  BY <1>2, LeastExists, GreatestExists
<1>5. ASSUME S # {} PROVE Min(U) = Min(S)
  <2>1. Min(S) \in U /\ Min(U) \in U /\ Min(U) <= Min(S)
    BY <1>1, <1>3, <1>4, <1>5
  <2>2. Min(S) \in 1..n
    BY <1>3, <1>5
  <2>3. \A i \in T : ~(n + i <= Min(S))
    BY <1>1, <2>2
  <2>4. Min(U) \in S /\ Min(S) <= Min(U)
    BY <1>1, <1>3, <1>5, <2>1, <2>3
  <2>5. \A x, y \in Nat : x <= y /\ y <= x => x = y
    OBVIOUS
  <2>6. Min(U) \in Nat /\ Min(S) \in Nat
    BY <1>2, <2>1, <2>4
  <2> QED
    BY <2>1, <2>4, <2>5, <2>6
<1>6. ASSUME S # {}, T = {} PROVE Max(U) = Max(S)
  <2>1. U = S
    BY <1>6 DEF U, Behind
  <2> QED
    BY <2>1
<1>7. ASSUME T # {} PROVE Max(U) = n + Max(T)
  <2>1. n + Max(T) \in U /\ Max(U) \in U /\ n + Max(T) <= Max(U)
    BY <1>1, <1>3, <1>4, <1>7
  <2>2. PICK i \in T : Max(U) = n + i
    <3>1. Max(T) \in 1..m
      BY <1>3, <1>7
    <3>2. \A x \in S : ~(n + Max(T) <= x)
      BY <1>1, <3>1
    <3> QED
      BY <1>1, <2>1, <3>2
  <2>3. i <= Max(T) /\ i \in Nat /\ Max(T) \in Nat
    BY <1>2, <1>3, <1>7
  <2> QED
    BY <2>1, <2>2, <2>3
<1>8. ASSUME T # {}, S = {} PROVE Min(U) = n + Min(T)
  <2>1. n + Min(T) \in U /\ Min(U) \in U /\ Min(U) <= n + Min(T)
    BY <1>1, <1>3, <1>4, <1>8
  <2>2. PICK i \in T : Min(U) = n + i
    BY <1>1, <1>8, <2>1
  <2>3. Min(T) <= i /\ i \in Nat /\ Min(T) \in Nat
    BY <1>2, <1>3, <1>8
  <2> QED
    BY <2>1, <2>2, <2>3
<1> QED
  BY <1>3, <1>5, <1>6, <1>7, <1>8 DEF U, ExtremaJoin

\* The journal after a transaction.
LEMMA JournalShape ==
  ASSUME TypeInv, NEW batch, WellFormed(batch), Journal(batch)
  PROVE  /\ Len(events) \in Nat /\ Len(batch) \in Nat
         /\ DOMAIN events = 1..Len(events) /\ DOMAIN batch = 1..Len(batch)
         /\ DOMAIN events' = DOMAIN events \cup Behind(Len(events), DOMAIN batch)
         /\ \A i \in DOMAIN events : events'[i] = events[i]
         /\ \A i \in DOMAIN batch : events'[Len(events) + i] = batch[i]
<1>1. events \in Seq(Event) /\ batch \in Seq(Event) /\ events' = events \o batch
  BY DEF TypeInv, TypeOK, WellFormed, Journal
<1>2. /\ Len(events) \in Nat /\ Len(batch) \in Nat
      /\ DOMAIN events = 1..Len(events) /\ DOMAIN batch = 1..Len(batch)
      /\ DOMAIN events' = 1..(Len(events) + Len(batch))
  BY <1>1
<1>3. \A i \in 1..(Len(events) + Len(batch)) :
        events'[i] = IF i <= Len(events) THEN events[i] ELSE batch[i - Len(events)]
  BY <1>1, ConcatProperties
<1>4. \A i \in DOMAIN batch : /\ Len(events) + i \in DOMAIN events'
                              /\ ~(Len(events) + i <= Len(events))
                              /\ (Len(events) + i) - Len(events) = i
  BY <1>2
<1>5. \A i \in DOMAIN events' : i \notin DOMAIN events =>
        i - Len(events) \in DOMAIN batch /\ i = Len(events) + (i - Len(events))
  BY <1>2
<1>6. \A i \in DOMAIN events : i \in DOMAIN events' /\ i <= Len(events)
  BY <1>2
<1>7. DOMAIN events' = DOMAIN events \cup Behind(Len(events), DOMAIN batch)
  <2>1. \A i \in DOMAIN events' : i \in DOMAIN events \cup Behind(Len(events), DOMAIN batch)
    BY <1>5 DEF Behind
  <2>2. \A i \in Behind(Len(events), DOMAIN batch) : i \in DOMAIN events'
    BY <1>4 DEF Behind
  <2> QED
    BY <1>6, <2>1, <2>2
<1> QED
  BY <1>2, <1>3, <1>4, <1>6, <1>7

-----------------------------------------------------------------------------
(* Attempts.                                                                *)

\* The attempts a journal names.
Named(journal) == {AttemptOf(journal[i]) : i \in {j \in DOMAIN journal : journal[j].kind = "attempt"}}

LEMMA NamedConcerned ==
  \A journal, a : a \in Named(journal) <=> Concerning(journal, a) # {}
BY DEF Named, Concerning

\* The lifecycle events of an attempt, after a transaction.
LEMMA ConcerningGrows ==
  ASSUME TypeInv, NEW batch, WellFormed(batch), Journal(batch), NEW a
  PROVE  /\ Concerning(events', a) = Concerning(events, a) \cup Behind(Len(events), Concerning(batch, a))
         /\ Concerning(events, a) \subseteq 1..Len(events)
         /\ Concerning(batch, a) \subseteq 1..Len(batch)
<1>1. /\ DOMAIN events = 1..Len(events) /\ DOMAIN batch = 1..Len(batch)
      /\ DOMAIN events' = DOMAIN events \cup Behind(Len(events), DOMAIN batch)
      /\ \A i \in DOMAIN events : events'[i] = events[i]
      /\ \A i \in DOMAIN batch : events'[Len(events) + i] = batch[i]
  BY JournalShape
<1> QED
  BY <1>1 DEF Concerning, Behind, AttemptOf

\* The rows a rebuild makes.
LEMMA RebuiltAttemptRow ==
  ASSUME NEW journal, NEW a, Concerning(journal, a) # {}
  PROVE  RebuiltAttempts(journal)[a] =
           [exec |-> journal[Min(Concerning(journal, a))].exec,
            session |-> journal[Min(Concerning(journal, a))].session,
            status |-> journal[Max(Concerning(journal, a))].status,
            first |-> Min(Concerning(journal, a)) - 1, last |-> Max(Concerning(journal, a)) - 1]
<1>1. a \in Named(journal)
  BY NamedConcerned
<1> QED
  BY <1>1 DEF RebuiltAttempts, Named, FirstOf, LastOf

\* What a later event does to such a row.
LEMMA RowMoved ==
  ASSUME NEW row, NEW e, NEW s, NEW old, NEW first, NEW last, NEW status, NEW seq,
         row = [exec |-> e, session |-> s, status |-> old, first |-> first, last |-> last]
  PROVE  [row EXCEPT !.status = status, !.last = seq]
           = [exec |-> e, session |-> s, status |-> status, first |-> first, last |-> seq]
<1> DEFINE moved == [row EXCEPT !.status = status, !.last = seq]
<1>1. /\ DOMAIN moved = {"exec", "session", "status", "first", "last"}
      /\ moved = [x \in DOMAIN moved |-> moved[x]]
  OBVIOUS
<1>2. /\ moved.exec = e /\ moved.session = s
      /\ moved.status = status /\ moved.first = first /\ moved.last = seq
  OBVIOUS
<1> HIDE DEF moved
<1>3. moved = [exec |-> e, session |-> s, status |-> status, first |-> first, last |-> seq]
  BY <1>1, <1>2
<1> QED
  BY <1>3 DEF moved

\* Whatever a transaction appends, it leaves the attempt rows that a rebuild
\* would make.
LEMMA AttemptsRebuilt ==
  ASSUME TypeInv, NEW batch, WellFormed(batch), Journal(batch), attempts = RebuiltAttempts(events)
  PROVE  attempts' = RebuiltAttempts(events')
<1> DEFINE n == Len(events)
<1>1. /\ n \in Nat /\ Len(batch) \in Nat
      /\ DOMAIN events = 1..n /\ DOMAIN batch = 1..Len(batch)
      /\ \A i \in 1..n : events'[i] = events[i]
      /\ \A i \in 1..Len(batch) : events'[n + i] = batch[i]
  BY JournalShape
<1>2. attempts' = AttemptsAfter(batch)
  BY DEF Journal
<1>3. DOMAIN attempts = Named(events) /\ DOMAIN RebuiltAttempts(events') = Named(events')
      /\ DOMAIN AttemptsAfter(batch) = Named(events) \cup Named(batch)
  BY DEF RebuiltAttempts, AttemptsAfter, Named
<1>4. Named(events') = Named(events) \cup Named(batch)
  <2>1. ASSUME NEW a PROVE a \in Named(events') <=> a \in Named(events) \cup Named(batch)
    <3>1. Concerning(events', a) = Concerning(events, a) \cup Behind(n, Concerning(batch, a))
      BY ConcerningGrows
    <3>2. Behind(n, Concerning(batch, a)) = {} <=> Concerning(batch, a) = {}
      BY DEF Behind
    <3> QED
      BY <3>1, <3>2, NamedConcerned
  <2> QED
    BY <2>1
<1>5. ASSUME NEW a \in Named(events')
      PROVE  AttemptsAfter(batch)[a] = RebuiltAttempts(events')[a]
  <2> DEFINE S == Concerning(events, a)
             T == Concerning(batch, a)
             U == S \cup Behind(n, T)
             was == attempts[a]
             row == IF a \in DOMAIN attempts THEN was
                    ELSE [exec |-> batch[Min(T)].exec, session |-> batch[Min(T)].session,
                          first |-> SequenceOf(Min(T)), status |-> "pending", last |-> 0]
  <2>1. /\ Concerning(events', a) = U /\ S \subseteq 1..n /\ T \subseteq 1..Len(batch)
        /\ a \in DOMAIN attempts <=> S # {}
        /\ U # {}
    BY <1>3, <1>5, ConcerningGrows, NamedConcerned
  <2>2. S # {} => was = [exec |-> events[Min(S)].exec, session |-> events[Min(S)].session,
                         status |-> events[Max(S)].status, first |-> Min(S) - 1, last |-> Max(S) - 1]
    BY RebuiltAttemptRow
  <2>3. RebuiltAttempts(events')[a] =
          [exec |-> events'[Min(U)].exec, session |-> events'[Min(U)].session,
           status |-> events'[Max(U)].status, first |-> Min(U) - 1, last |-> Max(U) - 1]
    <3>1. \A j : Concerning(j, a) # {} =>
            RebuiltAttempts(j)[a] =
              [exec |-> j[Min(Concerning(j, a))].exec, session |-> j[Min(Concerning(j, a))].session,
               status |-> j[Max(Concerning(j, a))].status,
               first |-> Min(Concerning(j, a)) - 1, last |-> Max(Concerning(j, a)) - 1]
      BY RebuiltAttemptRow
    <3> QED
      BY <2>1, <3>1
  <2>4. AttemptsAfter(batch)[a] =
          IF T = {} THEN row
          ELSE [row EXCEPT !.status = batch[Max(T)].status, !.last = SequenceOf(Max(T))]
    <3>1. a \in DOMAIN AttemptsAfter(batch)
      BY <1>3, <1>4, <1>5
    <3> QED
      BY <1>3, <3>1 DEF AttemptsAfter
  <2> HIDE DEF S, T, was, n
  <2>5. /\ S # {} => Min(U) = Min(S) /\ Min(S) \in S
        /\ S # {} /\ T = {} => Max(U) = Max(S) /\ Max(S) \in S
        /\ T # {} => Max(U) = n + Max(T) /\ Max(T) \in T
        /\ T # {} /\ S = {} => Min(U) = n + Min(T) /\ Min(T) \in T
    <3>1. n \in Nat /\ Len(batch) \in Nat /\ S \subseteq 1..n /\ T \subseteq 1..Len(batch)
      BY <1>1, <2>1
    <3>2. ExtremaJoin(n, S, T)
      BY <3>1, ExtremaBehind
    <3> QED
      BY <3>2 DEF ExtremaJoin
  <2> HIDE DEF U
  <2>0. n \in Nat /\ \A i \in T : i \in Nat
    <3>1. n \in Nat /\ Len(batch) \in Nat /\ T \subseteq 1..Len(batch)
      BY <1>1, <2>1
    <3> QED
      BY <3>1
  <2>9. ASSUME T # {} PROVE SequenceOf(Max(T)) = Max(U) - 1
    <3>1. Max(U) = n + Max(T) /\ Max(T) \in Nat /\ n \in Nat
      BY <2>0, <2>5, <2>9
    <3>2. SequenceOf(Max(T)) = n + Max(T) - 1
      BY DEF SequenceOf, n
    <3> QED
      BY <3>1, <3>2
  <2>10. ASSUME T # {}, S = {} PROVE SequenceOf(Min(T)) = Min(U) - 1
    <3>1. Min(U) = n + Min(T) /\ Min(T) \in Nat /\ n \in Nat
      BY <2>0, <2>5, <2>10
    <3>2. SequenceOf(Min(T)) = n + Min(T) - 1
      BY DEF SequenceOf, n
    <3> QED
      BY <3>1, <3>2
  <2>6. CASE T = {}
    <3>1. S # {}
      BY <2>1, <2>6 DEF U, Behind
    <3>2. events'[Min(U)] = events[Min(S)] /\ events'[Max(U)] = events[Max(S)]
      BY <1>1, <2>1, <2>5, <2>6, <3>1
    <3>3. AttemptsAfter(batch)[a] = was
      BY <2>1, <2>4, <2>6, <3>1
    <3> QED
      BY <2>2, <2>3, <2>5, <2>6, <3>1, <3>2, <3>3
  <2>7. CASE T # {} /\ S # {}
    <3>1. events'[Min(U)] = events[Min(S)] /\ events'[Max(U)] = batch[Max(T)]
      BY <1>1, <2>1, <2>5, <2>7
    <3>2. AttemptsAfter(batch)[a] =
            [was EXCEPT !.status = batch[Max(T)].status, !.last = SequenceOf(Max(T))]
      BY <2>1, <2>4, <2>7
    <3>3. SequenceOf(Max(T)) = Max(U) - 1 /\ Min(U) = Min(S)
      BY <2>5, <2>7, <2>9
    <3>4. AttemptsAfter(batch)[a] =
            [exec |-> events[Min(S)].exec, session |-> events[Min(S)].session,
             status |-> batch[Max(T)].status, first |-> Min(S) - 1, last |-> SequenceOf(Max(T))]
      <4>1. was = [exec |-> events[Min(S)].exec, session |-> events[Min(S)].session,
                   status |-> events[Max(S)].status, first |-> Min(S) - 1, last |-> Max(S) - 1]
        BY <2>2, <2>7
      <4> QED
        BY <3>2, <4>1, RowMoved
    <3>5. RebuiltAttempts(events')[a] =
            [exec |-> events[Min(S)].exec, session |-> events[Min(S)].session,
             status |-> batch[Max(T)].status, first |-> Min(S) - 1, last |-> SequenceOf(Max(T))]
      BY <2>3, <3>1, <3>3
    <3> QED
      BY <3>4, <3>5, Zenon
  <2>8. CASE T # {} /\ S = {}
    <3>1. events'[Min(U)] = batch[Min(T)] /\ events'[Max(U)] = batch[Max(T)]
      BY <1>1, <2>1, <2>5, <2>8
    <3>2. AttemptsAfter(batch)[a] =
            [exec |-> batch[Min(T)].exec, session |-> batch[Min(T)].session,
             first |-> SequenceOf(Min(T)), status |-> batch[Max(T)].status,
             last |-> SequenceOf(Max(T))]
      BY <2>1, <2>4, <2>8
    <3>3. SequenceOf(Max(T)) = Max(U) - 1 /\ SequenceOf(Min(T)) = Min(U) - 1
      BY <2>8, <2>9, <2>10
    <3> QED
      BY <2>3, <3>1, <3>2, <3>3
  <2> QED
    BY <2>6, <2>7, <2>8
<1>6. /\ AttemptsAfter(batch) = [a \in Named(events') |-> AttemptsAfter(batch)[a]]
      /\ RebuiltAttempts(events') = [a \in Named(events') |-> RebuiltAttempts(events')[a]]
  <2>1. AttemptsAfter(batch) = [a \in DOMAIN AttemptsAfter(batch) |-> AttemptsAfter(batch)[a]]
    BY DEF AttemptsAfter
  <2>2. RebuiltAttempts(events') = [a \in DOMAIN RebuiltAttempts(events') |-> RebuiltAttempts(events')[a]]
    BY DEF RebuiltAttempts
  <2> QED
    BY <1>3, <1>4, <2>1, <2>2
<1> QED
  BY <1>2, <1>5, <1>6

-----------------------------------------------------------------------------
(* What every step appends.                                                 *)

\* A batch without events of one kind.
Without(batch, kind) == \A i \in DOMAIN batch : batch[i].kind # kind

\* The events of a call on the lease, and whom it leaves in charge.
LeaseBatch(batch) ==
  \E s \in SessionId :
    \/ batch = <<SessionEvent(s, "renewed")>> /\ ActiveSessions = {s} /\ ActiveSessions' = {s}
    \/ batch = <<SessionEvent(s, "released")>> /\ ActiveSessions = {s} /\ ActiveSessions' = {}
    \/ batch = <<SessionEvent(s, "acquired")>> /\ ActiveSessions = {} /\ ActiveSessions' = {s}
    \/ \E t \in SessionId :
         /\ batch = <<SessionEvent(t, "expired"), SessionEvent(s, "acquired")>>
         /\ ActiveSessions = {t} /\ ActiveSessions' = {s}

\* The event of a call on a command, and what it does to the receipt.
CommandBatch(batch) ==
  \E c \in Command :
    \/ \E e \in Execution \cup {None} :
         batch = <<CommandEvent(c, e, "accepted")>> /\ ReserveCommand(c, e)
    \/ \E status \in CommandFinal :
         batch = <<CommandEvent(c, commands[c].exec, status)>> /\ FinishCommand(c, status)

\* The events of a call on waves, and what it does to their rows.
WaveBatch(batch) ==
  \/ \E e \in Execution, s \in SessionId \cup {None} :
       /\ BeginExecution(e, s)
       /\ batch = <<[NewEvent("execution", "pending") EXCEPT
                     !.exec = e, !.session = s, !.ord = Cardinality(DOMAIN executions) + 1]>>
  \/ \E e \in Execution, status \in ExecutionStatus :
       /\ TransitionExecution(e, status)
       /\ batch = <<[NewEvent("execution", status) EXCEPT !.exec = e]>>
  \/ \E s \in SessionId : \E as \in AttemptOrder(s), es \in ExecutionOrder(s) :
       /\ batch = Interruptions(s, as, es)
       /\ executions' = [e \in DOMAIN executions |->
            IF e \in StaleExecutions(s) THEN [ExecutionsAfter(batch)[e] EXCEPT !.status = "interrupted"]
            ELSE ExecutionsAfter(batch)[e]]

\* The events that make an attempt.
AttemptBatch(batch) ==
  \E p \in Process, e \in Execution, s \in SessionId \cup {None} :
    batch = <<AttemptEvent(<<p, NextOrdinal(p)>>, e, s, "pending"),
              AttemptEvent(<<p, NextOrdinal(p)>>, e, s, "running")>>

\* A batch that names no new attempt.
MakesNoAttempt(batch) ==
  \A i \in DOMAIN batch : batch[i].kind = "attempt" => AttemptOf(batch[i]) \in DOMAIN attempts

\* One transaction.
Appends(batch) ==
  /\ WellFormed(batch) /\ Journal(batch)
  /\ \/ Without(batch, "execution") /\ executions' = ExecutionsAfter(batch)
     \/ WaveBatch(batch)
  /\ MakesNoAttempt(batch) \/ AttemptBatch(batch)
  /\ \/ Without(batch, "session") /\ ActiveSessions' = ActiveSessions
     \/ LeaseBatch(batch)
  /\ \/ Without(batch, "command") /\ UNCHANGED commands
     \/ CommandBatch(batch)

LEMMA PlainAppend ==
  ASSUME NEW ev \in Event, ev.kind \notin {"attempt", "session", "command"},
         Journal(<<ev>>), UNCHANGED <<sessions, commands>>,
         \/ ev.kind # "execution" /\ executions' = ExecutionsAfter(<<ev>>)
         \/ WaveBatch(<<ev>>)
  PROVE  Appends(<<ev>>)
<1>1. DOMAIN <<ev>> = {1} /\ <<ev>>[1] = ev
  OBVIOUS
<1>2. WellFormed(<<ev>>)
  BY SingleEvent
<1>3. /\ Without(<<ev>>, "session") /\ Without(<<ev>>, "command") /\ MakesNoAttempt(<<ev>>)
      /\ ev.kind # "execution" => Without(<<ev>>, "execution")
  BY <1>1 DEF Without, MakesNoAttempt
<1>4. ActiveSessions' = ActiveSessions
  BY DEF ActiveSessions
<1> QED
  BY <1>2, <1>3, <1>4 DEF Appends

LEMMA LeaseAppend ==
  ASSUME NEW batch, WellFormed(batch), \A i \in DOMAIN batch : batch[i].kind = "session",
         Journal(batch), executions' = ExecutionsAfter(batch), UNCHANGED commands, LeaseBatch(batch)
  PROVE  Appends(batch)
  BY DEF Appends, Without, MakesNoAttempt

LEMMA LeaseCallAppends ==
  ASSUME TypeInv, OneOwner, NEW s \in SessionId, NEW o \in Owner, NEW now \in Now,
         \/ \E ttl \in Ttl : AcquireBackendSession(s, o, now, ttl)
         \/ \E ttl \in Ttl : RenewBackendSession(s, o, now, ttl)
         \/ ReleaseBackendSession(s, o, now)
  PROVE  \E batch : Appends(batch)
<1>1. \A t \in SessionId, x \in {"acquired", "renewed", "released", "expired"} :
        SessionEvent(t, x) \in Event /\ SessionEvent(t, x).kind = "session"
  BY EventTypes, SessionStatuses
<1>2. ASSUME NEW t \in SessionId, NEW x \in {"acquired", "renewed", "released", "expired"}
      PROVE  /\ WellFormed(<<SessionEvent(t, x)>>)
             /\ \A i \in DOMAIN <<SessionEvent(t, x)>> : <<SessionEvent(t, x)>>[i].kind = "session"
  <2> DEFINE ev == SessionEvent(t, x)
  <2>1. ev \in Event /\ ev.kind = "session"
    BY <1>1
  <2> HIDE DEF ev
  <2>2. DOMAIN <<ev>> = {1} /\ <<ev>>[1] = ev
    OBVIOUS
  <2>3. WellFormed(<<ev>>) /\ \A i \in DOMAIN <<ev>> : <<ev>>[i].kind = "session"
    BY <2>1, <2>2, SingleEvent
  <2> QED
    BY <2>3 DEF ev
<1>3. DOMAIN sessions \subseteq SessionId /\ \A t \in DOMAIN sessions : sessions[t] \in SessionRow
  BY DEF TypeInv, TypeOK
<1>4. CASE s \in ActiveSessions
  <2>1. ActiveSessions = {s} /\ s \in DOMAIN sessions
    BY <1>4 DEF OneOwner, ActiveSessions
  <2>2. ~ \E ttl \in Ttl : AcquireBackendSession(s, o, now, ttl)
    BY <2>1 DEF AcquireBackendSession
  <2>3. ASSUME NEW ttl \in Ttl, RenewBackendSession(s, o, now, ttl)
        PROVE  Appends(<<SessionEvent(s, "renewed")>>)
    <3>1. /\ Journal(<<SessionEvent(s, "renewed")>>) /\ UNCHANGED commands
          /\ executions' = ExecutionsAfter(<<SessionEvent(s, "renewed")>>)
          /\ sessions' = [sessions EXCEPT ![s] = Leased(o, now, ttl)]
      BY <2>3 DEF RenewBackendSession, UpdateSession
    <3>2. ActiveSessions' = {s}
      BY <1>3, <2>1, <3>1 DEF ActiveSessions, Leased
    <3>3. LeaseBatch(<<SessionEvent(s, "renewed")>>)
      BY <2>1, <3>2 DEF LeaseBatch
    <3> QED
      BY <1>2, <3>1, <3>3, LeaseAppend
  <2>4. ASSUME ReleaseBackendSession(s, o, now)
        PROVE  Appends(<<SessionEvent(s, "released")>>)
    <3>1. /\ Journal(<<SessionEvent(s, "released")>>) /\ UNCHANGED commands
          /\ executions' = ExecutionsAfter(<<SessionEvent(s, "released")>>)
          /\ sessions' = [sessions EXCEPT ![s] = [sessions[s] EXCEPT !.status = "released"]]
      BY <2>4 DEF ReleaseBackendSession, UpdateSession
    <3>2. [sessions[s] EXCEPT !.status = "released"].status = "released"
      BY <1>3, <2>1 DEF SessionRow
    <3>3. ActiveSessions' = {}
      BY <1>3, <2>1, <3>1, <3>2 DEF ActiveSessions
    <3>4. LeaseBatch(<<SessionEvent(s, "released")>>)
      BY <2>1, <3>3 DEF LeaseBatch
    <3> QED
      BY <1>2, <3>1, <3>4, LeaseAppend
  <2> QED
    BY <2>2, <2>3, <2>4
<1>5. CASE s \notin ActiveSessions
  <2>1. PICK ttl \in Ttl : AcquireBackendSession(s, o, now, ttl)
    BY <1>5 DEF RenewBackendSession, ReleaseBackendSession, Live
  <2>2. s \notin DOMAIN sessions
    BY <2>1 DEF AcquireBackendSession
  <2>3. CASE ActiveSessions = {} /\ Grant(s, o, now, ttl, <<>>, sessions)
    <3>1. <<>> \o <<SessionEvent(s, "acquired")>> = <<SessionEvent(s, "acquired")>>
      BY <1>1, ConcatEmptySeq
    <3>2. /\ Journal(<<SessionEvent(s, "acquired")>>) /\ UNCHANGED commands
          /\ executions' = ExecutionsAfter(<<SessionEvent(s, "acquired")>>)
          /\ sessions' = Upsert(sessions, s, Leased(o, now, ttl))
      BY <2>3, <3>1 DEF Grant
    <3>3. ActiveSessions' = {s}
      BY <2>3, <3>2 DEF ActiveSessions, Leased, Upsert
    <3>4. LeaseBatch(<<SessionEvent(s, "acquired")>>)
      BY <2>3, <3>3 DEF LeaseBatch
    <3> QED
      BY <1>2, <3>2, <3>4, LeaseAppend
  <2>4. ASSUME NEW t \in ActiveSessions, ~Held(t, now),
               Grant(s, o, now, ttl, <<SessionEvent(t, "expired")>>,
                     [sessions EXCEPT ![t].status = "expired"])
        PROVE  \E batch : Appends(batch)
    <3> DEFINE x == SessionEvent(t, "expired")
               y == SessionEvent(s, "acquired")
               ended == [sessions EXCEPT ![t].status = "expired"]
    <3>1. t \in SessionId /\ t \in DOMAIN sessions /\ ActiveSessions = {t} /\ s # t
      BY <1>3, <2>2 DEF ActiveSessions, OneOwner
    <3>2. x \in Event /\ y \in Event /\ x.kind = "session" /\ y.kind = "session"
      BY <1>1, <3>1
    <3>3. /\ Journal(<<x>> \o <<y>>) /\ UNCHANGED commands
          /\ executions' = ExecutionsAfter(<<x>> \o <<y>>)
          /\ sessions' = Upsert(ended, s, Leased(o, now, ttl))
      BY <2>4 DEF Grant
    <3>4. ended[t].status = "expired" /\ DOMAIN ended = DOMAIN sessions
          /\ \A u \in DOMAIN sessions : u # t => ended[u] = sessions[u]
      BY <1>3, <3>1 DEF SessionRow
    <3> HIDE DEF x, y, ended
    <3>5. <<x>> \o <<y>> = <<x, y>>
      <4>1. <<x>> \in Seq(Event) /\ <<y>> \in Seq(Event) /\ Len(<<x>>) = 1 /\ Len(<<y>>) = 1
        BY <3>2
      <4>2. /\ <<x>> \o <<y>> \in Seq(Event) /\ Len(<<x>> \o <<y>>) = 2
            /\ \A i \in 1..2 : (<<x>> \o <<y>>)[i] = IF i <= 1 THEN <<x>>[i] ELSE <<y>>[i - 1]
        BY <4>1, ConcatProperties
      <4>3. (<<x>> \o <<y>>)[1] = x /\ (<<x>> \o <<y>>)[2] = y
        BY <4>2
      <4>4. <<x, y>> \in Seq(Event) /\ Len(<<x, y>>) = 2 /\ <<x, y>>[1] = x /\ <<x, y>>[2] = y
        BY <3>2
      <4> DEFINE u == <<x>> \o <<y>>
                 v == <<x, y>>
      <4>5. u \in Seq(Event) /\ v \in Seq(Event) /\ Len(u) = 2 /\ Len(v) = 2
            /\ u[1] = v[1] /\ u[2] = v[2]
        BY <4>2, <4>3, <4>4
      <4> HIDE DEF u, v
      <4>6. u = v
        BY <4>5, SeqEqual
      <4> QED
        BY <4>6 DEF u, v
    <3>6. ActiveSessions' = {s}
      BY <3>1, <3>3, <3>4 DEF ActiveSessions, Upsert, Leased
    <3>7. WellFormed(<<x, y>>) /\ \A i \in DOMAIN <<x, y>> : <<x, y>>[i].kind = "session"
      <4>1. <<x, y>> \in Seq(Event) /\ DOMAIN <<x, y>> = {1, 2}
        BY <3>2
      <4> QED
        BY <3>2, <4>1 DEF WellFormed
    <3>8. LeaseBatch(<<x, y>>)
      BY <3>1, <3>6 DEF LeaseBatch, x, y
    <3> QED
      BY <3>3, <3>5, <3>7, <3>8, LeaseAppend
  <2> QED
    BY <2>1, <2>3, <2>4 DEF AcquireBackendSession
<1> QED
  BY <1>4, <1>5

\* A batch of attempt and execution events leaves leases and receipts alone.
LEMMA WorkAppend ==
  ASSUME NEW batch, WellFormed(batch), Journal(batch), UNCHANGED <<sessions, commands>>,
         \A i \in DOMAIN batch : batch[i].kind \in {"attempt", "execution"},
         \/ Without(batch, "execution") /\ executions' = ExecutionsAfter(batch)
         \/ WaveBatch(batch),
         MakesNoAttempt(batch) \/ AttemptBatch(batch)
  PROVE  Appends(batch)
<1>1. ActiveSessions' = ActiveSessions
  BY DEF ActiveSessions
<1> QED
  BY <1>1 DEF Appends, Without

LEMMA AttemptCallAppends ==
  ASSUME TypeInv, AttemptCall
  PROVE  \E batch : Appends(batch)
<1>1. ASSUME NEW p \in Process, NEW e \in Execution, NEW s \in SessionId \cup {None},
             BeginProcessAttempt(p, e, s)
      PROVE  \E batch : Appends(batch)
  <2> DEFINE a == <<p, NextOrdinal(p)>>
             ev(x) == AttemptEvent(a, e, s, x)
             batch == <<ev("pending"), ev("running")>>
  <2>1. a \in Process \X (Nat \ {0})
    BY NextOrdinalIsNew
  <2>2. Journal(batch) /\ UNCHANGED <<sessions, commands>> /\ executions' = ExecutionsAfter(batch)
    BY <1>1 DEF BeginProcessAttempt, StartAttempt
  <2>6. AttemptBatch(batch)
    BY DEF AttemptBatch
  <2>3. WellFormed(batch)
    BY <2>1, AttemptBatches DEF AttemptStatus
  <2>4. \A x \in {"pending", "running"} : ev(x).kind = "attempt"
    BY <2>1, AttemptEventType DEF AttemptStatus
  <2> HIDE DEF ev
  <2>5. DOMAIN batch = {1, 2} /\ batch[1] = ev("pending") /\ batch[2] = ev("running")
    OBVIOUS
  <2> HIDE DEF batch
  <2>7. Without(batch, "execution") /\ \A i \in DOMAIN batch : batch[i].kind = "attempt"
    BY <2>4, <2>5 DEF Without
  <2> QED
    BY <2>2, <2>3, <2>6, <2>7, WorkAppend
<1>2. ASSUME NEW a \in DOMAIN attempts, NEW outcome \in AttemptOutcome, FinishProcessAttempt(a, outcome)
      PROVE  \E batch : Appends(batch)
  <2> DEFINE ev == AttemptEvent(a, attempts[a].exec, attempts[a].session, outcome)
             batch == <<ev>>
  <2>1. a \in Process \X (Nat \ {0}) /\ attempts[a].exec \in Execution
        /\ attempts[a].session \in SessionId \cup {None} /\ outcome \in AttemptStatus
    BY DurableStoreAssumption DEF TypeInv, TypeOK, AttemptRow, AttemptStatus
  <2>2. Journal(batch) /\ UNCHANGED <<sessions, commands>> /\ executions' = ExecutionsAfter(batch)
    BY <1>2 DEF FinishProcessAttempt, RecordOutcome
  <2>3. WellFormed(batch)
    BY <2>1, AttemptBatches
  <2>4. ev.kind = "attempt" /\ AttemptOf(ev) = a
    BY <2>1, AttemptEventType
  <2> HIDE DEF ev
  <2>5. DOMAIN batch = {1} /\ batch[1] = ev
    OBVIOUS
  <2> HIDE DEF batch
  <2>6. Without(batch, "execution") /\ MakesNoAttempt(batch)
    BY <2>4, <2>5 DEF Without, MakesNoAttempt
  <2> QED
    BY <2>2, <2>3, <2>4, <2>5, <2>6, WorkAppend
<1> QED
  BY <1>1, <1>2 DEF AttemptCall

LEMMA CommandCallAppends ==
  ASSUME TypeInv, CommandCall
  PROVE  \E batch : Appends(batch)
<1>1. ASSUME NEW c \in Command, NEW e \in Execution \cup {None},
             NEW x \in {"accepted"} \cup CommandFinal,
             Journal(<<CommandEvent(c, e, x)>>), UNCHANGED sessions,
             executions' = ExecutionsAfter(<<CommandEvent(c, e, x)>>),
             CommandBatch(<<CommandEvent(c, e, x)>>)
      PROVE  Appends(<<CommandEvent(c, e, x)>>)
  <2> DEFINE ev == CommandEvent(c, e, x)
  <2>1. ev \in Event /\ ev.kind = "command"
    BY DEF CommandEvent, NewEvent, Event, EventKind, EventStatus, ExecutionStatus,
           ExecutionFinal, CommandFinal
  <2>2. Journal(<<ev>>) /\ CommandBatch(<<ev>>) /\ executions' = ExecutionsAfter(<<ev>>)
    BY <1>1
  <2> HIDE DEF ev
  <2>3. DOMAIN <<ev>> = {1} /\ <<ev>>[1] = ev
    OBVIOUS
  <2>4. /\ WellFormed(<<ev>>) /\ Without(<<ev>>, "session") /\ Without(<<ev>>, "execution")
        /\ MakesNoAttempt(<<ev>>)
    BY <2>1, <2>3, SingleEvent DEF Without, MakesNoAttempt
  <2>5. ActiveSessions' = ActiveSessions
    BY <1>1 DEF ActiveSessions
  <2>6. Appends(<<ev>>)
    BY <2>2, <2>4, <2>5 DEF Appends
  <2> QED
    BY <2>6 DEF ev
<1>2. ASSUME NEW c \in Command, NEW e \in Execution \cup {None}, ReserveCommand(c, e)
      PROVE  \E batch : Appends(batch)
  <2>1. CommandBatch(<<CommandEvent(c, e, "accepted")>>)
    BY <1>2 DEF CommandBatch
  <2>2. /\ Journal(<<CommandEvent(c, e, "accepted")>>) /\ UNCHANGED sessions
        /\ executions' = ExecutionsAfter(<<CommandEvent(c, e, "accepted")>>)
    BY <1>2 DEF ReserveCommand
  <2> QED
    BY <1>1, <2>1, <2>2
<1>3. ASSUME NEW c \in Command, NEW status \in CommandFinal, FinishCommand(c, status)
      PROVE  \E batch : Appends(batch)
  <2>1. CommandBatch(<<CommandEvent(c, commands[c].exec, status)>>)
    BY <1>3 DEF CommandBatch
  <2>2. /\ Journal(<<CommandEvent(c, commands[c].exec, status)>>) /\ UNCHANGED sessions
        /\ executions' = ExecutionsAfter(<<CommandEvent(c, commands[c].exec, status)>>)
        /\ c \in DOMAIN commands
    BY <1>3 DEF FinishCommand
  <2>3. commands[c].exec \in Execution \cup {None}
    BY <2>2 DEF TypeInv, TypeOK, CommandRow
  <2> QED
    BY <1>1, <2>1, <2>2, <2>3
<1> QED
  BY <1>2, <1>3 DEF CommandCall

LEMMA ExecutionCallAppends ==
  ASSUME TypeInv, ExecutionCall
  PROVE  \E batch : Appends(batch)
<1>1. ASSUME NEW e \in Execution, NEW s \in SessionId \cup {None}, BeginExecution(e, s)
      PROVE  \E batch : Appends(batch)
  <2> DEFINE n == Cardinality(DOMAIN executions) + 1
             ev == [NewEvent("execution", "pending") EXCEPT !.exec = e, !.session = s, !.ord = n]
  <2>1. Cardinality(DOMAIN executions) \in Nat
    BY FS_CardinalityType DEF TypeInv
  <2>2. n \in Nat
    BY <2>1
  <2>3. Journal(<<ev>>) /\ UNCHANGED <<sessions, commands>>
    BY <1>1 DEF BeginExecution
  <2>5. WaveBatch(<<ev>>)
    BY <1>1 DEF WaveBatch
  <2> HIDE DEF n
  <2>4. ev \in Event /\ ev.kind = "execution"
    BY <2>2 DEF NewEvent, Event, EventKind, EventStatus, ExecutionStatus
  <2> HIDE DEF ev
  <2> QED
    BY <2>3, <2>4, <2>5, PlainAppend
<1>2. ASSUME NEW e \in Execution, NEW status \in {"running"} \cup WaveOutcome,
             TransitionExecution(e, status)
      PROVE  \E batch : Appends(batch)
  <2> DEFINE ev == [NewEvent("execution", status) EXCEPT !.exec = e]
  <2>1. status \in ExecutionStatus
    BY DurableStoreAssumption DEF ExecutionStatus
  <2>2. ev \in Event /\ ev.kind = "execution"
    BY <2>1 DEF NewEvent, Event, EventKind, EventStatus
  <2>3. Journal(<<ev>>) /\ UNCHANGED <<sessions, commands>>
    BY <1>2 DEF TransitionExecution
  <2>4. WaveBatch(<<ev>>)
    BY <1>2, <2>1 DEF WaveBatch
  <2> HIDE DEF ev
  <2> QED
    BY <2>2, <2>3, <2>4, PlainAppend
<1>3. ASSUME NEW e \in Execution, AppendObservation(e)
      PROVE  \E batch : Appends(batch)
  <2> DEFINE ev == [NewEvent("progress", "running") EXCEPT !.exec = e]
  <2>1. ev \in Event /\ ev.kind = "progress"
    BY DEF NewEvent, Event, EventKind, EventStatus, ExecutionStatus
  <2>2. Journal(<<ev>>) /\ UNCHANGED <<sessions, commands>> /\ executions' = ExecutionsAfter(<<ev>>)
    BY <1>3 DEF AppendObservation
  <2> HIDE DEF ev
  <2> QED
    BY <2>1, <2>2, PlainAppend
<1> QED
  BY <1>1, <1>2, <1>3 DEF ExecutionCall

LEMMA DeclarationAppends ==
  ASSUME NEW p \in Process, NEW spec, DeclareProcess(p, spec)
  PROVE  \E batch : Appends(batch)
<1> DEFINE ev == [NewEvent("process", "pending") EXCEPT !.proc = p]
<1>1. ev \in Event /\ ev.kind = "process"
  BY DEF NewEvent, Event, EventKind, EventStatus, ExecutionStatus
<1>2. Journal(<<ev>>) /\ UNCHANGED <<sessions, commands>> /\ executions' = ExecutionsAfter(<<ev>>)
  BY DEF DeclareProcess
<1> HIDE DEF ev
<1> QED
  BY <1>1, <1>2, PlainAppend

LEMMA ReconcileAppends ==
  ASSUME TypeInv, NEW s \in SessionId, NEW o \in Owner, NEW now \in Now,
         ReconcileInterruptedWork(s, o, now)
  PROVE  \E batch : Appends(batch)
<1>1. PICK as \in AttemptOrder(s), es \in ExecutionOrder(s) :
        /\ Journal(Interruptions(s, as, es))
        /\ executions' = [e \in DOMAIN executions |->
             IF e \in StaleExecutions(s)
             THEN [ExecutionsAfter(Interruptions(s, as, es))[e] EXCEPT !.status = "interrupted"]
             ELSE ExecutionsAfter(Interruptions(s, as, es))[e]]
  BY DEF ReconcileInterruptedWork
<1> DEFINE batch == Interruptions(s, as, es)
<1>2. /\ WellFormed(batch)
      /\ \A i \in DOMAIN batch :
           /\ batch[i].by = s /\ batch[i].status = "interrupted"
           /\ \/ /\ batch[i].kind = "attempt"
                 /\ AttemptOf(batch[i]) \in StaleAttempts(s)
                 /\ batch[i].exec = attempts[AttemptOf(batch[i])].exec
                 /\ batch[i].session = attempts[AttemptOf(batch[i])].session
              \/ batch[i].kind = "execution" /\ batch[i].exec \in StaleExecutions(s)
  BY InterruptionBatch
<1>3. Journal(batch) /\ UNCHANGED <<sessions, commands>>
  BY <1>1 DEF ReconcileInterruptedWork
<1>4. WaveBatch(batch)
  BY <1>1 DEF WaveBatch
<1> HIDE DEF batch
<1>5. MakesNoAttempt(batch)
  BY <1>2, StaleRows DEF MakesNoAttempt
<1> QED
  BY <1>2, <1>3, <1>4, <1>5, WorkAppend

\* Every step is one transaction or writes no event.
LEMMA EveryStepAppends ==
  ASSUME TypeInv, OneOwner, [Next]_vars
  PROVE  \/ UNCHANGED <<events, executions, attempts, sessions, commands>>
         \/ \E batch : Appends(batch)
<1>1. CASE Tick \/ UNCHANGED vars
  BY <1>1 DEF Tick, vars
<1>2. CASE SessionCall
  BY <1>2, LeaseCallAppends, ReconcileAppends DEF SessionCall
<1>3. CASE DeclarationCall
  BY <1>3, DeclarationAppends DEF DeclarationCall, WriteProcessSpecs
<1> QED
  BY <1>1, <1>2, <1>3, ExecutionCallAppends, AttemptCallAppends, CommandCallAppends DEF Next

\* Whatever transactions are interleaved, a rebuild from the journal makes the
\* attempt rows the store holds.
THEOREM AttemptsAreRebuilt == Spec => []AttemptsMatchJournal
<1> DEFINE Rebuilt == attempts = RebuiltAttempts(events)
<1>1. Init => Rebuilt
  <2> SUFFICES ASSUME Init PROVE Rebuilt
    OBVIOUS
  <2>1. events = <<>> /\ attempts = Empty
    BY DEF Init
  <2>2. DOMAIN events = {}
    BY <2>1
  <2>3. RebuiltAttempts(events) = Empty
    BY <2>2 DEF RebuiltAttempts, Empty
  <2> QED
    BY <2>1, <2>3
<1>2. TypeInv /\ OneOwner /\ Rebuilt /\ [Next]_vars => Rebuilt'
  <2> SUFFICES ASSUME TypeInv, OneOwner, Rebuilt, [Next]_vars PROVE Rebuilt'
    OBVIOUS
  <2>1. CASE UNCHANGED <<events, executions, attempts, sessions, commands>>
    BY <2>1 DEF RebuiltAttempts, FirstOf, LastOf, Concerning
  <2>2. ASSUME NEW batch, Appends(batch) PROVE Rebuilt'
    BY <2>2, AttemptsRebuilt DEF Appends
  <2> QED
    BY <2>1, <2>2, EveryStepAppends
<1>3. Rebuilt => AttemptsMatchJournal
  BY DEF AttemptsMatchJournal
<1> QED
  BY <1>1, <1>2, <1>3, TypeInvariant, OneOwnerInvariant, PTL DEF Spec

-----------------------------------------------------------------------------
(* Commands.                                                                *)

\* The events of a command, after a transaction.
LEMMA CommandEventsGrow ==
  ASSUME TypeInv, NEW batch, WellFormed(batch), Journal(batch), NEW c
  PROVE  /\ CommandEvents(events', c)
              = CommandEvents(events, c) \cup Behind(Len(events), CommandEvents(batch, c))
         /\ CommandEvents(events, c) \subseteq 1..Len(events)
         /\ CommandEvents(batch, c) \subseteq 1..Len(batch)
         /\ Len(events) \in Nat /\ Len(batch) \in Nat
<1>1. /\ Len(events) \in Nat /\ Len(batch) \in Nat
      /\ DOMAIN events = 1..Len(events) /\ DOMAIN batch = 1..Len(batch)
      /\ DOMAIN events' = DOMAIN events \cup Behind(Len(events), DOMAIN batch)
      /\ \A i \in DOMAIN events : events'[i] = events[i]
      /\ \A i \in DOMAIN batch : events'[Len(events) + i] = batch[i]
  BY JournalShape
<1> QED
  BY <1>1 DEF CommandEvents, Behind

\* The receipt a rebuild makes of a command's events.
ReceiptFrom(journal, mine) ==
  [exec |-> journal[Min(mine)].exec, status |-> journal[Max(mine)].status,
   first |-> Min(mine) - 1, last |-> Max(mine) - 1]

LEMMA RebuiltReceipts ==
  ASSUME NEW journal
  PROVE  /\ DOMAIN RebuiltCommands(journal) = {c \in Command : CommandEvents(journal, c) # {}}
         /\ RebuiltCommands(journal) = [c \in DOMAIN RebuiltCommands(journal) |-> RebuiltCommands(journal)[c]]
         /\ \A c \in Command : CommandEvents(journal, c) # {} =>
              RebuiltCommands(journal)[c] = ReceiptFrom(journal, CommandEvents(journal, c))
BY DEF RebuiltCommands, ReceiptFrom, FirstOf, LastOf

\* What the outcome does to a receipt.
Outcome(row, status, seq) == [row EXCEPT !.status = status, !.last = seq]

LEMMA ReceiptMoved ==
  ASSUME NEW row, NEW e, NEW old, NEW first, NEW last, NEW status, NEW seq,
         row = [exec |-> e, status |-> old, first |-> first, last |-> last]
  PROVE  Outcome(row, status, seq)
           = [exec |-> e, status |-> status, first |-> first, last |-> seq]
<1> DEFINE moved == [row EXCEPT !.status = status, !.last = seq]
<1>1. /\ DOMAIN moved = {"exec", "status", "first", "last"}
      /\ moved = [x \in DOMAIN moved |-> moved[x]]
  OBVIOUS
<1>2. moved.exec = e /\ moved.status = status /\ moved.first = first /\ moved.last = seq
  OBVIOUS
<1> HIDE DEF moved
<1>3. moved = [exec |-> e, status |-> status, first |-> first, last |-> seq]
  BY <1>1, <1>2
<1> QED
  BY <1>3 DEF moved, Outcome

\* A command that the batch does not name keeps what a rebuild makes of it.
LEMMA ReceiptKept ==
  ASSUME TypeInv, NEW batch, WellFormed(batch), Journal(batch), NEW c \in Command,
         CommandEvents(batch, c) = {}
  PROVE  /\ CommandEvents(events', c) = CommandEvents(events, c)
         /\ CommandEvents(events, c) # {} =>
              RebuiltCommands(events')[c] = RebuiltCommands(events)[c]
<1> DEFINE n == Len(events)
           S == CommandEvents(events, c)
<1>1. /\ CommandEvents(events', c) = S \cup Behind(n, {})
      /\ S \subseteq 1..n /\ n \in Nat /\ DOMAIN events = 1..n
      /\ \A i \in DOMAIN events : events'[i] = events[i]
  BY CommandEventsGrow, JournalShape
<1>2. CommandEvents(events', c) = S
  BY <1>1 DEF Behind
<1>3. ASSUME S # {} PROVE RebuiltCommands(events')[c] = RebuiltCommands(events)[c]
  <2>1. /\ RebuiltCommands(events')[c] = ReceiptFrom(events', S)
        /\ RebuiltCommands(events)[c] = ReceiptFrom(events, S)
    <3>1. \A j : CommandEvents(j, c) # {} =>
            RebuiltCommands(j)[c] = ReceiptFrom(j, CommandEvents(j, c))
      BY RebuiltReceipts
    <3> HIDE DEF S
    <3>2. CommandEvents(events, c) = S
      BY DEF S
    <3> QED
      BY <1>2, <1>3, <3>1, <3>2
  <2> HIDE DEF S, n
  <2>2. ExtremaJoin(n, S, {})
    <3>1. {} \subseteq 1..0
      OBVIOUS
    <3> QED
      BY <1>1, <3>1, ExtremaBehind
  <2>3. Min(S) \in S /\ Max(S) \in S
    BY <1>3, <2>2 DEF ExtremaJoin
  <2>4. events'[Min(S)] = events[Min(S)] /\ events'[Max(S)] = events[Max(S)]
    BY <1>1, <2>3
  <2> QED
    BY <2>1, <2>4 DEF ReceiptFrom
<1> QED
  BY <1>2, <1>3

LEMMA CommandsRebuilt ==
  ASSUME TypeInv, NEW batch, Appends(batch), commands = RebuiltCommands(events)
  PROVE  commands' = RebuiltCommands(events')
<1> DEFINE n == Len(events)
           old == {c \in Command : CommandEvents(events, c) # {}}
           new == {c \in Command : CommandEvents(events', c) # {}}
<1>1. /\ WellFormed(batch) /\ Journal(batch) /\ n \in Nat /\ Len(batch) \in Nat
      /\ DOMAIN batch = 1..Len(batch)
      /\ \A i \in DOMAIN batch : events'[n + i] = batch[i]
      /\ DOMAIN events = 1..n /\ \A i \in DOMAIN events : events'[i] = events[i]
  BY JournalShape DEF Appends
<1>2. /\ DOMAIN commands = old /\ DOMAIN RebuiltCommands(events') = new
      /\ commands = [c \in old |-> commands[c]]
      /\ RebuiltCommands(events') = [c \in new |-> RebuiltCommands(events')[c]]
      /\ \A c \in Command : CommandEvents(events, c) # {} =>
           commands[c] = ReceiptFrom(events, CommandEvents(events, c))
      /\ \A c \in Command : CommandEvents(events', c) # {} =>
           RebuiltCommands(events')[c] = ReceiptFrom(events', CommandEvents(events', c))
  <2>1. \A j : /\ DOMAIN RebuiltCommands(j) = {c \in Command : CommandEvents(j, c) # {}}
               /\ RebuiltCommands(j) = [c \in DOMAIN RebuiltCommands(j) |-> RebuiltCommands(j)[c]]
               /\ \A c \in Command : CommandEvents(j, c) # {} =>
                    RebuiltCommands(j)[c] = ReceiptFrom(j, CommandEvents(j, c))
    BY RebuiltReceipts
  <2> QED
    BY <2>1
<1>3. CASE Without(batch, "command") /\ UNCHANGED commands
  <2>1. \A c \in Command : CommandEvents(batch, c) = {}
    BY <1>3 DEF Without, CommandEvents
  <2>2. \A c \in Command : /\ CommandEvents(events', c) = CommandEvents(events, c)
                           /\ CommandEvents(events, c) # {} => RebuiltCommands(events')[c] = commands[c]
    BY <1>1, <2>1, ReceiptKept
  <2>3. new = old /\ \A c \in old : RebuiltCommands(events')[c] = commands[c]
    BY <2>2
  <2> HIDE DEF new, old
  <2> QED
    BY <1>2, <1>3, <2>3
<1>4. ASSUME NEW c \in Command, NEW ev, batch = <<ev>>, ev.kind = "command", ev.command = c,
             DOMAIN commands' = old \cup {c}, commands' = [d \in old \cup {c} |-> commands'[d]],
             \A d \in old : d # c => commands'[d] = commands[d],
             commands'[c] = IF c \in old
                            THEN Outcome(commands[c], ev.status, n)
                            ELSE [exec |-> ev.exec, status |-> ev.status, first |-> n, last |-> n]
      PROVE  commands' = RebuiltCommands(events')
  <2> DEFINE S == CommandEvents(events, c)
  <2>1. DOMAIN batch = {1} /\ batch[1] = ev
    BY <1>4
  <2>2. CommandEvents(batch, c) = {1} /\ \A d \in Command : d # c => CommandEvents(batch, d) = {}
    BY <1>4, <2>1 DEF CommandEvents
  <2>3. CommandEvents(events', c) = S \cup Behind(n, {1}) /\ S \subseteq 1..n
        /\ events'[n + 1] = ev
    BY <1>1, <2>1, <2>2, CommandEventsGrow
  <2>4. ExtremaJoin(n, S, {1})
    <3>1. {1} \subseteq 1..1 /\ 1 \in Nat
      OBVIOUS
    <3> HIDE DEF S, n
    <3> QED
      BY <1>1, <2>3, <3>1, ExtremaBehind
  <2>5. CommandEvents(events', c) # {}
    BY <2>3 DEF Behind
  <2>6. new = old \cup {c}
    <3>1. \A d \in Command : d # c => CommandEvents(events', d) = CommandEvents(events, d)
      BY <1>1, <2>2, ReceiptKept
    <3> QED
      BY <2>5, <3>1
  <2>7. \A d \in old : d # c => RebuiltCommands(events')[d] = commands[d]
    BY <1>1, <2>2, ReceiptKept
  <2>8. RebuiltCommands(events')[c] = ReceiptFrom(events', S \cup Behind(n, {1}))
    BY <1>2, <2>3, <2>5
  <2>9. c \in old <=> S # {}
    OBVIOUS
  <2>10. S # {} => commands[c] = ReceiptFrom(events, S)
    BY <1>2
  <2> HIDE DEF S, n, new, old
  <2> DEFINE U == S \cup Behind(n, {1})
  <2>11. Max({1}) = 1 /\ Min({1}) = 1
    <3>1. {1} # {} /\ {1} \subseteq Nat
      OBVIOUS
    <3>2. Max({1}) \in {1}
      BY <2>4, <3>1 DEF ExtremaJoin
    <3>3. Min({1}) \in {1}
      BY <3>1, LeastExists
    <3> QED
      BY <3>2, <3>3
  <2>12. /\ Max(U) = n + 1
         /\ S # {} => Min(U) = Min(S) /\ Min(S) \in S
         /\ S = {} => Min(U) = n + 1
    BY <2>4, <2>11 DEF ExtremaJoin
  <2> HIDE DEF U
  <2>13. Max(U) - 1 = n /\ (S = {} => Min(U) - 1 = n)
    BY <1>1, <2>12
  <2>14. commands'[c] = ReceiptFrom(events', U)
    <3>1. CASE S = {}
      <4>1. commands'[c] = [exec |-> ev.exec, status |-> ev.status, first |-> n, last |-> n]
        BY <1>4, <2>9, <3>1
      <4>2. events'[Min(U)] = ev /\ events'[Max(U)] = ev
        BY <2>3, <2>12, <3>1
      <4> QED
        BY <2>13, <3>1, <4>1, <4>2 DEF ReceiptFrom
    <3>2. CASE S # {}
      <4>1. commands'[c] = Outcome(commands[c], ev.status, n)
        BY <1>4, <2>9, <3>2
      <4>2. commands[c] = [exec |-> events[Min(S)].exec, status |-> events[Max(S)].status,
                           first |-> Min(S) - 1, last |-> Max(S) - 1]
        BY <2>10, <3>2 DEF ReceiptFrom
      <4>3. commands'[c] = [exec |-> events[Min(S)].exec, status |-> ev.status,
                            first |-> Min(S) - 1, last |-> n]
        BY <4>1, <4>2, ReceiptMoved
      <4>4. events'[Min(U)] = events[Min(S)] /\ events'[Max(U)] = ev
        <5>1. Min(U) = Min(S) /\ Min(S) \in S /\ Max(U) = n + 1
          BY <2>12, <3>2
        <5>2. Min(S) \in DOMAIN events
          <6>1. S \subseteq 1..n /\ DOMAIN events = 1..n
            BY <1>1, <2>3
          <6> QED
            BY <5>1, <6>1
        <5>3. events'[Min(S)] = events[Min(S)] /\ events'[n + 1] = ev
          BY <1>1, <2>3, <5>2
        <5> QED
          BY <5>1, <5>3
      <4>5. Min(U) = Min(S)
        BY <2>12, <3>2
      <4> QED
        BY <2>13, <4>3, <4>4, <4>5 DEF ReceiptFrom
    <3> QED
      BY <3>1, <3>2
  <2>15. RebuiltCommands(events')[c] = commands'[c]
    BY <2>8, <2>14 DEF U
  <2> QED
    BY <1>2, <1>4, <2>6, <2>7, <2>15
<1>5. SequenceOf(1) = n
  BY <1>1 DEF SequenceOf
<1>6. ASSUME NEW c \in Command, NEW e \in Execution \cup {None}, ReserveCommand(c, e),
             batch = <<CommandEvent(c, e, "accepted")>>
      PROVE  commands' = RebuiltCommands(events')
  <2> DEFINE ev == CommandEvent(c, e, "accepted")
  <2>1. ev.kind = "command" /\ ev.command = c /\ ev.exec = e /\ ev.status = "accepted"
    BY DEF CommandEvent, NewEvent
  <2>2. /\ c \notin DOMAIN commands
        /\ commands' = Upsert(commands, c, [exec |-> e, status |-> "accepted", first |-> n, last |-> n])
    BY <1>5, <1>6 DEF ReserveCommand
  <2> HIDE DEF ev, n, old, new
  <2>3. /\ DOMAIN commands' = old \cup {c} /\ commands' = [d \in old \cup {c} |-> commands'[d]]
        /\ \A d \in old : d # c => commands'[d] = commands[d]
        /\ commands'[c] = [exec |-> e, status |-> "accepted", first |-> n, last |-> n]
        /\ c \notin old
    BY <1>2, <2>2 DEF Upsert
  <2>4. batch = <<ev>>
    BY <1>6 DEF ev
  <2> QED
    BY <1>4, <2>1, <2>3, <2>4
<1>7. ASSUME NEW c \in Command, NEW status \in CommandFinal, FinishCommand(c, status),
             batch = <<CommandEvent(c, commands[c].exec, status)>>
      PROVE  commands' = RebuiltCommands(events')
  <2> DEFINE ev == CommandEvent(c, commands[c].exec, status)
  <2>1. ev.kind = "command" /\ ev.command = c /\ ev.status = status
    BY DEF CommandEvent, NewEvent
  <2>2. /\ c \in DOMAIN commands
        /\ commands' = [commands EXCEPT ![c].status = status, ![c].last = n]
    BY <1>5, <1>7 DEF FinishCommand
  <2> HIDE DEF ev, n, old, new
  <2>3. /\ DOMAIN commands' = old \cup {c} /\ commands' = [d \in old \cup {c} |-> commands'[d]]
        /\ \A d \in old : d # c => commands'[d] = commands[d]
        /\ commands'[c] = Outcome(commands[c], status, n)
        /\ c \in old
    BY <1>2, <2>2 DEF Outcome
  <2>4. batch = <<ev>>
    BY <1>7 DEF ev
  <2> QED
    BY <1>4, <2>1, <2>3, <2>4
<1>8. CASE CommandBatch(batch)
  BY <1>6, <1>7, <1>8 DEF CommandBatch
<1> QED
  BY <1>3, <1>8 DEF Appends

\* Whatever else is in the journal, a rebuild makes of it the receipts the
\* store holds, so a command id repeated after a rebuild is recognized.
THEOREM CommandsAreRebuilt == Spec => []CommandsMatchJournal
<1>1. Init => CommandsMatchJournal
  <2> SUFFICES ASSUME Init PROVE CommandsMatchJournal
    OBVIOUS
  <2>1. DOMAIN events = {} /\ commands = Empty
    BY DEF Init
  <2>2. \A c : CommandEvents(events, c) = {}
    BY <2>1 DEF CommandEvents
  <2>3. RebuiltCommands(events) = Empty
    BY <2>2 DEF RebuiltCommands, Empty
  <2> QED
    BY <2>1, <2>3 DEF CommandsMatchJournal
<1>2. TypeInv /\ OneOwner /\ CommandsMatchJournal /\ [Next]_vars => CommandsMatchJournal'
  <2> SUFFICES ASSUME TypeInv, OneOwner, CommandsMatchJournal, [Next]_vars
               PROVE  CommandsMatchJournal'
    OBVIOUS
  <2>1. CASE UNCHANGED <<events, executions, attempts, sessions, commands>>
    BY <2>1 DEF CommandsMatchJournal, RebuiltCommands, FirstOf, LastOf, CommandEvents
  <2>2. ASSUME NEW batch, Appends(batch) PROVE CommandsMatchJournal'
    BY <2>2, CommandsRebuilt DEF CommandsMatchJournal
  <2> QED
    BY <2>1, <2>2, EveryStepAppends
<1> QED
  BY <1>1, <1>2, TypeInvariant, OneOwnerInvariant, PTL DEF Spec

-----------------------------------------------------------------------------
(* What a transaction does to the wave rows.                                *)

\* The events that set the status of a wave, and the events that name it.
Moves(journal, e) == {i \in DOMAIN journal : journal[i].kind = "execution" /\ journal[i].exec = e}
Mentions(journal, e) == {i \in DOMAIN journal : journal[i].exec = e}

WaveRow(row, status, last) ==
  [ordinal |-> row.ordinal, session |-> row.session, status |-> status,
   first |-> row.first, last |-> last]

Touched(row, seq) == [row EXCEPT !.last = seq]
Moved(row, status) == [row EXCEPT !.status = status]

LEMMA WaveRows ==
  ASSUME NEW row \in ExecutionRow
  PROVE  /\ row = WaveRow(row, row.status, row.last)
         /\ \A seq : Touched(row, seq) = WaveRow(row, row.status, seq)
         /\ \A last, status, new : Moved(WaveRow(row, status, last), new) = WaveRow(row, new, last)
<1>1. row = [ordinal |-> row.ordinal, session |-> row.session, status |-> row.status,
             first |-> row.first, last |-> row.last]
  BY DEF ExecutionRow
<1>2. ASSUME NEW seq PROVE Touched(row, seq) = WaveRow(row, row.status, seq)
  <2> DEFINE r == [row EXCEPT !.last = seq]
  <2>1. /\ DOMAIN r = {"ordinal", "session", "status", "first", "last"}
        /\ r = [x \in DOMAIN r |-> r[x]]
    BY DEF ExecutionRow
  <2>2. r.ordinal = row.ordinal /\ r.session = row.session /\ r.status = row.status
        /\ r.first = row.first /\ r.last = seq
    BY DEF ExecutionRow
  <2> HIDE DEF r
  <2>3. r = WaveRow(row, row.status, seq)
    BY <2>1, <2>2 DEF WaveRow
  <2> QED
    BY <2>3 DEF r, Touched
<1>3. ASSUME NEW last, NEW status, NEW new
      PROVE  Moved(WaveRow(row, status, last), new) = WaveRow(row, new, last)
  <2> DEFINE w == WaveRow(row, status, last)
             r == [w EXCEPT !.status = new]
  <2>1. /\ DOMAIN r = {"ordinal", "session", "status", "first", "last"}
        /\ r = [x \in DOMAIN r |-> r[x]]
    BY DEF WaveRow
  <2>2. r.ordinal = row.ordinal /\ r.session = row.session /\ r.status = new
        /\ r.first = row.first /\ r.last = last
    BY DEF WaveRow
  <2> HIDE DEF r
  <2>3. r = WaveRow(row, new, last)
    BY <2>1, <2>2 DEF WaveRow
  <2> QED
    BY <2>3 DEF r, Moved
<1> QED
  BY <1>1, <1>2, <1>3 DEF WaveRow

StatusAfter(batch, e) ==
  IF Moves(batch, e) = {} THEN executions[e].status ELSE batch[Max(Moves(batch, e))].status

LastAfter(batch, e) ==
  IF Mentions(batch, e) = {} THEN executions[e].last ELSE SequenceOf(Max(Mentions(batch, e)))

\* No wave is made, and rows have the status and the last sequence that the
\* batch gives them.
Follows(batch) ==
  /\ \A e : Created(batch, e) = {}
  /\ executions' = [e \in DOMAIN executions |->
                      WaveRow(executions[e], StatusAfter(batch, e), LastAfter(batch, e))]

\* Rows that a batch touches.
LEMMA RowsTouched ==
  ASSUME TypeInv, NEW batch, NEW e \in DOMAIN executions
  PROVE  ExecutionsAfter(batch)[e] = WaveRow(executions[e], executions[e].status, LastAfter(batch, e))
<1>1. executions[e] \in ExecutionRow
  BY DEF TypeInv, TypeOK
<1>2. ExecutionsAfter(batch)[e] =
        IF Mentions(batch, e) = {} THEN executions[e]
        ELSE Touched(executions[e], SequenceOf(Max(Mentions(batch, e))))
  BY DEF ExecutionsAfter, Mentions, Touched
<1> QED
  BY <1>1, <1>2, WaveRows DEF LastAfter

\* The status of each wave is the batch's: enough to know where it moves.
LEMMA FollowsFrom ==
  ASSUME TypeInv, NEW batch, NEW S, NEW x, \A e : Created(batch, e) = {},
         executions' = [e \in DOMAIN executions |->
           IF e \in S THEN Moved(ExecutionsAfter(batch)[e], x) ELSE ExecutionsAfter(batch)[e]],
         \A e \in DOMAIN executions : e \in S => StatusAfter(batch, e) = x,
         \A e \in DOMAIN executions : e \notin S => Moves(batch, e) = {}
  PROVE  Follows(batch)
<1>1. ASSUME NEW e \in DOMAIN executions
      PROVE  executions'[e] = WaveRow(executions[e], StatusAfter(batch, e), LastAfter(batch, e))
  <2>1. executions[e] \in ExecutionRow
    BY DEF TypeInv, TypeOK
  <2>2. ExecutionsAfter(batch)[e] = WaveRow(executions[e], executions[e].status, LastAfter(batch, e))
    BY RowsTouched
  <2>3. CASE e \in S
    BY <2>1, <2>2, <2>3, WaveRows
  <2>4. CASE e \notin S
    BY <2>2, <2>4 DEF StatusAfter
  <2> QED
    BY <2>3, <2>4
<1>2. executions' = [e \in DOMAIN executions |-> executions'[e]]
  OBVIOUS
<1>3. [e \in DOMAIN executions |-> executions'[e]]
        = [e \in DOMAIN executions |->
             WaveRow(executions[e], StatusAfter(batch, e), LastAfter(batch, e))]
  BY <1>1, Zenon
<1> QED
  BY <1>2, <1>3, Zenon DEF Follows

\* The order of stale waves leaves none of them out.
LEMMA StaleWavesInterrupted ==
  ASSUME TypeInv, NEW s \in SessionId, NEW as \in AttemptOrder(s), NEW es \in ExecutionOrder(s),
         NEW e \in StaleExecutions(s)
  PROVE  Moves(Interruptions(s, as, es), e) # {}
<1> DEFINE A == [i \in DOMAIN as |-> InterruptedAttempt(as[i], s)]
           E == [i \in DOMAIN es |-> InterruptedExecution(es[i], s)]
           m == Cardinality(StaleAttempts(s))
           n == Cardinality(StaleExecutions(s))
<1>1. m \in Nat /\ n \in Nat
  BY StaleRows
<1>2. as \in [1..m -> StaleAttempts(s)] /\ es \in [1..n -> StaleExecutions(s)]
      /\ \E i \in 1..n : es[i] = e
  BY DEF AttemptOrder, ExecutionOrder, Surjection
<1>3. PICK i \in 1..n : es[i] = e
  BY <1>2
<1>4. DOMAIN A = 1..m /\ DOMAIN E = 1..n /\ E[i] = InterruptedExecution(e, s)
  BY <1>2, <1>3
<1>5. InterruptedExecution(e, s).kind = "execution" /\ InterruptedExecution(e, s).exec = e
  BY DEF InterruptedExecution, NewEvent
<1>6. Interruptions(s, as, es) = A \o E
  BY DEF Interruptions
<1> HIDE DEF A, E, m, n
<1>7. Len(A) = m /\ Len(E) = n
  BY <1>1, <1>4
<1>8. m + i \in DOMAIN (A \o E) /\ (A \o E)[m + i] = E[i]
  BY <1>1, <1>7
<1>9. m + i \in Moves(A \o E, e)
  BY <1>4, <1>5, <1>8 DEF Moves
<1> QED
  BY <1>6, <1>9

\* The greatest of one position.
LEMMA OnlyOne ==
  ASSUME NEW n \in Nat PROVE Max({n}) = n /\ Min({n}) = n
<1>1. {n} \subseteq 0..n /\ {n} \subseteq Nat /\ {n} # {}
  OBVIOUS
<1>2. Max({n}) \in {n} /\ Min({n}) \in {n}
  BY <1>1, LeastExists, GreatestExists
<1> QED
  BY <1>2

\* Except when it begins a wave, a transaction moves known rows only.
LEMMA WavesFollow ==
  ASSUME TypeInv, NEW batch, Appends(batch)
  PROVE  \/ Follows(batch)
         \/ \E e \in Execution, s \in SessionId \cup {None} :
              /\ BeginExecution(e, s)
              /\ batch = <<[NewEvent("execution", "pending") EXCEPT
                            !.exec = e, !.session = s, !.ord = Cardinality(DOMAIN executions) + 1]>>
<1>1. CASE Without(batch, "execution") /\ executions' = ExecutionsAfter(batch)
  <2>1. \A e : Created(batch, e) = {} /\ Moves(batch, e) = {}
    BY <1>1 DEF Without, Created, Moves
  <2>2. executions' = [e \in DOMAIN executions |->
          IF e \in {} THEN Moved(ExecutionsAfter(batch)[e], "x") ELSE ExecutionsAfter(batch)[e]]
    BY <1>1 DEF ExecutionsAfter
  <2> QED
    BY <2>1, <2>2, FollowsFrom
<1>2. ASSUME NEW e \in Execution, NEW status \in ExecutionStatus, TransitionExecution(e, status),
             batch = <<[NewEvent("execution", status) EXCEPT !.exec = e]>>
      PROVE  Follows(batch)
  <2> DEFINE ev == [NewEvent("execution", status) EXCEPT !.exec = e]
  <2>1. ev.kind = "execution" /\ ev.exec = e /\ ev.status = status
    BY DEF NewEvent
  <2>2. batch = <<ev>> /\ DOMAIN batch = {1} /\ batch[1] = ev
    BY <1>2
  <2>3. /\ e \in DOMAIN executions /\ status # "pending"
        /\ executions' = [ExecutionsAfter(batch) EXCEPT ![e].status = status]
    BY <1>2 DEF TransitionExecution, NextStatuses, ExecutionFinal
  <2> HIDE DEF ev
  <2>4. /\ \A f : Created(batch, f) = {}
        /\ \A f : f # e => Moves(batch, f) = {}
        /\ Moves(batch, e) = {1}
    BY <2>1, <2>2, <2>3 DEF Created, Moves
  <2>5. StatusAfter(batch, e) = status
    BY <2>1, <2>2, <2>4, OnlyOne DEF StatusAfter
  <2> DEFINE S == {e}
  <2>6. executions' = [f \in DOMAIN executions |->
          IF f \in S THEN Moved(ExecutionsAfter(batch)[f], status) ELSE ExecutionsAfter(batch)[f]]
    <3>1. DOMAIN ExecutionsAfter(batch) = DOMAIN executions
      BY DEF ExecutionsAfter
    <3> QED
      BY <2>3, <3>1 DEF Moved
  <2>7. /\ \A f \in DOMAIN executions : f \in S => StatusAfter(batch, f) = status
        /\ \A f \in DOMAIN executions : f \notin S => Moves(batch, f) = {}
    BY <2>4, <2>5
  <2> HIDE DEF S
  <2> QED
    BY <2>4, <2>6, <2>7, FollowsFrom
<1>3. ASSUME NEW s \in SessionId, NEW as \in AttemptOrder(s), NEW es \in ExecutionOrder(s),
             batch = Interruptions(s, as, es),
             executions' = [e \in DOMAIN executions |->
               IF e \in StaleExecutions(s) THEN [ExecutionsAfter(batch)[e] EXCEPT !.status = "interrupted"]
               ELSE ExecutionsAfter(batch)[e]]
      PROVE  Follows(batch)
  <2>1. \A i \in DOMAIN batch :
          /\ batch[i].by = s /\ batch[i].status = "interrupted"
          /\ \/ /\ batch[i].kind = "attempt"
                /\ AttemptOf(batch[i]) \in StaleAttempts(s)
                /\ batch[i].exec = attempts[AttemptOf(batch[i])].exec
                /\ batch[i].session = attempts[AttemptOf(batch[i])].session
             \/ batch[i].kind = "execution" /\ batch[i].exec \in StaleExecutions(s)
    <3> DEFINE b == Interruptions(s, as, es)
    <3>1. \A i \in DOMAIN b :
            /\ b[i].by = s /\ b[i].status = "interrupted"
            /\ \/ /\ b[i].kind = "attempt"
                  /\ AttemptOf(b[i]) \in StaleAttempts(s)
                  /\ b[i].exec = attempts[AttemptOf(b[i])].exec
                  /\ b[i].session = attempts[AttemptOf(b[i])].session
               \/ b[i].kind = "execution" /\ b[i].exec \in StaleExecutions(s)
      BY InterruptionBatch
    <3>2. batch = b
      BY <1>3
    <3> HIDE DEF b
    <3> QED
      BY <3>1, <3>2
  <2>2. \A e \in StaleExecutions(s) : Moves(batch, e) # {}
    BY <1>3, StaleWavesInterrupted
  <2>3. \A e : Created(batch, e) = {}
    BY <2>1 DEF Created
  <2>4. \A e : e \notin StaleExecutions(s) => Moves(batch, e) = {}
    BY <2>1 DEF Moves
  <2>5. ASSUME NEW e \in StaleExecutions(s) PROVE StatusAfter(batch, e) = "interrupted"
    <3> DEFINE M == Moves(batch, e)
    <3>1. batch \in Seq(Event) /\ M # {}
      BY <2>2 DEF Appends, WellFormed
    <3>2. Len(batch) \in Nat /\ M \subseteq 1..Len(batch) /\ M \subseteq DOMAIN batch
      BY <3>1 DEF Moves
    <3> HIDE DEF M
    <3>3. M \subseteq 0..Len(batch)
      BY <3>2
    <3>4. Max(M) \in M
      BY <3>1, <3>2, <3>3, GreatestExists
    <3>5. batch[Max(M)].status = "interrupted"
      BY <2>1, <3>2, <3>4
    <3> QED
      BY <3>1, <3>5 DEF StatusAfter, M
  <2>6. executions' = [e \in DOMAIN executions |->
          IF e \in StaleExecutions(s) THEN Moved(ExecutionsAfter(batch)[e], "interrupted")
          ELSE ExecutionsAfter(batch)[e]]
    BY <1>3 DEF Moved
  <2> HIDE DEF Moved
  <2> QED
    BY <2>3, <2>4, <2>5, <2>6, FollowsFrom
<1> QED
  BY <1>1, <1>2, <1>3 DEF Appends, WaveBatch

-----------------------------------------------------------------------------
(* Waves.                                                                   *)

\* The events of a wave, after a transaction.
LEMMA WaveEventsGrow ==
  ASSUME TypeInv, NEW batch, WellFormed(batch), Journal(batch), NEW e
  PROVE  /\ Created(events', e) = Created(events, e) \cup Behind(Len(events), Created(batch, e))
         /\ Moves(events', e) = Moves(events, e) \cup Behind(Len(events), Moves(batch, e))
         /\ Mentions(events', e) = Mentions(events, e) \cup Behind(Len(events), Mentions(batch, e))
         /\ Created(events, e) \subseteq Moves(events, e)
         /\ Moves(events, e) \subseteq Mentions(events, e)
         /\ Mentions(events, e) \subseteq 1..Len(events)
         /\ Created(batch, e) \subseteq Moves(batch, e)
         /\ Moves(batch, e) \subseteq Mentions(batch, e)
         /\ Mentions(batch, e) \subseteq 1..Len(batch)
<1>1. /\ DOMAIN events = 1..Len(events) /\ DOMAIN batch = 1..Len(batch)
      /\ DOMAIN events' = DOMAIN events \cup Behind(Len(events), DOMAIN batch)
      /\ \A i \in DOMAIN events : events'[i] = events[i]
      /\ \A i \in DOMAIN batch : events'[Len(events) + i] = batch[i]
  BY JournalShape
<1> QED
  BY <1>1 DEF Created, Moves, Mentions, Behind

\* A journal that the reducer accepts was accepted before its last batch.
LEMMA ReducibleBefore ==
  ASSUME TypeInv, NEW batch, WellFormed(batch), Journal(batch), Reducible(events')
  PROVE  Reducible(events)
<1>1. /\ Len(events) \in Nat /\ Len(batch) \in Nat /\ DOMAIN events = 1..Len(events)
      /\ DOMAIN events' = DOMAIN events \cup Behind(Len(events), DOMAIN batch)
      /\ \A i \in DOMAIN events : events'[i] = events[i]
      /\ events' \in Seq(Event)
  <2>1. events' \in Seq(Event)
    BY DEF TypeInv, TypeOK, WellFormed, Journal
  <2> QED
    BY <2>1, JournalShape
<1>2. ASSUME NEW e \in Execution PROVE Cardinality(Created(events, e)) <= 1
  <2>1. Created(events, e) \subseteq Created(events', e)
    BY <1>1 DEF Created
  <2>2. Created(events', e) \subseteq 1..Len(events') /\ Len(events') \in Nat
    <3>1. DOMAIN events' = 1..Len(events') /\ Len(events') \in Nat
      <4>1. \A q \in Seq(Event) : DOMAIN q = 1..Len(q) /\ Len(q) \in Nat
        OBVIOUS
      <4> QED
        BY <1>1, <4>1, Zenon
    <3>2. Created(events', e) \subseteq DOMAIN events'
      BY DEF Created
    <3> QED
      BY <3>1, <3>2
  <2>3. IsFiniteSet(Created(events', e))
    <3>1. IsFiniteSet(1..Len(events'))
      BY <2>2, FS_Interval
    <3> QED
      BY <2>2, <3>1, FS_Subset
  <2>4. /\ Cardinality(Created(events, e)) <= Cardinality(Created(events', e))
        /\ Cardinality(Created(events, e)) \in Nat /\ Cardinality(Created(events', e)) \in Nat
    BY <2>1, <2>3, FS_Subset, FS_CardinalityType
  <2>5. Cardinality(Created(events', e)) <= 1
    BY DEF Reducible
  <2> QED
    BY <2>4, <2>5
<1>3. ASSUME NEW i \in DOMAIN events, events[i].exec # None
      PROVE  \E j \in 1..i : j \in Created(events, events[i].exec)
  <2>1. i \in DOMAIN events' /\ events'[i] = events[i]
    BY <1>1
  <2>2. PICK j \in 1..i : j \in Created(events', events[i].exec)
    BY <1>3, <2>1 DEF Reducible
  <2>3. j \in DOMAIN events
    BY <1>1
  <2>4. j \in Created(events, events[i].exec)
    BY <1>1, <2>2, <2>3 DEF Created
  <2> QED
    BY <2>4
<1> QED
  BY <1>2, <1>3 DEF Reducible

\* The wave row a rebuild makes.
WaveFrom(journal, e) ==
  LET made == Min(Created(journal, e))
  IN  [ordinal |-> journal[made].ord, session |-> journal[made].session,
       status |-> journal[Max(Moves(journal, e))].status,
       first |-> made - 1, last |-> Max(Mentions(journal, e)) - 1]

LEMMA RebuiltWaves ==
  ASSUME NEW journal
  PROVE  RebuiltExecutions(journal)
           = [e \in {x \in Execution : Created(journal, x) # {}} |-> WaveFrom(journal, e)]
BY DEF RebuiltExecutions, WaveFrom, FirstOf, LastOf, Moves, Mentions

LEMMA WaveRebuilt ==
  ASSUME TypeInv, NEW batch, WellFormed(batch), Journal(batch),
         NEW e, Created(events, e) # {}, Created(batch, e) = {}, executions[e] = WaveFrom(events, e)
  PROVE  WaveFrom(events', e) = WaveRow(executions[e], StatusAfter(batch, e), LastAfter(batch, e))
<1> DEFINE n == Len(events)
           C == Created(events, e)
           M == Moves(events, e)
           N == Mentions(events, e)
           P == Moves(batch, e)
           Q == Mentions(batch, e)
<1>1. /\ n \in Nat /\ Len(batch) \in Nat
      /\ DOMAIN events = 1..n /\ DOMAIN batch = 1..Len(batch)
      /\ \A i \in 1..n : events'[i] = events[i]
      /\ \A i \in 1..Len(batch) : events'[n + i] = batch[i]
  BY JournalShape
<1>2. /\ Created(events', e) = C \cup Behind(n, {})
      /\ Moves(events', e) = M \cup Behind(n, P)
      /\ Mentions(events', e) = N \cup Behind(n, Q)
      /\ C \subseteq M /\ M \subseteq N /\ N \subseteq 1..n
      /\ P \subseteq Q /\ Q \subseteq 1..Len(batch)
  BY WaveEventsGrow
<1>3. Created(events', e) = C
  BY <1>2 DEF Behind
<1>4. executions[e] = [ordinal |-> events[Min(C)].ord, session |-> events[Min(C)].session,
                       status |-> events[Max(M)].status,
                       first |-> Min(C) - 1, last |-> Max(N) - 1]
  BY DEF WaveFrom
<1>5. WaveFrom(events', e) =
        [ordinal |-> events'[Min(C)].ord, session |-> events'[Min(C)].session,
         status |-> events'[Max(M \cup Behind(n, P))].status,
         first |-> Min(C) - 1, last |-> Max(N \cup Behind(n, Q)) - 1]
  BY <1>2, <1>3, Zenon DEF WaveFrom
<1>6. /\ StatusAfter(batch, e) = IF P = {} THEN executions[e].status ELSE batch[Max(P)].status
      /\ LastAfter(batch, e) = IF Q = {} THEN executions[e].last ELSE n + (Max(Q) - 1)
  BY DEF StatusAfter, LastAfter, SequenceOf
<1>7. C # {} /\ M # {} /\ N # {}
  BY <1>2
<1> HIDE DEF n, C, M, N, P, Q
<1>8. ExtremaJoin(n, C, {}) /\ ExtremaJoin(n, M, P) /\ ExtremaJoin(n, N, Q)
  <2>1. /\ C \subseteq 1..n /\ M \subseteq 1..n /\ P \subseteq 1..Len(batch)
        /\ {} \subseteq 1..0 /\ 0 \in Nat
    BY <1>2
  <2> QED
    BY <1>1, <1>2, <2>1, ExtremaBehind
<1>9. events'[Min(C)] = events[Min(C)]
  <2>1. Min(C) \in C
    BY <1>7, <1>8 DEF ExtremaJoin
  <2> QED
    BY <1>1, <1>2, <2>1
<1>10. events'[Max(M \cup Behind(n, P))].status = StatusAfter(batch, e)
  <2>1. CASE P = {}
    <3>1. Max(M \cup Behind(n, P)) = Max(M) /\ Max(M) \in M
      BY <1>7, <1>8, <2>1 DEF ExtremaJoin
    <3>2. events'[Max(M)] = events[Max(M)]
      BY <1>1, <1>2, <3>1
    <3>3. executions[e].status = events[Max(M)].status
      BY <1>4
    <3> QED
      BY <1>6, <2>1, <3>1, <3>2, <3>3
  <2>2. CASE P # {}
    <3>1. Max(M \cup Behind(n, P)) = n + Max(P) /\ Max(P) \in P
      BY <1>8, <2>2 DEF ExtremaJoin
    <3>2. events'[n + Max(P)] = batch[Max(P)]
      BY <1>1, <1>2, <3>1
    <3> QED
      BY <1>6, <2>2, <3>1, <3>2
  <2> QED
    BY <2>1, <2>2
<1>11. Max(N \cup Behind(n, Q)) - 1 = LastAfter(batch, e)
  <2>1. CASE Q = {}
    <3>1. Max(N \cup Behind(n, Q)) = Max(N)
      BY <1>7, <1>8, <2>1 DEF ExtremaJoin
    <3>2. executions[e].last = Max(N) - 1
      BY <1>4
    <3> QED
      BY <1>6, <2>1, <3>1, <3>2
  <2>2. CASE Q # {}
    <3>1. Max(N \cup Behind(n, Q)) = n + Max(Q) /\ Max(Q) \in Q
      BY <1>8, <2>2 DEF ExtremaJoin
    <3>2. Max(Q) \in Nat
      <4>1. Max(Q) \in 1..Len(batch)
        BY <1>2, <3>1
      <4> QED
        BY <1>1, <4>1
    <3>3. (n + Max(Q)) - 1 = n + (Max(Q) - 1)
      BY <1>1, <3>2
    <3> QED
      BY <1>6, <2>2, <3>1, <3>3
  <2> QED
    BY <2>1, <2>2
<1>12. /\ executions[e].ordinal = events[Min(C)].ord /\ executions[e].session = events[Min(C)].session
       /\ executions[e].first = Min(C) - 1
  BY <1>4
<1>13. WaveFrom(events', e) =
         [ordinal |-> events'[Min(C)].ord, session |-> events'[Min(C)].session,
          status |-> StatusAfter(batch, e), first |-> Min(C) - 1, last |-> LastAfter(batch, e)]
  BY <1>5, <1>10, <1>11, Zenon
<1> QED
  BY <1>9, <1>12, <1>13, Zenon DEF WaveRow

LEMMA WavesRebuilt ==
  ASSUME TypeInv, NEW batch, Appends(batch), Reducible(events'),
         executions = RebuiltExecutions(events)
  PROVE  executions' = RebuiltExecutions(events')
<1> DEFINE n == Len(events)
           old == {x \in Execution : Created(events, x) # {}}
           new == {x \in Execution : Created(events', x) # {}}
<1>1. /\ WellFormed(batch) /\ Journal(batch) /\ n \in Nat /\ Len(batch) \in Nat
      /\ DOMAIN events = 1..n /\ DOMAIN batch = 1..Len(batch)
      /\ DOMAIN events' = DOMAIN events \cup Behind(n, DOMAIN batch)
      /\ \A i \in DOMAIN events : events'[i] = events[i]
      /\ \A i \in DOMAIN batch : events'[n + i] = batch[i]
  BY JournalShape DEF Appends
<1>2. /\ DOMAIN executions = old
      /\ \A e \in old : executions[e] = WaveFrom(events, e)
  BY RebuiltWaves
<1>3. RebuiltExecutions(events') = [e \in new |-> WaveFrom(events', e)]
  <2>1. \A j : RebuiltExecutions(j) = [e \in {x \in Execution : Created(j, x) # {}} |-> WaveFrom(j, e)]
    BY RebuiltWaves
  <2> QED
    BY <2>1
<1>4. CASE Follows(batch)
  <2>1. new = old
    <3>1. \A e : Created(events', e) = Created(events, e)
      <4> TAKE e
      <4>1. Created(events', e) = Created(events, e) \cup Behind(n, {})
        BY <1>1, <1>4, WaveEventsGrow DEF Follows
      <4> QED
        BY <4>1 DEF Behind
    <3> QED
      BY <3>1
  <2>2. \A e \in old : Created(events, e) # {} /\ Created(batch, e) = {}
    BY <1>4 DEF Follows
  <2>3. executions' = [e \in old |->
                         WaveRow(executions[e], StatusAfter(batch, e), LastAfter(batch, e))]
    BY <1>2, <1>4 DEF Follows
  <2> HIDE DEF old, new
  <2>4. \A e \in old : WaveFrom(events', e)
                         = WaveRow(executions[e], StatusAfter(batch, e), LastAfter(batch, e))
    BY <1>1, <1>2, <2>2, WaveRebuilt
  <2> QED
    BY <1>3, <2>1, <2>3, <2>4, Zenon
<1>5. ASSUME NEW e \in Execution, NEW s \in SessionId \cup {None}, BeginExecution(e, s),
             batch = <<[NewEvent("execution", "pending") EXCEPT
                        !.exec = e, !.session = s, !.ord = Cardinality(DOMAIN executions) + 1]>>
      PROVE  executions' = RebuiltExecutions(events')
  <2> DEFINE k == Cardinality(DOMAIN executions) + 1
             ev == [NewEvent("execution", "pending") EXCEPT !.exec = e, !.session = s, !.ord = k]
             row == [ordinal |-> k, session |-> s, status |-> "pending", first |-> n, last |-> n]
  <2>1. /\ ev.kind = "execution" /\ ev.status = "pending" /\ ev.exec = e
        /\ ev.session = s /\ ev.ord = k /\ batch = <<ev>>
    BY <1>5 DEF NewEvent
  <2>2. SequenceOf(1) = n
    BY <1>1 DEF SequenceOf
  <2>3. e \notin DOMAIN executions /\ executions' = Upsert(ExecutionsAfter(batch), e, row)
    BY <1>5, <2>2 DEF BeginExecution
  <2>4. e # None /\ Created(events, e) = {}
    BY <1>2, <2>3, DurableStoreAssumption
  <2> HIDE DEF ev, k
  <2>5. DOMAIN batch = {1} /\ batch[1] = ev
    BY <2>1
  <2> HIDE DEF n, row
  <2>6. DOMAIN events' = (1..n) \cup {n + 1} /\ events'[n + 1] = ev
    <3>1. 1 \in DOMAIN batch /\ DOMAIN batch = {1} /\ batch[1] = ev
      BY <2>5
    <3>2. events'[n + 1] = ev
      BY <1>1, <3>1
    <3>3. Behind(n, {1}) = {n + 1}
      BY DEF Behind
    <3>4. DOMAIN events' = DOMAIN events \cup Behind(n, {1}) /\ DOMAIN events = 1..n
      BY <1>1, <3>1
    <3> QED
      BY <3>2, <3>3, <3>4
  <2>7. Created(events', e) = {n + 1}
    <3>1. \A i \in 1..n : i \notin Created(events', e)
      BY <1>1, <2>4 DEF Created
    <3>2. n + 1 \in Created(events', e)
      BY <2>1, <2>6 DEF Created
    <3>3. Created(events', e) \subseteq DOMAIN events'
      BY DEF Created
    <3> QED
      BY <2>6, <3>1, <3>2, <3>3
  <2>8. Mentions(events', e) = {n + 1}
    <3>1. ASSUME NEW i \in 1..n, events'[i].exec = e PROVE FALSE
      <4>1. i \in DOMAIN events'
        BY <2>6
      <4>2. \E j \in 1..i : j \in Created(events', e)
        BY <2>4, <3>1, <4>1 DEF Reducible
      <4>3. n + 1 \in 1..i
        BY <2>7, <4>2
      <4> QED
        BY <1>1, <4>3
    <3>2. n + 1 \in Mentions(events', e)
      BY <2>1, <2>6 DEF Mentions
    <3> QED
      BY <2>6, <3>1, <3>2 DEF Mentions
  <2>9. Moves(events', e) = {n + 1}
    <3>1. Moves(events', e) \subseteq Mentions(events', e) /\ Created(events', e) \subseteq Moves(events', e)
      BY DEF Moves, Mentions, Created
    <3> QED
      BY <2>7, <2>8, <3>1
  <2>10. WaveFrom(events', e) = row
    <3>1. n + 1 \in Nat /\ (n + 1) - 1 = n
      BY <1>1
    <3>2. Max({n + 1}) = n + 1 /\ Min({n + 1}) = n + 1
      BY <3>1, OnlyOne
    <3>3. WaveFrom(events', e) = [ordinal |-> ev.ord, session |-> ev.session, status |-> ev.status,
                                  first |-> n, last |-> n]
      BY <2>6, <2>7, <2>8, <2>9, <3>1, <3>2, Zenon DEF WaveFrom
    <3> QED
      BY <2>1, <3>3 DEF row
  <2>11. ASSUME NEW f \in old
         PROVE  f # e /\ f \in new /\ WaveFrom(events', f) = executions'[f]
    <3>1. f # e /\ f \in DOMAIN executions
      BY <1>2, <2>3
    <3>2. Created(batch, f) = {} /\ Moves(batch, f) = {} /\ Mentions(batch, f) = {}
      BY <2>1, <2>5, <3>1 DEF Created, Moves, Mentions
    <3>3. Created(events, f) # {}
      OBVIOUS
    <3>4. WaveFrom(events', f) = WaveRow(executions[f], StatusAfter(batch, f), LastAfter(batch, f))
      BY <1>1, <1>2, <3>2, <3>3, WaveRebuilt
    <3>5. executions'[f] = ExecutionsAfter(batch)[f]
      BY <2>3, <3>1 DEF Upsert, ExecutionsAfter
    <3>6. executions'[f] = WaveRow(executions[f], executions[f].status, LastAfter(batch, f))
      BY <3>1, <3>5, RowsTouched
    <3>7. StatusAfter(batch, f) = executions[f].status
      BY <3>2 DEF StatusAfter
    <3>8. Created(events, f) \subseteq Created(events', f)
      BY <1>1, WaveEventsGrow
    <3> QED
      BY <3>1, <3>3, <3>4, <3>6, <3>7, <3>8
  <2>12. new = old \cup {e}
    <3>1. ASSUME NEW f \in new, f # e PROVE f \in old
      <4>1. Created(batch, f) = {}
        BY <2>1, <2>5, <3>1 DEF Created
      <4>2. Created(events', f) = Created(events, f) \cup Behind(n, {})
        BY <1>1, <4>1, WaveEventsGrow DEF n
      <4>3. Created(events', f) = Created(events, f)
        BY <4>2 DEF Behind
      <4> QED
        BY <4>3
    <3> QED
      BY <2>7, <2>11, <3>1
  <2>13. executions' = [f \in old \cup {e} |-> executions'[f]] /\ executions'[e] = row
    BY <1>2, <2>3 DEF Upsert, ExecutionsAfter
  <2> HIDE DEF old, new
  <2>14. \A f \in new : executions'[f] = WaveFrom(events', f)
    BY <2>10, <2>11, <2>12, <2>13
  <2> QED
    BY <1>3, <2>12, <2>13, <2>14
<1> QED
  BY <1>4, <1>5, WavesFollow

\* "Ledger and projection can be deleted and rebuilt identically from events":
\* from any journal that the reducer accepts, a rebuild makes the wave rows the
\* store holds, with ordinals, owners, statuses and both event bounds.
THEOREM WavesAreRebuilt == Spec => []ExecutionsMatchJournal
<1>1. Init => ExecutionsMatchJournal
  <2> SUFFICES ASSUME Init PROVE ExecutionsMatchJournal
    OBVIOUS
  <2>1. DOMAIN events = {} /\ executions = Empty
    BY DEF Init
  <2>2. \A e : Created(events, e) = {}
    BY <2>1 DEF Created
  <2>3. RebuiltExecutions(events) = Empty
    BY <2>2 DEF RebuiltExecutions, Empty
  <2> QED
    BY <2>1, <2>3 DEF ExecutionsMatchJournal
<1>2. TypeInv /\ OneOwner /\ ExecutionsMatchJournal /\ [Next]_vars => ExecutionsMatchJournal'
  <2> SUFFICES ASSUME TypeInv, OneOwner, ExecutionsMatchJournal, [Next]_vars
               PROVE  ExecutionsMatchJournal'
    OBVIOUS
  <2>1. CASE UNCHANGED <<events, executions, attempts, sessions, commands>>
    BY <2>1 DEF ExecutionsMatchJournal
  <2>2. ASSUME NEW batch, Appends(batch), Reducible(events')
        PROVE  executions' = RebuiltExecutions(events')
    <3>1. Reducible(events)
      BY <2>2, ReducibleBefore DEF Appends
    <3> QED
      BY <2>2, <3>1, WavesRebuilt DEF ExecutionsMatchJournal
  <2> QED
    BY <2>1, <2>2, EveryStepAppends DEF ExecutionsMatchJournal
<1> QED
  BY <1>1, <1>2, TypeInvariant, OneOwnerInvariant, PTL DEF Spec

-----------------------------------------------------------------------------
(* Ordinals.                                                                *)

\* Waves are numbered in the order of their first events, all behind the end.
WaveNumbers ==
  /\ {executions[e].ordinal : e \in DOMAIN executions} = 1..Cardinality(DOMAIN executions)
  /\ \A e, f \in DOMAIN executions :
       executions[e].ordinal < executions[f].ordinal <=> executions[e].first < executions[f].first
  /\ \A e \in DOMAIN executions : executions[e].first < Len(events)

\* So are the attempts of each process.
AttemptNumbers ==
  /\ \A p \in Process : \E k \in Nat : Ordinals(p) = 1..k
  /\ \A a, b \in DOMAIN attempts :
       a[1] = b[1] => (a[2] < b[2] <=> attempts[a].first < attempts[b].first)
  /\ \A a \in DOMAIN attempts : attempts[a].first < Len(events)

LEMMA NumbersGiveOrder ==
  ASSUME WaveNumbers, AttemptNumbers
  PROVE  OrdinalsFollowJournal
<1>1. ASSUME NEW p \in Process PROVE Ordinals(p) = 1..Cardinality(Ordinals(p))
  <2>1. PICK k \in Nat : Ordinals(p) = 1..k
    BY DEF AttemptNumbers
  <2>2. Cardinality(1..k) = k
    <3>1. 1 \in Int /\ k \in Int
      OBVIOUS
    <3>2. Cardinality(1..k) = IF 1 > k THEN 0 ELSE k - 1 + 1
      BY <3>1, FS_Interval
    <3> QED
      BY <3>2
  <2> QED
    BY <2>1, <2>2
<1> QED
  BY <1>1 DEF OrdinalsFollowJournal, WaveNumbers, AttemptNumbers

LEMMA WaveNumbersKept ==
  ASSUME TypeInv, NEW batch, Appends(batch), WaveNumbers
  PROVE  WaveNumbers'
<1>1. /\ Len(events) \in Nat /\ Len(batch) \in Nat /\ Len(events') = Len(events) + Len(batch)
  BY DEF Appends, WellFormed, Journal, TypeInv, TypeOK
<1>2. \A e \in DOMAIN executions : executions[e].first \in Nat /\ executions[e].ordinal \in Nat
  BY DEF TypeInv, TypeOK, ExecutionRow
<1>3. CASE Follows(batch)
  <2>1. /\ DOMAIN executions' = DOMAIN executions
        /\ \A e \in DOMAIN executions : /\ executions'[e].ordinal = executions[e].ordinal
                                        /\ executions'[e].first = executions[e].first
    BY <1>3 DEF Follows, WaveRow
  <2>2. {executions'[e].ordinal : e \in DOMAIN executions'}
          = {executions[e].ordinal : e \in DOMAIN executions}
    BY <2>1
  <2>3. \A e \in DOMAIN executions' : executions'[e].first < Len(events')
    BY <1>1, <1>2, <2>1 DEF WaveNumbers
  <2> QED
    BY <2>1, <2>2, <2>3 DEF WaveNumbers
<1>4. ASSUME NEW e \in Execution, NEW s \in SessionId \cup {None}, BeginExecution(e, s),
             batch = <<[NewEvent("execution", "pending") EXCEPT
                        !.exec = e, !.session = s, !.ord = Cardinality(DOMAIN executions) + 1]>>
      PROVE  WaveNumbers'
  <2> DEFINE c == Cardinality(DOMAIN executions)
             n == Len(events)
             row == [ordinal |-> c + 1, session |-> s, status |-> "pending", first |-> n, last |-> n]
  <2>1. c \in Nat /\ IsFiniteSet(DOMAIN executions)
    BY FS_CardinalityType DEF TypeInv
  <2>2. Len(events') = n + 1
    BY <1>1, <1>4
  <2>3. SequenceOf(1) = n
    BY <1>1 DEF SequenceOf
  <2>4. e \notin DOMAIN executions /\ executions' = Upsert(ExecutionsAfter(batch), e, row)
    BY <1>4, <2>3 DEF BeginExecution
  <2>5. Cardinality(DOMAIN executions \cup {e}) = c + 1
    BY <2>1, <2>4, FS_AddElement
  <2>6. \A f \in DOMAIN executions : /\ ExecutionsAfter(batch)[f].ordinal = executions[f].ordinal
                                     /\ ExecutionsAfter(batch)[f].first = executions[f].first
    <3> TAKE f \in DOMAIN executions
    <3>1. ExecutionsAfter(batch)[f] = WaveRow(executions[f], executions[f].status, LastAfter(batch, f))
      BY RowsTouched
    <3> QED
      BY <3>1 DEF WaveRow
  <2>7. row.ordinal = c + 1 /\ row.first = n
    OBVIOUS
  <2> HIDE DEF c, row, n
  <2>8. /\ DOMAIN executions' = DOMAIN executions \cup {e}
        /\ executions'[e].ordinal = c + 1 /\ executions'[e].first = n
        /\ \A f \in DOMAIN executions : /\ executions'[f].ordinal = executions[f].ordinal
                                        /\ executions'[f].first = executions[f].first
    BY <2>4, <2>6, <2>7 DEF Upsert, ExecutionsAfter
  <2>9. {executions[f].ordinal : f \in DOMAIN executions} = 1..c
    BY DEF WaveNumbers, c
  <2>10. {executions'[f].ordinal : f \in DOMAIN executions'} = 1..(c + 1)
    <3>1. {executions'[f].ordinal : f \in DOMAIN executions'} = (1..c) \cup {c + 1}
      BY <2>8, <2>9
    <3>2. (1..c) \cup {c + 1} = 1..(c + 1)
      BY <2>1
    <3> QED
      BY <3>1, <3>2
  <2>11. Cardinality(DOMAIN executions') = c + 1
    BY <2>5, <2>8
  <2>12. \A f \in DOMAIN executions : executions[f].ordinal \in 1..c /\ executions[f].first < n
    <3>1. \A f \in DOMAIN executions :
            executions[f].ordinal \in {executions[g].ordinal : g \in DOMAIN executions}
      OBVIOUS
    <3>2. \A f \in DOMAIN executions : executions[f].first < n
      BY DEF WaveNumbers, n
    <3> QED
      BY <2>9, <3>1, <3>2
  <2>13. \A f \in DOMAIN executions' : executions'[f].first < Len(events')
    BY <1>1, <1>2, <2>2, <2>8, <2>12 DEF n
  <2>14. ASSUME NEW f \in DOMAIN executions', NEW g \in DOMAIN executions'
         PROVE  executions'[f].ordinal < executions'[g].ordinal <=> executions'[f].first < executions'[g].first
    <3>0. n \in Nat
      BY <1>1 DEF n
    <3>1. CASE f = e /\ g = e
      BY <2>1, <2>8, <3>0, <3>1
    <3>2. CASE f = e /\ g \in DOMAIN executions
      <4>1. executions[g].ordinal <= c /\ executions[g].first < n
        BY <2>12, <3>2
      <4> QED
        BY <1>2, <2>1, <2>8, <3>0, <3>2, <4>1
    <3>3. CASE f \in DOMAIN executions /\ g = e
      <4>1. executions[f].ordinal <= c /\ executions[f].first < n
        BY <2>12, <3>3
      <4> QED
        BY <1>2, <2>1, <2>8, <3>0, <3>3, <4>1
    <3>4. CASE f \in DOMAIN executions /\ g \in DOMAIN executions
      BY <2>8, <3>4 DEF WaveNumbers
    <3> QED
      BY <2>8, <3>1, <3>2, <3>3, <3>4
  <2> QED
    BY <2>10, <2>11, <2>13, <2>14 DEF WaveNumbers
<1> QED
  BY <1>3, <1>4, WavesFollow

\* Known attempts keep their first sequence, whatever is appended.
LEMMA FirstKept ==
  ASSUME TypeInv, NEW batch, WellFormed(batch), Journal(batch)
  PROVE  /\ DOMAIN attempts \subseteq DOMAIN attempts'
         /\ \A a \in DOMAIN attempts : attempts'[a].first = attempts[a].first
<1>1. attempts' = AttemptsAfter(batch)
  BY DEF Journal
<1>2. \A a \in DOMAIN attempts : attempts[a] \in AttemptRow
  BY DEF TypeInv, TypeOK
<1>3. \A row \in AttemptRow : \A status, seq : Outcome(row, status, seq).first = row.first
  BY DEF AttemptRow, Outcome
<1>4. ASSUME NEW a \in DOMAIN attempts
      PROVE  attempts'[a] = IF Concerning(batch, a) = {} THEN attempts[a]
                            ELSE Outcome(attempts[a], batch[Max(Concerning(batch, a))].status,
                                         SequenceOf(Max(Concerning(batch, a))))
  BY <1>1 DEF AttemptsAfter, Outcome
<1>5. \A a \in DOMAIN attempts : attempts'[a].first = attempts[a].first
  BY <1>2, <1>3, <1>4
<1>6. DOMAIN attempts \subseteq DOMAIN attempts'
  BY <1>1 DEF AttemptsAfter
<1> QED
  BY <1>5, <1>6

LEMMA AttemptNumbersKept ==
  ASSUME TypeInv, NEW batch, Appends(batch), AttemptNumbers
  PROVE  AttemptNumbers'
<1>1. /\ Len(events) \in Nat /\ Len(batch) \in Nat /\ Len(events') = Len(events) + Len(batch)
      /\ Len(events) + Len(batch) <= MaxEvents /\ MaxEvents \in Nat
      /\ attempts' = AttemptsAfter(batch)
  BY DurableStoreAssumption DEF Appends, WellFormed, Journal, TypeInv, TypeOK
<1>2. \A a \in DOMAIN attempts : attempts[a].first \in Nat /\ a[2] \in Nat /\ a \in Process \X (Nat \ {0})
  BY DEF TypeInv, TypeOK, AttemptRow
<1>3. /\ DOMAIN attempts \subseteq DOMAIN attempts'
      /\ \A a \in DOMAIN attempts : attempts'[a].first = attempts[a].first
  BY FirstKept DEF Appends
<1>4. CASE MakesNoAttempt(batch)
  <2>1. DOMAIN attempts' = DOMAIN attempts
    BY <1>1, <1>4 DEF MakesNoAttempt, AttemptsAfter
  <2>2. \A p \in Process : Ordinals(p)' = Ordinals(p)
    BY <2>1 DEF Ordinals
  <2>3. \A a \in DOMAIN attempts' : attempts'[a].first < Len(events')
    BY <1>1, <1>2, <1>3, <2>1 DEF AttemptNumbers
  <2> QED
    BY <1>3, <2>1, <2>2, <2>3 DEF AttemptNumbers
<1>5. ASSUME NEW p \in Process, NEW e \in Execution, NEW s \in SessionId \cup {None},
             batch = <<AttemptEvent(<<p, NextOrdinal(p)>>, e, s, "pending"),
                       AttemptEvent(<<p, NextOrdinal(p)>>, e, s, "running")>>
      PROVE  AttemptNumbers'
  <2> DEFINE o == NextOrdinal(p)
             a == <<p, o>>
             n == Len(events)
  <2>1. o \in Nat \ {0} /\ o <= n + 1 /\ a \notin DOMAIN attempts
    BY NextOrdinalIsNew
  <2>2. Len(batch) = 2 /\ Len(events') = n + 2 /\ DOMAIN batch = {1, 2}
    BY <1>1, <1>5
  <2>3. PICK k \in Nat : Ordinals(p) = 1..k
    BY DEF AttemptNumbers
  <2>4. o = k + 1
    <3> DEFINE U == (1..k) \cup {0}
    <3>1. U \subseteq 0..k /\ U # {} /\ k \in U
      OBVIOUS
    <3> HIDE DEF U
    <3>2. Max(U) \in U /\ k <= Max(U)
      BY <3>1, GreatestExists
    <3>3. Max(U) = k
      <4>1. Max(U) \in 0..k
        BY <3>1, <3>2
      <4> QED
        BY <3>2, <4>1
    <3>4. NextOrdinal(p) = Max(U) + 1
      BY <2>3 DEF NextOrdinal, U
    <3> QED
      BY <3>3, <3>4
  <2>5. o \in 1..MaxEvents
    BY <1>1, <2>1, <2>2
  <2>6. \A i \in DOMAIN batch : batch[i].kind = "attempt" /\ AttemptOf(batch[i]) = a
    <3> DEFINE x == AttemptEvent(a, e, s, "pending")
               y == AttemptEvent(a, e, s, "running")
    <3>1. a \in Process \X (Nat \ {0})
      BY <2>1
    <3> HIDE DEF a
    <3>2. x.kind = "attempt" /\ AttemptOf(x) = a /\ y.kind = "attempt" /\ AttemptOf(y) = a
      BY <3>1, AttemptEventType DEF AttemptStatus
    <3>3. batch = <<x, y>>
      BY <1>5 DEF a
    <3> HIDE DEF x, y
    <3>4. batch[1] = x /\ batch[2] = y
      BY <3>3
    <3> QED
      BY <2>2, <3>2, <3>4
  <2> HIDE DEF o, a, n
  <2>7. DOMAIN attempts' = DOMAIN attempts \cup {a}
    <3>1. {AttemptOf(batch[i]) : i \in {j \in DOMAIN batch : batch[j].kind = "attempt"}} = {a}
      BY <2>2, <2>6
    <3> QED
      BY <1>1, <3>1 DEF AttemptsAfter
  <2>8. attempts'[a].first = n
    <3>1. Concerning(batch, a) = {1, 2}
      BY <2>2, <2>6 DEF Concerning
    <3>2. Min({1, 2}) = 1
      <4>1. {1, 2} \subseteq Nat /\ {1, 2} # {}
        OBVIOUS
      <4>2. Min({1, 2}) \in {1, 2} /\ Min({1, 2}) <= 1
        BY <4>1, LeastExists
      <4> QED
        BY <4>2
    <3>3. SequenceOf(1) = n
      BY <1>1 DEF SequenceOf, n
    <3> DEFINE row == [exec |-> batch[Min(Concerning(batch, a))].exec,
                       session |-> batch[Min(Concerning(batch, a))].session,
                       first |-> SequenceOf(Min(Concerning(batch, a))), status |-> "pending", last |-> 0]
    <3>4. attempts'[a] = [row EXCEPT !.status = batch[Max(Concerning(batch, a))].status,
                                     !.last = SequenceOf(Max(Concerning(batch, a)))]
      BY <1>1, <2>1, <2>7, <3>1 DEF AttemptsAfter
    <3>5. attempts'[a].first = SequenceOf(Min(Concerning(batch, a)))
      BY <3>4
    <3> QED
      BY <3>1, <3>2, <3>3, <3>5
  <2>9. a[1] = p /\ a[2] = o
    BY DEF a
  <2>10. ASSUME NEW q \in Process PROVE \E l \in Nat : Ordinals(q)' = 1..l
    <3>1. CASE q = p
      <4>1. \A m : <<p, m>> = a <=> m = o
        BY DEF a
      <4>2. Ordinals(p)' = Ordinals(p) \cup {o}
        BY <2>5, <2>7, <4>1 DEF Ordinals
      <4>3. Ordinals(p)' = 1..(k + 1)
        BY <2>3, <2>4, <4>2
      <4> QED
        BY <3>1, <4>3
    <3>2. CASE q # p
      <4>1. \A m : <<q, m>> # a
        BY <3>2 DEF a
      <4>2. Ordinals(q)' = Ordinals(q)
        BY <2>7, <4>1 DEF Ordinals
      <4> QED
        BY <4>2 DEF AttemptNumbers
    <3> QED
      BY <3>1, <3>2
  <2>11. n \in Nat
    BY <1>1 DEF n
  <2>12. \A b \in DOMAIN attempts' : attempts'[b].first < Len(events')
    <3>1. \A b \in DOMAIN attempts : attempts[b].first < n
      BY DEF AttemptNumbers, n
    <3> QED
      BY <1>2, <1>3, <2>2, <2>7, <2>8, <2>11, <3>1
  <2>13. ASSUME NEW b \in DOMAIN attempts, b[1] = p
         PROVE  b[2] <= k /\ attempts'[b].first < n /\ attempts'[b].first \in Nat /\ b[2] \in Nat
    <3>1. b = <<p, b[2]>> /\ b[2] \in Nat \ {0} /\ b[2] <= Len(events)
      BY <1>2, <2>13 DEF TypeInv
    <3>2. b[2] \in Ordinals(p)
      BY <1>1, <3>1 DEF Ordinals
    <3>3. b[2] <= k
      BY <2>3, <3>2
    <3>4. attempts'[b].first = attempts[b].first /\ attempts[b].first < n
      BY <1>3 DEF AttemptNumbers, n
    <3> QED
      BY <1>2, <3>1, <3>3, <3>4
  <2>14. ASSUME NEW b \in DOMAIN attempts', NEW c \in DOMAIN attempts', b[1] = c[1]
         PROVE  b[2] < c[2] <=> attempts'[b].first < attempts'[c].first
    <3>1. CASE b \in DOMAIN attempts /\ c \in DOMAIN attempts
      BY <1>3, <2>14, <3>1 DEF AttemptNumbers
    <3>2. CASE b = a /\ c \in DOMAIN attempts
      BY <2>4, <2>8, <2>9, <2>11, <2>13, <2>14, <3>2
    <3>3. CASE b \in DOMAIN attempts /\ c = a
      BY <2>4, <2>8, <2>9, <2>11, <2>13, <2>14, <3>3
    <3>4. CASE b = a /\ c = a
      BY <2>4, <2>8, <2>9, <2>11, <3>4
    <3> QED
      BY <2>7, <3>1, <3>2, <3>3, <3>4
  <2> QED
    BY <2>10, <2>12, <2>14 DEF AttemptNumbers
<1> QED
  BY <1>4, <1>5 DEF Appends, AttemptBatch

\* Waves, and the attempts of each process, are numbered without gaps or
\* repetition in the order in which the journal first names them.
THEOREM OrdinalsAreInOrder == Spec => []OrdinalsFollowJournal
<1>1. Init => WaveNumbers /\ AttemptNumbers
  <2> SUFFICES ASSUME Init PROVE WaveNumbers /\ AttemptNumbers
    OBVIOUS
  <2>1. executions = Empty /\ attempts = Empty /\ DOMAIN Empty = {}
    BY DEF Init, Empty
  <2>2. WaveNumbers
    <3>1. Cardinality({}) = 0
      BY FS_EmptySet
    <3>2. 1..0 = {}
      OBVIOUS
    <3> QED
      BY <2>1, <3>1, <3>2 DEF WaveNumbers
  <2>3. AttemptNumbers
    <3>1. \A p \in Process : Ordinals(p) = 1..0
      BY <2>1 DEF Ordinals
    <3> QED
      BY <2>1, <3>1 DEF AttemptNumbers
  <2> QED
    BY <2>2, <2>3
<1>2. TypeInv /\ OneOwner /\ WaveNumbers /\ AttemptNumbers /\ [Next]_vars
        => WaveNumbers' /\ AttemptNumbers'
  <2> SUFFICES ASSUME TypeInv, OneOwner, WaveNumbers, AttemptNumbers, [Next]_vars
               PROVE  WaveNumbers' /\ AttemptNumbers'
    OBVIOUS
  <2>1. CASE UNCHANGED <<events, executions, attempts, sessions, commands>>
    BY <2>1 DEF WaveNumbers, AttemptNumbers, Ordinals
  <2>2. ASSUME NEW batch, Appends(batch) PROVE WaveNumbers' /\ AttemptNumbers'
    BY <2>2, WaveNumbersKept, AttemptNumbersKept
  <2> QED
    BY <2>1, <2>2, EveryStepAppends
<1>3. WaveNumbers /\ AttemptNumbers => OrdinalsFollowJournal
  BY NumbersGiveOrder
<1> QED
  BY <1>1, <1>2, <1>3, TypeInvariant, OneOwnerInvariant, PTL DEF Spec

-----------------------------------------------------------------------------
(* The succession of owners.                                                *)

SessionPositions(journal) == {i \in DOMAIN journal : journal[i].kind = "session"}

\* Each event of the lease is one that its predecessor allows.
Succession(journal) ==
  \A i \in SessionPositions(journal) :
    LET before == {j \in SessionPositions(journal) : j < i}
        previous == journal[Max(before)]
    IN  IF journal[i].status = "acquired"
        THEN before # {} => previous.status \in {"released", "expired"}
        ELSE /\ before # {}
             /\ previous.status \in {"acquired", "renewed"}
             /\ previous.session = journal[i].session

LeaseStatus == {"acquired", "renewed", "released", "expired"}

LeaseEvents(journal) ==
  \A i \in SessionPositions(journal) :
    journal[i].session \in SessionId /\ journal[i].status \in LeaseStatus

\* The session that the last event of the lease leaves in charge.
Holder(journal) ==
  {s \in SessionId : \E i \in SessionPositions(journal) :
     /\ i = Max(SessionPositions(journal))
     /\ journal[i].session = s
     /\ journal[i].status \in {"acquired", "renewed"}}

\* A longer journal: k goes on where j ends.
Continues(j, n, k, m) ==
  /\ n \in Nat /\ m \in Nat /\ n <= m
  /\ DOMAIN j = 1..n /\ DOMAIN k = 1..m
  /\ \A i \in 1..n : k[i] = j[i]

LEMMA NoSessionEvent ==
  ASSUME NEW j, NEW n, NEW k, NEW m, Continues(j, n, k, m),
         \A i \in 1..m : i \notin 1..n => k[i].kind # "session",
         Succession(j), LeaseEvents(j)
  PROVE  Succession(k) /\ LeaseEvents(k) /\ Holder(k) = Holder(j)
<1> DEFINE S == SessionPositions(j)
<1>1. /\ SessionPositions(k) = S /\ S \subseteq 1..n /\ n \in Nat
      /\ \A i \in S : k[i] = j[i]
  BY DEF SessionPositions, Continues
<1> HIDE DEF S
<1>2. \A i \in S : LET before == {x \in S : x < i}
                   IN  before # {} => k[Max(before)] = j[Max(before)]
  <2> TAKE i \in S
  <2> DEFINE before == {x \in S : x < i}
  <2>1. before \subseteq S /\ before \subseteq 0..n
    <3>1. S \subseteq 0..n
      BY <1>1
    <3>2. before \subseteq S
      OBVIOUS
    <3> QED
      BY <3>1, <3>2
  <2> HIDE DEF before
  <2>2. before # {} => Max(before) \in before
    BY <1>1, <2>1, GreatestExists
  <2>3. before # {} => k[Max(before)] = j[Max(before)]
    BY <1>1, <2>1, <2>2
  <2> QED
    BY <2>3 DEF before
<1>3. Succession(k)
  <2> SUFFICES ASSUME NEW i \in S
               PROVE  LET before == {x \in S : x < i}
                          previous == k[Max(before)]
                      IN  IF k[i].status = "acquired"
                          THEN before # {} => previous.status \in {"released", "expired"}
                          ELSE /\ before # {}
                               /\ previous.status \in {"acquired", "renewed"}
                               /\ previous.session = k[i].session
    BY <1>1 DEF Succession
  <2> DEFINE before == {x \in S : x < i}
  <2>1. IF j[i].status = "acquired"
        THEN before # {} => j[Max(before)].status \in {"released", "expired"}
        ELSE /\ before # {}
             /\ j[Max(before)].status \in {"acquired", "renewed"}
             /\ j[Max(before)].session = j[i].session
    BY DEF Succession, S
  <2>2. before # {} => k[Max(before)] = j[Max(before)]
    BY <1>2
  <2>3. k[i] = j[i]
    BY <1>1
  <2> HIDE DEF before
  <2>4. IF k[i].status = "acquired"
        THEN before # {} => k[Max(before)].status \in {"released", "expired"}
        ELSE /\ before # {}
             /\ k[Max(before)].status \in {"acquired", "renewed"}
             /\ k[Max(before)].session = k[i].session
    BY <2>1, <2>2, <2>3
  <2> QED
    BY <2>4 DEF before
<1>4. LeaseEvents(k)
  BY <1>1 DEF LeaseEvents, S
<1>5. Holder(k) = Holder(j)
  BY <1>1 DEF Holder, S
<1> QED
  BY <1>3, <1>4, <1>5

LEMMA OneSessionEvent ==
  ASSUME NEW j, NEW n, NEW k, Continues(j, n, k, n + 1),
         Succession(j), LeaseEvents(j),
         k[n + 1].kind = "session", k[n + 1].session \in SessionId,
         \/ k[n + 1].status = "acquired" /\ Holder(j) = {}
         \/ k[n + 1].status \in {"renewed", "released", "expired"} /\ Holder(j) = {k[n + 1].session}
  PROVE  /\ Succession(k) /\ LeaseEvents(k)
         /\ k[n + 1].status \in {"acquired", "renewed"} => Holder(k) = {k[n + 1].session}
         /\ k[n + 1].status \in {"released", "expired"} => Holder(k) = {}
<1> DEFINE S == SessionPositions(j)
           T == SessionPositions(k)
           ev == k[n + 1]
<1>1. /\ n \in Nat /\ T = S \cup {n + 1} /\ S \subseteq 1..n
      /\ \A i \in S : k[i] = j[i]
  <2>1. /\ n \in Nat /\ DOMAIN j = 1..n /\ DOMAIN k = (1..n) \cup {n + 1}
        /\ \A i \in 1..n : k[i] = j[i]
    BY DEF Continues
  <2> QED
    BY <2>1 DEF SessionPositions
<1> HIDE DEF S, T
<1>2. Max(T) = n + 1
  <2>1. T \subseteq 0..(n + 1) /\ T # {} /\ n + 1 \in T /\ n + 1 \in Nat
    BY <1>1
  <2>2. Max(T) \in T /\ n + 1 <= Max(T)
    BY <2>1, GreatestExists
  <2>3. Max(T) \in 0..(n + 1)
    BY <2>1, <2>2
  <2> QED
    BY <1>1, <2>2, <2>3
<1>3. S # {} => /\ Max(S) \in S /\ k[Max(S)] = j[Max(S)]
                /\ j[Max(S)].session \in SessionId /\ j[Max(S)].status \in LeaseStatus
  <2>1. S \subseteq 0..n
    BY <1>1
  <2>2. S # {} => Max(S) \in S
    BY <1>1, <2>1, GreatestExists
  <2> QED
    BY <1>1, <2>2 DEF LeaseEvents, S
<1>4. IF ev.status = "acquired"
      THEN S # {} => k[Max(S)].status \in {"released", "expired"}
      ELSE /\ S # {}
           /\ k[Max(S)].status \in {"acquired", "renewed"}
           /\ k[Max(S)].session = ev.session
  <2>1. CASE ev.status = "acquired" /\ Holder(j) = {}
    <3>1. ASSUME S # {}, k[Max(S)].status \in {"acquired", "renewed"} PROVE FALSE
      <4>1. j[Max(S)].session \in Holder(j)
        BY <1>3, <3>1 DEF Holder, S
      <4> QED
        BY <2>1, <4>1
    <3> QED
      BY <1>3, <2>1, <3>1 DEF LeaseStatus
  <2>2. CASE ev.status # "acquired" /\ Holder(j) = {ev.session}
    <3>1. ev.session \in Holder(j)
      BY <2>2
    <3>2. PICK i \in S : i = Max(S) /\ j[i].session = ev.session /\ j[i].status \in {"acquired", "renewed"}
      BY <3>1 DEF Holder, S
    <3> QED
      BY <1>3, <2>2, <3>2
  <2> QED
    BY <2>1, <2>2
<1>5. Succession(k)
  <2> SUFFICES ASSUME NEW i \in T
               PROVE  LET before == {x \in T : x < i}
                          previous == k[Max(before)]
                      IN  IF k[i].status = "acquired"
                          THEN before # {} => previous.status \in {"released", "expired"}
                          ELSE /\ before # {}
                               /\ previous.status \in {"acquired", "renewed"}
                               /\ previous.session = k[i].session
    BY DEF Succession, T
  <2> DEFINE before == {x \in T : x < i}
  <2>1. CASE i = n + 1
    <3>1. before = S
      <4>1. \A x \in S : x \in Nat /\ x < n + 1
        BY <1>1
      <4>2. ~(n + 1 < n + 1)
        BY <1>1
      <4> QED
        BY <1>1, <2>1, <4>1, <4>2
    <3> HIDE DEF before
    <3>2. IF k[i].status = "acquired"
          THEN before # {} => k[Max(before)].status \in {"released", "expired"}
          ELSE /\ before # {}
               /\ k[Max(before)].status \in {"acquired", "renewed"}
               /\ k[Max(before)].session = k[i].session
      BY <1>4, <2>1, <3>1
    <3> QED
      BY <3>2 DEF before
  <2>2. CASE i \in S
    <3>1. before = {x \in S : x < i}
      BY <1>1, <2>2
    <3>2. IF j[i].status = "acquired"
          THEN before # {} => j[Max(before)].status \in {"released", "expired"}
          ELSE /\ before # {}
               /\ j[Max(before)].status \in {"acquired", "renewed"}
               /\ j[Max(before)].session = j[i].session
      BY <2>2, <3>1 DEF Succession, S
    <3>3. before \subseteq S /\ before \subseteq 0..n
      <4>1. S \subseteq 0..n
        BY <1>1
      <4>2. before \subseteq S
        BY <3>1
      <4> QED
        BY <4>1, <4>2
    <3> HIDE DEF before
    <3>4. before # {} => Max(before) \in before
      BY <1>1, <3>3, GreatestExists
    <3>5. k[i] = j[i] /\ (before # {} => k[Max(before)] = j[Max(before)])
      BY <1>1, <2>2, <3>3, <3>4
    <3>6. IF k[i].status = "acquired"
          THEN before # {} => k[Max(before)].status \in {"released", "expired"}
          ELSE /\ before # {}
               /\ k[Max(before)].status \in {"acquired", "renewed"}
               /\ k[Max(before)].session = k[i].session
      BY <3>2, <3>5
    <3> QED
      BY <3>6 DEF before
  <2> QED
    BY <1>1, <2>1, <2>2
<1>6. LeaseEvents(k)
  BY <1>1 DEF LeaseEvents, LeaseStatus, S, T
<1>7. Holder(k) = {s \in SessionId : ev.session = s /\ ev.status \in {"acquired", "renewed"}}
  BY <1>1, <1>2 DEF Holder, T
<1> QED
  BY <1>5, <1>6, <1>7

\* What the journal says of the lease, the active row included.
LeaseHistory ==
  /\ Succession(events) /\ LeaseEvents(events)
  /\ ActiveSessions = Holder(events)

LEMMA LeaseHistoryKept ==
  ASSUME TypeInv, NEW batch, Appends(batch), LeaseHistory
  PROVE  LeaseHistory'
<1> DEFINE n == Len(events)
           m == Len(events) + Len(batch)
<1>1. /\ n \in Nat /\ Len(batch) \in Nat /\ m \in Nat /\ n <= m
      /\ DOMAIN events = 1..n /\ DOMAIN batch = 1..Len(batch) /\ DOMAIN events' = 1..m
      /\ \A i \in 1..n : events'[i] = events[i]
      /\ \A i \in 1..Len(batch) : events'[n + i] = batch[i]
  <2>1. events' = events \o batch /\ events \in Seq(Event) /\ batch \in Seq(Event)
    BY DEF Appends, WellFormed, Journal, TypeInv, TypeOK
  <2>2. DOMAIN events' = 1..m /\ n \in Nat /\ Len(batch) \in Nat
    BY <2>1
  <2>3. m \in Nat /\ n <= m
    BY <2>2
  <2> QED
    BY <2>2, <2>3, JournalShape DEF Appends
<1>2. Continues(events, n, events', m)
  BY <1>1 DEF Continues
<1>3. CASE Without(batch, "session") /\ ActiveSessions' = ActiveSessions
  <2>1. ASSUME NEW i \in 1..m, i \notin 1..n PROVE events'[i].kind # "session"
    <3>1. i - n \in 1..Len(batch) /\ n + (i - n) = i
      BY <1>1, <2>1
    <3> QED
      BY <1>1, <1>3, <3>1 DEF Without
  <2> HIDE DEF n, m
  <2>2. Succession(events') /\ LeaseEvents(events') /\ Holder(events') = Holder(events)
    BY <1>2, <2>1, NoSessionEvent DEF LeaseHistory
  <2> QED
    BY <1>3, <2>2 DEF LeaseHistory
<1>4. \A s \in SessionId, x \in LeaseStatus :
        /\ SessionEvent(s, x).kind = "session" /\ SessionEvent(s, x).session = s
        /\ SessionEvent(s, x).status = x
  BY DEF SessionEvent, NewEvent
<1>5. ASSUME NEW s \in SessionId, NEW x \in LeaseStatus, batch = <<SessionEvent(s, x)>>,
             \/ x = "acquired" /\ ActiveSessions = {} /\ ActiveSessions' = {s}
             \/ x = "renewed" /\ ActiveSessions = {s} /\ ActiveSessions' = {s}
             \/ x = "released" /\ ActiveSessions = {s} /\ ActiveSessions' = {}
      PROVE  LeaseHistory'
  <2> DEFINE ev == SessionEvent(s, x)
  <2>1. ev.kind = "session" /\ ev.session = s /\ ev.status = x
    BY <1>4
  <2> HIDE DEF ev
  <2>2. batch = <<ev>>
    BY <1>5 DEF ev
  <2>3. Len(batch) = 1 /\ batch[1] = ev
    BY <2>2
  <2>4. m = n + 1 /\ events'[n + 1] = ev
    BY <1>1, <2>3
  <2> HIDE DEF n, m
  <2>5. /\ Succession(events') /\ LeaseEvents(events')
        /\ x \in {"acquired", "renewed"} => Holder(events') = {s}
        /\ x \in {"released", "expired"} => Holder(events') = {}
    <3>1. Continues(events, n, events', n + 1)
      BY <1>2, <2>4
    <3>2. \/ events'[n + 1].status = "acquired" /\ Holder(events) = {}
          \/ /\ events'[n + 1].status \in {"renewed", "released", "expired"}
             /\ Holder(events) = {events'[n + 1].session}
      BY <1>5, <2>1, <2>4 DEF LeaseHistory
    <3>3. events'[n + 1].kind = "session" /\ events'[n + 1].session = s /\ events'[n + 1].status = x
      BY <2>1, <2>4
    <3> QED
      BY <3>1, <3>2, <3>3, OneSessionEvent DEF LeaseHistory
  <2> QED
    BY <1>5, <2>5 DEF LeaseHistory
<1>6. ASSUME NEW s \in SessionId, NEW t \in SessionId,
             batch = <<SessionEvent(t, "expired"), SessionEvent(s, "acquired")>>,
             ActiveSessions = {t}, ActiveSessions' = {s}
      PROVE  LeaseHistory'
  <2> DEFINE x == SessionEvent(t, "expired")
             y == SessionEvent(s, "acquired")
  <2>1. x.kind = "session" /\ x.session = t /\ x.status = "expired"
        /\ y.kind = "session" /\ y.session = s /\ y.status = "acquired"
    BY <1>4 DEF LeaseStatus
  <2> HIDE DEF x, y
  <2>2. batch = <<x, y>>
    BY <1>6 DEF x, y
  <2>3. Len(batch) = 2 /\ batch[1] = x /\ batch[2] = y
    BY <2>2
  <2>4. m = (n + 1) + 1 /\ events'[n + 1] = x /\ events'[(n + 1) + 1] = y
    <3>1. m = n + 2 /\ (n + 1) + 1 = n + 2 /\ 1 \in 1..Len(batch) /\ 2 \in 1..Len(batch)
      BY <1>1, <2>3
    <3> QED
      BY <1>1, <2>3, <3>1
  <2> DEFINE mid == [i \in 1..(n + 1) |-> events'[i]]
  <2>5. Continues(events, n, mid, n + 1) /\ mid[n + 1] = x
    BY <1>1, <2>4 DEF Continues
  <2>6. Continues(mid, n + 1, events', (n + 1) + 1)
    BY <1>1, <2>4 DEF Continues
  <2> HIDE DEF mid, n, m
  <2>7. Succession(mid) /\ LeaseEvents(mid) /\ Holder(mid) = {}
    <3>1. Holder(events) = {mid[n + 1].session} /\ mid[n + 1].status \in {"renewed", "released", "expired"}
      BY <1>6, <2>1, <2>5 DEF LeaseHistory
    <3> QED
      BY <2>1, <2>5, <3>1, OneSessionEvent DEF LeaseHistory
  <2>8. Succession(events') /\ LeaseEvents(events') /\ Holder(events') = {s}
    BY <2>1, <2>4, <2>6, <2>7, OneSessionEvent
  <2> QED
    BY <1>6, <2>8 DEF LeaseHistory
<1>7. CASE LeaseBatch(batch)
  BY <1>5, <1>6, <1>7 DEF LeaseBatch, LeaseStatus
<1> QED
  BY <1>3, <1>7 DEF Appends

\* The lease history can be read off the journal: ownership passes only over a
\* released or an expired event, and the active row is the session named last.
THEOREM JournalTellsTheOwner == Spec => []JournalNamesTheOwner
<1>1. Init => LeaseHistory
  <2> SUFFICES ASSUME Init PROVE LeaseHistory
    OBVIOUS
  <2>1. DOMAIN events = {} /\ DOMAIN sessions = {}
    BY DEF Init, Empty
  <2>2. SessionPositions(events) = {} /\ ActiveSessions = {}
    BY <2>1 DEF SessionPositions, ActiveSessions
  <2> QED
    BY <2>2 DEF LeaseHistory, Succession, LeaseEvents, Holder
<1>2. TypeInv /\ OneOwner /\ LeaseHistory /\ [Next]_vars => LeaseHistory'
  <2> SUFFICES ASSUME TypeInv, OneOwner, LeaseHistory, [Next]_vars PROVE LeaseHistory'
    OBVIOUS
  <2>1. CASE UNCHANGED <<events, executions, attempts, sessions, commands>>
    <3>1. events' = events /\ ActiveSessions' = ActiveSessions
      BY <2>1 DEF ActiveSessions
    <3> QED
      BY <3>1 DEF LeaseHistory
  <2>2. ASSUME NEW batch, Appends(batch) PROVE LeaseHistory'
    BY <2>2, LeaseHistoryKept
  <2> QED
    BY <2>1, <2>2, EveryStepAppends
<1>3. LeaseHistory => JournalNamesTheOwner
  <2>1. SessionEvents = SessionPositions(events)
    BY DEF SessionEvents, SessionPositions
  <2> QED
    BY <2>1, Zenon DEF LeaseHistory, JournalNamesTheOwner, Succession, Holder
<1> QED
  BY <1>1, <1>2, <1>3, TypeInvariant, OneOwnerInvariant, PTL DEF Spec

-----------------------------------------------------------------------------
(* Maintenance.  A rebuild may write rows of a journal that has grown since *)
(* it was read, so the rows are no longer those of the whole journal, as    *)
(* the theorems above have it for the store on its own: what is left is     *)
(* that each of them says what the journal says at the row's                *)
(* last_event_sequence.                                                     *)

\* What the reducers of a rebuild rely on: the lifecycle events of the
\* journal carry what the rows of the models need.
Lifecycle(journal, n) ==
  \A i \in DOMAIN journal :
    /\ journal[i].kind = "attempt" =>
         /\ journal[i].exec \in Execution
         /\ AttemptOf(journal[i]) \in Process \X (Nat \ {0})
         /\ journal[i].status \in AttemptStatus
         /\ journal[i].ord <= n
    /\ journal[i].kind = "execution" =>
         /\ journal[i].status \in ExecutionStatus
         /\ journal[i].status = "pending" => journal[i].ord # 0
    /\ journal[i].kind = "command" => journal[i].status \in {"accepted"} \cup CommandFinal

\* The journal says of a, of c and of e what their rows say.
SaysAttempt(journal, a, row) ==
  /\ row.last + 1 \in DOMAIN journal
  /\ journal[row.last + 1].kind = "attempt"
  /\ AttemptOf(journal[row.last + 1]) = a
  /\ journal[row.last + 1].status = row.status

SaysCommand(journal, c, row) ==
  /\ row.last + 1 \in DOMAIN journal
  /\ journal[row.last + 1].kind = "command"
  /\ journal[row.last + 1].command = c
  /\ journal[row.last + 1].status = row.status

SaysWave(journal, e, row) ==
  /\ row.last + 1 \in DOMAIN journal
  /\ journal[row.last + 1].exec = e
  /\ \E i \in DOMAIN journal :
       /\ i <= row.last + 1
       /\ journal[i].kind = "execution" /\ journal[i].exec = e
       /\ journal[i].status = row.status

AttemptsSaid == \A a \in DOMAIN attempts : SaysAttempt(events, a, attempts[a])
CommandsSaid == \A c \in DOMAIN commands : SaysCommand(events, c, commands[c])
WavesSaid == \A e \in DOMAIN executions : SaysWave(events, e, executions[e])

\* A projection row has applied events up to its cursor, which lies in a
\* journal of n events.
Covers(applied, through, n) ==
  through \in Nat /\ through < n /\ applied \subseteq 0..through

ProjectionFits(row, n) == row = None \/ Covers(row.applied, row.through, n)

\* Where a maintainer may be, with what it holds, while the journal has n
\* events.
CallFits(call, n) ==
  \/ call.at = "idle"
  \/ call.at = "loaded" /\ ProjectionFits(call.base, n)
  \/ call.at = "reduced" /\ n > 0 /\ call.applied \subseteq 0..(n - 1)
  \/ call.at = "writing" /\ Covers(call.applied, call.through, n)
  \/ call.at \in {"ledger", "commands"} /\ call.n \in 0..n
  \/ call.at \in {"attempts", "cursor", "last"} /\ call.seen \in -1..(n - 1)
  \/ call.at = "returned" /\ call.seen <= call.last

StoreInv == TypeInv /\ OneOwner /\ Lifecycle(events, Len(events))
RowsInv == AttemptsSaid /\ CommandsSaid /\ WavesSaid
CallsInv ==
  /\ ProjectionFits(projection, Len(events))
  /\ DOMAIN task = Maintainer
  /\ \A m \in Maintainer : CallFits(task[m], Len(events))

MaintenanceInv == StoreInv /\ RowsInv /\ CallsInv

-----------------------------------------------------------------------------
(* What stays true while the journal grows.                                 *)

Continued(journal, longer) ==
  /\ DOMAIN journal \subseteq DOMAIN longer
  /\ \A i \in DOMAIN journal : longer[i] = journal[i]

LEMMA SaidStill ==
  ASSUME NEW journal, NEW longer, Continued(journal, longer), NEW key, NEW row
  PROVE  /\ SaysAttempt(journal, key, row) => SaysAttempt(longer, key, row)
         /\ SaysCommand(journal, key, row) => SaysCommand(longer, key, row)
         /\ SaysWave(journal, key, row) => SaysWave(longer, key, row)
<1>1. SaysAttempt(journal, key, row) => SaysAttempt(longer, key, row)
  BY DEF Continued, SaysAttempt, AttemptOf
<1>2. SaysCommand(journal, key, row) => SaysCommand(longer, key, row)
  BY DEF Continued, SaysCommand
<1>3. SaysWave(journal, key, row) => SaysWave(longer, key, row)
  BY DEF Continued, SaysWave
<1> QED
  BY <1>1, <1>2, <1>3

LEMMA CallStillFits ==
  ASSUME NEW n \in Nat, NEW m \in Nat, n <= m
  PROVE  /\ \A row : ProjectionFits(row, n) => ProjectionFits(row, m)
         /\ \A call : CallFits(call, n) => CallFits(call, m)
<1>1. ASSUME NEW applied, NEW through, Covers(applied, through, n)
      PROVE  Covers(applied, through, m)
  BY <1>1 DEF Covers
<1>2. \A row : ProjectionFits(row, n) => ProjectionFits(row, m)
  BY <1>1 DEF ProjectionFits
<1>3. 0..n \subseteq 0..m /\ 0..(n - 1) \subseteq 0..(m - 1) /\ -1..(n - 1) \subseteq -1..(m - 1)
      /\ (n > 0 => m > 0)
  OBVIOUS
<1>4. ASSUME NEW call, CallFits(call, n) PROVE CallFits(call, m)
  BY <1>1, <1>2, <1>3, <1>4, Zenon DEF CallFits
<1> QED
  BY <1>2, <1>4

-----------------------------------------------------------------------------
(* Refreshes and ledger reads: steps that leave the store as it is.         *)

\* The greatest of the sequences a reader has seen, -1 among them.
LEMMA GreatestCursor ==
  ASSUME NEW n \in Nat, NEW S, S \subseteq -1..(n - 1), S # {}
  PROVE  Max(S) \in -1..(n - 1)
<1> DEFINE T == {x + 1 : x \in S}
<1>1. T \subseteq 0..n /\ T # {}
  <2>1. \A x \in S : x + 1 \in 0..n /\ x + 1 \in T
    OBVIOUS
  <2> QED
    BY <2>1
<1> HIDE DEF T
<1>2. Max(T) \in T /\ \A y \in T : y <= Max(T)
  BY <1>1, GreatestExists
<1>3. PICK m \in S : Max(T) = m + 1
  BY <1>2 DEF T
<1>4. \A x \in S : m >= x
  <2> TAKE x \in S
  <2>1. x + 1 <= m + 1
    BY <1>2, <1>3 DEF T
  <2> QED
    BY <2>1
<1>5. Max(S) \in S
  BY <1>4 DEF Max
<1> QED
  BY <1>5

\* What a maintainer is at becomes its task.
LEMMA Doing ==
  ASSUME NEW m \in Maintainer, NEW call, Do(m, call), UNCHANGED <<events, projection>>, CallsInv,
         CallFits(call, Len(events))
  PROVE  CallsInv'
BY DEF Do, CallsInv

LEMMA RefreshKeepsCalls ==
  ASSUME TypeInv, CallsInv, NEW m \in Maintainer, Refresh(m), UNCHANGED vars
  PROVE  CallsInv'
<1> DEFINE n == Len(events)
<1>1. n \in Nat /\ LastSequence = n - 1 /\ UNCHANGED events
  BY DEF TypeInv, TypeOK, LastSequence, vars
<1>2. CallFits(task[m], n) /\ ProjectionFits(projection, n) /\ CallFits(Idle, n)
  BY DEF CallsInv, CallFits, Idle
<1> HIDE DEF n
<1>3. CASE LoadProjection(m)
  <2>1. CallFits([at |-> "loaded", base |-> projection], n)
    BY <1>2 DEF CallFits
  <2> QED
    BY <1>1, <1>3, <2>1, Doing DEF LoadProjection, n
<1>4. CASE ReduceEvents(m)
  <2> DEFINE base == task[m].base
             applied == IF base = None THEN {} ELSE base.applied
             pending == ListSince(IF base = None THEN -1 ELSE base.through)
             reduced == [at |-> "reduced", applied |-> applied \cup pending]
  <2>1. ProjectionFits(base, n) /\ UNCHANGED projection
    BY <1>2, <1>4 DEF CallFits, ReduceEvents
  <2>2. applied \subseteq 0..(n - 1)
    BY <1>1, <2>1 DEF ProjectionFits, Covers
  <2>3. pending \subseteq 0..(n - 1)
    BY <1>1 DEF ListSince
  <2>4. ReduceNothing(m, applied, pending) \/ ReducePending(m, applied, pending)
    BY <1>4 DEF ReduceEvents
  <2> HIDE DEF base, applied, pending
  <2>5. CASE ReduceNothing(m, applied, pending)
    BY <1>1, <1>2, <2>1, <2>5, Doing DEF ReduceNothing, n
  <2>6. CASE ReducePending(m, applied, pending)
    <3>1. n > 0
      <4>1. PICK q \in pending : TRUE
        BY <2>6 DEF ReducePending
      <4>2. q \in 0..(n - 1)
        BY <2>3, <4>1
      <4> QED
        BY <1>1, <4>2
    <3>2. CallFits(reduced, n)
      BY <2>2, <2>3, <3>1 DEF CallFits
    <3>3. Do(m, reduced)
      BY <2>6 DEF ReducePending
    <3> HIDE DEF reduced
    <3> QED
      BY <1>1, <2>1, <3>2, <3>3, Doing DEF n
  <2> QED
    BY <2>4, <2>5, <2>6
<1>5. CASE ReadCursor(m)
  <2> DEFINE writing == [at |-> "writing", applied |-> task[m].applied, through |-> LastSequence]
  <2>1. n > 0 /\ task[m].applied \subseteq 0..(n - 1)
    BY <1>2, <1>5 DEF CallFits, ReadCursor
  <2>2. CallFits(writing, n)
    BY <1>1, <2>1 DEF CallFits, Covers
  <2>3. Do(m, writing) /\ UNCHANGED projection
    BY <1>5 DEF ReadCursor
  <2> HIDE DEF writing
  <2> QED
    BY <1>1, <2>2, <2>3, Doing DEF n
<1>6. CASE WriteProjection(m)
  <2> DEFINE row == [applied |-> task[m].applied, through |-> task[m].through]
  <2>1. Covers(task[m].applied, task[m].through, n)
    BY <1>2, <1>6 DEF CallFits, WriteProjection
  <2>2. ProjectionFits(row, n)
    BY <2>1 DEF ProjectionFits
  <2>3. projection' \in {projection, row}
    BY <1>6 DEF WriteProjection
  <2>4. ProjectionFits(projection', n)
    BY <1>2, <2>2, <2>3
  <2>5. task' = [task EXCEPT ![m] = Idle]
    BY <1>6 DEF WriteProjection, Do
  <2> QED
    BY <1>1, <1>2, <2>4, <2>5 DEF CallsInv, n
<1> QED
  BY <1>3, <1>4, <1>5, <1>6 DEF Refresh

LEMMA ReadKeepsCalls ==
  ASSUME TypeInv, RowsInv, CallsInv, NEW m \in Maintainer, ReadLedger(m), UNCHANGED vars
  PROVE  CallsInv'
<1> DEFINE n == Len(events)
<1>1. n \in Nat /\ LastSequence = n - 1 /\ UNCHANGED events /\ DOMAIN events = 1..n
  BY DEF TypeInv, TypeOK, LastSequence, vars
<1>2. CallFits(task[m], n) /\ ProjectionFits(projection, n)
  BY DEF CallsInv
<1>3. Bounds(executions) \subseteq 0..(n - 1)
  <2>1. \A e \in DOMAIN executions : executions[e].last \in Nat /\ executions[e].last + 1 \in 1..n
    BY <1>1 DEF RowsInv, WavesSaid, SaysWave, TypeInv, TypeOK, ExecutionRow
  <2> QED
    BY <1>1, <2>1 DEF Bounds
<1>4. Bounds(attempts) \subseteq 0..(n - 1)
  <2>1. \A a \in DOMAIN attempts : attempts[a].last \in Nat /\ attempts[a].last + 1 \in 1..n
    BY <1>1 DEF RowsInv, AttemptsSaid, SaysAttempt, TypeInv, TypeOK, AttemptRow
  <2> QED
    BY <1>1, <2>1 DEF Bounds
<1> HIDE DEF n
<1>5. CASE ReadExecutionRows(m)
  <2> DEFINE seen == Max(Bounds(executions) \cup {-1})
             call == [at |-> "attempts", seen |-> seen]
  <2>1. seen \in -1..(n - 1)
    <3>1. Bounds(executions) \cup {-1} \subseteq -1..(n - 1)
      BY <1>1, <1>3
    <3> QED
      BY <1>1, <3>1, GreatestCursor
  <2>2. Do(m, call) /\ UNCHANGED projection
    BY <1>5 DEF ReadExecutionRows
  <2> HIDE DEF seen
  <2>3. CallFits(call, n)
    BY <2>1 DEF CallFits
  <2> HIDE DEF call
  <2> QED
    BY <1>1, <2>2, <2>3, Doing DEF n
<1>6. CASE ReadAttemptRows(m)
  <2> DEFINE seen == Max(Bounds(attempts) \cup {task[m].seen})
             call == [at |-> "cursor", seen |-> seen]
  <2>1. seen \in -1..(n - 1)
    <3>1. task[m].seen \in -1..(n - 1)
      BY <1>2, <1>6 DEF CallFits, ReadAttemptRows
    <3>2. Bounds(attempts) \cup {task[m].seen} \subseteq -1..(n - 1)
      BY <1>1, <1>4, <3>1
    <3> QED
      BY <1>1, <3>2, GreatestCursor
  <2>2. Do(m, call) /\ UNCHANGED projection
    BY <1>6 DEF ReadAttemptRows
  <2> HIDE DEF seen
  <2>3. CallFits(call, n)
    BY <2>1 DEF CallFits
  <2> HIDE DEF call
  <2> QED
    BY <1>1, <2>2, <2>3, Doing DEF n
<1>7. CASE ReadProjectionCursor(m)
  <2> DEFINE seen == IF projection = None THEN task[m].seen
                     ELSE Max({projection.through, task[m].seen})
             call == [at |-> "last", seen |-> seen]
  <2>1. task[m].seen \in -1..(n - 1)
    BY <1>2, <1>7 DEF CallFits, ReadProjectionCursor
  <2>2. seen \in -1..(n - 1)
    <3>1. CASE projection = None
      BY <2>1, <3>1
    <3>2. CASE projection # None
      <4>1. projection.through \in -1..(n - 1)
        BY <1>1, <1>2, <3>2 DEF ProjectionFits, Covers
      <4>2. {projection.through, task[m].seen} \subseteq -1..(n - 1)
        BY <2>1, <4>1
      <4> QED
        BY <1>1, <3>2, <4>2, GreatestCursor
    <3> QED
      BY <3>1, <3>2
  <2>3. Do(m, call) /\ UNCHANGED projection
    BY <1>7 DEF ReadProjectionCursor
  <2> HIDE DEF seen
  <2>4. CallFits(call, n)
    BY <2>2 DEF CallFits
  <2> HIDE DEF call
  <2> QED
    BY <1>1, <2>3, <2>4, Doing DEF n
<1>8. CASE ReturnLedger(m)
  <2> DEFINE call == [at |-> "returned", seen |-> task[m].seen, last |-> LastSequence]
  <2>1. task[m].seen \in -1..(n - 1)
    BY <1>2, <1>8 DEF CallFits, ReturnLedger
  <2>2. CallFits(call, n)
    BY <1>1, <2>1 DEF CallFits
  <2>3. Do(m, call) /\ UNCHANGED projection
    BY <1>8 DEF ReturnLedger
  <2> HIDE DEF call
  <2> QED
    BY <1>1, <2>2, <2>3, Doing DEF n
<1> QED
  BY <1>5, <1>6, <1>7, <1>8 DEF ReadLedger

LEMMA BeginKeepsCalls ==
  ASSUME TypeInv, CallsInv, NEW m \in Maintainer, BeginLedgerRebuild(m) \/ BeginCommandRebuild(m),
         UNCHANGED vars
  PROVE  CallsInv'
<1> DEFINE n == Len(events)
           call(x) == [at |-> x, n |-> n]
<1>1. n \in Nat /\ UNCHANGED <<events, projection>>
  BY DEF TypeInv, TypeOK, BeginLedgerRebuild, BeginCommandRebuild, vars
<1>2. Do(m, call("ledger")) \/ Do(m, call("commands"))
  BY DEF BeginLedgerRebuild, BeginCommandRebuild
<1>3. CallFits(call("ledger"), n) /\ CallFits(call("commands"), n)
  BY <1>1 DEF CallFits
<1> HIDE DEF call
<1> QED
  BY <1>1, <1>2, <1>3, Doing

-----------------------------------------------------------------------------
(* A transaction of the store.                                              *)

LEMMA BatchEvents ==
  ASSUME TypeInv, NEW batch, Appends(batch)
  PROVE  Lifecycle(batch, Len(events'))
<1>1. /\ WellFormed(batch) /\ Journal(batch) /\ Len(events) \in Nat
      /\ Len(events') = Len(events) + Len(batch) /\ Len(batch) \in Nat
      /\ DOMAIN batch = 1..Len(batch)
  BY JournalTyped DEF Appends, TypeInv, TypeOK, WellFormed
<1>2. ASSUME NEW i \in DOMAIN batch, batch[i].kind = "attempt"
      PROVE  batch[i].ord <= Len(events')
  <2>1. CASE MakesNoAttempt(batch)
    <3>1. AttemptOf(batch[i])[2] <= Len(events) /\ AttemptOf(batch[i])[2] = batch[i].ord
      BY <1>2, <2>1 DEF MakesNoAttempt, TypeInv, AttemptOf
    <3>2. batch[i].ord \in Nat
      <4>1. batch[i] \in Event
        BY <1>1, <1>2 DEF WellFormed
      <4> QED
        BY <4>1 DEF Event
    <3> QED
      BY <1>1, <3>1, <3>2
  <2>2. CASE AttemptBatch(batch)
    <3>1. PICK p \in Process, e \in Execution, s \in SessionId \cup {None} :
            batch = <<AttemptEvent(<<p, NextOrdinal(p)>>, e, s, "pending"),
                      AttemptEvent(<<p, NextOrdinal(p)>>, e, s, "running")>>
      BY <2>2 DEF AttemptBatch
    <3>2. NextOrdinal(p) \in Nat \ {0} /\ NextOrdinal(p) <= Len(events) + 1
      BY NextOrdinalIsNew
    <3>3. \A status : AttemptEvent(<<p, NextOrdinal(p)>>, e, s, status).ord = NextOrdinal(p)
      BY DEF AttemptEvent, NewEvent
    <3>4. Len(batch) = 2 /\ i \in {1, 2}
      BY <1>1, <1>2, <3>1
    <3>5. batch[i].ord = NextOrdinal(p)
      BY <3>1, <3>3, <3>4
    <3> QED
      BY <1>1, <3>2, <3>4, <3>5
  <2> QED
    BY <2>1, <2>2 DEF Appends
<1>3. ASSUME NEW i \in DOMAIN batch, batch[i].kind = "execution"
      PROVE  /\ batch[i].status \in ExecutionStatus
             /\ batch[i].status = "pending" => batch[i].ord # 0
  <2>1. WaveBatch(batch)
    BY <1>3 DEF Appends, Without
  <2>2. ASSUME NEW e \in Execution, NEW s \in SessionId \cup {None},
               batch = <<[NewEvent("execution", "pending") EXCEPT
                          !.exec = e, !.session = s, !.ord = Cardinality(DOMAIN executions) + 1]>>
        PROVE  batch[i].status = "pending" /\ batch[i].ord # 0
    <3>1. Cardinality(DOMAIN executions) \in Nat
      BY FS_CardinalityType DEF TypeInv
    <3>2. i = 1
      BY <1>3, <2>2
    <3>3. batch[1].status = "pending" /\ batch[1].ord = Cardinality(DOMAIN executions) + 1
      BY <2>2 DEF NewEvent
    <3> QED
      BY <3>1, <3>2, <3>3
  <2>3. ASSUME NEW e \in Execution, NEW status \in ExecutionStatus, TransitionExecution(e, status),
               batch = <<[NewEvent("execution", status) EXCEPT !.exec = e]>>
        PROVE  batch[i].status \in ExecutionStatus /\ batch[i].status # "pending"
    <3>1. i = 1 /\ batch[1].status = status
      BY <1>3, <2>3 DEF NewEvent
    <3>2. status # "pending"
      BY <2>3 DEF TransitionExecution, NextStatuses, ExecutionFinal
    <3> QED
      BY <3>1, <3>2
  <2>4. ASSUME NEW s \in SessionId, NEW as \in AttemptOrder(s), NEW es \in ExecutionOrder(s),
               batch = Interruptions(s, as, es)
        PROVE  batch[i].status = "interrupted"
    <3>1. \A j \in DOMAIN Interruptions(s, as, es) : Interruptions(s, as, es)[j].status = "interrupted"
      BY InterruptionBatch
    <3> QED
      BY <1>3, <2>4, <3>1, Zenon
  <2> QED
    BY <2>1, <2>2, <2>3, <2>4 DEF WaveBatch, ExecutionStatus, ExecutionFinal
<1>4. ASSUME NEW i \in DOMAIN batch, batch[i].kind = "command"
      PROVE  batch[i].status \in {"accepted"} \cup CommandFinal
  <2>1. CommandBatch(batch)
    BY <1>4 DEF Appends, Without
  <2>2. PICK c, e, status : /\ status \in {"accepted"} \cup CommandFinal
                            /\ batch = <<CommandEvent(c, e, status)>>
    BY <2>1 DEF CommandBatch
  <2>3. CommandEvent(c, e, status).status = status
    BY DEF CommandEvent, NewEvent
  <2>4. batch[i].status = status
    BY <1>4, <2>2, <2>3
  <2> QED
    BY <2>2, <2>4
<1> QED
  BY <1>1, <1>2, <1>3, <1>4 DEF Lifecycle, WellFormed

LEMMA AppendKeepsLifecycle ==
  ASSUME TypeInv, NEW batch, Appends(batch), Lifecycle(events, Len(events))
  PROVE  Lifecycle(events', Len(events'))
<1>1. /\ JournalGrows
      /\ \A i \in DOMAIN events' : i \notin DOMAIN events =>
           i - Len(events) \in DOMAIN batch /\ events'[i] = batch[i - Len(events)]
  BY JournalAppends DEF Appends
<1>2. Lifecycle(batch, Len(events'))
  BY BatchEvents
<1>3. /\ Len(events) \in Nat /\ Len(events') \in Nat /\ Len(events) <= Len(events')
      /\ \A i \in DOMAIN events : events[i].ord \in Nat
  <2>1. WellFormed(batch) /\ Journal(batch) /\ TypeOK
    BY DEF Appends, TypeInv
  <2>2. Len(events) \in Nat /\ Len(batch) \in Nat /\ events \in Seq(Event)
    BY <2>1 DEF TypeOK, WellFormed
  <2>3. Len(events') = Len(events) + Len(batch)
    BY <2>1, JournalTyped
  <2>4. \A i \in DOMAIN events : events[i] \in Event
    BY <2>2
  <2>5. \A i \in DOMAIN events : events[i].ord \in Nat
    BY <2>4 DEF Event
  <2> QED
    BY <2>2, <2>3, <2>5
<1> SUFFICES ASSUME NEW i \in DOMAIN events'
             PROVE  /\ events'[i].kind = "attempt" =>
                         /\ events'[i].exec \in Execution
                         /\ AttemptOf(events'[i]) \in Process \X (Nat \ {0})
                         /\ events'[i].status \in AttemptStatus
                         /\ events'[i].ord <= Len(events')
                    /\ events'[i].kind = "execution" =>
                         /\ events'[i].status \in ExecutionStatus
                         /\ events'[i].status = "pending" => events'[i].ord # 0
                    /\ events'[i].kind = "command" =>
                         events'[i].status \in {"accepted"} \cup CommandFinal
  BY DEF Lifecycle
<1>4. CASE i \in DOMAIN events
  <2>1. events'[i] = events[i]
    BY <1>1, <1>4 DEF JournalGrows
  <2>2. events[i].ord \in Nat /\ (events[i].ord <= Len(events) => events[i].ord <= Len(events'))
    BY <1>3, <1>4
  <2> QED
    BY <1>4, <2>1, <2>2, Zenon DEF Lifecycle
<1>5. CASE i \notin DOMAIN events
  BY <1>1, <1>2, <1>5, Zenon DEF Lifecycle
<1> QED
  BY <1>4, <1>5

\* The event at the end of a sequence number that a batch hands out.
LEMMA Handed ==
  ASSUME TypeInv, NEW batch, Appends(batch), NEW i \in DOMAIN batch
  PROVE  /\ SequenceOf(i) = Len(events) + i - 1 /\ SequenceOf(i) + 1 = Len(events) + i
         /\ Len(events) + i \in DOMAIN events' /\ events'[Len(events) + i] = batch[i]
         /\ i \in Nat /\ Len(events) \in Nat
<1>1. WellFormed(batch) /\ Journal(batch)
  BY DEF Appends
<1>2. /\ Len(events) \in Nat /\ Len(batch) \in Nat /\ DOMAIN batch = 1..Len(batch)
      /\ DOMAIN events' = DOMAIN events \cup Behind(Len(events), DOMAIN batch)
      /\ \A j \in DOMAIN batch : events'[Len(events) + j] = batch[j]
  BY <1>1, JournalShape
<1> QED
  BY <1>2 DEF Behind, SequenceOf

LEMMA AppendKeepsAttempts ==
  ASSUME TypeInv, NEW batch, Appends(batch), AttemptsSaid, Continued(events, events')
  PROVE  AttemptsSaid'
<1>1. WellFormed(batch) /\ Journal(batch) /\ batch \in Seq(Event)
  BY DEF Appends, WellFormed
<1>2. /\ DOMAIN attempts' = DOMAIN attempts \cup Named(batch) /\ attempts' = AttemptsAfter(batch)
  BY <1>1 DEF Journal, AttemptsAfter, Named
<1> SUFFICES ASSUME NEW a \in DOMAIN attempts' PROVE SaysAttempt(events', a, attempts'[a])
  BY DEF AttemptsSaid
<1> DEFINE mine == Concerning(batch, a)
           row == IF a \in DOMAIN attempts THEN attempts[a]
                  ELSE [exec |-> batch[Min(mine)].exec, session |-> batch[Min(mine)].session,
                        first |-> SequenceOf(Min(mine)), status |-> "pending", last |-> 0]
<1>3. attempts'[a] = IF mine = {} THEN row
                     ELSE [row EXCEPT !.status = batch[Max(mine)].status, !.last = SequenceOf(Max(mine))]
  BY <1>2 DEF AttemptsAfter, Named
<1>4. CASE mine = {}
  <2>1. a \in DOMAIN attempts
    BY <1>2, <1>4, NamedConcerned
  <2>2. attempts'[a] = attempts[a]
    BY <1>3, <1>4, <2>1
  <2>3. SaysAttempt(events, a, attempts[a])
    BY <2>1 DEF AttemptsSaid
  <2> QED
    BY <2>2, <2>3, SaidStill
<1>5. CASE mine # {}
  <2>1. mine \subseteq DOMAIN batch
    BY DEF Concerning
  <2>2. Max(mine) \in mine
    <3> HIDE DEF mine
    <3> QED
      BY <1>1, <1>5, <2>1, PositionsExtrema
  <2>3. DOMAIN row = {"exec", "session", "status", "first", "last"}
    BY DEF TypeInv, TypeOK, AttemptRow
  <2>4. batch[Max(mine)].kind = "attempt" /\ AttemptOf(batch[Max(mine)]) = a
    BY <2>2 DEF Concerning
  <2> HIDE DEF mine, row
  <2>5. attempts'[a].last = SequenceOf(Max(mine)) /\ attempts'[a].status = batch[Max(mine)].status
    BY <1>3, <1>5, <2>3
  <2>6. /\ SequenceOf(Max(mine)) + 1 \in DOMAIN events'
        /\ events'[SequenceOf(Max(mine)) + 1] = batch[Max(mine)]
    <3>1. Max(mine) \in DOMAIN batch
      BY <2>1, <2>2
    <3> QED
      BY <3>1, Handed
  <2> QED
    BY <2>4, <2>5, <2>6 DEF SaysAttempt
<1> QED
  BY <1>4, <1>5

LEMMA AppendKeepsCommands ==
  ASSUME TypeInv, NEW batch, Appends(batch), CommandsSaid, Continued(events, events')
  PROVE  CommandsSaid'
<1>1. ASSUME NEW c \in DOMAIN commands PROVE SaysCommand(events', c, commands[c])
  BY <1>1, SaidStill DEF CommandsSaid
<1>2. ASSUME NEW c, NEW e, NEW status, batch = <<CommandEvent(c, e, status)>>
      PROVE  /\ SequenceOf(1) + 1 \in DOMAIN events' /\ events'[SequenceOf(1) + 1].kind = "command"
             /\ events'[SequenceOf(1) + 1].command = c /\ events'[SequenceOf(1) + 1].status = status
  <2>1. 1 \in DOMAIN batch /\ batch[1] = CommandEvent(c, e, status)
    BY <1>2
  <2>2. SequenceOf(1) + 1 \in DOMAIN events' /\ events'[SequenceOf(1) + 1] = batch[1]
    BY <2>1, Handed
  <2> QED
    BY <2>1, <2>2 DEF CommandEvent, NewEvent
<1>3. ASSUME NEW c, NEW row, row.last = SequenceOf(1), NEW e,
             batch = <<CommandEvent(c, e, row.status)>>
      PROVE  SaysCommand(events', c, row)
  BY <1>2, <1>3 DEF SaysCommand
<1>4. CASE UNCHANGED commands
  BY <1>1, <1>4 DEF CommandsSaid
<1>5. ASSUME NEW c, NEW e, batch = <<CommandEvent(c, e, "accepted")>>, ReserveCommand(c, e)
      PROVE  CommandsSaid'
  <2> DEFINE row == [exec |-> e, status |-> "accepted", first |-> SequenceOf(1), last |-> SequenceOf(1)]
  <2>1. commands' = Upsert(commands, c, row)
    BY <1>5 DEF ReserveCommand
  <2>2. SaysCommand(events', c, row)
    BY <1>3, <1>5
  <2> HIDE DEF row
  <2> QED
    BY <1>1, <2>1, <2>2 DEF Upsert, CommandsSaid
<1>6. ASSUME NEW c, NEW status, batch = <<CommandEvent(c, commands[c].exec, status)>>,
             FinishCommand(c, status)
      PROVE  CommandsSaid'
  <2>1. /\ c \in DOMAIN commands
        /\ commands' = [commands EXCEPT ![c].status = status, ![c].last = SequenceOf(1)]
    BY <1>6 DEF FinishCommand
  <2>2. commands[c] \in CommandRow
    BY <2>1 DEF TypeInv, TypeOK
  <2>3. /\ DOMAIN commands' = DOMAIN commands
        /\ commands'[c].status = status /\ commands'[c].last = SequenceOf(1)
        /\ \A d \in DOMAIN commands : d # c => commands'[d] = commands[d]
    BY <2>1, <2>2 DEF CommandRow
  <2>4. SaysCommand(events', c, commands'[c])
    BY <1>3, <1>6, <2>3
  <2> QED
    BY <1>1, <2>3, <2>4 DEF CommandsSaid
<1> QED
  BY <1>4, <1>5, <1>6 DEF Appends, CommandBatch

LEMMA AppendKeepsWaves ==
  ASSUME TypeInv, NEW batch, Appends(batch), WavesSaid, Continued(events, events')
  PROVE  WavesSaid'
<1>1. batch \in Seq(Event) /\ Len(events) \in Nat /\ DOMAIN events = 1..Len(events)
      /\ DOMAIN batch = 1..Len(batch) /\ Len(batch) \in Nat
  BY DEF Appends, WellFormed, TypeInv, TypeOK
<1>2. ASSUME NEW e \in DOMAIN executions PROVE SaysWave(events', e, executions[e])
  BY <1>2, SaidStill DEF WavesSaid
<1>3. ASSUME NEW e \in DOMAIN executions
      PROVE  SaysWave(events', e, WaveRow(executions[e], StatusAfter(batch, e), LastAfter(batch, e)))
  <2> DEFINE P == Moves(batch, e)
             Q == Mentions(batch, e)
             status == StatusAfter(batch, e)
             last == LastAfter(batch, e)
             row == WaveRow(executions[e], status, last)
  <2>1. /\ P \subseteq Q /\ Q \subseteq DOMAIN batch
        /\ status = IF P = {} THEN executions[e].status ELSE batch[Max(P)].status
        /\ last = IF Q = {} THEN executions[e].last ELSE SequenceOf(Max(Q))
    BY DEF Moves, Mentions, StatusAfter, LastAfter
  <2>2. row.status = status /\ row.last = last
    BY DEF WaveRow
  <2>3. executions[e].last \in Nat /\ executions[e].last + 1 \in 1..Len(events)
    BY <1>1 DEF TypeInv, TypeOK, ExecutionRow, WavesSaid, SaysWave
  <2>4. PICK i \in DOMAIN events' :
          /\ i <= executions[e].last + 1
          /\ events'[i].kind = "execution" /\ events'[i].exec = e
          /\ events'[i].status = executions[e].status
    BY <1>2 DEF SaysWave
  <2>5. i \in Nat
    BY <1>1 DEF TypeInv, TypeOK, Appends, Journal
  <2>6. \A j \in P : batch[j].kind = "execution" /\ batch[j].exec = e
    BY DEF Moves
  <2>7. \A j \in Q : batch[j].exec = e
    BY DEF Mentions
  <2> HIDE DEF P, Q, status, last, row
  <2>8. ASSUME Q = {} PROVE SaysWave(events', e, row)
    <3>1. status = executions[e].status /\ last = executions[e].last
      BY <2>1, <2>8
    <3> QED
      BY <1>2, <2>2, <3>1 DEF SaysWave
  <2>9. ASSUME Q # {} PROVE SaysWave(events', e, row)
    <3>1. /\ Max(Q) \in Q /\ \A j \in Q : j <= Max(Q)
      <4>1. Q \subseteq 0..Len(batch)
        BY <1>1, <2>1
      <4> QED
        BY <1>1, <2>9, <4>1, GreatestExists
    <3>2. /\ last + 1 = Len(events) + Max(Q) /\ Len(events) + Max(Q) \in DOMAIN events'
          /\ events'[Len(events) + Max(Q)] = batch[Max(Q)] /\ Max(Q) \in Nat
      <4>1. Max(Q) \in DOMAIN batch
        BY <2>1, <3>1
      <4> QED
        BY <2>1, <2>9, <4>1, Handed
    <3>3. events'[last + 1].exec = e /\ last + 1 \in DOMAIN events'
      BY <2>7, <3>1, <3>2
    <3>4. \E k \in DOMAIN events' :
            /\ k <= last + 1
            /\ events'[k].kind = "execution" /\ events'[k].exec = e /\ events'[k].status = status
      <4>1. CASE P = {}
        <5>1. status = executions[e].status
          BY <2>1, <4>1
        <5>2. i <= last + 1
          BY <1>1, <2>3, <2>4, <2>5, <3>2
        <5> QED
          BY <2>4, <5>1, <5>2
      <4>2. CASE P # {}
        <5>1. Max(P) \in P
          <6>1. P \subseteq 0..Len(batch)
            BY <1>1, <2>1
          <6> QED
            BY <1>1, <4>2, <6>1, GreatestExists
        <5>2. Max(P) \in DOMAIN batch /\ Max(P) <= Max(Q) /\ status = batch[Max(P)].status
          BY <2>1, <3>1, <4>2, <5>1
        <5>3. /\ Len(events) + Max(P) \in DOMAIN events' /\ Max(P) \in Nat
              /\ events'[Len(events) + Max(P)] = batch[Max(P)]
          BY <5>2, Handed
        <5>4. Len(events) + Max(P) <= last + 1
          BY <1>1, <3>2, <5>2, <5>3
        <5> QED
          BY <2>6, <5>1, <5>2, <5>3, <5>4
      <4> QED
        BY <4>1, <4>2
    <3> QED
      BY <2>2, <3>3, <3>4 DEF SaysWave
  <2> QED
    BY <2>8, <2>9 DEF row, status, last
<1>4. CASE Follows(batch)
  BY <1>3, <1>4 DEF Follows, WavesSaid
<1>5. ASSUME NEW e \in Execution, NEW s \in SessionId \cup {None}, BeginExecution(e, s),
             batch = <<[NewEvent("execution", "pending") EXCEPT
                        !.exec = e, !.session = s, !.ord = Cardinality(DOMAIN executions) + 1]>>
      PROVE  WavesSaid'
  <2> DEFINE row == [ordinal |-> Cardinality(DOMAIN executions) + 1, session |-> s,
                     status |-> "pending", first |-> SequenceOf(1), last |-> SequenceOf(1)]
  <2>1. e \notin DOMAIN executions /\ executions' = Upsert(ExecutionsAfter(batch), e, row)
    BY <1>5 DEF BeginExecution
  <2>2. /\ 1 \in DOMAIN batch /\ \A i \in DOMAIN batch : i = 1
        /\ batch[1].kind = "execution" /\ batch[1].exec = e /\ batch[1].status = "pending"
    <3> DEFINE ev == [NewEvent("execution", "pending") EXCEPT
                      !.exec = e, !.session = s, !.ord = Cardinality(DOMAIN executions) + 1]
    <3>1. ev.kind = "execution" /\ ev.exec = e /\ ev.status = "pending"
      BY DEF NewEvent
    <3>2. batch = <<ev>>
      BY <1>5
    <3> HIDE DEF ev
    <3> QED
      BY <3>1, <3>2
  <2>3. \A f \in DOMAIN executions : ExecutionsAfter(batch)[f] = executions[f]
    BY <2>1, <2>2 DEF ExecutionsAfter
  <2>4. SaysWave(events', e, row)
    <3>1. SequenceOf(1) + 1 \in DOMAIN events' /\ events'[SequenceOf(1) + 1] = batch[1]
      BY <2>2, Handed
    <3>2. SequenceOf(1) + 1 \in Nat
      BY <1>1 DEF SequenceOf
    <3> QED
      BY <2>2, <3>1, <3>2 DEF SaysWave
  <2>5. DOMAIN ExecutionsAfter(batch) = DOMAIN executions
    BY DEF ExecutionsAfter
  <2> HIDE DEF row
  <2> QED
    BY <1>2, <2>1, <2>3, <2>4, <2>5 DEF Upsert, WavesSaid
<1> QED
  BY <1>4, <1>5, WavesFollow

\* The calls of the store keep the invariant, whatever maintainers are doing.
LEMMA StoreStepKept ==
  ASSUME MaintenanceInv, [Next]_vars, UNCHANGED maintenanceVars
  PROVE  MaintenanceInv'
<1> USE DEF MaintenanceInv, StoreInv, RowsInv
<1>1. TypeInv' /\ OneOwner'
  BY NextTyped, OneOwnerStep
<1>2. Continued(events, events') /\ Len(events) \in Nat /\ Len(events') \in Nat
      /\ Len(events) <= Len(events')
  <2>1. Continued(events, events')
    BY NextGrows DEF HistoryGrows, JournalGrows, Continued
  <2>2. /\ Len(events) \in Nat /\ Len(events') \in Nat
        /\ DOMAIN events = 1..Len(events) /\ DOMAIN events' = 1..Len(events')
    BY <1>1 DEF TypeInv, TypeOK
  <2>3. 1..Len(events) \subseteq 1..Len(events')
    BY <2>1, <2>2 DEF Continued
  <2> QED
    BY <2>1, <2>2, <2>3
<1>3. CallsInv'
  BY <1>2, CallStillFits DEF CallsInv, maintenanceVars
<1>4. CASE UNCHANGED <<events, executions, attempts, sessions, commands>>
  BY <1>1, <1>3, <1>4 DEF AttemptsSaid, CommandsSaid, WavesSaid
<1>5. ASSUME NEW batch, Appends(batch) PROVE MaintenanceInv'
  BY <1>1, <1>2, <1>3, <1>5, AppendKeepsLifecycle, AppendKeepsAttempts, AppendKeepsCommands,
     AppendKeepsWaves
<1> QED
  BY <1>4, <1>5, EveryStepAppends

-----------------------------------------------------------------------------
(* The rows that a rebuild writes.                                          *)

LEMMA Places ==
  ASSUME NEW journal \in Seq(Event), NEW S, S \subseteq DOMAIN journal, S # {}
  PROVE  /\ Min(S) \in S /\ Max(S) \in S /\ \A i \in S : i <= Max(S)
         /\ Min(S) \in DOMAIN journal /\ Max(S) \in DOMAIN journal
         /\ Min(S) - 1 \in Nat /\ Max(S) - 1 \in Nat /\ (Max(S) - 1) + 1 = Max(S)
         /\ Max(S) \in Nat
<1>1. Len(journal) \in Nat /\ DOMAIN journal = 1..Len(journal)
  OBVIOUS
<1>2. S \subseteq Nat /\ S \subseteq 0..Len(journal)
  BY <1>1
<1>3. Min(S) \in S /\ Max(S) \in S /\ \A i \in S : i <= Max(S)
  BY <1>1, <1>2, LeastExists, GreatestExists
<1>4. Min(S) \in 1..Len(journal) /\ Max(S) \in 1..Len(journal)
  BY <1>1, <1>3
<1> QED
  BY <1>1, <1>3, <1>4

\* A rebuild's attempt rows are rows of the models, numbered as the store
\* numbers them, and say what the journal it read says.
LEMMA RebuiltAttemptsSaid ==
  ASSUME NEW journal \in Seq(Event), NEW n, Lifecycle(journal, n)
  PROVE  /\ DOMAIN RebuiltAttempts(journal) \subseteq Process \X (Nat \ {0})
         /\ IsFiniteSet(DOMAIN RebuiltAttempts(journal))
         /\ \A a \in DOMAIN RebuiltAttempts(journal) :
              /\ a[2] <= n
              /\ RebuiltAttempts(journal)[a] \in AttemptRow
              /\ SaysAttempt(journal, a, RebuiltAttempts(journal)[a])
<1> DEFINE J == {j \in DOMAIN journal : journal[j].kind = "attempt"}
           rows == RebuiltAttempts(journal)
<1>1. DOMAIN rows = {AttemptOf(journal[i]) : i \in J}
  BY DEF RebuiltAttempts
<1>2. IsFiniteSet(DOMAIN rows)
  <2>1. Len(journal) \in Nat /\ DOMAIN journal = 1..Len(journal)
    OBVIOUS
  <2>2. IsFiniteSet(J)
    <3>1. IsFiniteSet(1..Len(journal))
      BY <2>1, FS_Interval
    <3> QED
      BY <2>1, <3>1, FS_Subset
  <2> DEFINE f == [i \in J |-> AttemptOf(journal[i])]
  <2>3. f \in Surjection(J, DOMAIN rows)
    BY <1>1 DEF Surjection
  <2> HIDE DEF f, J, rows
  <2> QED
    BY <2>2, <2>3, FS_Surjection
<1>3. ASSUME NEW a \in DOMAIN rows
      PROVE  /\ a \in Process \X (Nat \ {0}) /\ a[2] <= n
             /\ rows[a] \in AttemptRow /\ SaysAttempt(journal, a, rows[a])
  <2> DEFINE mine == Concerning(journal, a)
  <2>1. mine # {} /\ mine \subseteq DOMAIN journal
    BY <1>1 DEF Concerning
  <2>2. /\ Min(mine) \in mine /\ Max(mine) \in mine /\ Max(mine) \in DOMAIN journal
        /\ Min(mine) - 1 \in Nat /\ Max(mine) - 1 \in Nat /\ (Max(mine) - 1) + 1 = Max(mine)
    <3> HIDE DEF mine
    <3> QED
      BY <2>1, Places
  <2>3. \A i \in mine : /\ i \in DOMAIN journal /\ journal[i].kind = "attempt"
                        /\ AttemptOf(journal[i]) = a
    BY DEF Concerning
  <2>4. \A i \in DOMAIN journal : journal[i] \in Event
    OBVIOUS
  <2>5. \A i \in mine : /\ journal[i].exec \in Execution
                        /\ journal[i].session \in SessionId \cup {None}
                        /\ journal[i].status \in AttemptStatus
                        /\ a \in Process \X (Nat \ {0}) /\ a[2] <= n
    <3> TAKE i \in mine
    <3>1. journal[i].session \in SessionId \cup {None}
      BY <2>3, <2>4 DEF Event
    <3>2. a[2] = journal[i].ord
      BY <2>3 DEF AttemptOf
    <3> QED
      BY <2>3, <3>1, <3>2 DEF Lifecycle
  <2>6. rows[a] = [exec |-> journal[Min(mine)].exec, session |-> journal[Min(mine)].session,
                   status |-> journal[Max(mine)].status,
                   first |-> Min(mine) - 1, last |-> Max(mine) - 1]
    BY <2>1, RebuiltAttemptRow
  <2> HIDE DEF mine, rows
  <2>7. rows[a] \in AttemptRow
    BY <2>2, <2>5, <2>6 DEF AttemptRow
  <2>8. rows[a].last + 1 = Max(mine) /\ rows[a].status = journal[Max(mine)].status
    BY <2>2, <2>6
  <2> QED
    BY <2>2, <2>3, <2>5, <2>7, <2>8 DEF SaysAttempt
<1> QED
  BY <1>2, <1>3

LEMMA RebuiltCommandsSaid ==
  ASSUME NEW journal \in Seq(Event), NEW n, Lifecycle(journal, n)
  PROVE  /\ DOMAIN RebuiltCommands(journal) \subseteq Command
         /\ \A c \in DOMAIN RebuiltCommands(journal) :
              /\ RebuiltCommands(journal)[c] \in CommandRow
              /\ SaysCommand(journal, c, RebuiltCommands(journal)[c])
<1> DEFINE rows == RebuiltCommands(journal)
<1>1. /\ DOMAIN rows = {c \in Command : CommandEvents(journal, c) # {}}
      /\ \A c \in Command : CommandEvents(journal, c) # {} =>
           rows[c] = ReceiptFrom(journal, CommandEvents(journal, c))
  BY RebuiltReceipts
<1>2. ASSUME NEW c \in DOMAIN rows
      PROVE  rows[c] \in CommandRow /\ SaysCommand(journal, c, rows[c])
  <2> DEFINE mine == CommandEvents(journal, c)
  <2>1. mine # {} /\ mine \subseteq DOMAIN journal /\ rows[c] = ReceiptFrom(journal, mine)
    BY <1>1 DEF CommandEvents
  <2>2. \A i \in mine : journal[i].kind = "command" /\ journal[i].command = c
    BY DEF CommandEvents
  <2>3. \A i \in DOMAIN journal : journal[i] \in Event
    OBVIOUS
  <2> HIDE DEF mine, rows
  <2>4. /\ Min(mine) \in mine /\ Max(mine) \in mine /\ Max(mine) \in DOMAIN journal
        /\ Min(mine) - 1 \in Nat /\ Max(mine) - 1 \in Nat /\ (Max(mine) - 1) + 1 = Max(mine)
    BY <2>1, Places
  <2>5. journal[Min(mine)].exec \in Execution \cup {None}
    BY <2>1, <2>3, <2>4 DEF Event
  <2>6. journal[Max(mine)].status \in {"accepted"} \cup CommandFinal
    BY <2>2, <2>4 DEF Lifecycle
  <2>7. rows[c] = [exec |-> journal[Min(mine)].exec, status |-> journal[Max(mine)].status,
                   first |-> Min(mine) - 1, last |-> Max(mine) - 1]
    BY <2>1 DEF ReceiptFrom
  <2>8. rows[c] \in CommandRow
    BY <2>4, <2>5, <2>6, <2>7 DEF CommandRow
  <2>9. rows[c].last + 1 = Max(mine) /\ rows[c].status = journal[Max(mine)].status
    BY <2>4, <2>7
  <2> QED
    BY <2>2, <2>4, <2>8, <2>9 DEF SaysCommand
<1> QED
  BY <1>1, <1>2

LEMMA RebuiltWavesSaid ==
  ASSUME NEW journal \in Seq(Event), NEW n, Lifecycle(journal, n)
  PROVE  /\ DOMAIN RebuiltExecutions(journal) \subseteq Execution
         /\ IsFiniteSet(DOMAIN RebuiltExecutions(journal))
         /\ \A e \in DOMAIN RebuiltExecutions(journal) :
              /\ RebuiltExecutions(journal)[e] \in ExecutionRow
              /\ SaysWave(journal, e, RebuiltExecutions(journal)[e])
<1> DEFINE rows == RebuiltExecutions(journal)
           made == {x \in Execution : Created(journal, x) # {}}
<1>1. rows = [e \in made |-> WaveFrom(journal, e)]
  BY RebuiltWaves
<1>2. DOMAIN rows = made /\ \A e \in made : rows[e] = WaveFrom(journal, e)
  BY <1>1
<1>3. IsFiniteSet(made)
  <2>1. Len(journal) \in Nat /\ DOMAIN journal = 1..Len(journal)
    OBVIOUS
  <2> DEFINE f == [i \in 1..Len(journal) |-> journal[i].exec]
             named == {journal[i].exec : i \in 1..Len(journal)}
  <2>2. IsFiniteSet(1..Len(journal))
    BY <2>1, FS_Interval
  <2>3. ASSUME NEW e \in made PROVE e \in named
    <3>1. PICK i \in DOMAIN journal : journal[i].exec = e
      BY DEF Created
    <3> QED
      BY <2>1, <3>1
  <2>4. f \in Surjection(1..Len(journal), named)
    BY DEF Surjection
  <2> HIDE DEF f, named
  <2>5. IsFiniteSet(named)
    BY <2>2, <2>4, FS_Surjection
  <2> QED
    BY <2>3, <2>5, FS_Subset
<1>4. ASSUME NEW e \in made
      PROVE  rows[e] \in ExecutionRow /\ SaysWave(journal, e, rows[e])
  <2> DEFINE C == Created(journal, e)
             M == Moves(journal, e)
             N == Mentions(journal, e)
  <2>1. C # {} /\ C \subseteq M /\ M \subseteq N /\ N \subseteq DOMAIN journal
    BY DEF Created, Moves, Mentions
  <2>2. /\ \A i \in C : journal[i].kind = "execution" /\ journal[i].status = "pending"
        /\ \A i \in M : journal[i].kind = "execution" /\ journal[i].exec = e
        /\ \A i \in N : journal[i].exec = e
    BY DEF Created, Moves, Mentions
  <2>3. \A i \in DOMAIN journal : journal[i] \in Event
    OBVIOUS
  <2>4. rows[e] = [ordinal |-> journal[Min(C)].ord, session |-> journal[Min(C)].session,
                   status |-> journal[Max(M)].status,
                   first |-> Min(C) - 1, last |-> Max(N) - 1]
    BY <1>2 DEF WaveFrom
  <2> HIDE DEF C, M, N, rows
  <2>5. /\ Min(C) \in C /\ Min(C) \in DOMAIN journal /\ Min(C) - 1 \in Nat
        /\ Max(M) \in M /\ Max(M) \in DOMAIN journal
        /\ Max(N) \in N /\ Max(N) \in DOMAIN journal /\ \A i \in N : i <= Max(N)
        /\ Max(N) - 1 \in Nat /\ (Max(N) - 1) + 1 = Max(N)
    <3>1. C \subseteq DOMAIN journal /\ M \subseteq DOMAIN journal /\ M # {} /\ N # {}
      BY <2>1
    <3>2. Min(C) \in C /\ Min(C) \in DOMAIN journal /\ Min(C) - 1 \in Nat
      BY <2>1, <3>1, Places
    <3>3. Max(M) \in M /\ Max(M) \in DOMAIN journal
      BY <3>1, Places
    <3> QED
      BY <2>1, <3>1, <3>2, <3>3, Places
  <2>6. journal[Min(C)].ord \in Nat /\ journal[Min(C)].session \in SessionId \cup {None}
    BY <2>3, <2>5 DEF Event
  <2>7. journal[Min(C)].ord # 0 /\ journal[Max(M)].status \in ExecutionStatus
    BY <2>2, <2>5 DEF Lifecycle
  <2>8. rows[e] \in ExecutionRow
    BY <2>4, <2>5, <2>6, <2>7 DEF ExecutionRow
  <2>9. rows[e].last + 1 = Max(N) /\ rows[e].status = journal[Max(M)].status
    BY <2>4, <2>5
  <2>10. Max(M) <= Max(N)
    BY <2>1, <2>5
  <2> QED
    BY <2>2, <2>5, <2>8, <2>9, <2>10 DEF SaysWave
<1> QED
  BY <1>2, <1>3, <1>4

\* The journal that a rebuild read is how the journal of now began.
LEMMA JournalRead ==
  ASSUME StoreInv, NEW n \in 0..Len(events)
  PROVE  /\ Read(n) \in Seq(Event) /\ Continued(Read(n), events)
         /\ Lifecycle(Read(n), Len(events))
<1>1. events \in Seq(Event) /\ Len(events) \in Nat /\ DOMAIN events = 1..Len(events)
  BY DEF StoreInv, TypeInv, TypeOK
<1>2. /\ Read(n) \in Seq(Event) /\ DOMAIN Read(n) = 1..n
      /\ \A i \in 1..n : Read(n)[i] = events[i]
  BY <1>1 DEF Read
<1>3. Continued(Read(n), events)
  BY <1>1, <1>2 DEF Continued
<1> QED
  BY <1>2, <1>3, Zenon DEF Continued, Lifecycle, StoreInv

\* A rebuild leaves a maintainer idle and every other call where it was.
LEMMA RebuildDone ==
  ASSUME CallsInv, NEW m \in Maintainer, Do(m, Idle), UNCHANGED <<events, projection>>
  PROVE  CallsInv'
<1>1. CallFits(Idle, Len(events))
  BY DEF CallFits, Idle
<1> QED
  BY <1>1, Doing

LEMMA ReplaceLedgerKept ==
  ASSUME MaintenanceInv, NEW m \in Maintainer, ReplaceLedger(m)
  PROVE  MaintenanceInv'
<1> USE DEF MaintenanceInv
<1> DEFINE journal == Read(task[m].n)
<1>1. /\ UNCHANGED <<events, specs, sessions, commands, clock, projection>> /\ Do(m, Idle)
      /\ task[m].at = "ledger"
  BY DEF ReplaceLedger
<1>2. CallsInv'
  BY <1>1, RebuildDone
<1>3. task[m].n \in 0..Len(events)
  <2>1. CallFits(task[m], Len(events))
    BY DEF CallsInv
  <2> QED
    BY <1>1, <2>1 DEF CallFits
<1>4. journal \in Seq(Event) /\ Continued(journal, events) /\ Lifecycle(journal, Len(events))
  BY <1>3, JournalRead
<1>5. OneOwner' /\ Lifecycle(events, Len(events))' /\ CommandsSaid'
  BY <1>1 DEF StoreInv, OneOwner, ActiveSessions, RowsInv, CommandsSaid
<1>6. CASE UNCHANGED <<executions, attempts>>
  BY <1>1, <1>2, <1>5, <1>6 DEF StoreInv, TypeInv, TypeOK, RowsInv, AttemptsSaid, WavesSaid
<1>7. CASE executions' = RebuiltExecutions(journal) /\ attempts' = RebuiltAttempts(journal)
  <2> HIDE DEF journal
  <2>1. /\ DOMAIN executions' \subseteq Execution /\ IsFiniteSet(DOMAIN executions')
        /\ \A e \in DOMAIN executions' :
             executions'[e] \in ExecutionRow /\ SaysWave(journal, e, executions'[e])
    BY <1>4, <1>7, RebuiltWavesSaid
  <2>2. /\ DOMAIN attempts' \subseteq Process \X (Nat \ {0}) /\ IsFiniteSet(DOMAIN attempts')
        /\ \A a \in DOMAIN attempts' :
             /\ a[2] <= Len(events) /\ attempts'[a] \in AttemptRow
             /\ SaysAttempt(journal, a, attempts'[a])
    BY <1>4, <1>7, RebuiltAttemptsSaid
  <2>3. WavesSaid' /\ AttemptsSaid'
    BY <1>1, <1>4, <2>1, <2>2, SaidStill DEF WavesSaid, AttemptsSaid
  <2>4. TypeInv'
    BY <1>1, <2>1, <2>2 DEF StoreInv, TypeInv, TypeOK
  <2> QED
    BY <1>2, <1>5, <2>3, <2>4 DEF StoreInv, RowsInv
<1> QED
  BY <1>6, <1>7 DEF ReplaceLedger

LEMMA ReplaceCommandsKept ==
  ASSUME MaintenanceInv, NEW m \in Maintainer, ReplaceCommands(m)
  PROVE  MaintenanceInv'
<1> USE DEF MaintenanceInv
<1> DEFINE journal == Read(task[m].n)
<1>1. /\ UNCHANGED <<events, specs, executions, attempts, sessions, clock, projection>>
      /\ Do(m, Idle) /\ task[m].at = "commands" /\ commands' = RebuiltCommands(journal)
  BY DEF ReplaceCommands
<1>2. CallsInv'
  BY <1>1, RebuildDone
<1>3. task[m].n \in 0..Len(events)
  <2>1. CallFits(task[m], Len(events))
    BY DEF CallsInv
  <2> QED
    BY <1>1, <2>1 DEF CallFits
<1>4. journal \in Seq(Event) /\ Continued(journal, events) /\ Lifecycle(journal, Len(events))
  BY <1>3, JournalRead
<1> HIDE DEF journal
<1>5. /\ DOMAIN commands' \subseteq Command
      /\ \A c \in DOMAIN commands' :
           commands'[c] \in CommandRow /\ SaysCommand(journal, c, commands'[c])
  BY <1>1, <1>4, RebuiltCommandsSaid
<1>6. CommandsSaid'
  BY <1>1, <1>4, <1>5, SaidStill DEF CommandsSaid
<1>7. TypeInv'
  BY <1>1, <1>5 DEF StoreInv, TypeInv, TypeOK
<1> QED
  BY <1>1, <1>2, <1>6, <1>7
     DEF StoreInv, OneOwner, ActiveSessions, RowsInv, AttemptsSaid, WavesSaid

-----------------------------------------------------------------------------
(* The invariant of the whole specification and what follows from it.       *)

LEMMA MaintenanceBegins == MaintenanceInit => MaintenanceInv
<1> SUFFICES ASSUME MaintenanceInit PROVE MaintenanceInv
  OBVIOUS
<1>1. /\ Init /\ projection = None /\ task = [m \in Maintainer |-> Idle]
      /\ DOMAIN events = {} /\ DOMAIN attempts = {} /\ DOMAIN executions = {}
      /\ DOMAIN commands = {} /\ DOMAIN sessions = {}
  BY DEF MaintenanceInit, Init, Empty
<1>2. StoreInv
  BY <1>1, InitTyped DEF StoreInv, Lifecycle, OneOwner, ActiveSessions
<1>3. RowsInv
  BY <1>1 DEF RowsInv, AttemptsSaid, CommandsSaid, WavesSaid
<1>4. CallsInv
  BY <1>1 DEF CallsInv, ProjectionFits, CallFits, Idle
<1> QED
  BY <1>2, <1>3, <1>4 DEF MaintenanceInv

LEMMA MaintenanceKept ==
  MaintenanceInv /\ [MaintenanceNext]_<<vars, maintenanceVars>> => MaintenanceInv'
<1> SUFFICES ASSUME MaintenanceInv, [MaintenanceNext]_<<vars, maintenanceVars>>
             PROVE  MaintenanceInv'
  OBVIOUS
<1>1. CASE [Next]_vars /\ UNCHANGED maintenanceVars
  BY <1>1, StoreStepKept
<1>2. ASSUME NEW m \in Maintainer, UNCHANGED vars,
             Refresh(m) \/ ReadLedger(m) \/ BeginLedgerRebuild(m) \/ BeginCommandRebuild(m)
      PROVE  MaintenanceInv'
  <2>1. CallsInv'
    BY <1>2, RefreshKeepsCalls, ReadKeepsCalls, BeginKeepsCalls DEF MaintenanceInv, StoreInv
  <2>2. StoreInv' /\ RowsInv'
    BY <1>2 DEF vars, MaintenanceInv, StoreInv, TypeInv, TypeOK, OneOwner, ActiveSessions, RowsInv,
                AttemptsSaid, CommandsSaid, WavesSaid
  <2> QED
    BY <2>1, <2>2 DEF MaintenanceInv
<1>3. ASSUME NEW m \in Maintainer, ReplaceLedger(m) \/ ReplaceCommands(m)
      PROVE  MaintenanceInv'
  BY <1>3, ReplaceLedgerKept, ReplaceCommandsKept
<1> QED
  BY <1>1, <1>2, <1>3 DEF MaintenanceNext

LEMMA MaintenanceInvariant == MaintenanceSpec => []MaintenanceInv
  BY MaintenanceBegins, MaintenanceKept, PTL DEF MaintenanceSpec

\* The errors inside refresh_projection never surface, however refreshes,
\* rebuilds and store calls interleave: the projection that a refresh has
\* loaded ends at its cursor, the events it lists lie behind it, and the
\* cursor it reads for its row stays within the growing journal.
THEOREM RefreshesSucceed == MaintenanceSpec => []RefreshNeverRaises
<1>1. MaintenanceInv => RefreshNeverRaises
  <2> SUFFICES ASSUME MaintenanceInv, NEW m \in Maintainer
               PROVE  /\ task[m].at = "loaded" /\ task[m].base # None =>
                           Advances(task[m].base.applied, ListSince(task[m].base.through))
                      /\ task[m].at = "writing" => task[m].through <= LastSequence
    BY DEF RefreshNeverRaises
  <2>1. CallFits(task[m], Len(events)) /\ Len(events) \in Nat
    BY DEF MaintenanceInv, CallsInv, StoreInv, TypeInv, TypeOK
  <2>2. ASSUME task[m].at = "loaded", task[m].base # None
        PROVE  Advances(task[m].base.applied, ListSince(task[m].base.through))
    <3>1. Covers(task[m].base.applied, task[m].base.through, Len(events))
      BY <2>1, <2>2 DEF CallFits, ProjectionFits
    <3> QED
      BY <2>1, <3>1 DEF Covers, Advances, ListSince, LastSequence
  <2>3. ASSUME task[m].at = "writing" PROVE task[m].through <= LastSequence
    <3>1. Covers(task[m].applied, task[m].through, Len(events))
      BY <2>1, <2>3 DEF CallFits
    <3> QED
      BY <2>1, <3>1 DEF Covers, LastSequence
  <2> QED
    BY <2>2, <2>3
<1> QED
  BY <1>1, MaintenanceInvariant, PTL

\* "The ledger is a rebuildable materialized index, not a second source of
\* truth": rows written from a journal that has since grown included, every
\* row names an event of the journal that says what the row says.
THEOREM RowsFollowTheJournal == MaintenanceSpec => []RowsAreJournaled
<1>1. MaintenanceInv => RowsAreJournaled
  <2> SUFFICES ASSUME MaintenanceInv PROVE RowsAreJournaled
    OBVIOUS
  <2>1. TypeInv /\ AttemptsSaid /\ CommandsSaid /\ WavesSaid
    BY DEF MaintenanceInv, StoreInv, RowsInv
  <2>2. ASSUME NEW e \in DOMAIN executions
        PROVE  /\ events[executions[e].last + 1].exec = e
               /\ \E i \in 1 .. executions[e].last + 1 :
                    events[i].kind = "execution" /\ events[i].exec = e
                      /\ events[i].status = executions[e].status
    <3>1. executions[e].last \in Nat /\ DOMAIN events = 1..Len(events) /\ Len(events) \in Nat
      BY <2>1 DEF TypeInv, TypeOK, ExecutionRow
    <3>2. SaysWave(events, e, executions[e])
      BY <2>1 DEF WavesSaid
    <3>3. PICK i \in DOMAIN events :
            /\ i <= executions[e].last + 1
            /\ events[i].kind = "execution" /\ events[i].exec = e
            /\ events[i].status = executions[e].status
      BY <3>2 DEF SaysWave
    <3>4. i \in 1 .. executions[e].last + 1
      BY <3>1, <3>3
    <3> QED
      BY <3>2, <3>3, <3>4 DEF SaysWave
  <2> QED
    BY <2>1, <2>2 DEF AttemptsSaid, CommandsSaid, SaysAttempt, SaysCommand, RowsAreJournaled
<1> QED
  BY <1>1, MaintenanceInvariant, PTL

\* The rows and the projection cursor of one ledger() call, each read at a
\* time of its own, never lie past the last_event_sequence it returns.
THEOREM LedgersAreBehindTheirCursor == MaintenanceSpec => []LedgerBehindItsCursor
<1>1. MaintenanceInv => LedgerBehindItsCursor
  BY DEF MaintenanceInv, CallsInv, CallFits, LedgerBehindItsCursor
<1> QED
  BY <1>1, MaintenanceInvariant, PTL

\* Rows that a rebuild wrote are rows of the models too, also when later
\* transactions move them.
THEOREM RebuiltRowsAreTyped == MaintenanceSpec => []TypeOK
<1>1. MaintenanceInv => TypeOK
  BY DEF MaintenanceInv, StoreInv, TypeInv
<1> QED
  BY <1>1, MaintenanceInvariant, PTL

=============================================================================
