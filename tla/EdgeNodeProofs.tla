--------------------------- MODULE EdgeNodeProofs ---------------------------
(***************************************************************************)
(* The safety properties of EdgeNode for every machine, every number of    *)
(* commands and either back end.                                           *)
(***************************************************************************)
EXTENDS EdgeNode, IntervalTheorems, Integers

Calls == {"none", "join", "close", "pull", "release", "kill"}
Driver == [at: {"idle", "look", "step"}, left: Int]
Outcome == {"none", "pending", "ok", "error", "cancelled"}
Ops == Commands \cup {[do |-> "pull"]}

TypeInv ==
  /\ ops \in Seq(Ops) /\ Len(ops) <= MaxCommands
  /\ queue \in Seq(0..Len(ops)) /\ running \in 0..Len(ops)
  /\ worker \in {"alive", "ended"} /\ late \in Nat
  /\ outcome \in [Numbers -> Outcome]
  /\ pending \subseteq 1..Len(ops)
  /\ client \in [call: Calls, batch: SUBSET (1..Len(ops)), of: 0..Len(ops), driver: Driver]

\* What the client holds of the futures it has taken from the pending set: a
\* pull has joined them when it reads, a close that raised has put the rest
\* back, and a kill only looks at them.
WaitInv ==
  /\ client.call = "none" => client.batch = {} /\ client.of = Nothing
  /\ client.of # Nothing =>
       client.call = "pull" /\ \A i \in client.batch : outcome[i] = "ok"
  /\ client.call = "release" => \A i \in client.batch : Done(i) \/ i \in pending
  /\ client.call = "kill" => client.batch \subseteq pending
  /\ NothingForgotten

-----------------------------------------------------------------------------

\* Initially there is no command.
LEMMA InitWaits == Init => TypeInv /\ WaitInv
<1> SUFFICES ASSUME Init PROVE TypeInv /\ WaitInv
  OBVIOUS
<1>1. Len(ops) = 0 /\ ops = <<>> /\ queue = <<>>
  BY DEF Init
<1>2. TypeInv
  <2>1. ops \in Seq(Ops) /\ queue \in Seq(0..Len(ops)) /\ Len(ops) <= MaxCommands
    BY <1>1, EdgeNodeAssumption
  <2>2. outcome \in [Numbers -> Outcome]
    BY DEF Init, Outcome
  <2>3. client \in [call: Calls, batch: SUBSET (1..Len(ops)), of: 0..Len(ops), driver: Driver]
    BY <1>1 DEF Init, Free, Idle, Nothing, Calls, Driver
  <2>4. /\ running \in 0..Len(ops) /\ worker \in {"alive", "ended"}
        /\ late \in Nat /\ pending \subseteq 1..Len(ops)
    BY <1>1 DEF Init, Nothing
  <2> QED
    BY <2>1, <2>2, <2>3, <2>4 DEF TypeInv
<1>3. WaitInv
  BY <1>1 DEF Init, WaitInv, Nothing, Free, NothingForgotten
<1> QED
  BY <1>2, <1>3

\* The outcome of a command is one of two.
LEMMA EffectOutcome ==
  ASSUME NEW op \in Ops, NEW e \in Effects(op)
  PROVE  e.outcome \in {"ok", "error"}
<1>1. op.do \in {"start", "step", "apply", "pull"}
  BY DEF Ops, Commands
<1> QED
  BY <1>1 DEF Effects

\* A submitted command gets the next number.
LEMMA SubmittedTypes ==
  ASSUME TypeInv, NEW op \in Ops, Submitted(op)
  PROVE  /\ ops' \in Seq(Ops) /\ Len(ops') = Len(ops) + 1 /\ Len(ops') <= MaxCommands
         /\ queue' \in Seq(0..Len(ops'))
         /\ outcome' = [outcome EXCEPT ![Len(ops')] = "pending"]
         /\ outcome' \in [Numbers -> Outcome]
         /\ \A i \in 1..Len(ops) : outcome'[i] = outcome[i]
         /\ DOMAIN ops' = 1..Len(ops) + 1 /\ DOMAIN ops = 1..Len(ops)
         /\ Len(ops) \in Nat /\ Len(ops') \in Numbers
<1>1. ops' \in Seq(Ops) /\ Len(ops') = Len(ops) + 1 /\ Len(ops) \in Nat
  BY DEF Submitted, TypeInv
<1>2. Len(ops') <= MaxCommands /\ Len(ops') \in Numbers
  BY <1>1, EdgeNodeAssumption DEF Submitted, TypeInv, Numbers
<1>3. queue' \in Seq(0..Len(ops'))
  <2>1. queue \in Seq(0..Len(ops')) /\ Len(ops') \in 0..Len(ops')
    BY <1>1 DEF TypeInv
  <2> QED
    BY <2>1 DEF Submitted
<1>4. outcome' = [outcome EXCEPT ![Len(ops')] = "pending"]
  BY DEF Submitted
<1> QED
  BY <1>1, <1>2, <1>3, <1>4 DEF TypeInv, Outcome, Numbers


\* The worker settles what is pending, and nothing that is settled changes.
LEMMA WorkerWaits ==
  ASSUME TypeInv, WaitInv, Begin \/ Finish
  PROVE  TypeInv' /\ WaitInv'
<1>1. CASE Begin
  <2>1. queue' \in Seq(0..Len(ops)) /\ Head(queue) \in 0..Len(ops)
    BY <1>1 DEF Begin, TypeInv
  <2>2. UNCHANGED <<ops, outcome, pending, client>>
    BY <1>1 DEF Begin
  <2>3. running' \in 0..Len(ops) /\ worker' \in {"alive", "ended"} /\ late' \in Nat
    BY <1>1, <2>1 DEF Begin, TypeInv
  <2>4. TypeInv'
    BY <2>1, <2>2, <2>3 DEF TypeInv
  <2>5. WaitInv'
    BY <2>2 DEF WaitInv, NothingForgotten, Done
  <2> QED
    BY <2>4, <2>5
<1>2. CASE Finish
  <2>1. UNCHANGED <<ops, queue, pending, client, late>> /\ running' = 0
    BY <1>2 DEF Finish, Nothing
  <2>2. running \in 1..Len(ops) /\ running \in Numbers /\ ops[running] \in Ops
    BY <1>2, EdgeNodeAssumption DEF Finish, TypeInv, Nothing, Numbers
  <2>3. PICK o \in {"ok", "error"} : Settle(o)
    BY <1>2, <2>2, EffectOutcome DEF Finish
  <2>4. /\ outcome' \in [Numbers -> Outcome] /\ worker' \in {"alive", "ended"}
        /\ \A i \in Numbers : outcome[i] # "pending" => outcome'[i] = outcome[i]
    BY <2>2, <2>3 DEF Settle, TypeInv, Outcome
  <2>5. Len(ops) \in Nat /\ DOMAIN ops = 1..Len(ops) /\ 1..Len(ops) \subseteq Numbers
    BY EdgeNodeAssumption DEF TypeInv, Numbers
  <2>6. TypeInv'
    BY <2>1, <2>4, <2>5 DEF TypeInv
  <2>7. client.batch \subseteq Numbers
    BY <2>5 DEF TypeInv
  <2>8. WaitInv'
    BY <2>1, <2>4, <2>5, <2>7 DEF WaitInv, NothingForgotten, Done
  <2> QED
    BY <2>6, <2>8
<1> QED
  BY <1>1, <1>2

\* What a call leaves of client has the fields of client.
LEMMA ClientTypes ==
  ASSUME TypeInv
  PROVE  /\ client = [call |-> client.call, batch |-> client.batch, of |-> client.of,
                      driver |-> client.driver]
         /\ client.call \in Calls /\ client.batch \subseteq 1..Len(ops)
         /\ client.of \in 0..Len(ops) /\ client.driver \in Driver
         /\ Free = [call |-> "none", batch |-> {}, of |-> 0, driver |-> Idle]
         /\ Idle \in Driver
         /\ Len(ops) \in Nat /\ DOMAIN ops = 1..Len(ops) /\ 1..Len(ops) \subseteq Numbers
         /\ \A d \in Driver : Looked(d) \in Driver
<1>1. Idle \in Driver
  BY DEF Idle, Driver
<1>2. Free = [call |-> "none", batch |-> {}, of |-> 0, driver |-> Idle]
  BY DEF Free, Nothing
<1>3. \A d \in Driver : Looked(d) \in Driver
  BY <1>1 DEF Looked, Driver
<1>4. client \in [call: Calls, batch: SUBSET (1..Len(ops)), of: 0..Len(ops), driver: Driver]
  BY DEF TypeInv
<1>5. Len(ops) \in Nat /\ DOMAIN ops = 1..Len(ops) /\ 1..Len(ops) \subseteq Numbers
  BY EdgeNodeAssumption DEF TypeInv, Numbers
<1>6. /\ client = [call |-> client.call, batch |-> client.batch, of |-> client.of,
                   driver |-> client.driver]
      /\ client.call \in Calls /\ client.batch \subseteq 1..Len(ops)
      /\ client.of \in 0..Len(ops) /\ client.driver \in Driver
  BY <1>4
<1> QED
  BY <1>1, <1>2, <1>3, <1>5, <1>6

\* Calls that take the pending futures, and what they submit.
LEMMA CallWaits ==
  ASSUME TypeInv, WaitInv, NEW call \in {"join", "pull", "close"}, NEW driver \in Driver,
         client.call = "none", Call(call, driver)
  PROVE  TypeInv' /\ WaitInv'
<1>1. client' = [call |-> call, batch |-> pending, of |-> 0, driver |-> driver] /\ pending' = {}
  BY DEF Call, Calling, Nothing
<1>2. UNCHANGED <<ops, queue, running, worker, outcome, late>>
  BY DEF Call
<1>3. client' \in [call: Calls, batch: SUBSET (1..Len(ops)), of: 0..Len(ops), driver: Driver]
  BY <1>1, ClientTypes DEF TypeInv, Calls
<1>4. TypeInv'
  BY <1>1, <1>2, <1>3 DEF TypeInv
<1>5. WaitInv'
  BY <1>1, <1>2 DEF WaitInv, NothingForgotten, Done, Nothing
<1> QED
  BY <1>4, <1>5


\* A submitted command is in the pending set, in the batch of the join that
\* follows at once, or the one a pull waits for.
LEMMA SubmissionWaits ==
  ASSUME TypeInv, WaitInv, NEW op \in Ops, Submitted(op),
         UNCHANGED <<running, worker, late>>,
         \/ client.call = "none" /\ pending' = pending \cup {Len(ops')} /\ UNCHANGED client
         \/ /\ client.call = "none" /\ pending' = {}
            /\ \E d \in Driver : client' = Calling("join", pending \cup {Len(ops')}, d)
         \/ /\ client.call = "pull" /\ Joined /\ UNCHANGED pending
            /\ client' = [client EXCEPT !.of = Len(ops')]
  PROVE  TypeInv' /\ WaitInv'
<1> DEFINE n == Len(ops')
<1>1. /\ ops' \in Seq(Ops) /\ n = Len(ops) + 1 /\ n <= MaxCommands
      /\ queue' \in Seq(0..n) /\ outcome' = [outcome EXCEPT ![n] = "pending"]
      /\ outcome' \in [Numbers -> Outcome]
      /\ \A i \in 1..Len(ops) : outcome'[i] = outcome[i]
      /\ DOMAIN ops' = 1..n /\ DOMAIN ops = 1..Len(ops) /\ Len(ops) \in Nat /\ n \in Numbers
  BY SubmittedTypes
<1> HIDE DEF n
<1>2. /\ 1..Len(ops) \subseteq 1..n /\ n \in 1..n /\ n \in Nat /\ n # 0
      /\ 0..Len(ops) \subseteq 0..n
      /\ \A i \in 1..n : i # n => i \in 1..Len(ops)
  BY <1>1
<1>3. /\ running' \in 0..n /\ worker' \in {"alive", "ended"} /\ late' \in Nat
  BY <1>2 DEF TypeInv
<1>4. /\ pending \subseteq 1..Len(ops) /\ client.batch \subseteq 1..Len(ops)
      /\ client.of \in 0..Len(ops) /\ client.driver \in Driver
      /\ client = [call |-> client.call, batch |-> client.batch, of |-> client.of,
                   driver |-> client.driver]
  BY ClientTypes DEF TypeInv
<1>5. \A i \in DOMAIN ops : ~Done(i) => i \in pending \cup client.batch \cup {client.of}
  BY DEF WaitInv, NothingForgotten
<1>6. CASE client.call = "none" /\ pending' = pending \cup {n} /\ UNCHANGED client
  <2>1. client.batch = {} /\ client.of = 0
    BY <1>6 DEF WaitInv, Nothing
  <2>2. client' \in [call: Calls, batch: SUBSET (1..n), of: 0..n, driver: Driver]
    BY <1>2, <1>4, <1>6, <2>1 DEF Calls
  <2>3. TypeInv'
    BY <1>1, <1>2, <1>3, <1>4, <1>6, <2>2 DEF TypeInv, n
  <2>4. NothingForgotten'
    BY <1>1, <1>2, <1>5, <1>6, <2>1 DEF NothingForgotten, Done
  <2>5. WaitInv'
    BY <1>6, <2>1, <2>4 DEF WaitInv, Nothing
  <2> QED
    BY <2>3, <2>5
<1>7. CASE /\ client.call = "none" /\ pending' = {}
           /\ \E d \in Driver : client' = Calling("join", pending \cup {n}, d)
  <2>1. client.batch = {} /\ client.of = 0
    BY <1>7 DEF WaitInv, Nothing
  <2>2. PICK d \in Driver :
          client' = [call |-> "join", batch |-> pending \cup {n}, of |-> 0, driver |-> d]
    BY <1>7 DEF Calling, Nothing
  <2>3. client' \in [call: Calls, batch: SUBSET (1..n), of: 0..n, driver: Driver]
    BY <1>2, <1>4, <2>2 DEF Calls
  <2>4. TypeInv'
    BY <1>1, <1>2, <1>3, <1>7, <2>3 DEF TypeInv, n
  <2>5. client'.batch = pending \cup {n} /\ client'.of = 0 /\ client'.call = "join"
    BY <2>2
  <2>6. NothingForgotten'
    BY <1>1, <1>2, <1>5, <2>1, <2>5 DEF NothingForgotten, Done
  <2>7. WaitInv'
    BY <2>5, <2>6 DEF WaitInv, Nothing
  <2> QED
    BY <2>4, <2>7
<1>8. CASE /\ client.call = "pull" /\ Joined /\ UNCHANGED pending
           /\ client' = [client EXCEPT !.of = n]
  <2>1. client' = [call |-> "pull", batch |-> client.batch, of |-> n, driver |-> client.driver]
    BY <1>4, <1>8
  <2>2. client' \in [call: Calls, batch: SUBSET (1..n), of: 0..n, driver: Driver]
    BY <1>2, <1>4, <2>1 DEF Calls
  <2>3. TypeInv'
    BY <1>1, <1>2, <1>3, <1>4, <1>8, <2>2 DEF TypeInv, n
  <2>4. client'.batch = client.batch /\ client'.of = n /\ client'.call = "pull"
    BY <2>1
  <2>5. client.of = 0 /\ \A i \in client.batch : outcome[i] = "ok"
    BY <1>8 DEF Joined, Nothing
  <2>6. NothingForgotten'
    BY <1>1, <1>2, <1>5, <1>8, <2>4, <2>5 DEF NothingForgotten, Done
  <2>7. \A i \in client'.batch : outcome'[i] = "ok"
    BY <1>1, <1>4, <2>4, <2>5
  <2>8. WaitInv'
    BY <2>4, <2>6, <2>7 DEF WaitInv
  <2> QED
    BY <2>3, <2>8
<1> QED
  BY <1>6, <1>7, <1>8 DEF n


\* A call that ends drops its batch when all of that is done, or puts the rest
\* back into the pending set.
LEMMA ReturnWaits ==
  ASSUME TypeInv, WaitInv,
         JoinRaises \/ JoinReturns \/ CloseJoined \/ PullReturns \/ KillReturns
  PROVE  TypeInv' /\ WaitInv'
<1>1. /\ client = [call |-> client.call, batch |-> client.batch, of |-> client.of,
                   driver |-> client.driver]
      /\ client.call \in Calls /\ client.batch \subseteq 1..Len(ops)
      /\ client.of \in 0..Len(ops) /\ client.driver \in Driver
      /\ Free = [call |-> "none", batch |-> {}, of |-> 0, driver |-> Idle]
      /\ Idle \in Driver
      /\ Len(ops) \in Nat /\ DOMAIN ops = 1..Len(ops) /\ 1..Len(ops) \subseteq Numbers
      /\ \A d \in Driver : Looked(d) \in Driver
  BY ClientTypes
<1>2. Free \in [call: Calls, batch: SUBSET (1..Len(ops)), of: 0..Len(ops), driver: Driver]
  BY <1>1 DEF Calls
<1>3. \A d \in Driver :
        /\ [Free EXCEPT !.driver = d] = [call |-> "none", batch |-> {}, of |-> 0, driver |-> d]
        /\ [Free EXCEPT !.driver = d]
             \in [call: Calls, batch: SUBSET (1..Len(ops)), of: 0..Len(ops), driver: Driver]
  <2> TAKE d \in Driver
  <2>1. [Free EXCEPT !.driver = d] = [call |-> "none", batch |-> {}, of |-> 0, driver |-> d]
    BY DEF Free, Nothing
  <2> QED
    BY <1>1, <2>1 DEF Calls
<1>4. \A i \in 1..Len(ops) : ~Done(i) => i \in pending \cup client.batch \cup {client.of}
  BY <1>1 DEF WaitInv, NothingForgotten
<1>5. CASE JoinRaises
  <2>1. /\ client.of = 0 /\ pending' = pending \cup LeftOver
        /\ UNCHANGED <<ops, queue, running, worker, outcome, late>>
        /\ client' = Free \/ client' = [client EXCEPT !.call = "release"]
    BY <1>5 DEF JoinRaises, Nothing
  <2>2. LeftOver \subseteq client.batch
    BY DEF LeftOver
  <2>3. CASE client' = Free
    <3>1. TypeInv'
      BY <1>1, <1>2, <2>1, <2>2, <2>3 DEF TypeInv
    <3>2. NothingForgotten'
      BY <1>1, <1>4, <2>1 DEF NothingForgotten, LeftOver, Done
    <3>3. client'.call = "none" /\ client'.batch = {} /\ client'.of = 0
      BY <1>1, <2>3
    <3>4. WaitInv'
      BY <3>2, <3>3 DEF WaitInv, Nothing
    <3> QED
      BY <3>1, <3>4
  <2>4. CASE client' = [client EXCEPT !.call = "release"]
    <3>1. client' = [call |-> "release", batch |-> client.batch, of |-> 0,
                     driver |-> client.driver]
      BY <1>1, <2>1, <2>4
    <3>2. client' \in [call: Calls, batch: SUBSET (1..Len(ops)), of: 0..Len(ops), driver: Driver]
      BY <1>1, <3>1 DEF Calls
    <3>3. TypeInv'
      BY <1>1, <2>1, <2>2, <3>2 DEF TypeInv
    <3>4. NothingForgotten'
      BY <1>1, <1>4, <2>1 DEF NothingForgotten, LeftOver, Done
    <3>5. client'.call = "release" /\ client'.batch = client.batch /\ client'.of = 0
      BY <3>1
    <3>6. \A i \in client'.batch : Done(i)' \/ i \in pending'
      BY <2>1, <3>5 DEF LeftOver, Done
    <3>7. WaitInv'
      BY <3>4, <3>5, <3>6 DEF WaitInv, Nothing
    <3> QED
      BY <3>3, <3>7
  <2> QED
    BY <2>1, <2>3, <2>4
<1>6. CASE JoinReturns \/ PullReturns
  <2>1. PICK d \in Driver : client' = [Free EXCEPT !.driver = d]
    <3>1. [Free EXCEPT !.driver = Idle] = Free
      BY DEF Free
    <3> QED
      BY <1>1, <1>6, <3>1 DEF JoinReturns, PullReturns, Return
  <2>2. UNCHANGED <<ops, queue, running, worker, outcome, pending, late>>
    BY <1>6 DEF JoinReturns, PullReturns
  <2>3. \A i \in client.batch \cup {client.of} : i \in 1..Len(ops) => Done(i)
    BY <1>1, <1>6 DEF JoinReturns, PullReturns, Joined, WaitInv, Done, Nothing
  <2>4. /\ client' \in [call: Calls, batch: SUBSET (1..Len(ops)), of: 0..Len(ops), driver: Driver]
        /\ client'.call = "none" /\ client'.batch = {} /\ client'.of = 0
    BY <1>3, <2>1
  <2>5. TypeInv'
    BY <2>2, <2>4 DEF TypeInv
  <2>6. NothingForgotten'
    BY <1>1, <1>4, <2>2, <2>3 DEF NothingForgotten, Done
  <2>7. WaitInv'
    BY <2>4, <2>6 DEF WaitInv, Nothing
  <2> QED
    BY <2>5, <2>7
<1>7. CASE CloseJoined
  <2>1. /\ client' = [client EXCEPT !.call = "release"] /\ client.of = 0
        /\ \A i \in client.batch : outcome[i] = "ok"
        /\ UNCHANGED <<ops, queue, running, worker, outcome, pending, late>>
    BY <1>7 DEF CloseJoined, Joined, Nothing
  <2>2. client' = [call |-> "release", batch |-> client.batch, of |-> 0,
                   driver |-> client.driver]
    BY <1>1, <2>1
  <2>3. client' \in [call: Calls, batch: SUBSET (1..Len(ops)), of: 0..Len(ops), driver: Driver]
    BY <1>1, <2>2 DEF Calls
  <2>4. TypeInv'
    BY <2>1, <2>3 DEF TypeInv
  <2>5. client'.call = "release" /\ client'.batch = client.batch /\ client'.of = 0
    BY <2>2
  <2>6. NothingForgotten'
    BY <1>1, <1>4, <2>1, <2>5 DEF NothingForgotten, Done
  <2>7. WaitInv'
    BY <2>1, <2>5, <2>6 DEF WaitInv, Nothing, Done
  <2> QED
    BY <2>4, <2>7
<1>8. CASE KillReturns
  <2>1. /\ client.call = "kill" /\ client' = Free /\ pending' = {}
        /\ outcome' = [i \in Numbers |->
                         IF i \in pending /\ ~Done(i) THEN "cancelled" ELSE outcome[i]]
        /\ UNCHANGED <<ops, queue, running, worker, late>>
    BY <1>8 DEF KillReturns
  <2>2. outcome' \in [Numbers -> Outcome]
    BY <2>1 DEF TypeInv, Outcome
  <2>3. client'.call = "none" /\ client'.batch = {} /\ client'.of = 0
    BY <1>1, <2>1
  <2>4. TypeInv'
    BY <1>2, <2>1, <2>2 DEF TypeInv
  <2>5. \A i \in 1..Len(ops) : Done(i)'
    BY <1>1, <1>4, <2>1 DEF WaitInv, Done, Nothing
  <2>6. NothingForgotten'
    BY <1>1, <2>1, <2>5 DEF NothingForgotten
  <2>7. WaitInv'
    BY <2>3, <2>6 DEF WaitInv, Nothing
  <2> QED
    BY <2>4, <2>7
<1> QED
  BY <1>5, <1>6, <1>7, <1>8

\* The end of a close keeps what is pending, and so does the begin of a kill.
LEMMA ReleaseWaits ==
  ASSUME TypeInv, WaitInv, ReleaseThread \/ ReleasePool \/ CallKill
  PROVE  TypeInv' /\ WaitInv'
<1>1. /\ client = [call |-> client.call, batch |-> client.batch, of |-> client.of,
                   driver |-> client.driver]
      /\ client.call \in Calls /\ client.batch \subseteq 1..Len(ops)
      /\ client.of \in 0..Len(ops) /\ client.driver \in Driver
      /\ Free = [call |-> "none", batch |-> {}, of |-> 0, driver |-> Idle]
      /\ Idle \in Driver
      /\ Len(ops) \in Nat /\ DOMAIN ops = 1..Len(ops) /\ 1..Len(ops) \subseteq Numbers
  BY ClientTypes
<1>2. Free \in [call: Calls, batch: SUBSET (1..Len(ops)), of: 0..Len(ops), driver: Driver]
  BY <1>1 DEF Calls
<1>3. \A i \in 1..Len(ops) : ~Done(i) => i \in pending \cup client.batch \cup {client.of}
  BY <1>1 DEF WaitInv, NothingForgotten
<1>4. Append(queue, 0) \in Seq(0..Len(ops)) /\ <<0>> \in Seq(0..Len(ops))
  <2>1. 0 \in 0..Len(ops) /\ queue \in Seq(0..Len(ops))
    BY <1>1 DEF TypeInv
  <2> QED
    BY <2>1
<1>5. CASE ReleaseThread \/ ReleasePool
  <2>1. /\ client.call = "release" /\ UNCHANGED <<ops, running, outcome, pending, late>>
        /\ client' = client \/ client' = Free
    BY <1>5 DEF ReleaseThread, ReleasePool
  <2>2. worker' \in {"alive", "ended"} /\ queue' \in Seq(0..Len(ops))
    BY <1>4, <1>5 DEF ReleaseThread, ReleasePool, TypeInv, Stop
  <2>3. TypeInv'
    BY <1>2, <2>1, <2>2 DEF TypeInv
  <2>4. \A i \in 1..Len(ops) : ~Done(i) => i \in pending
    BY <1>1, <1>3, <2>1 DEF WaitInv, Nothing
  <2>5. NothingForgotten'
    BY <1>1, <2>1, <2>4 DEF NothingForgotten, Done
  <2>6. CASE client' = client
    BY <2>1, <2>3, <2>5, <2>6 DEF WaitInv, Done
  <2>7. CASE client' = Free
    <3>1. client'.call = "none" /\ client'.batch = {} /\ client'.of = 0
      BY <1>1, <2>7
    <3> QED
      BY <2>3, <2>5, <3>1 DEF WaitInv, Nothing
  <2> QED
    BY <2>1, <2>3, <2>6, <2>7
<1>6. CASE CallKill
  <2>1. /\ client.call = "none" /\ UNCHANGED <<ops, running, worker, pending, late>>
        /\ client' = [call |-> "kill", batch |-> pending, of |-> 0, driver |-> Idle]
    BY <1>6 DEF CallKill, Ready, Calling, Nothing
  <2>2. pending \subseteq 1..Len(ops)
    BY DEF TypeInv
  <2>3. /\ client' \in [call: Calls, batch: SUBSET (1..Len(ops)), of: 0..Len(ops), driver: Driver]
        /\ client'.call = "kill" /\ client'.batch = pending /\ client'.of = 0
    BY <1>1, <2>1, <2>2 DEF Calls
  <2>4. /\ queue' \in Seq(0..Len(ops)) /\ outcome' \in [Numbers -> Outcome]
        /\ \A i \in Numbers : outcome[i] # "pending" => outcome'[i] = outcome[i]
    BY <1>4, <1>6 DEF CallKill, TypeInv, Stop, Outcome
  <2>5. TypeInv'
    BY <2>1, <2>3, <2>4 DEF TypeInv
  <2>6. client.batch = {} /\ client.of = 0
    BY <2>1 DEF WaitInv, Nothing
  <2>7. NothingForgotten'
    BY <1>1, <1>3, <2>1, <2>3, <2>4, <2>6 DEF NothingForgotten, Done
  <2>8. WaitInv'
    BY <2>1, <2>3, <2>7 DEF WaitInv, Nothing
  <2> QED
    BY <2>5, <2>8
<1> QED
  BY <1>5, <1>6

\* Every step keeps the invariant.
LEMMA StepWaits ==
  ASSUME TypeInv, WaitInv, [Next]_vars
  PROVE  TypeInv' /\ WaitInv'
<1>1. Idle \in Driver /\ client.driver \in Driver
  BY ClientTypes
<1>2. CASE Begin \/ Finish
  BY <1>2, WorkerWaits
<1>3. CASE JoinRaises \/ JoinReturns \/ CloseJoined \/ PullReturns \/ KillReturns
  BY <1>3, ReturnWaits
<1>4. CASE ReleaseThread \/ ReleasePool \/ CallKill
  BY <1>4, ReleaseWaits
<1>5. CASE CallJoin \/ CallClose \/ CallPull \/ DriverLooks
  <2>1. client.call = "none"
    BY <1>5 DEF CallJoin, CallClose, CallPull, DriverLooks, Ready
  <2>2. \E call \in {"join", "pull", "close"}, d \in Driver : Call(call, d)
    BY <1>1, <1>5 DEF CallJoin, CallClose, CallPull, DriverLooks
  <2> QED
    BY <2>1, <2>2, CallWaits
<1>6. CASE Submit
  <2>1. PICK op \in Commands : Submitted(op)
    BY <1>6 DEF Submit
  <2>2. op \in Ops /\ client.call = "none" /\ UNCHANGED <<running, worker, late, client>>
        /\ pending' = pending \cup {Len(ops')}
    BY <1>6 DEF Submit, Ready, Ops
  <2> QED
    BY <2>1, <2>2, SubmissionWaits
<1>7. CASE PullJoined
  <2>1. [do |-> "pull"] \in Ops
    BY DEF Ops
  <2> QED
    BY <1>7, <2>1, SubmissionWaits DEF PullJoined
<1>8. CASE Drive
  <2>1. [do |-> "start", reset |-> FALSE] \in Ops
    BY DEF Ops, Commands
  <2>2. [at |-> "look", left |-> MaxSteps] \in Driver
    BY EdgeNodeAssumption DEF Driver
  <2> QED
    BY <1>8, <2>1, <2>2, SubmissionWaits DEF Drive, Ready
<1>9. CASE DriverSteps
  <2>1. PICK e \in Events : Submitted([do |-> "step", event |-> e])
    BY <1>9 DEF DriverSteps
  <2>2. [do |-> "step", event |-> e] \in Ops
    BY DEF Ops, Commands
  <2>3. [at |-> "look", left |-> client.driver.left - 1] \in Driver
    BY <1>1 DEF Driver
  <2> QED
    BY <1>9, <2>1, <2>2, <2>3, SubmissionWaits DEF DriverSteps, Ready
<1>10. CASE UNCHANGED vars
  BY <1>10 DEF vars, TypeInv, WaitInv, NothingForgotten, Done
<1> QED
  BY <1>2, <1>3, <1>4, <1>5, <1>6, <1>7, <1>8, <1>9, <1>10 DEF Next, InCall

\* "wait for all pending operations": whatever a join raised and whenever, a
\* command that is not done is waited for by the next join, pull or close.
THEOREM NothingIsForgotten == Spec => []NothingForgotten
<1>1. Init => TypeInv /\ WaitInv
  BY InitWaits
<1>2. (TypeInv /\ WaitInv) /\ [Next]_vars => (TypeInv /\ WaitInv)'
  BY StepWaits
<1>3. WaitInv => NothingForgotten
  BY DEF WaitInv
<1> QED
  BY <1>1, <1>2, <1>3, PTL DEF Spec


-----------------------------------------------------------------------------

\* A command is in the queue or with the worker once, and not settled; after a
\* kill nothing is pending, so that the worker ends with what it begins.
LateInv ==
  /\ \A k \in DOMAIN queue : queue[k] # Stop =>
       /\ outcome[queue[k]] \in {"pending", "cancelled"}
       /\ queue[k] # running
       /\ \A j \in DOMAIN queue : queue[j] = queue[k] => j = k
  /\ running # Nothing => outcome[running] \in {"pending", "cancelled"}
  /\ closed => client.call = "none"
  /\ closed /\ worker = "alive" => \A i \in 1..Len(ops) : Done(i)
  /\ late \in {0, 1} /\ (late = 1 => closed)
  /\ late = 1 => worker = "ended" \/ (running # Nothing /\ outcome[running] = "cancelled")

\* The queue holds none of the numbers that are still to be given.
LEMMA LateInit == Init => LateInv
<1> SUFFICES ASSUME Init PROVE LateInv
  OBVIOUS
<1>1. queue = <<>> /\ running = Nothing /\ late = 0
  BY DEF Init
<1>2. \A k \in DOMAIN queue : FALSE
  BY <1>1
<1>3. ~closed
  BY Zenon DEF Init
<1> QED
  BY <1>1, <1>2, <1>3 DEF LateInv

\* The worker takes the head of the queue.
LEMMA BeginLate ==
  ASSUME TypeInv, LateInv, Begin
  PROVE  LateInv'
<1>1. /\ worker = "alive" /\ running = Nothing /\ queue # <<>> /\ queue' = Tail(queue)
      /\ UNCHANGED <<ops, outcome, closed, client>>
  BY DEF Begin
<1>2. /\ queue \in Seq(0..Len(ops)) /\ Len(queue) \in Nat /\ Len(queue) > 0
      /\ DOMAIN queue = 1..Len(queue) /\ DOMAIN queue' = 1..Len(queue) - 1
      /\ \A k \in DOMAIN queue' : queue'[k] = queue[k + 1] /\ k + 1 \in DOMAIN queue
      /\ Head(queue) = queue[1] /\ 1 \in DOMAIN queue /\ Head(queue) \in 0..Len(ops)
  BY <1>1 DEF TypeInv
<1>3. \A k \in DOMAIN queue' : queue'[k] # Stop =>
        /\ outcome[queue'[k]] \in {"pending", "cancelled"}
        /\ \A j \in DOMAIN queue' : queue'[j] = queue'[k] => j = k
  <2> TAKE k \in DOMAIN queue'
  <2> HAVE queue'[k] # Stop
  <2>1. k + 1 \in DOMAIN queue /\ queue[k + 1] = queue'[k]
    BY <1>2
  <2>2. outcome[queue'[k]] \in {"pending", "cancelled"}
    BY <2>1 DEF LateInv
  <2>3. \A j \in DOMAIN queue' : queue'[j] = queue'[k] => j + 1 = k + 1
    BY <1>2, <2>1 DEF LateInv
  <2>4. \A j \in DOMAIN queue' : queue'[j] = queue'[k] => j = k
    BY <1>2, <2>3
  <2> QED
    BY <2>2, <2>4
<1>4. late = 0
  BY <1>1 DEF LateInv
<1>5. CASE Head(queue) = Stop
  <2>1. worker' = "ended" /\ UNCHANGED <<running, late>>
    BY <1>5 DEF Begin
  <2>2. \A k \in DOMAIN queue' : queue'[k] # Stop => queue'[k] # running'
    BY <1>1, <2>1 DEF Stop, Nothing
  <2> QED
    BY <1>1, <1>3, <1>4, <2>1, <2>2 DEF LateInv, Done
<1>6. CASE Head(queue) # Stop
  <2>1. running' = queue[1] /\ late' = (IF closed THEN 1 ELSE 0) /\ UNCHANGED worker
    BY <1>2, <1>4, <1>6 DEF Begin
  <2>2. outcome[queue[1]] \in {"pending", "cancelled"}
    BY <1>2, <1>6 DEF LateInv
  <2>3. \A k \in DOMAIN queue' : queue'[k] # queue[1]
    <3>1. \A k \in DOMAIN queue' : queue[k + 1] = queue[1] => k + 1 = 1
      BY <1>2, <1>6 DEF LateInv
    <3>2. \A k \in DOMAIN queue' : k + 1 # 1
      BY <1>2
    <3> QED
      BY <1>2, <3>1, <3>2
  <2>4. queue[1] \in 1..Len(ops)
    BY <1>2, <1>6 DEF Stop
  <2>5. closed => outcome[queue[1]] = "cancelled"
    BY <1>1, <2>2, <2>4 DEF LateInv, Done
  <2>6. running' # Nothing
    BY <1>2, <1>6, <2>1 DEF Stop, Nothing
  <2> QED
    BY <1>1, <1>3, <2>1, <2>2, <2>3, <2>5, <2>6 DEF LateInv, Done
<1> QED
  BY <1>5, <1>6

\* A future that was cancelled ends the worker.
LEMMA FinishLate ==
  ASSUME TypeInv, LateInv, Finish
  PROVE  LateInv'
<1>1. /\ running # Nothing /\ running' = Nothing
      /\ UNCHANGED <<ops, queue, closed, client, late>>
  BY DEF Finish
<1>2. running \in 1..Len(ops) /\ running \in Numbers /\ ops[running] \in Ops
  BY <1>1, EdgeNodeAssumption DEF TypeInv, Nothing, Numbers
<1>3. PICK o \in {"ok", "error"} : Settle(o)
  BY <1>2, EffectOutcome DEF Finish
<1>4. \A i \in 1..Len(ops) : i # running => outcome'[i] = outcome[i]
  <2>1. \A i \in 1..Len(ops) : i \in Numbers
    BY ClientTypes
  <2> QED
    BY <1>2, <1>3, <2>1 DEF Settle, TypeInv
<1>5. \A k \in DOMAIN queue : queue[k] # Stop => queue[k] \in 1..Len(ops)
  BY DEF TypeInv, Stop
<1>6. \A k \in DOMAIN queue' : queue'[k] # Stop =>
        /\ outcome'[queue'[k]] \in {"pending", "cancelled"}
        /\ queue'[k] # running'
        /\ \A j \in DOMAIN queue' : queue'[j] = queue'[k] => j = k
  BY <1>1, <1>4, <1>5 DEF LateInv, Stop, Nothing
<1>7. CASE outcome[running] = "pending"
  <2>1. worker' = worker /\ outcome'[running] = o
    BY <1>2, <1>3, <1>7 DEF Settle, TypeInv
  <2>2. late = 1 => worker = "ended"
    BY <1>7 DEF LateInv
  <2>3. closed /\ worker = "alive" => \A i \in 1..Len(ops) : outcome'[i] # "pending"
    BY <1>3, <1>4, <2>1 DEF LateInv, Done
  <2> QED
    BY <1>1, <1>6, <2>1, <2>2, <2>3 DEF LateInv, Done
<1>8. CASE outcome[running] # "pending"
  <2>1. worker' = "ended"
    BY <1>3, <1>8 DEF Settle
  <2> QED
    BY <1>1, <1>6, <2>1 DEF LateInv
<1> QED
  BY <1>7, <1>8

\* A Stop behind the commands is no command.
LEMMA StopQueued ==
  ASSUME TypeInv, queue' = Append(queue, Stop)
  PROVE  /\ \A k \in DOMAIN queue' : queue'[k] # Stop => k \in DOMAIN queue
         /\ \A k \in DOMAIN queue : queue'[k] = queue[k]
BY DEF TypeInv

\* Nobody submits to a closed node.
LEMMA SubmissionLate ==
  ASSUME TypeInv, LateInv, NEW op \in Ops, Submitted(op),
         UNCHANGED <<running, worker, closed, late>>, ~closed
  PROVE  LateInv'
<1> DEFINE n == Len(ops')
<1>1. /\ n = Len(ops) + 1 /\ Len(ops) \in Nat /\ n \in Numbers
      /\ \A i \in 1..Len(ops) : outcome'[i] = outcome[i]
      /\ outcome'[n] = "pending"
  BY SubmittedTypes DEF TypeInv
<1> HIDE DEF n
<1>2. /\ queue' = Append(queue, n) /\ queue \in Seq(0..Len(ops)) /\ running \in 0..Len(ops)
  BY DEF Submitted, TypeInv, n
<1>3. /\ DOMAIN queue = 1..Len(queue) /\ DOMAIN queue' = 1..Len(queue) + 1
      /\ Len(queue) \in Nat /\ queue'[Len(queue) + 1] = n
      /\ \A k \in DOMAIN queue : queue'[k] = queue[k] /\ queue[k] \in 0..Len(ops)
  BY <1>2
<1>4. \A k \in DOMAIN queue' : queue'[k] # Stop =>
        /\ outcome'[queue'[k]] \in {"pending", "cancelled"}
        /\ queue'[k] # running
        /\ \A j \in DOMAIN queue' : queue'[j] = queue'[k] => j = k
  <2> TAKE k \in DOMAIN queue'
  <2> HAVE queue'[k] # Stop
  <2>1. CASE k = Len(queue) + 1
    BY <1>1, <1>2, <1>3, <2>1
  <2>2. CASE k # Len(queue) + 1
    <3>1. k \in DOMAIN queue /\ queue'[k] = queue[k] /\ queue[k] \in 1..Len(ops)
      BY <1>3, <2>2 DEF Stop
    <3>2. outcome'[queue'[k]] \in {"pending", "cancelled"} /\ queue'[k] # running
      BY <1>1, <3>1 DEF LateInv, Stop
    <3>3. \A j \in DOMAIN queue' : queue'[j] = queue'[k] => j \in DOMAIN queue
      BY <1>1, <1>3, <3>1
    <3>4. \A j \in DOMAIN queue' : queue'[j] = queue'[k] => j = k
      BY <1>3, <3>1, <3>3 DEF LateInv, Stop
    <3> QED
      BY <3>2, <3>4
  <2> QED
    BY <2>1, <2>2
<1>5. running # Nothing => outcome'[running] \in {"pending", "cancelled"}
  BY <1>1, <1>2 DEF LateInv, Nothing
<1> QED
  BY <1>4, <1>5 DEF LateInv

\* A call begins in an open node, and returns without closing it unless it is
\* a close or a kill.
LEMMA CallLate ==
  ASSUME LateInv, ~closed, UNCHANGED <<ops, queue, running, worker, outcome, closed, late>>
  PROVE  LateInv'
BY DEF LateInv

\* A close waits until the worker has ended.
LEMMA ReleaseLate ==
  ASSUME TypeInv, LateInv, ReleaseThread \/ ReleasePool
  PROVE  LateInv'
<1>1. /\ ~closed /\ UNCHANGED <<ops, running, outcome, late>>
      /\ client' = client \/ client'.call = "none"
  BY DEF ReleaseThread, ReleasePool, LateInv, Free
<1>2. late = 0
  BY <1>1 DEF LateInv
<1>3. CASE worker' = "ended" /\ UNCHANGED queue /\ client' = Free
  <2>1. client'.call = "none"
    BY <1>3 DEF Free
  <2> QED
    BY <1>1, <1>2, <1>3, <2>1 DEF LateInv
<1>4. CASE UNCHANGED <<queue, closed, worker>>
  BY <1>1, <1>2, <1>4 DEF LateInv
<1>5. CASE queue' = Append(queue, Stop) /\ UNCHANGED <<closed, client, worker>>
  BY <1>1, <1>2, <1>5, StopQueued DEF LateInv
<1> QED
  BY <1>3, <1>4, <1>5 DEF ReleaseThread, ReleasePool

\* A kill leaves nothing pending when it closes the node.
LEMMA KillLate ==
  ASSUME TypeInv, WaitInv, LateInv, CallKill \/ KillReturns
  PROVE  LateInv'
<1>1. /\ UNCHANGED <<ops, running, worker, late>> /\ ~closed
  BY DEF CallKill, KillReturns, Ready, LateInv
<1>2. late = 0
  BY <1>1 DEF LateInv
<1>3. /\ Len(ops) \in Nat /\ DOMAIN ops = 1..Len(ops) /\ 1..Len(ops) \subseteq Numbers
  BY ClientTypes
<1>4. \A i \in 1..Len(ops) : outcome[i] \in {"pending", "cancelled"} =>
        outcome'[i] \in {"pending", "cancelled"}
  BY <1>3 DEF CallKill, KillReturns, Done
<1>5. running # Nothing => outcome'[running] \in {"pending", "cancelled"}
  <2>1. running # Nothing => running \in 1..Len(ops)
    BY DEF TypeInv, Nothing
  <2> QED
    BY <1>4, <2>1 DEF LateInv
<1>6. \A k \in DOMAIN queue' : queue'[k] # Stop =>
        /\ outcome'[queue'[k]] \in {"pending", "cancelled"}
        /\ queue'[k] # running
        /\ \A j \in DOMAIN queue' : queue'[j] = queue'[k] => j = k
  <2>1. \A k \in DOMAIN queue : queue[k] # Stop => queue[k] \in 1..Len(ops)
    BY DEF TypeInv, Stop
  <2>2. CASE UNCHANGED queue
    BY <1>4, <2>1, <2>2 DEF LateInv
  <2>3. CASE queue' = Append(queue, Stop)
    BY <1>4, <2>1, <2>3, StopQueued DEF LateInv
  <2>4. CASE queue' = <<Stop>>
    BY <2>4
  <2> QED
    BY <2>2, <2>3, <2>4 DEF CallKill, KillReturns
<1>7. CASE CallKill
  <2>1. UNCHANGED closed
    BY <1>7 DEF CallKill
  <2> QED
    BY <1>1, <1>2, <1>5, <1>6, <2>1 DEF LateInv
<1>8. CASE KillReturns
  <2>1. client'.call = "none"
    BY <1>8 DEF KillReturns, Free
  <2>2. \A i \in 1..Len(ops) : Done(i) \/ i \in pending
    BY <1>3, <1>8 DEF KillReturns, WaitInv, NothingForgotten, Nothing
  <2>3. \A i \in 1..Len(ops) : Done(i)'
    BY <1>3, <1>8, <2>2 DEF KillReturns, Done
  <2> QED
    BY <1>1, <1>2, <1>5, <1>6, <2>1, <2>3 DEF LateInv
<1> QED
  BY <1>7, <1>8

\* Every step keeps the invariant.
LEMMA StepLate ==
  ASSUME TypeInv, WaitInv, LateInv, [Next]_vars
  PROVE  LateInv'
<1>1. CASE Begin \/ Finish
  BY <1>1, BeginLate, FinishLate
<1>2. CASE CallJoin \/ CallClose \/ CallPull \/ DriverLooks
  BY <1>2, CallLate DEF CallJoin, CallClose, CallPull, DriverLooks, Ready, Call
<1>3. CASE JoinRaises \/ JoinReturns \/ CloseJoined \/ PullReturns
  <2>1. ~closed
    BY <1>3 DEF JoinRaises, JoinReturns, CloseJoined, PullReturns, LateInv
  <2> QED
    BY <1>3, <2>1, CallLate DEF JoinRaises, JoinReturns, CloseJoined, PullReturns
<1>4. CASE ReleaseThread \/ ReleasePool
  BY <1>4, ReleaseLate
<1>5. CASE CallKill \/ KillReturns
  BY <1>5, KillLate
<1>6. CASE Submit \/ PullJoined \/ Drive \/ DriverSteps
  <2>1. ~closed
    BY <1>6 DEF Submit, PullJoined, Drive, DriverSteps, Ready, LateInv
  <2>2. UNCHANGED <<running, worker, closed, late>>
    BY <1>6 DEF Submit, PullJoined, Drive, DriverSteps
  <2>3. \E op \in Ops : Submitted(op)
    BY <1>6 DEF Submit, PullJoined, Drive, DriverSteps, Ops, Commands
  <2> QED
    BY <2>1, <2>2, <2>3, SubmissionLate
<1>7. CASE UNCHANGED vars
  BY <1>7 DEF vars, LateInv, Done
<1> QED
  BY <1>1, <1>2, <1>3, <1>4, <1>5, <1>6, <1>7 DEF Next, InCall

\* When kill has returned, at most the one command the worker is just taking from
\* the queue is still begun, whatever was submitted and whatever failed before.
THEOREM KillEndsTheWorker == Spec => []AtMostOneLate
<1>1. Init => TypeInv /\ WaitInv /\ LateInv
  BY InitWaits, LateInit
<1>2. (TypeInv /\ WaitInv /\ LateInv) /\ [Next]_vars => (TypeInv /\ WaitInv /\ LateInv)'
  BY StepWaits, StepLate
<1>3. LateInv => AtMostOneLate
  BY DEF LateInv, AtMostOneLate
<1> QED
  BY <1>1, <1>2, <1>3, PTL DEF Spec

-----------------------------------------------------------------------------

States ==
  {Initial} \cup {Transitions[i].target : i \in DOMAIN Transitions}
            \cup {Transitions[i].onError : i \in DOMAIN Transitions}
Statuses == {"running", "terminal", "failed"}
Runtimes ==
  [state: States, status: Statuses, history: Seq([source: States, target: States])]

\* What HistoryIsPath says, of any runtime.
OnPath(r) ==
  /\ r \in Runtimes
  /\ Len(r.history) > 0 =>
       r.history[1].source = Initial /\ r.history[Len(r.history)].target = r.state
  /\ Len(r.history) = 0 => r.state = Initial
  /\ \A i \in 1..Len(r.history) - 1 : r.history[i].target = r.history[i + 1].source

PathInv == fsm = Absent \/ OnPath(fsm)

\* A machine that begins has no history.
LEMMA BeginsOnPath == OnPath(Runtime(Initial, "running", <<>>))
<1> DEFINE r == Runtime(Initial, "running", <<>>)
<1>1. r = [state |-> Initial, status |-> "running", history |-> <<>>]
  BY DEF Runtime
<1>2. r.history = <<>> /\ r.state = Initial /\ Len(r.history) = 0
  BY <1>1
<1>3. r \in Runtimes
  <2>1. Initial \in States /\ "running" \in Statuses
    BY DEF States, Statuses
  <2>2. \A S : <<>> \in Seq(S)
    OBVIOUS
  <2> DEFINE H == Seq([source: States, target: States])
  <2>3. <<>> \in H
    BY <2>2
  <2> HIDE DEF H
  <2>4. r \in [state: States, status: Statuses, history: H]
    BY <1>1, <2>1, <2>3
  <2> QED
    BY <2>4 DEF Runtimes, H
<1> HIDE DEF r
<1>4. OnPath(r)
  BY <1>2, <1>3 DEF OnPath
<1> QED
  BY <1>4 DEF r

\* A change of the status leaves a machine where it is.
LEMMA StatusOnPath ==
  ASSUME NEW r, OnPath(r), NEW status \in Statuses
  PROVE  OnPath([r EXCEPT !.status = status])
<1> DEFINE q == [r EXCEPT !.status = status]
<1>1. q \in Runtimes /\ q.history = r.history /\ q.state = r.state
  BY DEF OnPath, Runtimes
<1> HIDE DEF q
<1>2. OnPath(q)
  BY <1>1 DEF OnPath
<1> QED
  BY <1>2 DEF q

\* A step that is recorded from where the machine is to where it is left
\* lengthens the path.
LEMMA MovedOnPath ==
  ASSUME NEW r, OnPath(r), NEW to \in States, NEW status \in Statuses
  PROVE  OnPath(Moved(r, to, status))
<1> DEFINE q == Moved(r, to, status)
           n == Len(r.history)
<1>1. r.state \in States /\ r.history \in Seq([source: States, target: States]) /\ n \in Nat
  BY DEF OnPath, Runtimes
<1>2. /\ q = [state |-> to, status |-> status,
              history |-> Append(r.history, [source |-> r.state, target |-> to])]
      /\ q.state = to /\ q.history = Append(r.history, [source |-> r.state, target |-> to])
  BY DEF Moved, Runtime
<1>3. [source |-> r.state, target |-> to] \in [source: States, target: States]
  BY <1>1
<1>4. /\ q.history \in Seq([source: States, target: States]) /\ Len(q.history) = n + 1
      /\ \A i \in 1..n : q.history[i] = r.history[i]
      /\ q.history[n + 1] = [source |-> r.state, target |-> to]
  BY <1>1, <1>2, <1>3
<1>5. q \in Runtimes
  BY <1>2, <1>4 DEF Runtimes
<1>6. q.history[n + 1].source = r.state /\ q.history[n + 1].target = to
  BY <1>4
<1> HIDE DEF q
<1>7. q.history[1].source = Initial
  <2>1. CASE n = 0
    BY <1>6, <2>1 DEF OnPath
  <2>2. CASE n > 0
    BY <1>1, <1>4, <2>2 DEF OnPath
  <2> QED
    BY <1>1, <2>1, <2>2
<1>8. \A i \in 1..n : q.history[i].target = q.history[i + 1].source
  <2> TAKE i \in 1..n
  <2>1. CASE i = n
    BY <1>1, <1>4, <1>6, <2>1 DEF OnPath
  <2>2. CASE i # n
    <3>1. i \in 1..n - 1 /\ i + 1 \in 1..n
      BY <1>1, <2>2
    <3> QED
      BY <1>4, <3>1 DEF OnPath
  <2> QED
    BY <2>1, <2>2
<1>9. OnPath(q)
  BY <1>1, <1>2, <1>4, <1>5, <1>6, <1>7, <1>8 DEF OnPath
<1> QED
  BY <1>9 DEF q

\* A start keeps the path or begins one.
LEMMA StartedOnPath ==
  ASSUME NEW r, r = Absent \/ OnPath(r), NEW reset
  PROVE  OnPath(Started(r, reset))
<1>1. CASE Started(r, reset) = Runtime(Initial, "running", <<>>)
  BY <1>1, BeginsOnPath
<1>2. CASE r # Absent /\ Started(r, reset) # Runtime(Initial, "running", <<>>)
  <2>1. OnPath([r EXCEPT !.status = "terminal"]) /\ OnPath([r EXCEPT !.status = "running"])
    BY <1>2, StatusOnPath DEF Statuses
  <2> QED
    BY <1>2, <2>1 DEF Started
<1> QED
  BY <1>1, <1>2 DEF Started

\* A transition that is tried records where it has left the machine, be that
\* its target, the state its errors divert to, or where the machine was.
LEMMA TriedOnPath ==
  ASSUME NEW r, OnPath(r), NEW i \in DOMAIN Transitions,
         NEW result \in Outcomes(Transitions[i])
  PROVE  OnPath(Tried(r, Transitions[i], result))
<1> DEFINE t == Transitions[i]
<1>1. t.target \in States /\ t.onError \in States /\ r.state \in States
  BY DEF States, OnPath, Runtimes
<1>2. \A s \in States : StatusIn(s) \in Statuses
  BY DEF StatusIn, Statuses
<1>3. "failed" \in Statuses
  BY DEF Statuses
<1>4. result \in {"done", "rejected", "raised"}
  BY DEF Outcomes
<1>5. /\ OnPath(Moved(r, t.target, StatusIn(t.target)))
      /\ OnPath(Moved(r, t.onError, StatusIn(t.onError)))
      /\ OnPath(Moved(r, r.state, "failed"))
  BY <1>1, <1>2, <1>3, MovedOnPath
<1> HIDE DEF t
<1>6. OnPath(Tried(r, t, result))
  BY <1>4, <1>5 DEF Tried
<1> QED
  BY <1>6 DEF t

\* A step tries the first transition that matches, or records nothing.
LEMMA SteppedOnPath ==
  ASSUME NEW r, r = Absent \/ OnPath(r), NEW event, NEW q \in Stepped(r, event)
  PROVE  OnPath(q)
<1> DEFINE before == IF r = Absent THEN Runtime(Initial, "running", <<>>) ELSE r
           matching == Matching(before.state, event)
           first == CHOOSE i \in matching : \A j \in matching : i <= j
<1>1. OnPath(before)
  BY BeginsOnPath
<1>2. \/ q = before
      \/ q = [before EXCEPT !.status = "failed"]
      \/ matching # {} /\ \E o \in Outcomes(Transitions[first]) :
                            q = Tried(before, Transitions[first], o)
  BY DEF Stepped
<1>3. matching # {} => first \in DOMAIN Transitions
  <2>1. matching \subseteq DOMAIN Transitions
    BY DEF Matching
  <2>2. matching # {} => Min(matching) \in matching
    BY <2>1, LeastExists, EdgeNodeAssumption
  <2> QED
    BY <2>1, <2>2 DEF Min
<1> HIDE DEF before, matching, first
<1> QED
  BY <1>1, <1>2, <1>3, StatusOnPath, TriedOnPath DEF Statuses

\* The runtime is changed by the commands of the machine alone.
LEMMA StepOnPath ==
  ASSUME TypeInv, PathInv, [Next]_vars
  PROVE  PathInv'
<1>1. CASE UNCHANGED fsm
  BY <1>1 DEF PathInv
<1>2. CASE Finish
  <2>1. ops[running] \in Ops
    BY <1>2 DEF Finish, TypeInv, Nothing
  <2>2. ops[running].do \in {"start", "step", "apply", "pull"}
    BY <2>1 DEF Ops, Commands
  <2>3. CASE \E e \in Effects(ops[running]) : fsm' = e.fsm
    <3>1. PICK e \in Effects(ops[running]) : fsm' = e.fsm
      BY <2>3
    <3>2. CASE ops[running].do = "start"
      <4>1. e = [fsm |-> Started(fsm, ops[running].reset), outcome |-> "ok"]
        BY <3>2 DEF Effects
      <4>2. fsm' = Started(fsm, ops[running].reset)
        BY <3>1, <4>1
      <4> QED
        BY <4>2, StartedOnPath DEF PathInv
    <3>3. CASE ops[running].do = "step"
      <4>1. e \in {[fsm |-> r, outcome |-> "ok"] : r \in Stepped(fsm, ops[running].event)}
        BY <3>3 DEF Effects
      <4>2. fsm' \in Stepped(fsm, ops[running].event)
        BY <3>1, <4>1
      <4> QED
        BY <4>2, SteppedOnPath DEF PathInv
    <3>4. CASE ops[running].do \in {"apply", "pull"}
      <4>1. fsm' = fsm
        BY <3>1, <3>4 DEF Effects
      <4> QED
        BY <1>1, <4>1
    <3> QED
      BY <2>2, <3>2, <3>3, <3>4
  <2> QED
    BY <1>1, <1>2, <2>3 DEF Finish
<1> QED
  BY <1>1, <1>2 DEF Next, InCall, vars, Begin, JoinRaises, JoinReturns, CloseJoined,
       PullJoined, PullReturns, ReleaseThread, ReleasePool, KillReturns, DriverLooks,
       DriverSteps, Submit, CallJoin, CallClose, CallPull, CallKill, Drive, Call

\* The history of a machine is a path from its initial state to where it is now,
\* over transitions that were rejected, failed or were diverted by on_error, for
\* every machine and every order of starts and steps.
THEOREM MachineKeepsItsPath == Spec => []HistoryIsPath
<1>1. Init => TypeInv /\ WaitInv /\ PathInv
  BY InitWaits DEF Init, PathInv
<1>2. (TypeInv /\ WaitInv /\ PathInv) /\ [Next]_vars => (TypeInv /\ WaitInv /\ PathInv)'
  BY StepWaits, StepOnPath
<1>3. PathInv => HistoryIsPath
  <2> SUFFICES ASSUME OnPath(fsm) PROVE HistoryIsPath
    BY DEF PathInv, HistoryIsPath
  <2> QED
    BY DEF OnPath, HistoryIsPath
<1> QED
  BY <1>1, <1>2, <1>3, PTL DEF Spec
=============================================================================
