------------------------------ MODULE EdgeNode ------------------------------
(***************************************************************************)
(* An edge node: one client thread puts commands into a queue, one worker  *)
(* (a thread, or the loop thread of a coroutine pool under an asyncio      *)
(* lock) applies them to the state of the node, in their order.  The state *)
(* holds the runtime of a finite state machine, which FSMEdgeNode starts,  *)
(* steps and reads through the queue.                                      *)
(*                                                                         *)
(* The commands are numbered in the order they were submitted.             *)
(***************************************************************************)
EXTENDS StateMachine, FiniteSets

CONSTANTS
  Backends,     \* "thread" and "asyncio": the back ends looked at
  Events,       \* the events a machine is stepped with
  MaxCommands,  \* bound: commands submitted
  MaxSteps      \* max_steps of run_until_terminal

ASSUME EdgeNodeAssumption ==
  /\ MaxCommands \in Nat /\ MaxSteps \in Nat
  /\ DOMAIN Transitions \subseteq Nat

VARIABLES
  backend,
  ops,      \* the commands submitted
  queue,    \* numbers of those the worker has not begun, or Stop
  running,  \* the one it has, or Nothing
  worker,   \* "alive", or "ended"
  outcome,  \* what became of the future of each: "pending", "ok", "error", "cancelled"
  pending,  \* the futures a join waits for
  fsm,      \* the runtime under the key of the machine
  closed,
  client,   \* the call the client is in, and what it waits for
  late      \* commands begun after kill had returned

vars == <<backend, ops, queue, running, worker, outcome, pending, fsm, closed, client,
          late>>

Nothing == 0
Stop == 0
Numbers == 1..MaxCommands

\* What the client does: the call, the futures its join waits for, the command
\* it wants a result of; the driver is run_until_terminal and the steps it has
\* left, Idle when it is not at work.
Idle == [at |-> "idle", left |-> 0]
Free == [call |-> "none", batch |-> {}, of |-> Nothing, driver |-> Idle]
Calling(call, batch, driver) == [call |-> call, batch |-> batch, of |-> Nothing, driver |-> driver]

Done(i) == outcome[i] # "pending"
Failed(i) == outcome[i] = "error"

Init ==
  /\ backend \in Backends
  /\ ops = <<>> /\ queue = <<>> /\ running = Nothing /\ worker = "alive"
  /\ outcome = [i \in Numbers |-> "none"]
  /\ pending = {} /\ fsm = Absent /\ closed = FALSE
  /\ client = Free /\ late = 0

-----------------------------------------------------------------------------
(* The worker.                                                              *)

\* A command is taken from the queue; after Stop, or in a closed loop, none.
Begin ==
  /\ worker = "alive" /\ running = Nothing /\ queue # <<>>
  /\ queue' = Tail(queue)
  /\ IF Head(queue) = Stop
     THEN worker' = "ended" /\ UNCHANGED <<running, late>>
     ELSE /\ running' = Head(queue)
          /\ late' = IF closed THEN late + 1 ELSE late
          /\ UNCHANGED worker
  /\ UNCHANGED <<backend, ops, outcome, pending, fsm, closed, client>>

\* What a command does to the machine; a target of a package may raise.
Effects(op) ==
  CASE op.do = "start" -> {[fsm |-> Started(fsm, op.reset), outcome |-> "ok"]}
    [] op.do = "step"  -> {[fsm |-> r, outcome |-> "ok"] : r \in Stepped(fsm, op.event)}
    [] op.do = "pull"  -> {[fsm |-> fsm, outcome |-> IF fsm = Absent THEN "error" ELSE "ok"]}
    [] op.do = "apply" -> {[fsm |-> fsm, outcome |-> o] : o \in {"ok", "error"}}

\* Mutation: the worker goes on after a future that was cancelled.
SettleGoingOn(o) ==
  /\ outcome' = [outcome EXCEPT ![running] = IF @ = "pending" THEN o ELSE @]
  /\ UNCHANGED worker

\* Mutation: an exception of a command ends the worker.
SettleFragile(o) ==
  IF o = "ok" /\ outcome[running] = "pending"
  THEN outcome' = [outcome EXCEPT ![running] = o] /\ UNCHANGED worker
  ELSE worker' = "ended" /\ UNCHANGED outcome

\* set_result of a future that was cancelled raises, and so does set_exception:
\* the worker thread ends, and with it all that is still in the queue.
Settle(o) ==
  IF outcome[running] = "pending"
  THEN outcome' = [outcome EXCEPT ![running] = o] /\ UNCHANGED worker
  ELSE worker' = "ended" /\ UNCHANGED outcome

\* A task that was cancelled may end where it awaits, without its effect.
Finish ==
  /\ running # Nothing
  /\ \/ \E e \in Effects(ops[running]) : fsm' = e.fsm /\ Settle(e.outcome)
     \/ backend = "asyncio" /\ outcome[running] = "cancelled" /\ Settle("ok") /\ UNCHANGED fsm
  /\ running' = Nothing
  /\ UNCHANGED <<backend, ops, queue, pending, closed, client, late>>

-----------------------------------------------------------------------------
(* The client.                                                              *)

Submitted(op) ==
  /\ Len(ops) < MaxCommands
  /\ ops' = Append(ops, op)
  /\ queue' = Append(queue, Len(ops'))
  /\ outcome' = [outcome EXCEPT ![Len(ops')] = "pending"]

Ready == client.call = "none" /\ ~closed

\* push, apply, bind and run, and the start and step of the machine.
Commands ==
  {[do |-> "start", reset |-> b] : b \in BOOLEAN}
  \cup {[do |-> "step", event |-> e] : e \in Events}
  \cup {[do |-> "apply"]}

Submit ==
  /\ Ready /\ client.driver = Idle
  /\ \E op \in Commands : Submitted(op)
  /\ pending' = pending \cup {Len(ops')}
  /\ UNCHANGED <<backend, running, worker, fsm, closed, client, late>>

\* join, close and pull begin by taking all pending futures.
Call(call, driver) ==
  /\ client' = Calling(call, pending, driver)
  /\ pending' = {}
  /\ UNCHANGED <<backend, ops, queue, running, worker, outcome, fsm, closed, late>>

CallJoin == Ready /\ client.driver = Idle /\ Call("join", Idle)
CallClose == Ready /\ client.driver = Idle /\ Call("close", Idle)
CallPull == Ready /\ client.driver = Idle /\ Len(ops) < MaxCommands /\ Call("pull", Idle)

\* What the client does after a join went well.
Return == client' = [Free EXCEPT !.driver = client.driver]

\* Mutation: what a join that raised did not wait for is not waited for again.
LeftOverForgotten == {}

LeftOver == {i \in client.batch : ~Done(i)}

\* as_completed met a failed future.  Those that are not done stay pending,
\* those that are are forgotten with their errors.  A close goes on to release.
JoinRaises ==
  /\ client.call \in {"join", "pull", "close"} /\ client.of = Nothing
  /\ \E i \in client.batch : Failed(i)
  /\ pending' = pending \cup LeftOver
  /\ client' = IF client.call = "close" THEN [client EXCEPT !.call = "release"] ELSE Free
  /\ UNCHANGED <<backend, ops, queue, running, worker, outcome, fsm, closed, late>>

Joined ==
  /\ client.of = Nothing /\ \A i \in client.batch : outcome[i] = "ok"

JoinReturns ==
  /\ client.call = "join" /\ Joined
  /\ Return
  /\ UNCHANGED <<backend, ops, queue, running, worker, outcome, pending, fsm, closed,
                 late>>

CloseJoined ==
  /\ client.call = "close" /\ Joined
  /\ client' = [client EXCEPT !.call = "release"]
  /\ UNCHANGED <<backend, ops, queue, running, worker, outcome, pending, fsm, closed,
                 late>>

\* After the join a pull is a command of its own; its future is in no pending set.
PullJoined ==
  /\ client.call = "pull" /\ Joined
  /\ Submitted([do |-> "pull"])
  /\ client' = [client EXCEPT !.of = Len(ops')]
  /\ UNCHANGED <<backend, running, worker, pending, fsm, closed, late>>

\* What run_until_terminal does with the runtime it has read.
Looked(driver) ==
  IF driver.at = "look" /\ fsm.status \notin Ended /\ driver.left > 0
  THEN [driver EXCEPT !.at = "step"] ELSE Idle

PullReturns ==
  /\ client.call = "pull" /\ client.of # Nothing /\ Done(client.of)
  /\ client' = IF Failed(client.of) THEN Free
               ELSE [Free EXCEPT !.driver = Looked(client.driver)]
  /\ UNCHANGED <<backend, ops, queue, running, worker, outcome, pending, fsm, closed,
                 late>>

\* The end of close.  The worker thread is stopped behind all its commands and
\* waited for.  A coroutine pool waits for what is not done, and if any of that
\* fails raises instead of stopping: the node stays open.
ReleaseThread ==
  /\ client.call = "release" /\ backend = "thread"
  /\ IF worker = "ended"
     THEN closed' = TRUE /\ client' = Free /\ UNCHANGED queue
     ELSE /\ \A i \in DOMAIN queue : queue[i] # Stop
          /\ queue' = Append(queue, Stop)
          /\ UNCHANGED <<closed, client>>
  /\ UNCHANGED <<backend, ops, running, worker, outcome, pending, fsm, late>>

ReleasePool ==
  /\ client.call = "release" /\ backend = "asyncio"
  /\ \A i \in pending : Done(i)
  /\ client' = Free
  /\ \/ \E i \in pending : Failed(i) /\ UNCHANGED <<closed, worker>>
     \/ closed' = TRUE /\ worker' = "ended"
  /\ UNCHANGED <<backend, ops, queue, running, outcome, pending, fsm, late>>

\* kill: Stop is put behind the commands and the worker gets a second; the pool
\* cancels its tasks, and none that waits for the lock begins.
CallKill ==
  /\ Ready /\ client.driver = Idle
  /\ client' = Calling("kill", pending, Idle)
  /\ IF backend = "thread"
     THEN queue' = Append(queue, Stop) /\ UNCHANGED outcome
     ELSE /\ queue' = <<Stop>>
          /\ outcome' = [i \in Numbers |->
                           IF outcome[i] = "pending" THEN "cancelled" ELSE outcome[i]]
  /\ UNCHANGED <<backend, ops, running, worker, pending, fsm, closed, late>>

\* The worker has ended or the second is over: what is not done is cancelled,
\* also what the worker is doing.
KillReturns ==
  /\ client.call = "kill"
  /\ outcome' = [i \in Numbers |->
                   IF i \in pending /\ ~Done(i) THEN "cancelled" ELSE outcome[i]]
  /\ pending' = {} /\ closed' = TRUE /\ client' = Free
  /\ UNCHANGED <<backend, ops, queue, running, worker, fsm, late>>

-----------------------------------------------------------------------------
(* FSMEdgeNode.run_until_terminal: start and join; then read the runtime,   *)
(* and step and join until it has ended or no step is left.                 *)

Drive ==
  /\ Ready /\ client.driver = Idle
  /\ Submitted([do |-> "start", reset |-> FALSE])
  /\ client' = Calling("join", pending \cup {Len(ops')}, [at |-> "look", left |-> MaxSteps])
  /\ pending' = {}
  /\ UNCHANGED <<backend, running, worker, fsm, closed, late>>

DriverLooks ==
  /\ Ready /\ client.driver.at = "look" /\ Len(ops) < MaxCommands
  /\ Call("pull", client.driver)

DriverSteps ==
  /\ Ready /\ client.driver.at = "step"
  /\ \E e \in Events : Submitted([do |-> "step", event |-> e])
  /\ client' = Calling("join", pending \cup {Len(ops')},
                       [at |-> "look", left |-> client.driver.left - 1])
  /\ pending' = {}
  /\ UNCHANGED <<backend, running, worker, fsm, closed, late>>

InCall ==
  \/ JoinRaises \/ JoinReturns \/ CloseJoined \/ PullJoined \/ PullReturns
  \/ ReleaseThread \/ ReleasePool \/ KillReturns \/ DriverLooks \/ DriverSteps

Next ==
  \/ Begin \/ Finish \/ InCall
  \/ Submit \/ CallJoin \/ CallClose \/ CallPull \/ CallKill \/ Drive

\* Threads that can go on do, and commands end; nobody has to call anything.
Spec == Init /\ [][Next]_vars /\ WF_vars(Begin) /\ WF_vars(Finish) /\ WF_vars(InCall)

-----------------------------------------------------------------------------
(* Properties                                                               *)

\* "wait for all pending operations": whatever a join raised and whenever, a
\* command that is not done is waited for by the next join, pull or close.
NothingForgotten ==
  \A i \in DOMAIN ops : ~Done(i) => i \in pending \cup client.batch \cup {client.of}

\* "Forced close: release the back end at once, discard what is pending": when
\* kill has returned, at most the one command the worker is just taking from the
\* queue is still begun, and no other.
AtMostOneLate == late <= 1

\* A join, a pull, a close and a kill return or raise, in every interleaving with
\* the worker and whatever commands failed before.
CallsReturn == client.call # "none" ~> client.call = "none"

\* The history of a machine is a path from its initial state to where it is now,
\* over transitions that were rejected, failed or were diverted by on_error.
HistoryIsPath ==
  fsm # Absent =>
    LET history == fsm.history
        n == Len(history)
    IN  /\ n > 0 => history[1].source = Initial /\ history[n].target = fsm.state
        /\ n = 0 => fsm.state = Initial
        /\ \A i \in 1..n - 1 : history[i].target = history[i + 1].source
=============================================================================
