------------------------------ MODULE Scheduler ------------------------------
(***************************************************************************)
(* Scheduler and SignalPool (flowlet/scheduler.py, base/signal.py): a loop *)
(* thread polls the signals, starts the actions they trigger and collects  *)
(* the futures of those that ended.  Other threads add actions, update     *)
(* signals, take snapshots, close the scheduler or kill it.                *)
(*                                                                         *)
(* A step is what runs under one acquisition of a lock, or one access to   *)
(* an ActionRuntime outside the lock; threads switch between any two.      *)
(***************************************************************************)
EXTENDS Integers, FiniteSetsExt

CONSTANTS
  Action,      \* action names; an action's lifecycle signal bears its name
  Input,       \* signals users update
  Mode,        \* action -> "once", "repeat" or "on_change"
  Backend,     \* action -> "sync", "thread" or "coroutine"
  RunLimit,    \* action -> max_runs
  Awaits,      \* action -> signals its trigger wants completed
  Loop,        \* the thread that runs _run_loop, or none
  Reader,      \* threads that call snapshot() or idle
  Closer,      \* threads that call close()
  Killer,      \* threads that call kill()
  MaxUpdates,  \* bound on the versions of inputs and of the status signal
  None

Signal == Action \cup Input \cup {"control", "status"}
Thread == Loop \cup Reader \cup Closer \cup Killer

ASSUME SchedulerAssumption ==
  /\ Mode \in [Action -> {"once", "repeat", "on_change"}]
  /\ Backend \in [Action -> {"sync", "thread", "coroutine"}]
  /\ RunLimit \in [Action -> Nat \ {0}]
  /\ Awaits \in [Action -> SUBSET Signal]
  /\ MaxUpdates \in Nat
  /\ None \notin Nat \cup Action
  /\ None \notin {"running", "succeeded", "failed", "cancelled", "leave", "tick", "away", "pool"}

\* No two signals bear one name.
ASSUME SignalNamesAssumption ==
  /\ Action \cap Input = {}
  /\ (Action \cup Input) \cap {"control", "status"} = {}

\* start() does nothing while the loop thread lives, so there is one at most;
\* a thread does one of the jobs the model has.
ASSUME ThreadsAssumption ==
  /\ \A l, k \in Loop : l = k
  /\ Loop \cap (Reader \cup Closer \cup Killer) = {}
  /\ Reader \cap (Closer \cup Killer) = {} /\ Closer \cap Killer = {}

VARIABLES
  known,     \* actions that have been added
  status,    \* ActionRuntime.status
  runs,      \* ActionRuntime.runs
  tried,     \* ActionRuntime.last_trigger_version
  future,    \* ActionRuntime.future: None or the run it belongs to
  work,      \* what became of the runs of each action
  signal,    \* the signals: status and version
  stopping,  \* _stop_event
  poolOpen,  \* whether the CoroutinePool accepts work
  thread     \* where each thread is, with its local variables

actionVars == <<known, status, runs, tried, future, work>>
vars == <<actionVars, signal, stopping, poolOpen, thread>>

Outcome == {"succeeded", "failed"}
Ended == Outcome \cup {"cancelled"}
Run(a) == 1..RunLimit[a]

\* SignalPool.update and its callers mark_running, mark_completed, ...
Updated(s, new) == [signal EXCEPT ![s] = [status |-> new, version |-> @.version + 1]]

\* SignalPool.version.
Version == MapThenSumSet(LAMBDA s : signal[s].version, Signal)

At(t, label) == thread[t].at = label

Away(label) == [at |-> label, after |-> None, todo |-> {}, snap |-> None, a |-> None, n |-> None]
Go(t, label) == thread' = [thread EXCEPT ![t].at = label]
GoAway(t, label) == thread' = [thread EXCEPT ![t] = Away(label)]

\* t works on run n of a.
Take(t, label, a, n) ==
  thread' = [thread EXCEPT ![t].at = label, ![t].a = a, ![t].n = n]

\* t is through with a.
Drop(t, label, a) ==
  thread' = [thread EXCEPT ![t].at = label, ![t].todo = @ \ {a}, ![t].a = None, ![t].n = None]

-----------------------------------------------------------------------------
(* _collect_finished, which readers, closers and the loop all call.         *)

Collect(t, after) ==
  thread' = [thread EXCEPT ![t] = [Away("collect") EXCEPT !.after = after, !.todo = known]]

\* Mutation: a future is collected whether it is done or not.
AnyFuture(a) == future[a] # None

FutureDone(a) == future[a] # None /\ work[a][future[a]] \in Ended

\* The future is read, and asked whether it is done, without the lock.
ReadFuture(t, a) ==
  /\ At(t, "collect") /\ a \in thread[t].todo
  /\ \/ FutureDone(a) /\ Take(t, "clear", a, future[a])
     \/ ~FutureDone(a) /\ Drop(t, "collect", a)
  /\ UNCHANGED <<actionVars, signal, stopping, poolOpen>>

\* Mutation: the result of the future is not looked at.
ForgetFuture(t) ==
  /\ At(t, "clear")
  /\ future' = [future EXCEPT ![thread[t].a] = None]
  /\ Drop(t, "collect", thread[t].a)
  /\ UNCHANGED <<known, status, runs, tried, work, signal, stopping, poolOpen>>

\* runtime.future = None, whatever the future is by now.
ClearFuture(t) ==
  /\ At(t, "clear")
  /\ future' = [future EXCEPT ![thread[t].a] = None]
  /\ Go(t, "finish")
  /\ UNCHANGED <<known, status, runs, tried, work, signal, stopping, poolOpen>>

Result(t) == IF work[thread[t].a][thread[t].n] = "succeeded" THEN "completed" ELSE "failed"

\* _finish_success and _finish_failed: the runtime, then the lifecycle signal.
FinishAction(t) ==
  /\ At(t, "finish")
  /\ status' = [status EXCEPT ![thread[t].a] = Result(t)]
  /\ Go(t, "publish")
  /\ UNCHANGED <<known, runs, tried, future, work, signal, stopping, poolOpen>>

\* A synchronous action is finished inside tick, the others in a collection.
Resume(t) == IF thread[t].after = None THEN "choose" ELSE "collect"

\* Mutation: whatever happened is announced as completed.
PublishCompleted(t) ==
  /\ At(t, "publish")
  /\ signal' = Updated(thread[t].a, "completed")
  /\ Drop(t, Resume(t), thread[t].a)
  /\ UNCHANGED <<actionVars, stopping, poolOpen>>

Publish(t) ==
  /\ At(t, "publish")
  /\ signal' = Updated(thread[t].a, Result(t))
  /\ Drop(t, Resume(t), thread[t].a)
  /\ UNCHANGED <<actionVars, stopping, poolOpen>>

EndCollect(t) ==
  /\ At(t, "collect") /\ thread[t].todo = {}
  /\ GoAway(t, thread[t].after)
  /\ UNCHANGED <<actionVars, signal, stopping, poolOpen>>

-----------------------------------------------------------------------------
(* tick: collect, then start what a snapshot of the signals triggers.       *)

TakeSnapshot(t) ==
  /\ At(t, "tick")
  /\ thread' = [thread EXCEPT ![t] = [Away("choose") EXCEPT !.snap = signal, !.todo = known]]
  /\ UNCHANGED <<actionVars, signal, stopping, poolOpen>>

Triggered(a, signals) == \A s \in Awaits[a] : signals[s].status = "completed"

\* Mutation: an action that runs is no obstacle.
StartableWhileRunning(a, signals) ==
  /\ runs[a] < RunLimit[a]
  /\ Triggered(a, signals)
  /\ Mode[a] = "once" => runs[a] = 0
  /\ Mode[a] = "on_change" => tried[a] # Version

\* _should_start: the trigger sees the snapshot, the version is the current.
Startable(a, signals) ==
  /\ future[a] = None /\ status[a] # "running"
  /\ runs[a] < RunLimit[a]
  /\ Triggered(a, signals)
  /\ Mode[a] = "once" => runs[a] = 0
  /\ Mode[a] = "on_change" => tried[a] # Version

\* Mutation: the first action that is not startable ends the tick.
ChooseUntilRefusal(t, a) ==
  /\ At(t, "choose") /\ a \in thread[t].todo
  /\ \/ /\ Startable(a, thread[t].snap)
        /\ tried' = [tried EXCEPT ![a] = Version]
        /\ Take(t, "start", a, None)
     \/ /\ ~Startable(a, thread[t].snap)
        /\ thread' = [thread EXCEPT ![t].todo = {}]
        /\ UNCHANGED tried
  /\ UNCHANGED <<known, status, runs, future, work, signal, stopping, poolOpen>>

Choose(t, a) ==
  /\ At(t, "choose") /\ a \in thread[t].todo
  /\ \/ /\ Startable(a, thread[t].snap)
        /\ tried' = [tried EXCEPT ![a] = Version]
        /\ Take(t, "start", a, None)
     \/ /\ ~Startable(a, thread[t].snap)
        /\ Drop(t, "choose", a)
        /\ UNCHANGED tried
  /\ UNCHANGED <<known, status, runs, future, work, signal, stopping, poolOpen>>

\* _start_action: the runtime, the lifecycle signal, the submission.
StartAction(t) ==
  LET a == thread[t].a
  IN  /\ At(t, "start")
      /\ status' = [status EXCEPT ![a] = "running"]
      /\ runs' = [runs EXCEPT ![a] = @ + 1]
      /\ Take(t, "announce", a, runs[a] + 1)
      /\ UNCHANGED <<known, tried, future, work, signal, stopping, poolOpen>>

Announce(t) ==
  /\ At(t, "announce")
  /\ signal' = Updated(thread[t].a, "running")
  /\ Go(t, "submit")
  /\ UNCHANGED <<actionVars, stopping, poolOpen>>

\* A closed CoroutinePool raises, which ends the thread.
Submit(t) ==
  LET a == thread[t].a
      n == thread[t].n
      accepted == Backend[a] = "coroutine" => poolOpen
  IN  /\ At(t, "submit")
      /\ \/ /\ ~accepted
            /\ Go(t, "dead")
            /\ UNCHANGED <<future, work>>
         \/ /\ accepted
            /\ work' = [work EXCEPT ![a][n] = "running"]
            /\ IF Backend[a] = "sync"
               THEN Go(t, "execute") /\ UNCHANGED future
               ELSE Drop(t, "choose", a) /\ future' = [future EXCEPT ![a] = n]
      /\ UNCHANGED <<known, status, runs, tried, signal, stopping, poolOpen>>

\* A synchronous action runs in the thread that started it.
Execute(t, outcome) ==
  /\ At(t, "execute")
  /\ work' = [work EXCEPT ![thread[t].a][thread[t].n] = outcome]
  /\ Go(t, "finish")
  /\ UNCHANGED <<known, status, runs, tried, future, signal, stopping, poolOpen>>

\* A thread or a coroutine ends.
WorkEnds(a, n, outcome) ==
  /\ Backend[a] # "sync"
  /\ work[a][n] = "running"
  /\ work' = [work EXCEPT ![a][n] = outcome]
  /\ UNCHANGED <<known, status, runs, tried, future, signal, stopping, poolOpen, thread>>

-----------------------------------------------------------------------------
(* _run_loop.                                                               *)

Start(t) ==
  /\ thread[t].at \in {"new", "ended", "dead"}
  /\ signal["status"].version < MaxUpdates
  /\ stopping' = FALSE
  /\ signal' = Updated("status", "running")
  /\ GoAway(t, "head")
  /\ UNCHANGED <<actionVars, poolOpen>>

\* wait_for_change times out after poll_interval, so the loop just goes on.
LoopHead(t) ==
  /\ At(t, "head")
  /\ Collect(t, IF stopping \/ signal["control"].status = "stopped" THEN "leave" ELSE "tick")
  /\ UNCHANGED <<actionVars, signal, stopping, poolOpen>>

EndTick(t) ==
  /\ At(t, "choose") /\ thread[t].todo = {}
  /\ GoAway(t, "head")
  /\ UNCHANGED <<actionVars, signal, stopping, poolOpen>>

LeaveLoop(t) ==
  /\ At(t, "leave")
  /\ signal' = Updated("status", "completed")
  /\ GoAway(t, "ended")
  /\ UNCHANGED <<actionVars, stopping, poolOpen>>

-----------------------------------------------------------------------------
(* The other threads.                                                       *)

AddAction(a) ==
  /\ a \notin known
  /\ known' = known \cup {a}
  /\ UNCHANGED <<status, runs, tried, future, work, signal, stopping, poolOpen, thread>>

UpdateInput(i) ==
  /\ signal[i].version < MaxUpdates
  /\ signal' = Updated(i, "completed")
  /\ UNCHANGED <<actionVars, stopping, poolOpen, thread>>

\* snapshot() and idle collect, and only read from there on.
ReadState(t) ==
  /\ At(t, "away")
  /\ Collect(t, "away")
  /\ UNCHANGED <<actionVars, signal, stopping, poolOpen>>

\* request_stop, in two steps.
RequestStop(t) ==
  /\ At(t, "open")
  /\ signal' = Updated("control", "stopped")
  /\ Go(t, "requested")
  /\ UNCHANGED <<actionVars, stopping, poolOpen>>

SetStop(t) ==
  /\ At(t, "requested")
  /\ stopping' = TRUE
  /\ Go(t, "join")
  /\ UNCHANGED <<actionVars, signal, poolOpen>>

\* close() joins the loop thread, then collects.  (The five seconds it waits
\* are taken to be enough.)
JoinLoop(t) ==
  /\ At(t, "join")
  /\ \A l \in Loop : thread[l].at \in {"new", "ended", "dead"}
  /\ Collect(t, "pool")
  /\ UNCHANGED <<actionVars, signal, stopping, poolOpen>>

Pending == {run \in Action \X UNION {Run(b) : b \in Action} :
              /\ Backend[run[1]] = "coroutine" /\ run[2] \in Run(run[1])
              /\ work[run[1]][run[2]] = "running"}

\* Mutation: CoroutinePool.close waits for nothing.
ListNothing(t) ==
  /\ At(t, "pool")
  /\ Go(t, "wait")
  /\ UNCHANGED <<actionVars, signal, stopping, poolOpen>>

\* CoroutinePool.close lists the pending futures, unless it is closed ...
ListPending(t) ==
  /\ At(t, "pool")
  /\ IF poolOpen
     THEN thread' = [thread EXCEPT ![t].at = "wait", ![t].todo = Pending]
     ELSE Go(t, "mark")
  /\ UNCHANGED <<actionVars, signal, stopping, poolOpen>>

\* ... and waits for them; the error of one of them is raised by close().
ClosePool(t) ==
  LET results == {work[run[1]][run[2]] : run \in thread[t].todo}
  IN  /\ At(t, "wait")
      /\ results \subseteq Ended
      /\ IF results \subseteq {"succeeded"}
         THEN poolOpen' = FALSE /\ GoAway(t, "mark")
         ELSE GoAway(t, "raised") /\ UNCHANGED poolOpen
      /\ UNCHANGED <<actionVars, signal, stopping>>

MarkClosed(t) ==
  /\ At(t, "mark")
  /\ signal' = Updated("status", "completed")
  /\ GoAway(t, "closed")
  /\ UNCHANGED <<actionVars, stopping, poolOpen>>

\* kill: the event, the pool with its pending futures, the status signal.
KillLoop(t) ==
  /\ At(t, "alive")
  /\ stopping' = TRUE
  /\ Go(t, "killing")
  /\ UNCHANGED <<actionVars, signal, poolOpen>>

KillPool(t) ==
  /\ At(t, "killing")
  /\ poolOpen' = FALSE
  /\ work' = IF poolOpen
             THEN [a \in Action |-> [n \in Run(a) |->
                     IF <<a, n>> \in Pending THEN "cancelled" ELSE work[a][n]]]
             ELSE work
  /\ Go(t, "reporting")
  /\ UNCHANGED <<known, status, runs, tried, future, signal, stopping>>

ReportKilled(t) ==
  /\ At(t, "reporting")
  /\ signal' = Updated("status", "stopped")
  /\ Go(t, "killed")
  /\ UNCHANGED <<actionVars, stopping, poolOpen>>

-----------------------------------------------------------------------------

Init ==
  /\ known = {}
  /\ status = [a \in Action |-> "pending"]
  /\ runs = [a \in Action |-> 0]
  /\ tried = [a \in Action |-> -1]
  /\ future = [a \in Action |-> None]
  /\ work = [a \in Action |-> [n \in Run(a) |-> None]]
  /\ signal = [s \in Signal |-> [status |-> "pending", version |-> 0]]
  /\ stopping = FALSE
  /\ poolOpen = TRUE
  /\ thread = [t \in Thread |-> CASE t \in Loop -> Away("new")
                                  [] t \in Reader -> Away("away")
                                  [] t \in Closer -> Away("open")
                                  [] t \in Killer -> Away("alive")]

CollectStep(t) ==
  \/ \E a \in Action : ReadFuture(t, a)
  \/ ClearFuture(t) \/ FinishAction(t) \/ Publish(t) \/ EndCollect(t)

TickStep(t) ==
  \/ TakeSnapshot(t)
  \/ \E a \in Action : Choose(t, a)
  \/ StartAction(t) \/ Announce(t) \/ Submit(t)
  \/ \E outcome \in Outcome : Execute(t, outcome)

LoopStep(t) == CollectStep(t) \/ TickStep(t) \/ LoopHead(t) \/ EndTick(t) \/ LeaveLoop(t)

CloseStep(t) ==
  RequestStop(t) \/ SetStop(t) \/ JoinLoop(t) \/ ListPending(t) \/ ClosePool(t) \/ MarkClosed(t)

KillStep(t) == KillLoop(t) \/ KillPool(t) \/ ReportKilled(t)

Environment ==
  \/ \E a \in Action : AddAction(a)
  \/ \E a \in Action : \E n \in Run(a), outcome \in Outcome : WorkEnds(a, n, outcome)
  \/ \E i \in Input : UpdateInput(i)
  \/ \E l \in Loop : Start(l)

Next ==
  \/ Environment
  \/ \E l \in Loop : LoopStep(l)
  \/ \E r \in Reader : ReadState(r) \/ CollectStep(r)
  \/ \E c \in Closer : CloseStep(c) \/ CollectStep(c)
  \/ \E k \in Killer : KillStep(k)

\* The loop thread is scheduled, and synchronous actions return.
Fairness == \A l \in Loop : WF_vars(LoopStep(l))

Spec == Init /\ [][Next]_vars /\ Fairness

-----------------------------------------------------------------------------
(* Properties.                                                              *)

\* An action never overlaps itself, whatever its mode and its limit.
OneRunAtATime ==
  \A a \in Action : Cardinality({n \in Run(a) : work[a][n] = "running"}) <= 1

\* The scheduler lets go of a future only when its run has ended, so that no
\* result is lost and no run goes on behind its back.
OnlyEndedWorkDropped ==
  [][\A a \in Action : future[a] # None /\ future'[a] = None => work[a][future[a]] \in Ended]_vars

\* An action whose trigger awaits others runs only after each of them has
\* ended well, however snapshot, trigger and start are spread over time.
StartsAfterAwaited ==
  \A a \in Action : runs[a] > 0 =>
    \A b \in Awaits[a] \cap Action : \E n \in Run(b) : work[b][n] = "succeeded"

\* When close() has got past the pool, no coroutine runs, and none will: not
\* from a loop that is started again, nor after a kill in between.
CloseWaitsForCoroutines ==
  (\E c \in Closer : thread[c].at \in {"mark", "closed"}) => Pending = {}

Alive(l) == ~stopping /\ signal["control"].status # "stopped" /\ thread[l].at \notin {"new", "ended", "dead"}

\* While the loop lives, every run that ends is reported on its signal.
EveryResultReported ==
  \A l \in Loop, a \in Action : \A n \in Run(a) :
    work[a][n] \in Ended ~> signal[a].version >= 2 * n \/ ~Alive(l)

\* While the loop lives, an action that is to run once does so after its
\* trigger has become true for good.
TriggeredActionStarts ==
  \A l \in Loop, a \in Action :
    Mode[a] = "once" /\ a \in known /\ Triggered(a, signal)
      ~> runs[a] > 0 \/ ~Triggered(a, signal) \/ ~Alive(l)

=============================================================================
