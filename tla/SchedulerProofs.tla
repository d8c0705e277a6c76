--------------------------- MODULE SchedulerProofs ---------------------------
(***************************************************************************)
(* The safety properties of Scheduler, for any actions, triggers, limits   *)
(* and any number of threads around the loop thread.                       *)
(*                                                                         *)
(* Base says where each thread may be and what it holds; on top of it are  *)
(* one invariant on snapshots and triggers, one on closing, and one on who *)
(* has a run in hand.                                                      *)
(***************************************************************************)
EXTENDS Scheduler, FiniteSetTheorems, TLAPS

Collecting == {"collect", "clear", "finish", "publish"}
Starting == {"start", "announce", "submit", "execute"}
LoopPlaces ==
  {"new", "ended", "dead", "head", "leave", "tick", "choose"} \cup Collecting \cup Starting
CloserPlaces ==
  {"open", "requested", "join", "pool", "wait", "mark", "raised", "closed"} \cup Collecting
ReaderPlaces == {"away"} \cup Collecting
KillerPlaces == {"alive", "killing", "reporting", "killed"}
Place == LoopPlaces \cup CloserPlaces \cup ReaderPlaces \cup KillerPlaces

SignalState ==
  [status: {"pending", "running", "completed", "failed", "stopped"}, version: Int]
After == {"leave", "tick", "away", "pool"}
WorkStatus == {None, "running"} \cup Ended
Job == Action \cup (Action \X Int)

ThreadState ==
  [at: Place, after: After \cup {None}, todo: SUBSET Job,
   snap: [Signal -> SignalState] \cup {None}, a: Action \cup {None}, n: Int \cup {None}]

WorkTypes ==
  /\ work = [a \in Action |-> work[a]]
  /\ \A a \in Action : work[a] \in [Run(a) -> WorkStatus]

Types ==
  /\ known \subseteq Action
  /\ runs \in [Action -> Nat]
  /\ future \in [Action -> Nat \cup {None}]
  /\ \A a \in Action : future[a] \in Run(a) \cup {None}
  /\ WorkTypes
  /\ signal \in [Signal -> SignalState]
  /\ stopping \in BOOLEAN /\ poolOpen \in BOOLEAN
  /\ thread \in [Thread -> ThreadState]

\* Each thread does its own job, and a collection knows where it goes on.
InPlace(t, c) ==
  /\ t \in Loop =>
       /\ c.at \in LoopPlaces
       /\ c.at \in {"collect", "clear"} => c.after \in {"leave", "tick"}
       /\ c.at \in {"finish", "publish"} => c.after \in {"leave", "tick", None}
       /\ c.at \in Starting \cup {"choose"} => c.after = None
  /\ t \in Reader => c.at \in ReaderPlaces /\ (c.at \in Collecting => c.after = "away")
  /\ t \in Closer => c.at \in CloserPlaces /\ (c.at \in Collecting => c.after = "pool")
  /\ t \in Killer => c.at \in KillerPlaces

\* What c holds of a run it collects or starts.
Held(c) ==
  /\ c.at \in {"clear", "finish", "publish"} =>
       c.a \in Action /\ c.n \in Run(c.a) /\ work[c.a][c.n] \in Ended
  /\ c.at = "start" => c.a \in Action /\ runs[c.a] < RunLimit[c.a]
  /\ c.at \in {"announce", "submit", "execute"} =>
       c.a \in Action /\ c.n = runs[c.a] /\ c.n \in Run(c.a)
  /\ c.at \in {"announce", "submit"} => work[c.a][c.n] = None
  /\ c.at = "execute" => Backend[c.a] = "sync" /\ work[c.a][c.n] = "running"

\* Work is that of runs that have been counted.
WorkIsCounted == \A a \in Action : \A n \in Run(a) : work[a][n] # None => n <= runs[a]

\* Types, and all that the other invariants need to know of the threads.
Base ==
  /\ Types
  /\ \A t \in Thread : InPlace(t, thread[t]) /\ Held(thread[t])
  /\ WorkIsCounted

-----------------------------------------------------------------------------

Succeeded(b) == \E n \in Run(b) : work[b][n] = "succeeded"

\* What a map of signals says is completed has succeeded.
Truthful(signals) == \A b \in Action : signals[b].status = "completed" => Succeeded(b)

Awaited(a) == \A b \in Awaits[a] \cap Action : Succeeded(b)

\* The snapshot a loop thread decides on stays with it until the next tick.
Deciding(c) ==
  \/ c.at \in Starting \cup {"choose"}
  \/ c.at \in {"finish", "publish"} /\ c.after = None

Informed(c) ==
  /\ Deciding(c) => c.snap \in [Signal -> SignalState] /\ Truthful(c.snap)
  /\ c.at = "start" => Awaited(c.a)

StartsInv ==
  /\ Truthful(signal)
  /\ \A t \in Thread : Informed(thread[t])
  /\ \A a \in Action : runs[a] > 0 => Awaited(a)

-----------------------------------------------------------------------------

PastJoin(c) == thread[c].at \notin {"open", "requested", "join"}

\* A loop thread that starts nothing, and will not before it sees the signals.
Quiet(l) ==
  \/ thread[l].at \in {"new", "ended", "dead", "head", "leave"}
  \/ thread[l].at \in Collecting /\ thread[l].after = "leave"

Stopped == signal["control"].status = "stopped"

Closes(c) ==
  /\ thread[c].at # "open" => Stopped
  /\ PastJoin(c) => \A l \in Loop : Quiet(l)
  /\ thread[c].at = "wait" => Pending \subseteq thread[c].todo
  /\ thread[c].at \in {"mark", "closed"} => ~poolOpen

CloseInv ==
  /\ \A c \in Closer : Closes(c)
  /\ ~poolOpen => Pending = {}

-----------------------------------------------------------------------------

\* A run that goes on is the one of the future, or the loop thread is in it.
InHand(a, n) ==
  \/ future[a] = n
  \/ \E l \in Loop : thread[l].at = "execute" /\ thread[l].a = a /\ thread[l].n = n

\* Nobody starts what has a future, or clears a future of another run.
Exclusive(t) ==
  /\ t \in Loop /\ thread[t].at \in Starting => future[thread[t].a] = None
  /\ thread[t].at = "clear" => future[thread[t].a] \in {thread[t].n, None}

OverlapInv ==
  /\ \A a \in Action : \A n \in Run(a) : work[a][n] = "running" => InHand(a, n)
  /\ \A t \in Thread : Exclusive(t)

-----------------------------------------------------------------------------
(* What the operators that move a thread do to its fields.                  *)

Moved(t, label) ==
  /\ thread' \in [Thread -> ThreadState]
  /\ thread'[t].at = label
  /\ \A u \in Thread : u # t => thread'[u] = thread[u]

Threads == thread \in [Thread -> ThreadState]

LEMMA GoMoves ==
  ASSUME Threads, NEW t \in Thread, NEW label \in Place, Go(t, label)
  PROVE  /\ Moved(t, label)
         /\ thread'[t].after = thread[t].after /\ thread'[t].todo = thread[t].todo
         /\ thread'[t].snap = thread[t].snap
         /\ thread'[t].a = thread[t].a /\ thread'[t].n = thread[t].n
BY DEF Threads, Go, Moved, ThreadState

LEMMA GoAwayMoves ==
  ASSUME Threads, NEW t \in Thread, NEW label \in Place, GoAway(t, label)
  PROVE  Moved(t, label) /\ thread'[t].after = None
BY DEF Threads, GoAway, Away, Moved, ThreadState

LEMMA CollectMoves ==
  ASSUME Threads, known \subseteq Action, NEW t \in Thread, NEW after \in After, Collect(t, after)
  PROVE  Moved(t, "collect") /\ thread'[t].after = after
<1>1. "collect" \in Place /\ known \in SUBSET Job
  BY DEF Place, LoopPlaces, Collecting, Job
<1> QED
  BY <1>1 DEF Threads, Collect, Away, Moved, ThreadState

LEMMA TakeMoves ==
  ASSUME Threads, NEW t \in Thread, NEW label \in Place, NEW a \in Action,
         NEW n \in Int \cup {None}, Take(t, label, a, n)
  PROVE  /\ Moved(t, label)
         /\ thread'[t].after = thread[t].after /\ thread'[t].snap = thread[t].snap
         /\ thread'[t].a = a /\ thread'[t].n = n
<1> DEFINE c == [thread[t] EXCEPT !.at = label, !.a = a, !.n = n]
<1>1. thread[t] \in ThreadState
  BY DEF Threads
<1>2. /\ c \in ThreadState /\ c.at = label /\ c.a = a /\ c.n = n
      /\ c.after = thread[t].after /\ c.snap = thread[t].snap
  BY <1>1 DEF ThreadState
<1>3. thread' = [thread EXCEPT ![t] = c]
  BY <1>1 DEF Take, Threads, ThreadState
<1> HIDE DEF c
<1> QED
  BY <1>2, <1>3 DEF Threads, Moved

LEMMA DropMoves ==
  ASSUME Threads, NEW t \in Thread, NEW label \in Place, NEW a, Drop(t, label, a)
  PROVE  /\ Moved(t, label)
         /\ thread'[t].after = thread[t].after /\ thread'[t].snap = thread[t].snap
<1> DEFINE c == [thread[t] EXCEPT !.at = label, !.todo = @ \ {a}, !.a = None, !.n = None]
<1>1. thread[t] \in ThreadState
  BY DEF Threads
<1>2. /\ c \in ThreadState /\ c.at = label
      /\ c.after = thread[t].after /\ c.snap = thread[t].snap
  BY <1>1 DEF ThreadState
<1>3. thread' = [thread EXCEPT ![t] = c]
  BY <1>1 DEF Drop, Threads, ThreadState
<1> HIDE DEF c
<1> QED
  BY <1>2, <1>3 DEF Threads, Moved

LEMMA NoneIsNothing ==
  /\ None \notin Ended \cup {"running"} /\ "running" \notin Ended
  /\ None \notin After
  /\ None \notin Nat /\ None \notin Action
BY SchedulerAssumption DEF Ended, Outcome, After

LEMMA RunTypes ==
  ASSUME NEW a \in Action
  PROVE  /\ RunLimit[a] \in Nat /\ Run(a) \subseteq Nat /\ None \notin Run(a)
         /\ \A n \in Nat : n < RunLimit[a] => n + 1 \in Run(a)
BY SchedulerAssumption DEF Run

\* One run of one action is set.
SetTo(a, n, w) == work' = [work EXCEPT ![a][n] = w]

LEMMA WorkSet ==
  ASSUME WorkTypes, NEW a \in Action, NEW n \in Run(a), NEW w \in WorkStatus, SetTo(a, n, w)
  PROVE  /\ WorkTypes'
         /\ \A b \in Action : \A m \in Run(b) :
              work'[b][m] = IF b = a /\ m = n THEN w ELSE work[b][m]
<1>1. work' = [b \in Action |-> IF b = a THEN [work[a] EXCEPT ![n] = w] ELSE work[b]]
  BY DEF WorkTypes, SetTo
<1>2. \A b \in Action : work'[b] \in [Run(b) -> WorkStatus]
  BY <1>1 DEF WorkTypes
<1>3. work' = [b \in Action |-> work'[b]]
  BY <1>1
<1>4. \A b \in Action : \A m \in Run(b) :
        work'[b][m] = IF b = a /\ m = n THEN w ELSE work[b][m]
  BY <1>1 DEF WorkTypes
<1> QED
  BY <1>2, <1>3, <1>4 DEF WorkTypes

LEMMA SignalSet ==
  ASSUME signal \in [Signal -> SignalState], NEW s \in Signal, NEW new \in {"pending", "running", "completed", "failed", "stopped"},
         signal' = Updated(s, new)
  PROVE  /\ signal' \in [Signal -> SignalState]
         /\ signal'[s].status = new
         /\ \A r \in Signal : r # s => signal'[r] = signal[r]
BY DEF Updated, SignalState

LEMMA StatusTypes ==
  ASSUME NEW t
  PROVE  Result(t) \in {"completed", "failed"}
BY DEF Result

-----------------------------------------------------------------------------
(* The threads are where they may be, and hold what they say.               *)

\* What only ends runs that went on outside the loop thread.
Outside ==
  /\ runs' = runs
  /\ \A a \in Action : \A n \in Run(a) :
       work'[a][n] # work[a][n] => work[a][n] = "running" /\ Backend[a] # "sync"

EndedStays ==
  \A a \in Action : \A n \in Run(a) : work[a][n] \in Ended => work'[a][n] = work[a][n]

LEMMA OthersHold ==
  ASSUME NEW u \in Thread, Held(thread[u]), thread'[u] = thread[u],
         InPlace(u, thread[u]), Outside \/ (u \notin Loop /\ EndedStays)
  PROVE  Held(thread[u])'
<1>1. CASE Outside
  <2>1. \A a \in Action : \A n \in Run(a) :
          /\ work[a][n] \in Ended \cup {None} => work'[a][n] = work[a][n]
          /\ Backend[a] = "sync" => work'[a][n] = work[a][n]
    BY <1>1, NoneIsNothing DEF Outside, Ended, Outcome
  <2>2. runs' = runs
    BY <1>1 DEF Outside
  <2> QED
    BY <2>1, <2>2 DEF Held
<1>2. CASE u \notin Loop /\ EndedStays
  <2>1. thread[u].at \notin Starting
    BY <1>2 DEF InPlace, Thread, Starting, ReaderPlaces, CloserPlaces, KillerPlaces, Collecting
  <2> QED
    BY <1>2, <2>1 DEF Held, EndedStays, Starting
<1> QED
  BY <1>1, <1>2

\* A step of t that leaves runs alone, but for ending some outside the loop.
LEMMA BaseKept ==
  ASSUME Base, NEW t \in Thread, NEW label, Moved(t, label), Outside, Types',
         InPlace(t, thread[t])', Held(thread[t])'
  PROVE  Base'
<1>1. ASSUME NEW u \in Thread
      PROVE  InPlace(u, thread'[u]) /\ Held(thread[u])'
  <2>1. CASE u = t
    BY <2>1
  <2>2. CASE u # t
    <3>1. thread'[u] = thread[u]
      BY <2>2 DEF Moved
    <3> QED
      BY <3>1, OthersHold DEF Base
  <2> QED
    BY <2>1, <2>2
<1>2. WorkIsCounted'
  <2>1. \A a \in Action : \A n \in Run(a) : work[a][n] = None => work'[a][n] = None
    BY NoneIsNothing DEF Outside
  <2>2. runs' = runs /\ WorkIsCounted
    BY DEF Outside, Base
  <2> QED
    BY <2>1, <2>2 DEF WorkIsCounted
<1> QED
  BY <1>1, <1>2 DEF Base, InPlace

\* Nothing that Types speaks of changes but where threads are.
LEMMA OnlyThreads ==
  ASSUME Types, NEW t, NEW label, Moved(t, label),
         UNCHANGED <<known, runs, future, work, signal, stopping, poolOpen>>
  PROVE  Types' /\ Outside
BY DEF Types, WorkTypes, Moved, Outside

\* Nor a signal.
LEMMA OnlySignals ==
  ASSUME Types, NEW t, NEW label, Moved(t, label),
         signal' \in [Signal -> SignalState], stopping' \in BOOLEAN,
         UNCHANGED <<known, runs, future, work, poolOpen>>
  PROVE  Types' /\ Outside
BY DEF Types, WorkTypes, Moved, Outside

LEMMA CollectBase ==
  ASSUME Base, NEW t \in Thread, CollectStep(t)
  PROVE  Base'
<1> USE DEF Place, LoopPlaces, CloserPlaces, ReaderPlaces, KillerPlaces, Collecting, Starting
<1>1. Threads /\ Types /\ InPlace(t, thread[t]) /\ Held(thread[t])
  BY DEF Base, Types, Threads
<1>2. ASSUME NEW a \in Action, ReadFuture(t, a) PROVE Base'
  <2>1. CASE FutureDone(a) /\ Take(t, "clear", a, future[a])
    <3>1. future[a] \in Run(a) /\ work[a][future[a]] \in Ended /\ future[a] \in Int \cup {None}
      BY <1>1, <2>1, RunTypes DEF FutureDone, Types
    <3>2. Moved(t, "clear") /\ thread'[t].after = thread[t].after
          /\ thread'[t].a = a /\ thread'[t].n = future[a]
      BY <1>1, <2>1, <3>1, TakeMoves
    <3>3. Types' /\ Outside /\ work' = work
      BY <1>1, <1>2, <3>2, OnlyThreads DEF ReadFuture, actionVars
    <3>4. InPlace(t, thread[t])' /\ Held(thread[t])'
      BY <1>1, <1>2, <3>1, <3>2, <3>3 DEF InPlace, Held, ReadFuture, At, Moved
    <3> QED
      BY <3>2, <3>3, <3>4, BaseKept
  <2>2. CASE Drop(t, "collect", a)
    <3>1. Moved(t, "collect") /\ thread'[t].after = thread[t].after
      BY <1>1, <2>2, DropMoves
    <3>2. Types' /\ Outside
      BY <1>1, <1>2, <3>1, OnlyThreads DEF ReadFuture, actionVars
    <3>3. InPlace(t, thread[t])' /\ Held(thread[t])'
      BY <1>1, <1>2, <3>1 DEF InPlace, Held, ReadFuture, At, Moved
    <3> QED
      BY <3>1, <3>2, <3>3, BaseKept
  <2> QED
    BY <1>2, <2>1, <2>2 DEF ReadFuture
<1>3. CASE ClearFuture(t)
  <2>1. /\ Moved(t, "finish") /\ thread'[t].after = thread[t].after
        /\ thread'[t].a = thread[t].a /\ thread'[t].n = thread[t].n
    BY <1>1, <1>3, GoMoves DEF ClearFuture
  <2>2. Types' /\ Outside /\ work' = work
    BY <1>1, <1>3, <2>1 DEF Types, WorkTypes, Moved, Outside, ClearFuture
  <2>3. InPlace(t, thread[t])' /\ Held(thread[t])'
    BY <1>1, <1>3, <2>1, <2>2 DEF InPlace, Held, ClearFuture, At, Moved
  <2> QED
    BY <2>1, <2>2, <2>3, BaseKept
<1>4. CASE FinishAction(t)
  <2>1. /\ Moved(t, "publish") /\ thread'[t].after = thread[t].after
        /\ thread'[t].a = thread[t].a /\ thread'[t].n = thread[t].n
    BY <1>1, <1>4, GoMoves DEF FinishAction
  <2>2. Types' /\ Outside /\ work' = work
    BY <1>1, <1>4, <2>1, OnlyThreads DEF FinishAction
  <2>3. InPlace(t, thread[t])' /\ Held(thread[t])'
    BY <1>1, <1>4, <2>1, <2>2 DEF InPlace, Held, FinishAction, At, Moved
  <2> QED
    BY <2>1, <2>2, <2>3, BaseKept
<1>5. CASE Publish(t)
  <2>1. /\ Moved(t, Resume(t)) /\ thread'[t].after = thread[t].after
        /\ Resume(t) = IF thread[t].after = None THEN "choose" ELSE "collect"
    BY <1>1, <1>5, DropMoves DEF Publish, Resume
  <2>2. thread[t].a \in Signal /\ signal' = Updated(thread[t].a, Result(t))
    BY <1>1, <1>5 DEF Publish, Held, At, Signal
  <2>3. Types' /\ Outside
    <3>1. signal' \in [Signal -> SignalState]
      BY <1>1, <2>2, SignalSet, StatusTypes DEF Types
    <3> QED
      BY <1>1, <1>5, <2>1, <3>1 DEF Types, WorkTypes, Moved, Outside, Publish, actionVars
  <2>4. InPlace(t, thread[t])' /\ Held(thread[t])'
    BY <1>1, <1>5, <2>1, NoneIsNothing DEF InPlace, Held, Publish, At, Moved, After
  <2> QED
    BY <2>1, <2>3, <2>4, BaseKept
<1>6. CASE EndCollect(t)
  <2>1. thread[t].after \in Place
    BY <1>1, <1>6 DEF EndCollect, At, InPlace, Thread
  <2>2. Moved(t, thread[t].after)
    BY <1>1, <1>6, <2>1, GoAwayMoves DEF EndCollect
  <2>3. Types' /\ Outside
    BY <1>1, <1>6, <2>2, OnlyThreads DEF EndCollect, actionVars
  <2>4. InPlace(t, thread[t])' /\ Held(thread[t])'
    BY <1>1, <1>6, <2>2 DEF InPlace, Held, EndCollect, At, Moved, Thread
  <2> QED
    BY <2>2, <2>3, <2>4, BaseKept
<1> QED
  BY <1>2, <1>3, <1>4, <1>5, <1>6 DEF CollectStep

\* A step of the loop thread that counts or begins a run.
LEMMA LoopKept ==
  ASSUME Base, NEW t \in Loop, NEW label, Moved(t, label), EndedStays, Types',
         InPlace(t, thread[t])', Held(thread[t])', WorkIsCounted'
  PROVE  Base'
<1>1. ASSUME NEW u \in Thread
      PROVE  InPlace(u, thread'[u]) /\ Held(thread[u])'
  <2>1. CASE u = t
    BY <2>1
  <2>2. CASE u # t
    <3>1. thread'[u] = thread[u] /\ u \notin Loop
      BY <2>2, ThreadsAssumption DEF Moved
    <3> QED
      BY <3>1, OthersHold DEF Base
  <2> QED
    BY <2>1, <2>2
<1> QED
  BY <1>1 DEF Base, InPlace

LEMMA TickBase ==
  ASSUME Base, NEW t \in Loop, TickStep(t)
  PROVE  Base'
<1> USE DEF Place, LoopPlaces, Collecting, Starting
<1>1. /\ Threads /\ Types /\ InPlace(t, thread[t]) /\ Held(thread[t]) /\ t \in Thread
      /\ t \notin Reader /\ t \notin Closer /\ t \notin Killer /\ WorkIsCounted
  BY ThreadsAssumption DEF Base, Types, Threads, Thread
<1>2. CASE TakeSnapshot(t)
  <2> DEFINE c == [Away("choose") EXCEPT !.snap = signal, !.todo = known]
  <2>1. /\ c \in ThreadState /\ c.at = "choose" /\ c.after = None
        /\ thread' = [thread EXCEPT ![t] = c]
    BY <1>1, <1>2 DEF TakeSnapshot, Away, ThreadState, Types, Job
  <2> HIDE DEF c
  <2>2. Moved(t, "choose") /\ thread'[t].after = None
    BY <1>1, <2>1 DEF Moved, Threads
  <2>3. Types' /\ Outside
    BY <1>1, <1>2, <2>2, OnlyThreads DEF TakeSnapshot, actionVars
  <2>4. InPlace(t, thread[t])' /\ Held(thread[t])'
    BY <1>1, <2>2 DEF InPlace, Held, Moved
  <2> QED
    BY <1>1, <2>2, <2>3, <2>4, BaseKept
<1>3. ASSUME NEW a \in Action, Choose(t, a) PROVE Base'
  <2>1. CASE Startable(a, thread[t].snap) /\ Take(t, "start", a, None)
    <3>1. Moved(t, "start") /\ thread'[t].after = thread[t].after /\ thread'[t].a = a
      BY <1>1, <2>1, TakeMoves
    <3>2. Types' /\ Outside /\ runs' = runs
      BY <1>1, <1>3, <3>1, OnlyThreads DEF Choose
    <3>3. InPlace(t, thread[t])' /\ Held(thread[t])'
      BY <1>1, <1>3, <2>1, <3>1, <3>2 DEF InPlace, Held, Choose, At, Moved, Startable
    <3> QED
      BY <1>1, <3>1, <3>2, <3>3, BaseKept
  <2>2. CASE Drop(t, "choose", a)
    <3>1. Moved(t, "choose") /\ thread'[t].after = thread[t].after
      BY <1>1, <2>2, DropMoves
    <3>2. Types' /\ Outside
      BY <1>1, <1>3, <3>1, OnlyThreads DEF Choose
    <3>3. InPlace(t, thread[t])' /\ Held(thread[t])'
      BY <1>1, <1>3, <3>1 DEF InPlace, Held, Choose, At, Moved
    <3> QED
      BY <1>1, <3>1, <3>2, <3>3, BaseKept
  <2> QED
    BY <1>3, <2>1, <2>2 DEF Choose
<1>4. CASE StartAction(t)
  <2> DEFINE a == thread[t].a
  <2>1. /\ a \in Action /\ runs[a] \in Nat /\ runs[a] + 1 \in Run(a)
        /\ runs' = [runs EXCEPT ![a] = runs[a] + 1] /\ work' = work
    BY <1>1, <1>4, RunTypes DEF StartAction, Held, At, Types
  <2>2. /\ Moved(t, "announce") /\ thread'[t].after = thread[t].after
        /\ thread'[t].a = a /\ thread'[t].n = runs[a] + 1
    BY <1>1, <1>4, <2>1, TakeMoves DEF StartAction
  <2>3. Types' /\ EndedStays
    BY <1>1, <1>4, <2>1, <2>2 DEF Types, WorkTypes, Moved, EndedStays, StartAction
  <2>4. work[a][runs[a] + 1] = None
    BY <1>1, <2>1 DEF WorkIsCounted
  <2>5. runs'[a] = runs[a] + 1
    BY <1>1, <2>1 DEF Types
  <2> HIDE DEF a
  <2>6. InPlace(t, thread[t])' /\ Held(thread[t])'
    BY <1>1, <1>4, <2>1, <2>2, <2>4, <2>5 DEF InPlace, Held, StartAction, At, Moved
  <2>7. WorkIsCounted'
    <3>1. \A b \in Action : runs'[b] >= runs[b] /\ runs[b] \in Nat /\ runs'[b] \in Nat
      BY <1>1, <2>1 DEF Types
    <3>2. \A b \in Action : \A m \in Run(b) : m \in Nat
      BY RunTypes
    <3> QED
      BY <1>1, <2>1, <3>1, <3>2 DEF WorkIsCounted, Run
  <2> QED
    BY <2>2, <2>3, <2>6, <2>7, LoopKept
<1>5. CASE Announce(t)
  <2>1. /\ Moved(t, "submit") /\ thread'[t].after = thread[t].after
        /\ thread'[t].a = thread[t].a /\ thread'[t].n = thread[t].n
    BY <1>1, <1>5, GoMoves DEF Announce
  <2>2. thread[t].a \in Signal /\ signal' = Updated(thread[t].a, "running")
    BY <1>1, <1>5 DEF Announce, Held, At, Signal
  <2>3. signal' \in [Signal -> SignalState]
    BY <1>1, <2>2, SignalSet DEF Types
  <2>4. Types' /\ Outside /\ UNCHANGED <<work, runs>>
    BY <1>1, <1>5, <2>1, <2>3 DEF Types, WorkTypes, Moved, Outside, Announce, actionVars
  <2>5. InPlace(t, thread[t])' /\ Held(thread[t])'
    BY <1>1, <1>5, <2>1, <2>4 DEF InPlace, Held, Announce, At, Moved
  <2> QED
    BY <1>1, <2>1, <2>4, <2>5, BaseKept
<1>6. CASE Submit(t)
  <2> DEFINE a == thread[t].a
             n == thread[t].n
  <2>1. a \in Action /\ n = runs[a] /\ n \in Run(a) /\ work[a][n] = None /\ runs' = runs
    BY <1>1, <1>6 DEF Submit, Held, At
  <2>2. n \in Nat /\ runs[a] \in Nat
    BY <2>1, <1>1, RunTypes DEF Types
  <2>3. CASE Go(t, "dead") /\ UNCHANGED <<future, work>>
    <3>1. Moved(t, "dead") /\ thread'[t].after = thread[t].after
      BY <1>1, <2>3, GoMoves
    <3>2. Types' /\ Outside
      BY <1>1, <1>6, <2>3, <3>1, OnlyThreads DEF Submit
    <3>3. InPlace(t, thread[t])' /\ Held(thread[t])'
      BY <1>1, <3>1 DEF InPlace, Held, Moved
    <3> QED
      BY <1>1, <3>1, <3>2, <3>3, BaseKept
  <2>4. CASE /\ work' = [work EXCEPT ![a][n] = "running"]
             /\ IF Backend[a] = "sync"
                THEN Go(t, "execute") /\ UNCHANGED future
                ELSE Drop(t, "choose", a) /\ future' = [future EXCEPT ![a] = n]
    <3>1. /\ WorkTypes'
          /\ \A b \in Action : \A m \in Run(b) :
               work'[b][m] = IF b = a /\ m = n THEN "running" ELSE work[b][m]
      <4>1. "running" \in WorkStatus /\ WorkTypes
        BY <1>1 DEF Types, WorkStatus
      <4> HIDE DEF a, n
      <4>2. SetTo(a, n, "running")
        BY <2>4 DEF SetTo
      <4> QED
        BY <2>1, <4>1, <4>2, WorkSet
    <3>2. EndedStays
      BY <2>1, <3>1, NoneIsNothing DEF EndedStays
    <3>3. WorkIsCounted'
      BY <1>1, <2>1, <2>2, <3>1 DEF WorkIsCounted
    <3>4. CASE Backend[a] = "sync" /\ Go(t, "execute") /\ future' = future
      <4>1. /\ Moved(t, "execute") /\ thread'[t].after = thread[t].after
            /\ thread'[t].a = a /\ thread'[t].n = n
        BY <1>1, <3>4, GoMoves
      <4>2. Types'
        BY <1>1, <1>6, <3>1, <3>4, <4>1 DEF Types, Moved, Submit
      <4> HIDE DEF a, n
      <4>3. InPlace(t, thread[t])' /\ Held(thread[t])'
        BY <1>1, <1>6, <2>1, <3>1, <3>4, <4>1 DEF InPlace, Held, Moved, Submit, At
      <4> QED
        BY <3>2, <3>3, <4>1, <4>2, <4>3, LoopKept
    <3>5. CASE Drop(t, "choose", a) /\ future' = [future EXCEPT ![a] = n]
      <4>1. Moved(t, "choose") /\ thread'[t].after = thread[t].after
        BY <1>1, <3>5, DropMoves
      <4>2. Types'
        BY <1>1, <1>6, <2>1, <2>2, <3>1, <3>5, <4>1 DEF Types, Moved, Submit
      <4>3. InPlace(t, thread[t])' /\ Held(thread[t])'
        BY <1>1, <1>6, <4>1 DEF InPlace, Held, Moved, Submit, At
      <4> QED
        BY <3>2, <3>3, <4>1, <4>2, <4>3, LoopKept
    <3> QED
      BY <2>4, <3>4, <3>5
  <2> QED
    BY <1>6, <2>3, <2>4 DEF Submit
<1>7. ASSUME NEW outcome \in Outcome, Execute(t, outcome) PROVE Base'
  <2> DEFINE a == thread[t].a
             n == thread[t].n
  <2>1. /\ a \in Action /\ n = runs[a] /\ n \in Run(a) /\ work[a][n] = "running"
        /\ runs' = runs /\ work' = [work EXCEPT ![a][n] = outcome] /\ runs[a] \in Nat
    BY <1>1, <1>7 DEF Execute, Held, At, Types
  <2>2. /\ Moved(t, "finish") /\ thread'[t].after = thread[t].after
        /\ thread'[t].a = a /\ thread'[t].n = n
    BY <1>1, <1>7, GoMoves DEF Execute
  <2>3. /\ WorkTypes'
        /\ \A b \in Action : \A m \in Run(b) :
             work'[b][m] = IF b = a /\ m = n THEN outcome ELSE work[b][m]
    <3>1. outcome \in WorkStatus /\ WorkTypes
      BY <1>1 DEF Types, WorkStatus, Ended
    <3>2. a \in Action /\ n \in Run(a) /\ SetTo(a, n, outcome)
      BY <2>1 DEF SetTo
    <3> HIDE DEF a, n
    <3> QED
      BY <3>1, <3>2, WorkSet
  <2>4. EndedStays
    BY <2>1, <2>3, NoneIsNothing DEF EndedStays
  <2>5. WorkIsCounted'
    BY <1>1, <2>1, <2>3 DEF WorkIsCounted
  <2>6. Types'
    BY <1>1, <1>7, <2>2, <2>3 DEF Types, Moved, Execute
  <2> HIDE DEF a, n
  <2>7. InPlace(t, thread[t])' /\ Held(thread[t])'
    BY <1>1, <1>7, <2>1, <2>2, <2>3 DEF InPlace, Held, Moved, Execute, At, Ended
  <2> QED
    BY <2>2, <2>4, <2>5, <2>6, <2>7, LoopKept
<1> QED
  BY <1>2, <1>3, <1>4, <1>5, <1>6, <1>7 DEF TickStep

LEMMA LoopBase ==
  ASSUME Base, NEW t \in Loop, LoopHead(t) \/ EndTick(t) \/ LeaveLoop(t) \/ Start(t)
  PROVE  Base'
<1> USE DEF Place, LoopPlaces, Collecting, Starting
<1>1. /\ Threads /\ Types /\ InPlace(t, thread[t]) /\ t \in Thread
      /\ t \notin Reader /\ t \notin Closer /\ t \notin Killer
      /\ {"status"} \subseteq Signal
  BY ThreadsAssumption DEF Base, Types, Threads, Thread, Signal
<1>2. CASE LoopHead(t)
  <2>1. PICK after \in {"leave", "tick"} : Collect(t, after)
    BY <1>2 DEF LoopHead
  <2>2. Moved(t, "collect") /\ thread'[t].after \in {"leave", "tick"}
    BY <1>1, <2>1, CollectMoves DEF Types, After
  <2>3. Types' /\ Outside
    BY <1>1, <1>2, <2>2, OnlyThreads DEF LoopHead, actionVars
  <2>4. InPlace(t, thread[t])' /\ Held(thread[t])'
    BY <1>1, <2>2 DEF InPlace, Held, Moved
  <2> QED
    BY <1>1, <2>2, <2>3, <2>4, BaseKept
<1>3. CASE EndTick(t)
  <2>1. Moved(t, "head")
    BY <1>1, <1>3, GoAwayMoves DEF EndTick
  <2>2. Types' /\ Outside
    BY <1>1, <1>3, <2>1, OnlyThreads DEF EndTick, actionVars
  <2>3. InPlace(t, thread[t])' /\ Held(thread[t])'
    BY <1>1, <2>1 DEF InPlace, Held, Moved
  <2> QED
    BY <1>1, <2>1, <2>2, <2>3, BaseKept
<1>4. CASE LeaveLoop(t)
  <2>1. Moved(t, "ended")
    BY <1>1, <1>4, GoAwayMoves DEF LeaveLoop
  <2>2. signal' \in [Signal -> SignalState]
    BY <1>1, <1>4, SignalSet DEF Types, LeaveLoop
  <2>3. Types' /\ Outside
    BY <1>1, <1>4, <2>1, <2>2, OnlySignals DEF LeaveLoop, actionVars, Types
  <2>4. InPlace(t, thread[t])' /\ Held(thread[t])'
    BY <1>1, <2>1 DEF InPlace, Held, Moved
  <2> QED
    BY <1>1, <2>1, <2>3, <2>4, BaseKept
<1>5. CASE Start(t)
  <2>1. Moved(t, "head")
    BY <1>1, <1>5, GoAwayMoves DEF Start
  <2>2. signal' \in [Signal -> SignalState]
    BY <1>1, <1>5, SignalSet DEF Types, Start
  <2>3. Types' /\ Outside
    BY <1>1, <1>5, <2>1, <2>2, OnlySignals DEF Start, actionVars, Types
  <2>4. InPlace(t, thread[t])' /\ Held(thread[t])'
    BY <1>1, <2>1 DEF InPlace, Held, Moved
  <2> QED
    BY <1>1, <2>1, <2>3, <2>4, BaseKept
<1> QED
  BY <1>2, <1>3, <1>4, <1>5

LEMMA ReaderBase ==
  ASSUME Base, NEW t \in Reader, ReadState(t)
  PROVE  Base'
<1> USE DEF Place, ReaderPlaces, Collecting
<1>1. /\ Threads /\ Types /\ t \in Thread /\ t \notin Loop /\ t \notin Closer /\ t \notin Killer
  BY ThreadsAssumption DEF Base, Types, Threads, Thread
<1>2. Moved(t, "collect") /\ thread'[t].after = "away"
  BY <1>1, CollectMoves DEF Types, After, ReadState
<1>3. Types' /\ Outside
  BY <1>1, <1>2, OnlyThreads DEF ReadState, actionVars
<1>4. InPlace(t, thread[t])' /\ Held(thread[t])'
  BY <1>1, <1>2 DEF InPlace, Held, Moved
<1> QED
  BY <1>1, <1>2, <1>3, <1>4, BaseKept

\* The labels a closer or a killer goes to, holding nothing of a run.
Plain == {"requested", "join", "wait", "mark", "raised", "closed",
          "killing", "reporting", "killed"}

LEMMA PlainBase ==
  ASSUME Base, NEW t \in Closer \cup Killer, NEW label \in Plain, Moved(t, label),
         t \in Closer => label \in CloserPlaces, t \in Killer => label \in KillerPlaces,
         signal' \in [Signal -> SignalState], stopping' \in BOOLEAN, poolOpen' \in BOOLEAN,
         WorkTypes', Outside, UNCHANGED <<known, future>>
  PROVE  Base'
<1>1. t \in Thread /\ t \notin Loop /\ t \notin Reader
  BY ThreadsAssumption DEF Thread
<1>2. Types'
  BY DEF Base, Types, Moved, Outside
<1>3. InPlace(t, thread[t])' /\ Held(thread[t])'
  BY <1>1 DEF InPlace, Held, Moved, Plain, Starting, Collecting
<1> QED
  BY <1>1, <1>2, <1>3, BaseKept

\* Pending runs go on, as coroutines.
LEMMA PendingRuns ==
  ASSUME NEW a \in Action, NEW n \in Run(a)
  PROVE  <<a, n>> \in Pending <=> Backend[a] = "coroutine" /\ work[a][n] = "running"
BY DEF Pending

LEMMA PendingJobs == Pending \in SUBSET Job
<1>1. \A a \in Action : Run(a) \subseteq Int
  BY RunTypes
<1> QED
  BY <1>1 DEF Pending, Job

LEMMA ListMoves ==
  ASSUME Threads, NEW t \in Thread, thread' = [thread EXCEPT ![t].at = "wait", ![t].todo = Pending]
  PROVE  Moved(t, "wait") /\ thread'[t].todo = Pending
<1> DEFINE c == [thread[t] EXCEPT !.at = "wait", !.todo = Pending]
<1>1. thread[t] \in ThreadState /\ "wait" \in Place
  BY DEF Threads, Place, CloserPlaces
<1>2. c \in ThreadState /\ c.at = "wait" /\ c.todo = Pending
  BY <1>1, PendingJobs DEF ThreadState
<1>3. thread' = [thread EXCEPT ![t] = c]
  BY <1>1 DEF Threads, ThreadState
<1> HIDE DEF c
<1> QED
  BY <1>2, <1>3 DEF Threads, Moved

LEMMA CloseBase ==
  ASSUME Base, NEW t \in Closer, CloseStep(t)
  PROVE  Base'
<1> USE DEF Place, CloserPlaces, Plain
<1>1. /\ Threads /\ Types /\ t \in Thread /\ t \in Closer \cup Killer /\ t \notin Killer
      /\ t \notin Loop /\ t \notin Reader
      /\ {"status", "control"} \subseteq Signal
  BY ThreadsAssumption DEF Base, Types, Threads, Thread, Signal
<1>2. /\ WorkTypes /\ signal \in [Signal -> SignalState]
      /\ stopping \in BOOLEAN /\ poolOpen \in BOOLEAN
  BY <1>1 DEF Types
<1>3. ASSUME UNCHANGED actionVars PROVE WorkTypes' /\ Outside /\ UNCHANGED <<known, future>>
  BY <1>2, <1>3 DEF WorkTypes, Outside, actionVars
<1>4. CASE RequestStop(t)
  <2>1. Moved(t, "requested")
    BY <1>1, <1>4, GoMoves DEF RequestStop
  <2>2. signal' \in [Signal -> SignalState]
    BY <1>1, <1>2, <1>4, SignalSet DEF RequestStop
  <2> QED
    BY <1>1, <1>2, <1>3, <1>4, <2>1, <2>2, PlainBase DEF RequestStop
<1>5. CASE SetStop(t)
  <2>1. Moved(t, "join")
    BY <1>1, <1>5, GoMoves DEF SetStop
  <2> QED
    BY <1>1, <1>2, <1>3, <1>5, <2>1, PlainBase DEF SetStop
<1>6. CASE JoinLoop(t)
  <2>1. Moved(t, "collect") /\ thread'[t].after = "pool"
    BY <1>1, <1>6, CollectMoves DEF JoinLoop, Types, After
  <2>2. Types' /\ Outside
    BY <1>1, <1>6, <2>1, OnlyThreads DEF JoinLoop, actionVars
  <2>3. InPlace(t, thread[t])' /\ Held(thread[t])'
    BY <1>1, <2>1 DEF InPlace, Held, Moved, Collecting
  <2> QED
    BY <1>1, <2>1, <2>2, <2>3, BaseKept
<1>7. CASE ListPending(t)
  <2>1. CASE poolOpen
    <3>1. Moved(t, "wait")
      BY <1>1, <1>7, <2>1, ListMoves DEF ListPending
    <3> QED
      BY <1>1, <1>2, <1>3, <1>7, <3>1, PlainBase DEF ListPending
  <2>2. CASE ~poolOpen
    <3>1. Moved(t, "mark")
      BY <1>1, <1>7, <2>2, GoMoves DEF ListPending
    <3> QED
      BY <1>1, <1>2, <1>3, <1>7, <3>1, PlainBase DEF ListPending
  <2> QED
    BY <2>1, <2>2
<1>8. CASE ClosePool(t)
  <2>1. PICK label \in {"mark", "raised"} : GoAway(t, label) /\ poolOpen' \in BOOLEAN
    BY <1>2, <1>8 DEF ClosePool
  <2>2. Moved(t, label)
    BY <1>1, <2>1, GoAwayMoves
  <2> QED
    BY <1>1, <1>2, <1>3, <1>8, <2>1, <2>2, PlainBase DEF ClosePool
<1>9. CASE MarkClosed(t)
  <2>1. Moved(t, "closed")
    BY <1>1, <1>9, GoAwayMoves DEF MarkClosed
  <2>2. signal' \in [Signal -> SignalState]
    BY <1>1, <1>2, <1>9, SignalSet DEF MarkClosed
  <2> QED
    BY <1>1, <1>2, <1>3, <1>9, <2>1, <2>2, PlainBase DEF MarkClosed
<1> QED
  BY <1>4, <1>5, <1>6, <1>7, <1>8, <1>9 DEF CloseStep

\* A kill cancels what is pending and nothing else.
LEMMA KillCancels ==
  ASSUME WorkTypes, NEW t, KillPool(t)
  PROVE  /\ WorkTypes' /\ Outside
         /\ IF poolOpen THEN Pending' = {} ELSE work' = work
         /\ \A a \in Action : \A n \in Run(a) :
              work'[a][n] = work[a][n] \/ work'[a][n] = "cancelled"
<1>1. runs' = runs
  BY DEF KillPool
<1>2. CASE ~poolOpen
  <2>1. work' = work
    BY <1>2 DEF KillPool
  <2> QED
    BY <1>1, <1>2, <2>1 DEF WorkTypes, Outside
<1>3. CASE poolOpen
  <2>1. \A a \in Action :
          work'[a] = [n \in Run(a) |-> IF <<a, n>> \in Pending THEN "cancelled" ELSE work[a][n]]
    BY <1>3 DEF KillPool
  <2>2. work' = [a \in Action |-> work'[a]]
    BY <1>3 DEF KillPool
  <2>3. ASSUME NEW a \in Action, NEW n \in Run(a)
        PROVE  work'[a][n] = IF Backend[a] = "coroutine" /\ work[a][n] = "running"
                             THEN "cancelled" ELSE work[a][n]
    <3>1. <<a, n>> \in Pending <=> Backend[a] = "coroutine" /\ work[a][n] = "running"
      BY PendingRuns
    <3>2. work'[a][n] = IF <<a, n>> \in Pending THEN "cancelled" ELSE work[a][n]
      BY <2>1
    <3> QED
      BY <3>1, <3>2
  <2>4. \A a \in Action : work'[a] \in [Run(a) -> WorkStatus]
    BY <2>1, <2>3 DEF WorkTypes, WorkStatus, Ended
  <2>5. Outside
    BY <1>1, <2>3 DEF Outside
  <2>6. Pending' = {}
    BY <2>3 DEF Pending
  <2> QED
    BY <1>3, <2>2, <2>3, <2>4, <2>5, <2>6 DEF WorkTypes
<1> QED
  BY <1>2, <1>3

LEMMA KillBase ==
  ASSUME Base, NEW t \in Killer, KillStep(t)
  PROVE  Base'
<1> USE DEF Place, KillerPlaces, Plain
<1>1. /\ Threads /\ Types /\ t \in Thread /\ t \in Closer \cup Killer /\ t \notin Closer
      /\ {"status", "control"} \subseteq Signal
  BY ThreadsAssumption DEF Base, Types, Threads, Thread, Signal
<1>2. /\ WorkTypes /\ signal \in [Signal -> SignalState]
      /\ stopping \in BOOLEAN /\ poolOpen \in BOOLEAN
  BY <1>1 DEF Types
<1>3. ASSUME UNCHANGED actionVars PROVE WorkTypes' /\ Outside /\ UNCHANGED <<known, future>>
  BY <1>2, <1>3 DEF WorkTypes, Outside, actionVars
<1>4. CASE KillLoop(t)
  <2>1. Moved(t, "killing")
    BY <1>1, <1>4, GoMoves DEF KillLoop
  <2> QED
    BY <1>1, <1>2, <1>3, <1>4, <2>1, PlainBase DEF KillLoop
<1>5. CASE KillPool(t)
  <2>1. Moved(t, "reporting")
    BY <1>1, <1>5, GoMoves DEF KillPool
  <2>2. WorkTypes' /\ Outside
    BY <1>2, <1>5, KillCancels
  <2> QED
    BY <1>1, <1>2, <1>5, <2>1, <2>2, PlainBase DEF KillPool
<1>6. CASE ReportKilled(t)
  <2>1. Moved(t, "killed")
    BY <1>1, <1>6, GoMoves DEF ReportKilled
  <2>2. signal' \in [Signal -> SignalState]
    BY <1>1, <1>2, <1>6, SignalSet DEF ReportKilled
  <2> QED
    BY <1>1, <1>2, <1>3, <1>6, <2>1, <2>2, PlainBase DEF ReportKilled
<1> QED
  BY <1>4, <1>5, <1>6 DEF KillStep

\* Work that ends by itself.
LEMMA WorkEnding ==
  ASSUME WorkTypes, NEW a \in Action, NEW n \in Run(a), NEW outcome \in Outcome,
         WorkEnds(a, n, outcome)
  PROVE  /\ WorkTypes' /\ Outside
         /\ work[a][n] = "running"
         /\ \A b \in Action : \A m \in Run(b) :
              work'[b][m] = IF b = a /\ m = n THEN outcome ELSE work[b][m]
<1>1. outcome \in WorkStatus /\ SetTo(a, n, outcome)
  BY DEF WorkEnds, WorkStatus, Ended, SetTo
<1>2. /\ WorkTypes'
      /\ \A b \in Action : \A m \in Run(b) :
           work'[b][m] = IF b = a /\ m = n THEN outcome ELSE work[b][m]
  BY <1>1, WorkSet
<1> QED
  BY <1>2 DEF WorkEnds, Outside

\* Where no thread moves.
LEMMA StillBase ==
  ASSUME Base, UNCHANGED <<runs, future, poolOpen, stopping, thread>>, known' \subseteq Action,
         signal' \in [Signal -> SignalState], WorkTypes', Outside
  PROVE  Base'
<1>1. Types'
  BY DEF Base, Types
<1>2. \A t \in Thread : InPlace(t, thread'[t]) /\ Held(thread[t])'
  BY OthersHold DEF Base
<1>3. \A a \in Action : \A n \in Run(a) : work[a][n] = None => work'[a][n] = None
  BY NoneIsNothing DEF Outside
<1>4. WorkIsCounted'
  BY <1>3 DEF Base, WorkIsCounted
<1> QED
  BY <1>1, <1>2, <1>4 DEF Base, InPlace

LEMMA EnvironmentBase ==
  ASSUME Base, Environment
  PROVE  Base'
<1>1. Types /\ WorkTypes /\ known \subseteq Action /\ signal \in [Signal -> SignalState]
  BY DEF Base, Types
<1>2. ASSUME NEW a \in Action, AddAction(a) PROVE Base'
  <2>1. WorkTypes' /\ Outside
    BY <1>1, <1>2 DEF WorkTypes, Outside, AddAction
  <2> QED
    BY <1>1, <1>2, <2>1, StillBase DEF AddAction
<1>3. ASSUME NEW a \in Action, NEW n \in Run(a), NEW outcome \in Outcome, WorkEnds(a, n, outcome)
      PROVE  Base'
  <2>1. WorkTypes' /\ Outside
    BY <1>1, <1>3, WorkEnding
  <2> QED
    BY <1>1, <1>3, <2>1, StillBase DEF WorkEnds
<1>4. ASSUME NEW i \in Input, UpdateInput(i) PROVE Base'
  <2>1. WorkTypes' /\ Outside
    BY <1>1, <1>4 DEF WorkTypes, Outside, UpdateInput, actionVars
  <2>2. signal' \in [Signal -> SignalState]
    BY <1>1, <1>4, SignalSet DEF UpdateInput, Signal
  <2> QED
    BY <1>1, <1>4, <2>1, <2>2, StillBase DEF UpdateInput, actionVars
<1>5. ASSUME NEW l \in Loop, Start(l) PROVE Base'
  BY <1>5, LoopBase
<1> QED
  BY <1>2, <1>3, <1>4, <1>5 DEF Environment

LEMMA InitBase == Init => Base
<1> SUFFICES ASSUME Init PROVE Base
  OBVIOUS
<1> USE DEF Init
<1>1. \A t \in Thread :
        /\ thread[t] \in {Away("new"), Away("away"), Away("open"), Away("alive")}
        /\ t \in Loop => thread[t] = Away("new")
        /\ t \in Reader => thread[t] = Away("away")
        /\ t \in Closer => thread[t] = Away("open")
        /\ t \in Killer => thread[t] = Away("alive")
  BY ThreadsAssumption DEF Thread
<1>2. \A label \in {"new", "away", "open", "alive"} :
        Away(label) \in ThreadState /\ Away(label).at = label
  BY DEF Away, ThreadState, Place, LoopPlaces, CloserPlaces, ReaderPlaces, KillerPlaces
<1>3. WorkTypes /\ \A a \in Action : \A n \in Run(a) : work[a][n] = None
  BY DEF WorkTypes, WorkStatus
<1>4. signal \in [Signal -> SignalState]
  BY DEF SignalState
<1>5. Types
  <2> DEFINE Where(t) == CASE t \in Loop -> Away("new")
                           [] t \in Reader -> Away("away")
                           [] t \in Closer -> Away("open")
                           [] t \in Killer -> Away("alive")
  <2>1. thread = [t \in Thread |-> thread[t]]
    <3>1. thread = [t \in Thread |-> Where(t)]
      OBVIOUS
    <3> HIDE DEF Where, Init
    <3> QED
      BY <3>1
  <2>2. thread \in [Thread -> ThreadState]
    BY <1>1, <1>2, <2>1
  <2> QED
    BY <1>3, <1>4, <2>2 DEF Types
<1>6. \A t \in Thread : InPlace(t, thread[t]) /\ Held(thread[t])
  BY <1>1, <1>2 DEF InPlace, Held, LoopPlaces, CloserPlaces, ReaderPlaces, KillerPlaces,
     Collecting, Starting
<1> QED
  BY <1>3, <1>5, <1>6 DEF Base, WorkIsCounted

LEMMA NextBase == Base /\ [Next]_vars => Base'
<1> SUFFICES ASSUME Base, [Next]_vars PROVE Base'
  OBVIOUS
<1>1. CASE Environment
  BY <1>1, EnvironmentBase
<1>2. ASSUME NEW l \in Loop, LoopStep(l) PROVE Base'
  BY <1>2, CollectBase, TickBase, LoopBase DEF LoopStep, Thread
<1>3. ASSUME NEW r \in Reader, ReadState(r) \/ CollectStep(r) PROVE Base'
  BY <1>3, CollectBase, ReaderBase DEF Thread
<1>4. ASSUME NEW c \in Closer, CloseStep(c) \/ CollectStep(c) PROVE Base'
  BY <1>4, CollectBase, CloseBase DEF Thread
<1>5. ASSUME NEW k \in Killer, KillStep(k) PROVE Base'
  BY <1>5, KillBase
<1>6. CASE UNCHANGED vars
  <2>1. UNCHANGED <<known, runs, future, work, signal, stopping, poolOpen, thread>>
    BY <1>6 DEF vars, actionVars
  <2> QED
    BY <2>1 DEF Base, Types, WorkTypes, InPlace, Held, WorkIsCounted
<1> QED
  BY <1>1, <1>2, <1>3, <1>4, <1>5, <1>6 DEF Next

-----------------------------------------------------------------------------
(* What an action awaits has succeeded before it starts.                    *)

LEMMA OutsideEnds ==
  ASSUME Outside
  PROVE  EndedStays
BY NoneIsNothing DEF Outside, EndedStays

LEMMA SuccessStays ==
  ASSUME EndedStays
  PROVE  /\ \A b \in Action : Succeeded(b) => Succeeded(b)'
         /\ \A a : Awaited(a) => Awaited(a)'
         /\ \A signals : Truthful(signals) => Truthful(signals)'
<1>1. \A b \in Action : Succeeded(b) => Succeeded(b)'
  BY DEF EndedStays, Succeeded, Ended, Outcome
<1> QED
  BY <1>1 DEF Awaited, Truthful

\* A step of t that counts no run.
LEMMA StartsKept ==
  ASSUME Base, StartsInv, NEW t \in Thread, NEW label, Moved(t, label), EndedStays,
         runs' = runs, Truthful(signal'), Informed(thread'[t])
  PROVE  StartsInv'
<1>1. Truthful(signal)'
  BY SuccessStays DEF Truthful
<1>2. ASSUME NEW u \in Thread
      PROVE  Informed(thread[u])'
  <2>1. Informed(thread'[u])
    BY DEF StartsInv, Moved
  <2> QED
    BY <2>1, SuccessStays DEF Informed, Deciding
<1>3. \A a \in Action : runs'[a] > 0 => Awaited(a)'
  BY SuccessStays DEF StartsInv
<1> QED
  BY <1>1, <1>2, <1>3 DEF StartsInv

LEMMA OtherSignals ==
  ASSUME Base, StartsInv, NEW s \in Signal,
         NEW new \in {"pending", "running", "completed", "failed", "stopped"},
         signal' = Updated(s, new), s \in Action /\ new = "completed" => Succeeded(s)
  PROVE  Truthful(signal')
<1>1. signal \in [Signal -> SignalState] /\ Action \subseteq Signal /\ Truthful(signal)
  BY DEF Base, Types, StartsInv, Signal
<1>2. signal'[s].status = new /\ \A r \in Signal : r # s => signal'[r] = signal[r]
  BY <1>1, SignalSet
<1> QED
  BY <1>1, <1>2 DEF Truthful

LEMMA CollectStarts ==
  ASSUME Base, StartsInv, NEW t \in Thread, CollectStep(t)
  PROVE  StartsInv'
<1> USE DEF Place, LoopPlaces, CloserPlaces, ReaderPlaces, KillerPlaces, Collecting, Starting
<1>1. /\ Threads /\ Types /\ InPlace(t, thread[t]) /\ Held(thread[t])
      /\ Truthful(signal) /\ Informed(thread[t])
      /\ t \in Loop \/ t \in Reader \/ t \in Closer \/ t \in Killer
  BY DEF Base, Types, Threads, StartsInv, Thread
<1>2. ASSUME UNCHANGED work PROVE EndedStays
  BY <1>2 DEF EndedStays
<1>3. ASSUME NEW a \in Action, ReadFuture(t, a) PROVE StartsInv'
  <2>1. CASE FutureDone(a) /\ Take(t, "clear", a, future[a])
    <3>1. future[a] \in Int \cup {None}
      BY <1>1 DEF Types
    <3>2. Moved(t, "clear")
      BY <1>1, <2>1, <3>1, TakeMoves
    <3>3. Informed(thread'[t])
      BY <3>2 DEF Informed, Deciding, Moved
    <3> QED
      BY <1>1, <1>2, <1>3, <3>2, <3>3, StartsKept DEF ReadFuture, actionVars
  <2>2. CASE Drop(t, "collect", a)
    <3>1. Moved(t, "collect")
      BY <1>1, <2>2, DropMoves
    <3>2. Informed(thread'[t])
      BY <3>1 DEF Informed, Deciding, Moved
    <3> QED
      BY <1>1, <1>2, <1>3, <3>1, <3>2, StartsKept DEF ReadFuture, actionVars
  <2> QED
    BY <1>3, <2>1, <2>2 DEF ReadFuture
<1>4. CASE ClearFuture(t)
  <2>1. Moved(t, "finish") /\ thread'[t].after = thread[t].after
    BY <1>1, <1>4, GoMoves DEF ClearFuture
  <2>2. thread[t].after # None
    BY <1>1, <1>4, NoneIsNothing DEF ClearFuture, At, InPlace, After
  <2>3. Informed(thread'[t])
    BY <2>1, <2>2 DEF Informed, Deciding, Moved
  <2> QED
    BY <1>1, <1>2, <1>4, <2>1, <2>3, StartsKept DEF ClearFuture
<1>5. CASE FinishAction(t)
  <2>1. /\ Moved(t, "publish") /\ thread'[t].after = thread[t].after
        /\ thread'[t].snap = thread[t].snap
    BY <1>1, <1>5, GoMoves DEF FinishAction
  <2>2. Informed(thread'[t])
    BY <1>1, <1>5, <2>1 DEF Informed, Deciding, Moved, FinishAction, At
  <2> QED
    BY <1>1, <1>2, <1>5, <2>1, <2>2, StartsKept DEF FinishAction
<1>6. CASE Publish(t)
  <2>1. /\ Moved(t, Resume(t)) /\ thread'[t].snap = thread[t].snap
        /\ Resume(t) = IF thread[t].after = None THEN "choose" ELSE "collect"
    BY <1>1, <1>6, DropMoves DEF Publish, Resume
  <2>2. /\ thread[t].a \in Signal /\ signal' = Updated(thread[t].a, Result(t))
        /\ Result(t) = "completed" => Succeeded(thread[t].a)
    BY <1>1, <1>6 DEF Publish, Held, At, Signal, Result, Succeeded
  <2>3. Truthful(signal')
    BY <2>2, StatusTypes, OtherSignals
  <2>4. Informed(thread'[t])
    BY <1>1, <1>6, <2>1 DEF Informed, Deciding, Moved, Publish, At
  <2> QED
    BY <1>2, <1>6, <2>1, <2>3, <2>4, StartsKept DEF Publish, actionVars
<1>7. CASE EndCollect(t)
  <2>1. thread[t].after \in {"leave", "tick", "away", "pool"}
    BY <1>1, <1>7 DEF EndCollect, At, InPlace
  <2>2. Moved(t, thread[t].after)
    BY <1>1, <1>7, <2>1, GoAwayMoves DEF EndCollect
  <2>3. Informed(thread'[t])
    BY <2>1, <2>2 DEF Informed, Deciding, Moved
  <2> QED
    BY <1>1, <1>2, <1>7, <2>2, <2>3, StartsKept DEF EndCollect, actionVars
<1> QED
  BY <1>3, <1>4, <1>5, <1>6, <1>7 DEF CollectStep

LEMMA TickStarts ==
  ASSUME Base, StartsInv, NEW t \in Loop, TickStep(t)
  PROVE  StartsInv'
<1> USE DEF Place, LoopPlaces, Collecting, Starting
<1>1. /\ Threads /\ Types /\ InPlace(t, thread[t]) /\ Held(thread[t]) /\ t \in Thread
      /\ Truthful(signal) /\ Informed(thread[t]) /\ WorkIsCounted
  BY DEF Base, Types, Threads, StartsInv, Thread
<1>2. ASSUME UNCHANGED work PROVE EndedStays
  BY <1>2 DEF EndedStays
<1>3. CASE TakeSnapshot(t)
  <2> DEFINE c == [Away("choose") EXCEPT !.snap = signal, !.todo = known]
  <2>1. /\ c \in ThreadState /\ c.at = "choose" /\ c.snap = signal
        /\ thread' = [thread EXCEPT ![t] = c]
    BY <1>1, <1>3 DEF TakeSnapshot, Away, ThreadState, Types, Job
  <2> HIDE DEF c
  <2>2. Moved(t, "choose") /\ thread'[t].snap = signal
    BY <1>1, <2>1 DEF Moved, Threads
  <2>3. Informed(thread'[t])
    BY <1>1, <2>2 DEF Informed, Moved, Types
  <2> QED
    BY <1>1, <1>2, <1>3, <2>2, <2>3, StartsKept DEF TakeSnapshot, actionVars
<1>4. ASSUME NEW a \in Action, Choose(t, a) PROVE StartsInv'
  <2>1. CASE Startable(a, thread[t].snap) /\ Take(t, "start", a, None)
    <3>1. Moved(t, "start") /\ thread'[t].snap = thread[t].snap /\ thread'[t].a = a
      BY <1>1, <2>1, TakeMoves
    <3>2. Awaited(a)
      BY <1>1, <1>4, <2>1 DEF Informed, Deciding, Choose, At, Startable, Triggered, Awaited, Truthful
    <3>3. Informed(thread'[t])
      BY <1>1, <1>4, <3>1, <3>2 DEF Informed, Deciding, Choose, At, Moved
    <3> QED
      BY <1>1, <1>2, <1>4, <3>1, <3>3, StartsKept DEF Choose
  <2>2. CASE Drop(t, "choose", a)
    <3>1. Moved(t, "choose") /\ thread'[t].snap = thread[t].snap
      BY <1>1, <2>2, DropMoves
    <3>2. Informed(thread'[t])
      BY <1>1, <1>4, <3>1 DEF Informed, Deciding, Choose, At, Moved
    <3> QED
      BY <1>1, <1>2, <1>4, <3>1, <3>2, StartsKept DEF Choose
  <2> QED
    BY <1>4, <2>1, <2>2 DEF Choose
<1>5. CASE StartAction(t)
  <2> DEFINE a == thread[t].a
  <2>1. /\ a \in Action /\ runs[a] \in Nat /\ Awaited(a)
        /\ runs' = [runs EXCEPT ![a] = runs[a] + 1] /\ EndedStays
    BY <1>1, <1>2, <1>5 DEF StartAction, Held, At, Types, Informed
  <2>2. Moved(t, "announce") /\ thread'[t].snap = thread[t].snap
    BY <1>1, <1>5, <2>1, TakeMoves DEF StartAction
  <2>3. \A u \in Thread : Informed(thread'[u])
    BY <1>1, <1>5, <2>2 DEF Informed, Deciding, StartAction, At, Moved, StartsInv
  <2>4. \A u \in Thread : Informed(thread[u])'
    BY <2>1, <2>3, SuccessStays DEF Informed, Deciding
  <2>5. \A b \in Action : runs'[b] > 0 => Awaited(b)
    BY <2>1 DEF StartsInv
  <2>6. Truthful(signal)'
    BY <1>1, <1>5, <2>1, SuccessStays DEF StartAction, Truthful
  <2> QED
    BY <2>1, <2>4, <2>5, <2>6, SuccessStays DEF StartsInv
<1>6. CASE Announce(t)
  <2>1. Moved(t, "submit") /\ thread'[t].snap = thread[t].snap
    BY <1>1, <1>6, GoMoves DEF Announce
  <2>2. thread[t].a \in Signal /\ signal' = Updated(thread[t].a, "running")
    BY <1>1, <1>6 DEF Announce, Held, At, Signal
  <2>3. Truthful(signal')
    BY <2>2, OtherSignals
  <2>4. Informed(thread'[t])
    BY <1>1, <1>6, <2>1 DEF Informed, Deciding, Announce, At, Moved
  <2> QED
    BY <1>1, <1>2, <1>6, <2>1, <2>3, <2>4, StartsKept DEF Announce, actionVars
<1>7. CASE Submit(t)
  <2> DEFINE a == thread[t].a
             n == thread[t].n
  <2>1. a \in Action /\ n \in Run(a) /\ work[a][n] = None
    BY <1>1, <1>7 DEF Submit, Held, At
  <2>2. EndedStays
    <3>1. CASE work' = [work EXCEPT ![a][n] = "running"]
      <4>1. "running" \in WorkStatus /\ WorkTypes
        BY <1>1 DEF Types, WorkStatus
      <4> HIDE DEF a, n
      <4>2. SetTo(a, n, "running")
        BY <3>1 DEF SetTo
      <4>3. \A b \in Action : \A m \in Run(b) :
              work'[b][m] = IF b = a /\ m = n THEN "running" ELSE work[b][m]
        BY <2>1, <4>1, <4>2, WorkSet
      <4> QED
        BY <2>1, <4>3, NoneIsNothing DEF EndedStays
    <3> QED
      BY <1>2, <1>7, <3>1 DEF Submit
  <2>3. PICK label \in {"dead", "execute", "choose"} :
          Moved(t, label) /\ thread'[t].snap = thread[t].snap
    <3>1. Go(t, "dead") \/ Go(t, "execute") \/ Drop(t, "choose", a)
      BY <1>7 DEF Submit
    <3> QED
      BY <1>1, <3>1, GoMoves, DropMoves
  <2>4. Informed(thread'[t])
    BY <1>1, <1>7, <2>3 DEF Informed, Deciding, Submit, At, Moved
  <2> QED
    BY <1>1, <1>7, <2>2, <2>3, <2>4, StartsKept DEF Submit
<1>8. ASSUME NEW outcome \in Outcome, Execute(t, outcome) PROVE StartsInv'
  <2> DEFINE a == thread[t].a
             n == thread[t].n
  <2>1. /\ a \in Action /\ n \in Run(a) /\ work[a][n] = "running"
        /\ work' = [work EXCEPT ![a][n] = outcome]
    BY <1>1, <1>8 DEF Execute, Held, At
  <2>2. EndedStays
    <3>1. outcome \in WorkStatus /\ WorkTypes
      BY <1>1 DEF Types, WorkStatus, Ended
    <3> HIDE DEF a, n
    <3>2. SetTo(a, n, outcome)
      BY <2>1 DEF SetTo
    <3>3. \A b \in Action : \A m \in Run(b) :
            work'[b][m] = IF b = a /\ m = n THEN outcome ELSE work[b][m]
      BY <2>1, <3>1, <3>2, WorkSet
    <3> QED
      BY <2>1, <3>3, NoneIsNothing DEF EndedStays
  <2>3. /\ Moved(t, "finish") /\ thread'[t].snap = thread[t].snap
    BY <1>1, <1>8, GoMoves DEF Execute
  <2>4. Informed(thread'[t])
    BY <1>1, <1>8, <2>3 DEF Informed, Deciding, Execute, At, Moved
  <2> QED
    BY <1>1, <1>8, <2>2, <2>3, <2>4, StartsKept DEF Execute
<1> QED
  BY <1>3, <1>4, <1>5, <1>6, <1>7, <1>8 DEF TickStep

\* A step to where nothing is decided, which sets no action's signal.
LEMMA PlainStarts ==
  ASSUME Base, StartsInv, NEW t \in Thread,
         NEW label \in Plain \cup {"head", "ended", "collect"}, Moved(t, label),
         EndedStays, runs' = runs,
         \/ signal' = signal
         \/ \E new \in {"running", "completed", "stopped"} :
              signal' = Updated("control", new) \/ signal' = Updated("status", new)
  PROVE  StartsInv'
<1>1. Informed(thread'[t])
  BY DEF Informed, Deciding, Moved, Plain, Starting
<1>2. "control" \in Signal /\ "status" \in Signal /\ "control" \notin Action /\ "status" \notin Action
  BY SignalNamesAssumption DEF Signal
<1>3. Truthful(signal')
  BY <1>2, OtherSignals DEF StartsInv
<1> QED
  BY <1>1, <1>3, StartsKept

LEMMA LoopStarts ==
  ASSUME Base, StartsInv, NEW t \in Loop, LoopHead(t) \/ EndTick(t) \/ LeaveLoop(t) \/ Start(t)
  PROVE  StartsInv'
<1>1. Threads /\ t \in Thread /\ known \subseteq Action /\ UNCHANGED <<runs, work>>
  BY DEF Base, Types, Threads, Thread, LoopHead, EndTick, LeaveLoop, Start, actionVars
<1>2. EndedStays
  BY <1>1 DEF EndedStays
<1>3. "head" \in Place /\ "ended" \in Place
  BY DEF Place, LoopPlaces
<1>4. PICK label \in {"head", "ended", "collect"} : Moved(t, label)
  <2>1. CASE LoopHead(t)
    <3>1. PICK after \in After : Collect(t, after)
      BY <2>1 DEF LoopHead, After
    <3> QED
      BY <1>1, <3>1, CollectMoves
  <2>2. CASE EndTick(t) \/ Start(t)
    BY <1>1, <1>3, <2>2, GoAwayMoves DEF EndTick, Start
  <2>3. CASE LeaveLoop(t)
    BY <1>1, <1>3, <2>3, GoAwayMoves DEF LeaveLoop
  <2> QED
    BY <2>1, <2>2, <2>3
<1>5. \/ signal' = signal
      \/ \E new \in {"running", "completed", "stopped"} : signal' = Updated("status", new)
  BY DEF LoopHead, EndTick, LeaveLoop, Start
<1> QED
  BY <1>1, <1>2, <1>4, <1>5, PlainStarts

\* Where a closer or a killer goes by a step of its own.
LEMMA CloserMoves ==
  ASSUME Base, NEW t \in Closer, CloseStep(t)
  PROVE  \E label \in Plain \cup {"collect"} : Moved(t, label)
<1> USE DEF Place, CloserPlaces, Plain
<1>1. Threads /\ t \in Thread /\ known \subseteq Action
  BY DEF Base, Types, Threads, Thread
<1>2. CASE \E label \in {"requested", "join", "mark"} : Go(t, label)
  BY <1>1, <1>2, GoMoves
<1>3. CASE \E label \in {"mark", "raised", "closed"} : GoAway(t, label)
  BY <1>1, <1>3, GoAwayMoves
<1>4. CASE Collect(t, "pool")
  BY <1>1, <1>4, CollectMoves DEF After
<1>5. CASE thread' = [thread EXCEPT ![t].at = "wait", ![t].todo = Pending]
  BY <1>1, <1>5, ListMoves
<1>6. \/ RequestStop(t) \/ SetStop(t) \/ MarkClosed(t) \/ JoinLoop(t)
      \/ ListPending(t) \/ ClosePool(t)
  BY DEF CloseStep
<1> QED
  BY <1>2, <1>3, <1>4, <1>5, <1>6
     DEF RequestStop, SetStop, MarkClosed, JoinLoop, ListPending, ClosePool

LEMMA KillerMoves ==
  ASSUME Base, NEW t \in Killer, KillStep(t)
  PROVE  \E label \in {"killing", "reporting", "killed"} : Moved(t, label)
<1>1. Threads /\ t \in Thread /\ {"killing", "reporting", "killed"} \subseteq Place
  BY DEF Base, Types, Threads, Thread, Place, KillerPlaces
<1>2. \E label \in {"killing", "reporting", "killed"} : Go(t, label)
  BY DEF KillStep, KillLoop, KillPool, ReportKilled
<1> QED
  BY <1>1, <1>2, GoMoves

LEMMA CloseStarts ==
  ASSUME Base, StartsInv, NEW t \in Closer, CloseStep(t)
  PROVE  StartsInv'
<1>1. PICK label \in Plain \cup {"collect"} : Moved(t, label)
  BY CloserMoves
<1>2. /\ UNCHANGED <<runs, work>>
      /\ \/ signal' = signal
         \/ signal' = Updated("control", "stopped")
         \/ signal' = Updated("status", "completed")
  BY DEF CloseStep, RequestStop, SetStop, MarkClosed, JoinLoop, ListPending, ClosePool, actionVars
<1>3. EndedStays /\ t \in Thread
  BY <1>2 DEF EndedStays, Thread
<1> QED
  BY <1>1, <1>2, <1>3, PlainStarts

LEMMA KillStarts ==
  ASSUME Base, StartsInv, NEW t \in Killer, KillStep(t)
  PROVE  StartsInv'
<1>1. PICK label \in Plain : Moved(t, label)
  BY KillerMoves DEF Plain
<1>2. /\ runs' = runs
      /\ signal' = signal \/ signal' = Updated("status", "stopped")
  BY DEF KillStep, KillLoop, KillPool, ReportKilled, actionVars
<1>3. EndedStays /\ t \in Thread
  <2>1. CASE KillPool(t)
    BY <2>1, KillCancels, OutsideEnds DEF Base, Types, Thread
  <2>2. CASE work' = work
    BY <2>2 DEF EndedStays, Thread
  <2> QED
    BY <2>1, <2>2 DEF KillStep, KillLoop, ReportKilled, actionVars
<1> QED
  BY <1>1, <1>2, <1>3, PlainStarts

LEMMA EnvironmentStarts ==
  ASSUME Base, StartsInv, Environment
  PROVE  StartsInv'
<1>1. ASSUME UNCHANGED <<runs, thread>>, EndedStays, Truthful(signal')
      PROVE  StartsInv'
  <2>1. \A t \in Thread : Informed(thread[t])'
    BY <1>1, SuccessStays DEF StartsInv, Informed, Deciding
  <2>2. Truthful(signal)'
    BY <1>1, SuccessStays DEF Truthful
  <2> QED
    BY <1>1, <2>1, <2>2, SuccessStays DEF StartsInv
<1>2. ASSUME NEW a \in Action, AddAction(a) PROVE StartsInv'
  BY <1>1, <1>2 DEF AddAction, EndedStays, StartsInv
<1>3. ASSUME NEW a \in Action, NEW n \in Run(a), NEW outcome \in Outcome, WorkEnds(a, n, outcome)
      PROVE  StartsInv'
  <2>1. EndedStays
    BY <1>3, WorkEnding, OutsideEnds DEF Base, Types
  <2> QED
    BY <1>1, <1>3, <2>1 DEF WorkEnds, StartsInv
<1>4. ASSUME NEW i \in Input, UpdateInput(i) PROVE StartsInv'
  <2>1. i \in Signal /\ i \notin Action
    BY SignalNamesAssumption DEF Signal
  <2>2. Truthful(signal')
    BY <1>4, <2>1, OtherSignals DEF UpdateInput
  <2> QED
    BY <1>1, <1>4, <2>2 DEF UpdateInput, actionVars, EndedStays
<1>5. ASSUME NEW l \in Loop, Start(l) PROVE StartsInv'
  BY <1>5, LoopStarts
<1> QED
  BY <1>2, <1>3, <1>4, <1>5 DEF Environment

LEMMA NextStarts == Base /\ StartsInv /\ [Next]_vars => StartsInv'
<1> SUFFICES ASSUME Base, StartsInv, [Next]_vars PROVE StartsInv'
  OBVIOUS
<1>1. CASE Environment
  BY <1>1, EnvironmentStarts
<1>2. ASSUME NEW l \in Loop, LoopStep(l) PROVE StartsInv'
  BY <1>2, CollectStarts, TickStarts, LoopStarts DEF LoopStep, Thread
<1>3. ASSUME NEW r \in Reader, ReadState(r) PROVE StartsInv'
  <2>1. Threads /\ r \in Thread /\ known \subseteq Action
    BY DEF Base, Types, Threads, Thread
  <2>2. Moved(r, "collect")
    BY <1>3, <2>1, CollectMoves DEF ReadState, After
  <2> QED
    BY <1>3, <2>1, <2>2, PlainStarts DEF ReadState, actionVars, EndedStays
<1>4. ASSUME NEW t \in Reader \cup Closer, CollectStep(t) PROVE StartsInv'
  BY <1>4, CollectStarts DEF Thread
<1>5. ASSUME NEW c \in Closer, CloseStep(c) PROVE StartsInv'
  BY <1>5, CloseStarts
<1>6. ASSUME NEW k \in Killer, KillStep(k) PROVE StartsInv'
  BY <1>6, KillStarts
<1>7. CASE UNCHANGED vars
  BY <1>7 DEF vars, actionVars, StartsInv, Informed, Deciding, Truthful, Awaited, Succeeded
<1> QED
  BY <1>1, <1>2, <1>3, <1>4, <1>5, <1>6, <1>7 DEF Next

\* StartsAfterAwaited: however snapshot, trigger and start are spread over
\* time and over threads, an action runs only after what it awaits has
\* succeeded (Scheduler.tick, _should_start, _start_action).
THEOREM ActionsWait == Spec => []StartsAfterAwaited
<1>1. Init => Base /\ StartsInv
  <2> SUFFICES ASSUME Init PROVE StartsInv
    BY InitBase
  <2>1. Truthful(signal)
    BY DEF Init, Truthful, Signal
  <2>2. \A t \in Thread : thread[t].at \in {"new", "away", "open", "alive"}
    BY DEF Init, Thread, Away
  <2>3. \A t \in Thread : Informed(thread[t])
    BY <2>2 DEF Informed, Deciding, Starting
  <2>4. \A a \in Action : ~(runs[a] > 0)
    BY DEF Init
  <2> QED
    BY <2>1, <2>3, <2>4 DEF StartsInv
<1>2. Base /\ StartsInv /\ [Next]_vars => (Base /\ StartsInv)'
  BY NextBase, NextStarts
<1>3. StartsInv => StartsAfterAwaited
  BY DEF StartsInv, StartsAfterAwaited, Awaited, Succeeded
<1> QED
  BY <1>1, <1>2, <1>3, PTL DEF Spec

-----------------------------------------------------------------------------
(* When close() is past the pool, no coroutine runs.                        *)

LEMMA PendingShrinks ==
  ASSUME Outside \/ work' = work
  PROVE  Pending' \subseteq Pending
<1>1. ASSUME NEW a \in Action, NEW n \in Run(a), work'[a][n] = "running"
      PROVE  work[a][n] = "running"
  BY <1>1 DEF Outside
<1> QED
  BY <1>1 DEF Pending

\* A step of t that submits nothing.
LEMMA CloseKept ==
  ASSUME CloseInv, NEW t \in Thread, NEW label, Moved(t, label),
         Pending' \subseteq Pending, ~poolOpen => ~poolOpen', Stopped => Stopped',
         ~poolOpen' => ~poolOpen \/ Pending' = {},
         t \in Closer => Closes(t)',
         t \in Loop => \A c \in Closer : PastJoin(c) => Quiet(t)'
  PROVE  CloseInv'
<1>1. ASSUME NEW c \in Closer PROVE Closes(c)'
  <2>1. CASE c = t
    BY <2>1
  <2>2. CASE c # t
    <3>1. thread'[c] = thread[c] /\ Closes(c)
      BY <2>2 DEF Moved, Thread, CloseInv
    <3>2. ASSUME NEW l \in Loop, PastJoin(c) PROVE Quiet(l)'
      BY <3>1, <3>2 DEF Closes, Quiet, Moved, Thread
    <3>3. /\ PastJoin(c)' => PastJoin(c) /\ \A l \in Loop : Quiet(l)'
          /\ thread[c].at = "wait" => Pending \subseteq thread[c].todo
      BY <3>1, <3>2 DEF Closes, PastJoin
    <3>4. thread'[c].at = "wait" => Pending' \subseteq thread'[c].todo
      BY <3>1, <3>3
    <3>5. /\ thread'[c].at # "open" => Stopped'
          /\ thread'[c].at \in {"mark", "closed"} => ~poolOpen'
      BY <3>1 DEF Closes
    <3> QED
      BY <3>3, <3>4, <3>5 DEF Closes
  <2> QED
    BY <2>1, <2>2
<1> QED
  BY <1>1 DEF CloseInv

LEMMA StoppedStays ==
  ASSUME Base, NEW s \in Signal, NEW new \in {"pending", "running", "completed", "failed", "stopped"},
         signal' = Updated(s, new), s = "control" => new = "stopped"
  PROVE  Stopped => Stopped'
<1>1. signal \in [Signal -> SignalState] /\ "control" \in Signal
  BY DEF Base, Types, Signal
<1> QED
  BY <1>1, SignalSet DEF Stopped

LEMMA CollectCloses ==
  ASSUME Base, CloseInv, NEW t \in Thread, CollectStep(t)
  PROVE  CloseInv'
<1> USE DEF Place, LoopPlaces, CloserPlaces, ReaderPlaces, KillerPlaces, Collecting, Starting
<1>1. /\ Threads /\ Types /\ InPlace(t, thread[t]) /\ Held(thread[t])
      /\ t \in Loop \/ t \in Reader \/ t \in Closer \/ t \in Killer
  BY DEF Base, Types, Threads, Thread
<1>2. work' = work /\ poolOpen' = poolOpen /\ Pending' \subseteq Pending
  <2>1. work' = work /\ poolOpen' = poolOpen
    BY DEF CollectStep, ReadFuture, ClearFuture, FinishAction, Publish, EndCollect, actionVars
  <2> QED
    BY <2>1, PendingShrinks
<1>3. Stopped => Stopped'
  <2>1. CASE Publish(t)
    <3>1. /\ thread[t].a \in Signal /\ signal' = Updated(thread[t].a, Result(t))
          /\ thread[t].a # "control"
      BY <1>1, <2>1, SignalNamesAssumption DEF Publish, Held, At, Signal
    <3> QED
      BY <3>1, StoppedStays, StatusTypes
  <2>2. CASE signal' = signal
    BY <2>2 DEF Stopped
  <2> QED
    BY <2>1, <2>2 DEF CollectStep, ReadFuture, ClearFuture, FinishAction, EndCollect
<1>4. /\ thread[t].at \in Collecting
      /\ \/ \E label \in Collecting : Moved(t, label) /\ thread'[t].after = thread[t].after
         \/ thread[t].after = None /\ Moved(t, "choose")
         \/ Moved(t, thread[t].after) /\ thread[t].after \in {"leave", "tick", "away", "pool"}
  <2>1. ASSUME NEW a \in Action, ReadFuture(t, a)
        PROVE  \E label \in Collecting : Moved(t, label) /\ thread'[t].after = thread[t].after
    <3>1. future[a] \in Int \cup {None}
      BY <1>1 DEF Types
    <3>2. Take(t, "clear", a, future[a]) \/ Drop(t, "collect", a)
      BY <2>1 DEF ReadFuture
    <3> QED
      BY <1>1, <3>1, <3>2, TakeMoves, DropMoves
  <2>2. ASSUME ClearFuture(t) \/ FinishAction(t)
        PROVE  \E label \in Collecting : Moved(t, label) /\ thread'[t].after = thread[t].after
    BY <1>1, <2>2, GoMoves DEF ClearFuture, FinishAction
  <2>3. ASSUME Publish(t)
        PROVE  \/ Moved(t, "collect") /\ thread'[t].after = thread[t].after
               \/ thread[t].after = None /\ Moved(t, "choose")
    BY <1>1, <2>3, DropMoves DEF Publish, Resume
  <2>4. ASSUME EndCollect(t)
        PROVE  Moved(t, thread[t].after) /\ thread[t].after \in {"leave", "tick", "away", "pool"}
    <3>1. thread[t].after \in {"leave", "tick", "away", "pool"}
      BY <1>1, <2>4 DEF EndCollect, At, InPlace
    <3> QED
      BY <1>1, <2>4, <3>1, GoAwayMoves DEF EndCollect
  <2>5. thread[t].at \in Collecting
    BY DEF CollectStep, ReadFuture, ClearFuture, FinishAction, Publish, EndCollect, At
  <2> QED
    BY <2>1, <2>2, <2>3, <2>4, <2>5 DEF CollectStep
<1>5. PICK label : Moved(t, label)
  BY <1>4
<1>6. t \in Closer => Closes(t)'
  <2> SUFFICES ASSUME t \in Closer PROVE Closes(t)'
    OBVIOUS
  <2>1. thread[t].after = "pool" /\ thread'[t].at \in {"pool"} \cup Collecting
    BY <1>1, <1>4, NoneIsNothing DEF InPlace, Moved, After
  <2>2. Closes(t) /\ PastJoin(t) /\ thread[t].at # "open"
    BY <1>4 DEF CloseInv, PastJoin
  <2>3. \A l \in Loop : thread'[l] = thread[l]
    BY <1>5, ThreadsAssumption DEF Moved, Thread
  <2> QED
    BY <1>3, <2>1, <2>2, <2>3 DEF Closes, Quiet
<1>7. ASSUME t \in Loop, NEW c \in Closer, PastJoin(c) PROVE Quiet(t)'
  <2>1. thread[t].after = "leave"
    BY <1>4, <1>7 DEF CloseInv, Closes, Quiet
  <2> QED
    BY <1>4, <2>1, NoneIsNothing DEF Quiet, Moved, After
<1> QED
  BY <1>2, <1>3, <1>5, <1>6, <1>7, CloseKept

\* Nothing is started once a closer has joined the loop.
LEMMA TickCloses ==
  ASSUME Base, CloseInv, NEW t \in Loop, TickStep(t)
  PROVE  CloseInv'
<1> USE DEF Place, LoopPlaces, Collecting, Starting
<1>1. Threads /\ Types /\ InPlace(t, thread[t]) /\ Held(thread[t]) /\ t \in Thread
  BY DEF Base, Types, Threads, Thread
<1>2. thread[t].at \in {"tick", "choose"} \cup Starting
  BY DEF TickStep, TakeSnapshot, Choose, StartAction, Announce, Submit, Execute, At
<1>3. \A c \in Closer : ~PastJoin(c)
  BY <1>2 DEF CloseInv, Closes, Quiet
<1>4. PICK label : Moved(t, label)
  <2>1. CASE TakeSnapshot(t)
    <3> DEFINE c == [Away("choose") EXCEPT !.snap = signal, !.todo = known]
    <3>1. c \in ThreadState /\ thread' = [thread EXCEPT ![t] = c]
      BY <1>1, <2>1 DEF TakeSnapshot, Away, ThreadState, Types, Job
    <3> HIDE DEF c
    <3>2. thread'[t] = c
      BY <1>1, <3>1 DEF Threads
    <3>3. Moved(t, c.at)
      BY <1>1, <3>1, <3>2 DEF Moved, Threads
    <3> QED
      BY <3>3
  <2>2. ASSUME NEW a \in Action, Choose(t, a) PROVE \E label : Moved(t, label)
    <3>1. Take(t, "start", a, None) \/ Drop(t, "choose", a)
      BY <2>2 DEF Choose
    <3> QED
      BY <1>1, <3>1, TakeMoves, DropMoves
  <2>3. CASE StartAction(t)
    <3>1. thread[t].a \in Action /\ runs[thread[t].a] + 1 \in Int \cup {None}
      BY <1>1, <2>3 DEF StartAction, At, Held, Types
    <3> QED
      BY <1>1, <2>3, <3>1, TakeMoves DEF StartAction
  <2>4. CASE \E label \in {"submit", "dead", "execute", "finish"} : Go(t, label)
    BY <1>1, <2>4, GoMoves
  <2>5. CASE Drop(t, "choose", thread[t].a)
    BY <1>1, <2>5, DropMoves
  <2> QED
    BY <2>1, <2>2, <2>3, <2>4, <2>5 DEF TickStep, Announce, Submit, Execute
<1>5. Stopped => Stopped'
  <2>1. CASE Announce(t)
    <3>1. /\ thread[t].a \in Signal /\ signal' = Updated(thread[t].a, "running")
          /\ thread[t].a # "control"
      BY <1>1, <2>1, SignalNamesAssumption DEF Announce, Held, At, Signal
    <3> QED
      BY <3>1, StoppedStays
  <2>2. CASE signal' = signal
    BY <2>2 DEF Stopped
  <2> QED
    BY <2>1, <2>2 DEF TickStep, TakeSnapshot, Choose, StartAction, Submit, Execute, actionVars
<1>6. \A c \in Closer : Closes(c)'
  <2>1. \A c \in Closer : thread'[c] = thread[c]
    BY <1>4, ThreadsAssumption DEF Moved, Thread
  <2> QED
    BY <1>3, <1>5, <2>1 DEF Closes, CloseInv, PastJoin
<1>7. ~poolOpen' => Pending' = {}
  <2> DEFINE a == thread[t].a
             n == thread[t].n
  <2>1. poolOpen' = poolOpen
    BY DEF TickStep, TakeSnapshot, Choose, StartAction, Announce, Submit, Execute, actionVars
  <2>2. CASE work' = work
    BY <2>1, <2>2, PendingShrinks DEF CloseInv
  <2>3. ASSUME NEW w \in WorkStatus, work' = [work EXCEPT ![a][n] = w],
               a \in Action, n \in Run(a), Backend[a] # "coroutine" \/ w # "running"
        PROVE  Pending' \subseteq Pending
    <3>1. WorkTypes
      BY <1>1 DEF Types
    <3> HIDE DEF a, n
    <3>2. \A b \in Action : \A m \in Run(b) :
            work'[b][m] = IF b = a /\ m = n THEN w ELSE work[b][m]
      <4>1. SetTo(a, n, w)
        BY <2>3 DEF SetTo
      <4> QED
        BY <2>3, <3>1, <4>1, WorkSet
    <3>3. \A b \in Action : \A m \in Run(b) :
            Backend[b] = "coroutine" /\ work'[b][m] = "running" => work[b][m] = "running"
      BY <2>3, <3>2
    <3> QED
      BY <3>3 DEF Pending
  <2>4. CASE Submit(t)
    <3>1. a \in Action /\ n \in Run(a)
      BY <1>1, <2>4 DEF Submit, Held, At
    <3>2. "running" \in WorkStatus
      BY DEF WorkStatus
    <3>3. \/ work' = work
          \/ /\ work' = [work EXCEPT ![a][n] = "running"]
             /\ Backend[a] = "coroutine" => poolOpen
      BY <2>4 DEF Submit
    <3> HIDE DEF a, n
    <3> QED
      BY <2>1, <2>2, <2>3, <3>1, <3>2, <3>3 DEF CloseInv
  <2>5. ASSUME NEW outcome \in Outcome, Execute(t, outcome) PROVE ~poolOpen' => Pending' = {}
    <3>1. a \in Action /\ n \in Run(a) /\ work' = [work EXCEPT ![a][n] = outcome]
      BY <1>1, <2>5 DEF Execute, Held, At
    <3>2. outcome \in WorkStatus /\ outcome # "running"
      BY NoneIsNothing DEF WorkStatus, Ended
    <3> HIDE DEF a, n
    <3>3. Pending' \subseteq Pending
      BY <2>3, <3>1, <3>2
    <3> QED
      BY <2>1, <3>3 DEF CloseInv
  <2> QED
    BY <2>2, <2>4, <2>5 DEF TickStep, TakeSnapshot, Choose, StartAction, Announce, actionVars
<1> QED
  BY <1>6, <1>7 DEF CloseInv

LEMMA LoopCloses ==
  ASSUME Base, CloseInv, NEW t \in Loop, LoopHead(t) \/ EndTick(t) \/ LeaveLoop(t) \/ Start(t)
  PROVE  CloseInv'
<1>1. /\ Threads /\ t \in Thread /\ t \notin Closer /\ known \subseteq Action
      /\ "head" \in Place /\ "ended" \in Place
      /\ "status" \in Signal
  BY ThreadsAssumption DEF Base, Types, Threads, Thread, Place, LoopPlaces, Signal
<1>2. work' = work /\ poolOpen' = poolOpen /\ Pending' \subseteq Pending
  <2>1. work' = work /\ poolOpen' = poolOpen
    BY DEF LoopHead, EndTick, LeaveLoop, Start, actionVars
  <2> QED
    BY <2>1, PendingShrinks
<1>3. Stopped => Stopped'
  <2>1. CASE signal' = signal
    BY <2>1 DEF Stopped
  <2>2. ASSUME NEW new \in {"running", "completed"}, signal' = Updated("status", new)
        PROVE  Stopped => Stopped'
    BY <1>1, <2>2, StoppedStays
  <2> QED
    BY <2>1, <2>2 DEF LoopHead, EndTick, LeaveLoop, Start
<1>4. CASE LoopHead(t)
  <2>1. PICK after \in {"leave", "tick"} : Collect(t, after) /\ (Stopped => after = "leave")
    BY <1>4 DEF LoopHead, Stopped
  <2>2. Moved(t, "collect") /\ thread'[t].after = after
    BY <1>1, <2>1, CollectMoves DEF After
  <2>3. ASSUME NEW c \in Closer, PastJoin(c) PROVE Quiet(t)'
    BY <2>1, <2>2, <2>3 DEF CloseInv, Closes, PastJoin, Quiet, Moved, Collecting
  <2> QED
    BY <1>1, <1>2, <1>3, <2>2, <2>3, CloseKept
<1>5. CASE EndTick(t) \/ Start(t) \/ LeaveLoop(t)
  <2>1. PICK label \in {"head", "ended"} : Moved(t, label)
    BY <1>1, <1>5, GoAwayMoves DEF EndTick, Start, LeaveLoop
  <2>2. Quiet(t)'
    BY <2>1 DEF Quiet, Moved
  <2> QED
    BY <1>1, <1>2, <1>3, <2>1, <2>2, CloseKept
<1> QED
  BY <1>4, <1>5

LEMMA CloserCloses ==
  ASSUME Base, CloseInv, NEW t \in Closer, CloseStep(t)
  PROVE  CloseInv'
<1> USE DEF Place, CloserPlaces
<1>1. /\ Threads /\ t \in Thread /\ t \notin Loop /\ known \subseteq Action /\ Closes(t)
      /\ "status" \in Signal /\ "control" \in Signal
  BY ThreadsAssumption DEF Base, Types, Threads, Thread, CloseInv, Signal
<1>2. work' = work /\ Pending' = Pending
  <2>1. work' = work
    BY DEF CloseStep, RequestStop, SetStop, MarkClosed, JoinLoop, ListPending, ClosePool, actionVars
  <2> QED
    BY <2>1 DEF Pending
<1>3. Stopped => Stopped'
  <2>1. CASE RequestStop(t) \/ MarkClosed(t)
    BY <1>1, <2>1, StoppedStays DEF RequestStop, MarkClosed
  <2>2. CASE signal' = signal
    BY <2>2 DEF Stopped
  <2> QED
    BY <2>1, <2>2 DEF CloseStep, SetStop, JoinLoop, ListPending, ClosePool
<1>4. ASSUME NEW label, Moved(t, label) PROVE \A l \in Loop : Quiet(l) => Quiet(l)'
  BY <1>1, <1>4 DEF Moved, Quiet, Thread
<1>5. CASE RequestStop(t)
  <2>1. Moved(t, "requested")
    BY <1>1, <1>5, GoMoves DEF RequestStop
  <2>2. Stopped'
    BY <1>1, <1>5, SignalSet DEF RequestStop, Stopped, Base, Types
  <2>3. Closes(t)'
    BY <2>1, <2>2 DEF Closes, PastJoin, Moved
  <2> QED
    BY <1>1, <1>2, <1>3, <1>5, <2>1, <2>3, CloseKept DEF RequestStop
<1>6. CASE SetStop(t)
  <2>1. Moved(t, "join") /\ thread[t].at = "requested"
    BY <1>1, <1>6, GoMoves DEF SetStop, At
  <2>2. Closes(t)'
    BY <1>1, <1>3, <2>1 DEF Closes, PastJoin, Moved
  <2> QED
    BY <1>1, <1>2, <1>3, <1>6, <2>1, <2>2, CloseKept DEF SetStop
<1>7. CASE JoinLoop(t)
  <2>1. Moved(t, "collect") /\ thread[t].at = "join"
    BY <1>1, <1>7, CollectMoves DEF JoinLoop, After, At
  <2>2. \A l \in Loop : Quiet(l)
    BY <1>7 DEF JoinLoop, Quiet
  <2>3. Closes(t)'
    BY <1>1, <1>3, <1>4, <2>1, <2>2 DEF Closes, Moved
  <2> QED
    BY <1>1, <1>2, <1>3, <1>7, <2>1, <2>3, CloseKept DEF JoinLoop
<1>8. CASE ListPending(t)
  <2>1. thread[t].at = "pool" /\ PastJoin(t) /\ \A l \in Loop : Quiet(l)
    BY <1>1, <1>8 DEF ListPending, At, PastJoin, Closes
  <2>2. CASE poolOpen
    <3>1. Moved(t, "wait") /\ thread'[t].todo = Pending
      BY <1>1, <1>8, <2>2, ListMoves DEF ListPending
    <3>2. Closes(t)'
      BY <1>1, <1>2, <1>3, <1>4, <2>1, <3>1 DEF Closes, Moved
    <3> QED
      BY <1>1, <1>2, <1>3, <1>8, <3>1, <3>2, CloseKept DEF ListPending
  <2>3. CASE ~poolOpen
    <3>1. Moved(t, "mark")
      BY <1>1, <1>8, <2>3, GoMoves DEF ListPending
    <3>2. ~poolOpen'
      BY <1>8, <2>3 DEF ListPending
    <3>3. Closes(t)'
      BY <1>1, <1>2, <1>3, <1>4, <2>1, <3>1, <3>2 DEF Closes, Moved
    <3> QED
      BY <1>1, <1>2, <1>3, <2>3, <3>1, <3>2, <3>3, CloseKept
  <2> QED
    BY <2>2, <2>3
<1>9. CASE ClosePool(t)
  <2>1. /\ thread[t].at = "wait" /\ PastJoin(t) /\ \A l \in Loop : Quiet(l)
        /\ Pending \subseteq thread[t].todo
    BY <1>1, <1>9 DEF ClosePool, At, PastJoin, Closes
  <2>2. CASE {work[run[1]][run[2]] : run \in thread[t].todo} \subseteq {"succeeded"}
    <3>1. Pending = {}
      BY <2>1, <2>2 DEF Pending
    <3>2. Moved(t, "mark") /\ ~poolOpen'
      BY <1>1, <1>9, <2>2, GoAwayMoves DEF ClosePool
    <3>3. Closes(t)'
      BY <1>1, <1>2, <1>3, <1>4, <2>1, <3>2 DEF Closes, Moved
    <3> QED
      BY <1>1, <1>2, <1>3, <3>1, <3>2, <3>3, CloseKept
  <2>3. CASE GoAway(t, "raised") /\ UNCHANGED poolOpen
    <3>1. Moved(t, "raised")
      BY <1>1, <2>3, GoAwayMoves
    <3>2. Closes(t)'
      BY <1>1, <1>2, <1>3, <1>4, <2>1, <3>1 DEF Closes, Moved
    <3> QED
      BY <1>1, <1>2, <1>3, <2>3, <3>1, <3>2, CloseKept
  <2> QED
    BY <1>9, <2>2, <2>3 DEF ClosePool
<1>10. CASE MarkClosed(t)
  <2>1. Moved(t, "closed") /\ thread[t].at = "mark"
    BY <1>1, <1>10, GoAwayMoves DEF MarkClosed, At
  <2>2. PastJoin(t) /\ (\A l \in Loop : Quiet(l)) /\ ~poolOpen /\ ~poolOpen'
    BY <1>1, <1>10, <2>1 DEF Closes, PastJoin, MarkClosed
  <2>3. Closes(t)'
    BY <1>1, <1>3, <1>4, <2>1, <2>2 DEF Closes, Moved
  <2> QED
    BY <1>1, <1>2, <1>3, <2>1, <2>2, <2>3, CloseKept
<1> QED
  BY <1>5, <1>6, <1>7, <1>8, <1>9, <1>10 DEF CloseStep

LEMMA KillerCloses ==
  ASSUME Base, CloseInv, NEW t \in Killer, KillStep(t)
  PROVE  CloseInv'
<1>1. /\ t \in Thread /\ t \notin Loop /\ t \notin Closer /\ "status" \in Signal
      /\ WorkTypes
  BY ThreadsAssumption DEF Base, Types, Thread, Signal
<1>2. PICK label : Moved(t, label)
  BY KillerMoves
<1>3. Stopped => Stopped'
  <2>1. CASE ReportKilled(t)
    BY <1>1, <2>1, StoppedStays DEF ReportKilled
  <2>2. CASE signal' = signal
    BY <2>2 DEF Stopped
  <2> QED
    BY <2>1, <2>2 DEF KillStep, KillLoop, KillPool
<1>4. CASE KillPool(t)
  <2>1. Pending' \subseteq Pending
    BY <1>1, <1>4, KillCancels, PendingShrinks
  <2>2. ~poolOpen' /\ (poolOpen => Pending' = {})
    BY <1>1, <1>4, KillCancels DEF KillPool
  <2> QED
    BY <1>1, <1>2, <1>3, <2>1, <2>2, CloseKept
<1>5. CASE work' = work /\ poolOpen' = poolOpen
  BY <1>1, <1>2, <1>3, <1>5, PendingShrinks, CloseKept
<1> QED
  BY <1>4, <1>5 DEF KillStep, KillLoop, ReportKilled, actionVars

LEMMA EnvironmentCloses ==
  ASSUME Base, CloseInv, Environment
  PROVE  CloseInv'
<1>1. ASSUME UNCHANGED <<thread, poolOpen>>, Pending' \subseteq Pending, Stopped => Stopped'
      PROVE  CloseInv'
  BY <1>1 DEF CloseInv, Closes, PastJoin, Quiet
<1>2. ASSUME NEW a \in Action, AddAction(a) PROVE CloseInv'
  BY <1>1, <1>2, PendingShrinks DEF AddAction, Stopped
<1>3. ASSUME NEW a \in Action, NEW n \in Run(a), NEW outcome \in Outcome, WorkEnds(a, n, outcome)
      PROVE  CloseInv'
  <2>1. Pending' \subseteq Pending
    BY <1>3, WorkEnding, PendingShrinks DEF Base, Types
  <2> QED
    BY <1>1, <1>3, <2>1 DEF WorkEnds, Stopped
<1>4. ASSUME NEW i \in Input, UpdateInput(i) PROVE CloseInv'
  <2>1. Stopped => Stopped'
    BY <1>4, StoppedStays, SignalNamesAssumption DEF UpdateInput, Signal
  <2> QED
    BY <1>1, <1>4, <2>1, PendingShrinks DEF UpdateInput, actionVars
<1>5. ASSUME NEW l \in Loop, Start(l) PROVE CloseInv'
  BY <1>5, LoopCloses
<1> QED
  BY <1>2, <1>3, <1>4, <1>5 DEF Environment

LEMMA NextCloses == Base /\ CloseInv /\ [Next]_vars => CloseInv'
<1> SUFFICES ASSUME Base, CloseInv, [Next]_vars PROVE CloseInv'
  OBVIOUS
<1>1. CASE Environment
  BY <1>1, EnvironmentCloses
<1>2. ASSUME NEW l \in Loop, LoopStep(l) PROVE CloseInv'
  BY <1>2, CollectCloses, TickCloses, LoopCloses DEF LoopStep, Thread
<1>3. ASSUME NEW r \in Reader, ReadState(r) PROVE CloseInv'
  <2>1. Threads /\ r \in Thread /\ known \subseteq Action /\ r \notin Loop /\ r \notin Closer
    BY ThreadsAssumption DEF Base, Types, Threads, Thread
  <2>2. Moved(r, "collect")
    BY <1>3, <2>1, CollectMoves DEF ReadState, After
  <2> QED
    BY <1>3, <2>1, <2>2, PendingShrinks, CloseKept DEF ReadState, actionVars, Stopped
<1>4. ASSUME NEW t \in Reader \cup Closer, CollectStep(t) PROVE CloseInv'
  BY <1>4, CollectCloses DEF Thread
<1>5. ASSUME NEW c \in Closer, CloseStep(c) PROVE CloseInv'
  BY <1>5, CloserCloses
<1>6. ASSUME NEW k \in Killer, KillStep(k) PROVE CloseInv'
  BY <1>6, KillerCloses
<1>7. CASE UNCHANGED vars
  BY <1>7 DEF vars, actionVars, CloseInv, Closes, PastJoin, Quiet, Pending, Stopped
<1> QED
  BY <1>1, <1>2, <1>3, <1>4, <1>5, <1>6, <1>7 DEF Next

LEMMA InitCloses == Init => CloseInv
<1> SUFFICES ASSUME Init PROVE CloseInv
  OBVIOUS
<1>1. \A c \in Closer : thread[c].at = "open"
  BY ThreadsAssumption DEF Init, Thread, Away
<1> QED
  BY <1>1 DEF CloseInv, Closes, PastJoin, Init

\* CloseWaitsForCoroutines: once close() is past the pool no coroutine runs,
\* whatever was killed or started again in between (Scheduler.close,
\* CoroutinePool.close and kill).
THEOREM ClosedMeansQuiet == Spec => []CloseWaitsForCoroutines
<1>1. Init => Base /\ CloseInv
  BY InitBase, InitCloses
<1>2. Base /\ CloseInv /\ [Next]_vars => (Base /\ CloseInv)'
  BY NextBase, NextCloses
<1>3. CloseInv => CloseWaitsForCoroutines
  BY DEF CloseInv, Closes, CloseWaitsForCoroutines
<1> QED
  BY <1>1, <1>2, <1>3, PTL DEF Spec

-----------------------------------------------------------------------------
(* Without threads that collect while the loop starts actions, no action    *)
(* overlaps itself, and no result is lost.                                  *)

\* A step of t that keeps the futures and begins no work.
LEMMA OverlapKept ==
  ASSUME Base, OverlapInv, NEW t \in Thread, NEW label, Moved(t, label),
         thread[t].at # "execute", future' = future, Outside \/ work' = work, Exclusive(t)'
  PROVE  OverlapInv'
<1>1. ASSUME NEW a \in Action, NEW n \in Run(a), work'[a][n] = "running"
      PROVE  InHand(a, n)'
  <2>1. work[a][n] = "running"
    BY <1>1 DEF Outside
  <2>2. CASE future[a] = n
    BY <2>2 DEF InHand
  <2>3. ASSUME NEW l \in Loop, thread[l].at = "execute", thread[l].a = a, thread[l].n = n
        PROVE  InHand(a, n)'
    <3>1. thread'[l] = thread[l]
      BY <2>3 DEF Moved, Thread
    <3> QED
      BY <2>3, <3>1 DEF InHand
  <2> QED
    BY <2>1, <2>2, <2>3 DEF OverlapInv, InHand
<1>2. ASSUME NEW u \in Thread PROVE Exclusive(u)'
  BY DEF OverlapInv, Exclusive, Moved
<1> QED
  BY <1>1, <1>2 DEF OverlapInv

LEMMA CollectOverlaps ==
  ASSUME Base, OverlapInv, NEW t \in Thread, CollectStep(t)
  PROVE  OverlapInv'
<1> USE DEF Place, LoopPlaces, CloserPlaces, ReaderPlaces, KillerPlaces, Collecting, Starting
<1>1. /\ Threads /\ Types /\ InPlace(t, thread[t]) /\ Held(thread[t]) /\ Exclusive(t)
      /\ t \in Loop \/ t \in Reader \/ t \in Closer \/ t \in Killer
  BY DEF Base, Types, Threads, Thread, OverlapInv
<1>2. ASSUME NEW a \in Action, ReadFuture(t, a) PROVE OverlapInv'
  <2>1. future' = future /\ work' = work /\ thread[t].at = "collect"
    BY <1>2 DEF ReadFuture, actionVars, At
  <2>2. CASE Take(t, "clear", a, future[a])
    <3>1. future[a] \in Int \cup {None} /\ "clear" \in Place
      BY <1>1 DEF Types
    <3>2. Moved(t, "clear") /\ thread'[t].a = a /\ thread'[t].n = future[a]
      <4> DEFINE n == future[a]
      <4>1. n \in Int \cup {None} /\ Take(t, "clear", a, n)
        BY <2>2, <3>1
      <4> HIDE DEF n
      <4>2. Moved(t, "clear") /\ thread'[t].a = a /\ thread'[t].n = n
        BY <1>1, <3>1, <4>1, TakeMoves
      <4> QED
        BY <4>2 DEF n
    <3>3. Exclusive(t)'
      BY <2>1, <3>2 DEF Exclusive, Moved
    <3> QED
      BY <2>1, <3>2, <3>3, OverlapKept
  <2>3. CASE Drop(t, "collect", a)
    <3>1. Moved(t, "collect")
      BY <1>1, <2>3, DropMoves
    <3>2. Exclusive(t)'
      BY <3>1 DEF Exclusive, Moved
    <3> QED
      BY <2>1, <3>1, <3>2, OverlapKept
  <2> QED
    BY <1>2, <2>2, <2>3 DEF ReadFuture
<1>3. CASE ClearFuture(t)
  <2> DEFINE a == thread[t].a
             n == thread[t].n
  <2>1. /\ a \in Action /\ n \in Run(a) /\ work[a][n] \in Ended /\ future[a] \in {n, None}
        /\ thread[t].at = "clear" /\ future' = [future EXCEPT ![a] = None] /\ work' = work
    BY <1>1, <1>3 DEF ClearFuture, Held, At, Exclusive
  <2>2. Moved(t, "finish")
    BY <1>1, <1>3, GoMoves DEF ClearFuture
  <2>3. /\ future'[a] = None /\ \A b \in Action : b # a => future'[b] = future[b]
    BY <1>1, <2>1 DEF Types
  <2> HIDE DEF a, n
  <2>4. ASSUME NEW b \in Action, NEW m \in Run(b), work'[b][m] = "running"
        PROVE  InHand(b, m)'
    <3>1. InHand(b, m)
      BY <2>1, <2>4 DEF OverlapInv
    <3>2. ~(b = a /\ future[b] = m)
      BY <2>1, <2>4, NoneIsNothing, RunTypes
    <3>3. CASE b # a /\ future[b] = m
      BY <2>3, <3>3 DEF InHand
    <3>4. ASSUME NEW l \in Loop, thread[l].at = "execute", thread[l].a = b, thread[l].n = m
          PROVE  InHand(b, m)'
      <4>1. thread'[l] = thread[l]
        BY <2>1, <2>2, <3>4 DEF Moved, Thread
      <4> QED
        BY <3>4, <4>1 DEF InHand
    <3> QED
      BY <3>1, <3>2, <3>3, <3>4 DEF InHand
  <2>5. ASSUME NEW u \in Thread PROVE Exclusive(u)'
    <3>1. CASE u = t
      BY <2>2, <3>1 DEF Exclusive, Moved
    <3>2. CASE u # t
      <4>1. thread'[u] = thread[u] /\ Exclusive(u) /\ Held(thread[u])
        BY <2>2, <3>2 DEF Moved, OverlapInv, Base
      <4>2. thread[u].at \in Starting \cup {"clear"} => thread[u].a \in Action
        BY <4>1 DEF Held
      <4> QED
        BY <2>3, <4>1, <4>2 DEF Exclusive
    <3> QED
      BY <3>1, <3>2
  <2> QED
    BY <2>4, <2>5 DEF OverlapInv
<1>4. CASE FinishAction(t)
  <2>1. Moved(t, "publish") /\ thread[t].at = "finish" /\ future' = future /\ work' = work
    BY <1>1, <1>4, GoMoves DEF FinishAction, At
  <2>2. Exclusive(t)'
    BY <2>1 DEF Exclusive, Moved
  <2> QED
    BY <2>1, <2>2, OverlapKept
<1>5. CASE Publish(t)
  <2>1. /\ thread[t].at = "publish" /\ future' = future /\ work' = work
        /\ Resume(t) \in {"choose", "collect"} /\ Drop(t, Resume(t), thread[t].a)
    BY <1>5 DEF Publish, At, actionVars, Resume
  <2>2. Moved(t, Resume(t))
    BY <1>1, <2>1, DropMoves
  <2>3. Exclusive(t)'
    BY <2>1, <2>2 DEF Exclusive, Moved
  <2> QED
    BY <2>1, <2>2, <2>3, OverlapKept
<1>6. CASE EndCollect(t)
  <2>1. /\ thread[t].after \in {"leave", "tick", "away", "pool"}
        /\ thread[t].at = "collect" /\ future' = future /\ work' = work
    BY <1>1, <1>6 DEF EndCollect, At, InPlace, actionVars
  <2>2. Moved(t, thread[t].after)
    BY <1>1, <1>6, <2>1, GoAwayMoves DEF EndCollect
  <2>3. Exclusive(t)'
    BY <2>1, <2>2 DEF Exclusive, Moved
  <2> QED
    BY <2>1, <2>2, <2>3, OverlapKept
<1> QED
  BY <1>2, <1>3, <1>4, <1>5, <1>6 DEF CollectStep

LEMMA TickOverlaps ==
  ASSUME Base, CloseInv, OverlapInv, Reader = {}, NEW t \in Loop, TickStep(t)
  PROVE  OverlapInv'
<1> USE DEF Place, LoopPlaces, Collecting, Starting
<1>1. /\ Threads /\ Types /\ InPlace(t, thread[t]) /\ Held(thread[t]) /\ t \in Thread
      /\ Exclusive(t)
  BY DEF Base, Types, Threads, Thread, OverlapInv
<1>2. CASE TakeSnapshot(t)
  <2> DEFINE c == [Away("choose") EXCEPT !.snap = signal, !.todo = known]
  <2>1. c \in ThreadState /\ c.at = "choose" /\ thread' = [thread EXCEPT ![t] = c]
    BY <1>1, <1>2 DEF TakeSnapshot, Away, ThreadState, Types, Job
  <2> HIDE DEF c
  <2>2. Moved(t, "choose")
    BY <1>1, <2>1 DEF Moved, Threads
  <2>3. Exclusive(t)'
    BY <2>2 DEF Exclusive, Moved
  <2>4. thread[t].at # "execute" /\ future' = future /\ work' = work
    BY <1>2 DEF TakeSnapshot, At, actionVars
  <2> QED
    BY <1>1, <2>2, <2>3, <2>4, OverlapKept
<1>3. ASSUME NEW a \in Action, Choose(t, a) PROVE OverlapInv'
  <2>1. thread[t].at = "choose" /\ future' = future /\ work' = work
    BY <1>3 DEF Choose, At
  <2>2. CASE Startable(a, thread[t].snap) /\ Take(t, "start", a, None)
    <3>1. Moved(t, "start") /\ thread'[t].a = a
      BY <1>1, <2>2, TakeMoves
    <3>2. Exclusive(t)'
      BY <2>1, <2>2, <3>1 DEF Exclusive, Moved, Startable
    <3> QED
      BY <1>1, <2>1, <3>1, <3>2, OverlapKept
  <2>3. CASE Drop(t, "choose", a)
    <3>1. Moved(t, "choose")
      BY <1>1, <2>3, DropMoves
    <3>2. Exclusive(t)'
      BY <3>1 DEF Exclusive, Moved
    <3> QED
      BY <1>1, <2>1, <3>1, <3>2, OverlapKept
  <2> QED
    BY <1>3, <2>2, <2>3 DEF Choose
<1>4. CASE StartAction(t)
  <2>1. /\ thread[t].at = "start" /\ future' = future /\ work' = work
        /\ thread[t].a \in Action /\ runs[thread[t].a] + 1 \in Int \cup {None}
    <3>1. /\ thread[t].at = "start" /\ future' = future /\ work' = work
          /\ thread[t].a \in Action
      BY <1>1, <1>4 DEF StartAction, At, Held
    <3>2. runs[thread[t].a] \in Nat
      BY <1>1, <3>1 DEF Types
    <3> QED
      BY <3>1, <3>2
  <2>2. Moved(t, "announce") /\ thread'[t].a = thread[t].a
    <3>1. Take(t, "announce", thread[t].a, runs[thread[t].a] + 1)
      BY <1>4 DEF StartAction
    <3> QED
      BY <1>1, <2>1, <3>1, TakeMoves
  <2>3. Exclusive(t)'
    BY <1>1, <2>1, <2>2 DEF Exclusive, Moved
  <2> QED
    BY <1>1, <2>1, <2>2, <2>3, OverlapKept
<1>5. CASE Announce(t)
  <2>1. thread[t].at = "announce" /\ future' = future /\ work' = work
    BY <1>5 DEF Announce, At, actionVars
  <2>2. Moved(t, "submit") /\ thread'[t].a = thread[t].a
    BY <1>1, <1>5, GoMoves DEF Announce
  <2>3. Exclusive(t)'
    BY <1>1, <2>1, <2>2 DEF Exclusive, Moved
  <2> QED
    BY <1>1, <2>1, <2>2, <2>3, OverlapKept
<1>6. CASE Submit(t)
  <2> DEFINE a == thread[t].a
             n == thread[t].n
  <2>1. /\ a \in Action /\ n \in Run(a) /\ thread[t].at = "submit" /\ future[a] = None
        /\ n \in Nat
    BY <1>1, <1>6, RunTypes DEF Submit, Held, At, Exclusive
  <2>2. CASE Go(t, "dead") /\ UNCHANGED <<future, work>>
    <3>1. Moved(t, "dead")
      BY <1>1, <2>2, GoMoves
    <3>2. Exclusive(t)'
      BY <3>1 DEF Exclusive, Moved
    <3> QED
      BY <1>1, <2>1, <2>2, <3>1, <3>2, OverlapKept
  <2>3. CASE work' = [work EXCEPT ![a][n] = "running"]
    <3>1. \A b \in Action : \A m \in Run(b) :
            work'[b][m] = IF b = a /\ m = n THEN "running" ELSE work[b][m]
      <4>1. "running" \in WorkStatus /\ WorkTypes
        BY <1>1 DEF Types, WorkStatus
      <4> HIDE DEF a, n
      <4>2. SetTo(a, n, "running")
        BY <2>3 DEF SetTo
      <4> QED
        BY <2>1, <4>1, <4>2, WorkSet
    <3> HIDE DEF a, n
    <3>2. \A b \in Action : \A m \in Run(b) :
            work[b][m] = "running" => b # a /\ future[b] = m
      <4> SUFFICES ASSUME NEW b \in Action, NEW m \in Run(b), work[b][m] = "running"
                   PROVE  b # a /\ future[b] = m
        OBVIOUS
      <4>1. InHand(b, m)
        BY DEF OverlapInv
      <4>2. \A l \in Loop : thread[l].at # "execute"
        BY <2>1, ThreadsAssumption
      <4> QED
        BY <2>1, <4>1, <4>2, RunTypes DEF InHand
    <3>3. \A u \in Thread : thread[u].at # "clear"
      <4>1. \A c \in Closer : ~PastJoin(c)
        BY <2>1 DEF CloseInv, Closes, Quiet
      <4>2. \A c \in Closer : thread[c].at # "clear"
        BY <4>1 DEF PastJoin
      <4>3. \A k \in Killer : thread[k].at # "clear"
        BY DEF Base, InPlace, KillerPlaces, Thread
      <4>4. \A l \in Loop : thread[l].at # "clear"
        BY <2>1, ThreadsAssumption
      <4> QED
        BY <4>2, <4>3, <4>4 DEF Thread
    <3>4. CASE Go(t, "execute") /\ future' = future
      <4>1. Moved(t, "execute") /\ thread'[t].a = a /\ thread'[t].n = n
        BY <1>1, <3>4, GoMoves DEF a, n
      <4>2. ASSUME NEW b \in Action, NEW m \in Run(b), work'[b][m] = "running"
            PROVE  InHand(b, m)'
        BY <3>1, <3>2, <3>4, <4>1, <4>2 DEF InHand, Moved
      <4>3. ASSUME NEW u \in Thread PROVE Exclusive(u)'
        BY <2>1, <3>4, <4>1 DEF Exclusive, Moved, OverlapInv
      <4> QED
        BY <4>2, <4>3 DEF OverlapInv
    <3>5. CASE Drop(t, "choose", a) /\ future' = [future EXCEPT ![a] = n]
      <4>1. Moved(t, "choose")
        BY <1>1, <3>5, DropMoves
      <4>2. future'[a] = n /\ \A b \in Action : b # a => future'[b] = future[b]
        BY <1>1, <2>1, <3>5 DEF Types
      <4>3. ASSUME NEW b \in Action, NEW m \in Run(b), work'[b][m] = "running"
            PROVE  InHand(b, m)'
        BY <3>1, <3>2, <4>2, <4>3 DEF InHand
      <4>4. ASSUME NEW u \in Thread PROVE Exclusive(u)'
        <5>1. CASE u = t
          BY <4>1, <5>1 DEF Exclusive, Moved
        <5>2. CASE u # t
          <6>1. thread'[u] = thread[u] /\ u \notin Loop
            BY <4>1, <5>2, ThreadsAssumption DEF Moved
          <6> QED
            BY <3>3, <6>1 DEF Exclusive
        <5> QED
          BY <5>1, <5>2
      <4> QED
        BY <4>3, <4>4 DEF OverlapInv
    <3>6. \/ Go(t, "execute") /\ future' = future
          \/ Drop(t, "choose", a) /\ future' = [future EXCEPT ![a] = n]
          \/ Go(t, "dead") /\ UNCHANGED <<future, work>>
      BY <1>6 DEF Submit, a, n
    <3> QED
      BY <2>2, <3>4, <3>5, <3>6
  <2> QED
    BY <1>6, <2>2, <2>3 DEF Submit
<1>7. ASSUME NEW outcome \in Outcome, Execute(t, outcome) PROVE OverlapInv'
  <2> DEFINE a == thread[t].a
             n == thread[t].n
  <2>1. /\ a \in Action /\ n \in Run(a) /\ thread[t].at = "execute" /\ future' = future
        /\ work' = [work EXCEPT ![a][n] = outcome] /\ Go(t, "finish")
    BY <1>1, <1>7 DEF Execute, Held, At
  <2>2. \A b \in Action : \A m \in Run(b) :
          work'[b][m] = IF b = a /\ m = n THEN outcome ELSE work[b][m]
    <3>1. outcome \in WorkStatus /\ WorkTypes
      BY <1>1 DEF Types, WorkStatus, Ended
    <3> HIDE DEF a, n
    <3>2. SetTo(a, n, outcome)
      BY <2>1 DEF SetTo
    <3> QED
      BY <2>1, <3>1, <3>2, WorkSet
  <2>3. Moved(t, "finish")
    BY <1>1, <2>1, GoMoves
  <2>4. ASSUME NEW b \in Action, NEW m \in Run(b), work'[b][m] = "running"
        PROVE  InHand(b, m)'
    <3>1. work[b][m] = "running" /\ ~(b = a /\ m = n)
      BY <2>2, <2>4, NoneIsNothing DEF Ended
    <3>2. \A l \in Loop : l = t
      BY ThreadsAssumption
    <3>3. future[b] = m
      BY <3>1, <3>2 DEF OverlapInv, InHand
    <3> QED
      BY <2>1, <3>3 DEF InHand
  <2>5. ASSUME NEW u \in Thread PROVE Exclusive(u)'
    BY <2>1, <2>3 DEF Exclusive, Moved, OverlapInv
  <2> QED
    BY <2>4, <2>5 DEF OverlapInv
<1> QED
  BY <1>2, <1>3, <1>4, <1>5, <1>6, <1>7 DEF TickStep

\* Nor do the steps that neither collect nor start.
LEMMA PlainOverlaps ==
  ASSUME Base, OverlapInv, NEW t \in Thread,
         NEW label \in Plain \cup {"head", "ended", "collect"}, Moved(t, label),
         thread[t].at # "execute", future' = future, Outside \/ work' = work
  PROVE  OverlapInv'
<1>1. Exclusive(t)'
  BY DEF Exclusive, Moved, Plain, Starting
<1> QED
  BY <1>1, OverlapKept

LEMMA LoopOverlaps ==
  ASSUME Base, OverlapInv, NEW t \in Loop, LoopHead(t) \/ EndTick(t) \/ LeaveLoop(t) \/ Start(t)
  PROVE  OverlapInv'
<1>1. Threads /\ t \in Thread /\ known \subseteq Action /\ "head" \in Place /\ "ended" \in Place
  BY DEF Base, Types, Threads, Thread, Place, LoopPlaces
<1>2. future' = future /\ work' = work /\ thread[t].at # "execute"
  BY DEF LoopHead, EndTick, LeaveLoop, Start, actionVars, At
<1>3. PICK label \in {"head", "ended", "collect"} : Moved(t, label)
  <2>1. CASE LoopHead(t)
    <3>1. PICK after \in After : Collect(t, after)
      BY <2>1 DEF LoopHead, After
    <3> QED
      BY <1>1, <3>1, CollectMoves
  <2>2. CASE EndTick(t) \/ Start(t) \/ LeaveLoop(t)
    BY <1>1, <2>2, GoAwayMoves DEF EndTick, Start, LeaveLoop
  <2> QED
    BY <2>1, <2>2
<1> QED
  BY <1>1, <1>2, <1>3, PlainOverlaps

LEMMA CloserOverlaps ==
  ASSUME Base, OverlapInv, NEW t \in Closer, CloseStep(t)
  PROVE  OverlapInv'
<1>1. t \in Thread /\ thread[t].at # "execute"
  BY DEF Base, InPlace, Thread, CloserPlaces, Collecting
<1>2. future' = future /\ work' = work
  BY DEF CloseStep, RequestStop, SetStop, MarkClosed, JoinLoop, ListPending, ClosePool, actionVars
<1>3. PICK label \in Plain \cup {"collect"} : Moved(t, label)
  BY CloserMoves
<1> QED
  BY <1>1, <1>2, <1>3, PlainOverlaps

LEMMA KillerOverlaps ==
  ASSUME Base, OverlapInv, NEW t \in Killer, KillStep(t)
  PROVE  OverlapInv'
<1>1. t \in Thread /\ thread[t].at # "execute" /\ WorkTypes
  BY DEF Base, Types, InPlace, Thread, KillerPlaces
<1>2. future' = future
  BY DEF KillStep, KillLoop, KillPool, ReportKilled, actionVars
<1>3. Outside \/ work' = work
  BY <1>1, KillCancels DEF KillStep, KillLoop, ReportKilled, actionVars
<1>4. PICK label \in {"killing", "reporting", "killed"} : Moved(t, label)
  BY KillerMoves
<1> QED
  BY <1>1, <1>2, <1>3, <1>4, PlainOverlaps DEF Plain

LEMMA EnvironmentOverlaps ==
  ASSUME Base, OverlapInv, Environment
  PROVE  OverlapInv'
<1>1. ASSUME UNCHANGED <<thread, future>>, Outside \/ work' = work PROVE OverlapInv'
  <2>1. \A a \in Action : \A n \in Run(a) : work'[a][n] = "running" => work[a][n] = "running"
    BY <1>1 DEF Outside
  <2> QED
    BY <1>1, <2>1 DEF OverlapInv, InHand, Exclusive
<1>2. CASE \E a \in Action : AddAction(a)
  BY <1>1, <1>2 DEF AddAction
<1>3. ASSUME NEW a \in Action, NEW n \in Run(a), NEW outcome \in Outcome, WorkEnds(a, n, outcome)
      PROVE  OverlapInv'
  BY <1>1, <1>3, WorkEnding DEF WorkEnds, Base, Types
<1>4. CASE \E i \in Input : UpdateInput(i)
  BY <1>1, <1>4 DEF UpdateInput, actionVars
<1>5. CASE \E l \in Loop : Start(l)
  BY <1>5, LoopOverlaps
<1> QED
  BY <1>2, <1>3, <1>4, <1>5 DEF Environment

LEMMA NextOverlaps ==
  Reader = {} /\ Base /\ CloseInv /\ OverlapInv /\ [Next]_vars => OverlapInv'
<1> SUFFICES ASSUME Reader = {}, Base, CloseInv, OverlapInv, [Next]_vars PROVE OverlapInv'
  OBVIOUS
<1>1. CASE Environment
  BY <1>1, EnvironmentOverlaps
<1>2. ASSUME NEW l \in Loop, LoopStep(l) PROVE OverlapInv'
  BY <1>2, CollectOverlaps, TickOverlaps, LoopOverlaps DEF LoopStep, Thread
<1>3. ASSUME NEW c \in Closer, CollectStep(c) PROVE OverlapInv'
  BY <1>3, CollectOverlaps DEF Thread
<1>4. ASSUME NEW c \in Closer, CloseStep(c) PROVE OverlapInv'
  BY <1>4, CloserOverlaps
<1>5. ASSUME NEW k \in Killer, KillStep(k) PROVE OverlapInv'
  BY <1>5, KillerOverlaps
<1>6. CASE UNCHANGED vars
  BY <1>6 DEF vars, actionVars, OverlapInv, InHand, Exclusive
<1> QED
  BY <1>1, <1>2, <1>3, <1>4, <1>5, <1>6 DEF Next

LEMMA InitOverlaps == Init => OverlapInv
<1> SUFFICES ASSUME Init PROVE OverlapInv
  OBVIOUS
<1>1. \A t \in Thread : thread[t].at \in {"new", "away", "open", "alive"}
  BY DEF Init, Thread, Away
<1>2. \A a \in Action : \A n \in Run(a) : work[a][n] # "running"
  BY NoneIsNothing DEF Init
<1>3. \A t \in Thread : Exclusive(t)
  BY <1>1 DEF Exclusive, Starting
<1> QED
  BY <1>2, <1>3 DEF OverlapInv

LEMMA OverlapInvariant == Reader = {} => (Spec => [](Base /\ CloseInv /\ OverlapInv))
<1> SUFFICES ASSUME Reader = {} PROVE Spec => [](Base /\ CloseInv /\ OverlapInv)
  OBVIOUS
<1>1. Init => Base /\ CloseInv /\ OverlapInv
  BY InitBase, InitCloses, InitOverlaps
<1>2. Base /\ CloseInv /\ OverlapInv /\ [Next]_vars => (Base /\ CloseInv /\ OverlapInv)'
  BY NextBase, NextCloses, NextOverlaps
<1> QED
  BY <1>1, <1>2, PTL DEF Spec

\* OneRunAtATime: unless a reader collects beside the loop (snapshot, idle),
\* an action never overlaps itself, whatever its mode, its limit and its
\* backend, and whoever closes or kills (Scheduler._should_start).
THEOREM RunsDoNotOverlap == Reader = {} => (Spec => []OneRunAtATime)
<1>1. Base /\ OverlapInv => OneRunAtATime
  <2> SUFFICES ASSUME Base, OverlapInv, NEW a \in Action
               PROVE  Cardinality({n \in Run(a) : work[a][n] = "running"}) <= 1
    BY DEF OneRunAtATime
  <2> DEFINE R == {n \in Run(a) : work[a][n] = "running"}
  <2>1. ASSUME NEW n \in R, NEW m \in R PROVE n = m
    <3>1. InHand(a, n) /\ InHand(a, m)
      BY DEF OverlapInv
    <3>2. \A l \in Loop : thread[l].at = "execute" => future[thread[l].a] = None
      BY DEF OverlapInv, Exclusive, Starting, Thread
    <3>3. n # None /\ m # None
      BY RunTypes
    <3> QED
      BY <3>1, <3>2, <3>3, ThreadsAssumption DEF InHand
  <2> HIDE DEF R
  <2>2. CASE R = {}
    BY <2>2, FS_EmptySet DEF R
  <2>3. ASSUME NEW n \in R PROVE Cardinality(R) <= 1
    <3>1. R = {n}
      BY <2>1
    <3> QED
      BY <3>1, FS_Singleton
  <2> QED
    BY <2>2, <2>3 DEF R
<1> QED
  BY <1>1, OverlapInvariant, PTL

\* Only a collection lets go of a future.
LEMMA DroppedWhenCleared ==
  ASSUME Base, [Next]_vars, NEW a \in Action, future[a] # None, future'[a] = None
  PROVE  \E t \in Thread : ClearFuture(t) /\ thread[t].a = a
<1>1. ASSUME NEW t \in Thread, ClearFuture(t)
      PROVE  thread[t].a = a
  BY <1>1 DEF ClearFuture, Base, Types
<1>2. future' # future
  OBVIOUS
<1>3. ASSUME NEW t \in Loop, Submit(t) PROVE FALSE
  <2>1. thread[t].a \in Action /\ thread[t].n \in Run(thread[t].a) /\ t \in Thread
    BY <1>3 DEF Submit, Base, Held, Thread, At
  <2>2. thread[t].n # None
    BY <2>1, RunTypes
  <2>3. future' = [future EXCEPT ![thread[t].a] = thread[t].n]
    BY <1>2, <1>3 DEF Submit
  <2> QED
    BY <2>1, <2>2, <2>3 DEF Base, Types
<1>4. ASSUME NEW t \in Thread, CollectStep(t) PROVE ClearFuture(t)
  BY <1>2, <1>4 DEF CollectStep, ReadFuture, FinishAction, Publish, EndCollect, actionVars
<1>5. CASE Environment
  BY <1>2, <1>5 DEF Environment, AddAction, WorkEnds, UpdateInput, Start, actionVars
<1>6. ASSUME NEW l \in Loop, LoopStep(l) PROVE CollectStep(l)
  BY <1>2, <1>3, <1>6 DEF LoopStep, TickStep, LoopHead, EndTick, LeaveLoop, TakeSnapshot, Choose,
     StartAction, Announce, Execute, actionVars
<1>7. \A c \in Closer : ~CloseStep(c)
  BY <1>2 DEF CloseStep, RequestStop, SetStop, JoinLoop, ListPending, ClosePool, MarkClosed, actionVars
<1>8. \A k \in Killer : ~KillStep(k)
  BY <1>2 DEF KillStep, KillLoop, KillPool, ReportKilled, actionVars
<1>9. \A r \in Reader : ~ReadState(r)
  BY <1>2 DEF ReadState, actionVars
<1>10. ~UNCHANGED vars
  BY <1>2 DEF vars, actionVars
<1> QED
  BY <1>1, <1>4, <1>5, <1>6, <1>7, <1>8, <1>9, <1>10 DEF Next, Thread

\* OnlyEndedWorkDropped: unless a reader collects beside the loop, the
\* scheduler lets go of a future only when its run has ended; with a reader
\* it does not hold (Scheduler._collect_finished).
THEOREM ResultsAreNotLost == Reader = {} => (Spec => OnlyEndedWorkDropped)
<1> DEFINE Dropping == \A a \in Action :
                         future[a] # None /\ future'[a] = None => work[a][future[a]] \in Ended
<1>1. Base /\ OverlapInv /\ [Next]_vars => Dropping
  <2> SUFFICES ASSUME Base, OverlapInv, [Next]_vars,
                      NEW a \in Action, future[a] # None, future'[a] = None
               PROVE  work[a][future[a]] \in Ended
    OBVIOUS
  <2>1. PICK t \in Thread : ClearFuture(t) /\ thread[t].a = a
    BY DroppedWhenCleared
  <2>2. thread[t].at = "clear"
    BY <2>1 DEF ClearFuture, At
  <2>3. future[a] = thread[t].n /\ work[a][thread[t].n] \in Ended
    BY <2>1, <2>2 DEF OverlapInv, Exclusive, Base, Held
  <2> QED
    BY <2>3
<1>2. Base /\ OverlapInv /\ [Next]_vars => [Dropping]_vars
  BY <1>1
<1> QED
  BY <1>2, OverlapInvariant, PTL DEF Spec, OnlyEndedWorkDropped

=============================================================================
