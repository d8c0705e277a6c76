-------------------------- MODULE ProjectionProofs --------------------------
(***************************************************************************)
(* RefreshEqualsRebuild and LatestCheckpointIsLatest for every structure of*)
(* processes, every program and every way the refreshes cut the journal.   *)
(*                                                                         *)
(* The invariant of the first says that the fold onto the persisted projection and the  *)
(* fold of the whole journal agree on all that events write: Apply reads   *)
(* nothing that Finalize writes, and Finalize writes nothing that Apply    *)
(* reads.  Without it a refresh could carry on what an earlier one derived.*)
(***************************************************************************)
EXTENDS Projection, IntervalTheorems, FiniteSetTheorems

\* The fields events write.
Direct(f) == [order |-> f.order, events |-> f.events, units |-> f.units,
              checkpoints |-> f.checkpoints, latest |-> f.latest]

IsRecord(f) ==
  f = [order |-> f.order, events |-> f.events, shown |-> f.shown, units |-> f.units,
       checkpoints |-> f.checkpoints, latest |-> f.latest, status |-> f.status]

\* The events there may be next.
Event(e) ==
  \/ \E ps, class : e = OfProcess(ps, class)
  \/ \E u, class : e = OfUnit(u, class)
  \/ \E class : e = OfRuntime(class)
  \/ \E c \in Checkpoint, at \in 1..MaxCreated :
       at >= complete.checkpoints[c] /\ e = Committed(c, at)
  \/ \E c \in Checkpoint : e = Invalidated(c)

FoldsAgree ==
  /\ IsRecord(complete) /\ IsRecord(ahead) /\ IsRecord(persisted)
  /\ Direct(ahead) = Direct(complete)
  /\ lag = 0 => ahead = persisted /\ persisted.shown = Propagate(complete.order, complete.events)

-----------------------------------------------------------------------------

\* Finalizing, as a refresh and as a rebuild do, changes only what is shown
\* and the status.
LEMMA FinalizeKeeps ==
  ASSUME NEW f, IsRecord(f)
  PROVE  /\ IsRecord(Finalize(f))
         /\ Direct(Finalize(f)) = Direct(f)
         /\ Finalize(f).shown = Propagate(f.order, f.events)
<1> DEFINE s == Propagate(f.order, f.events)
           t == StatusOf(f, s)
<1>1. Finalize(f) = [f EXCEPT !.shown = s, !.status = t]
  BY Zenon DEF Finalize
<1> HIDE DEF s, t
<1>2. Finalize(f) = [order |-> f.order, events |-> f.events, shown |-> s, units |-> f.units,
                     checkpoints |-> f.checkpoints, latest |-> f.latest, status |-> t]
  BY <1>1 DEF IsRecord
<1>3. /\ Finalize(f).order = f.order /\ Finalize(f).events = f.events
      /\ Finalize(f).shown = s /\ Finalize(f).units = f.units
      /\ Finalize(f).checkpoints = f.checkpoints /\ Finalize(f).latest = f.latest
      /\ Finalize(f).status = t
  BY <1>2
<1> QED  BY <1>2, <1>3 DEF IsRecord, Direct, s

\* The event of a process reads and writes nothing that is derived.
LEMMA ApplyProcessAgrees ==
  ASSUME NEW f, NEW g, NEW e, IsRecord(f), IsRecord(g), Direct(f) = Direct(g)
  PROVE  IsRecord(ApplyProcess(f, e)) /\ Direct(ApplyProcess(f, e)) = Direct(ApplyProcess(g, e))
<1> DEFINE events == [p \in Process |-> IF p \in e.processes THEN e.class ELSE f.events[p]]
           order == IF \E p \in e.processes : f.events[p] = None
                    THEN Append(f.order, CHOOSE p \in e.processes : TRUE) ELSE f.order
<1>1. /\ f.order = g.order /\ f.events = g.events /\ f.units = g.units
      /\ f.checkpoints = g.checkpoints /\ f.latest = g.latest
  BY DEF Direct
<1>2. /\ ApplyProcess(f, e) = [f EXCEPT !.events = events, !.order = order]
      /\ ApplyProcess(g, e) = [g EXCEPT !.events = events, !.order = order]
  BY <1>1, Zenon DEF ApplyProcess
<1> HIDE DEF events, order
<1> QED  BY <1>1, <1>2 DEF IsRecord, Direct

\* Nor does the commit of a checkpoint,
LEMMA ApplyCommittedAgrees ==
  ASSUME NEW f, NEW g, NEW e, IsRecord(f), IsRecord(g), Direct(f) = Direct(g)
  PROVE  /\ IsRecord(ApplyCommitted(f, e))
         /\ Direct(ApplyCommitted(f, e)) = Direct(ApplyCommitted(g, e))
<1> DEFINE created == [f.checkpoints EXCEPT ![e.checkpoint] = e.at]
           latest == [f.latest EXCEPT ![Owner[e.checkpoint]] =
                        IF @ = None \/ NoOlder(created, e.checkpoint, @)
                        THEN e.checkpoint ELSE @]
<1>1. /\ f.order = g.order /\ f.events = g.events /\ f.units = g.units
      /\ f.checkpoints = g.checkpoints /\ f.latest = g.latest
  BY DEF Direct
<1>2. /\ ApplyCommitted(f, e) = [f EXCEPT !.checkpoints = created, !.latest = latest]
      /\ ApplyCommitted(g, e) = [g EXCEPT !.checkpoints = created, !.latest = latest]
  BY <1>1, Zenon DEF ApplyCommitted
<1> HIDE DEF created, latest
<1> QED  BY <1>1, <1>2 DEF IsRecord, Direct

\* nor its invalidation.
LEMMA ApplyInvalidatedAgrees ==
  ASSUME NEW f, NEW g, NEW e, IsRecord(f), IsRecord(g), Direct(f) = Direct(g)
  PROVE  /\ IsRecord(ApplyInvalidated(f, e))
         /\ Direct(ApplyInvalidated(f, e)) = Direct(ApplyInvalidated(g, e))
<1> DEFINE created == [f.checkpoints EXCEPT ![e.checkpoint] = 0]
           latest == [f.latest EXCEPT ![Owner[e.checkpoint]] =
                        IF f.checkpoints[e.checkpoint] > 0 /\ @ = e.checkpoint
                        THEN LatestOf(created, Owner[e.checkpoint]) ELSE @]
<1>1. /\ f.order = g.order /\ f.events = g.events /\ f.units = g.units
      /\ f.checkpoints = g.checkpoints /\ f.latest = g.latest
  BY DEF Direct
<1>2. /\ ApplyInvalidated(f, e) = [f EXCEPT !.checkpoints = created, !.latest = latest]
      /\ ApplyInvalidated(g, e) = [g EXCEPT !.checkpoints = created, !.latest = latest]
  BY <1>1, Zenon DEF ApplyInvalidated
<1> HIDE DEF created, latest
<1> QED  BY <1>1, <1>2 DEF IsRecord, Direct

\* Two folds that agree before any event agree after it.
LEMMA ApplyAgrees ==
  ASSUME NEW f, NEW g, NEW e, Event(e), IsRecord(f), IsRecord(g), Direct(f) = Direct(g)
  PROVE  IsRecord(Apply(f, e)) /\ Direct(Apply(f, e)) = Direct(Apply(g, e))
<1>0. /\ f.order = g.order /\ f.events = g.events /\ f.units = g.units
      /\ f.checkpoints = g.checkpoints /\ f.latest = g.latest
  BY DEF Direct
<1>1. CASE e.of = "process"
  <2>1. Apply(f, e) = ApplyProcess(f, e) /\ Apply(g, e) = ApplyProcess(g, e)
    BY <1>1 DEF Apply
  <2> QED  BY <2>1, ApplyProcessAgrees
<1>2. CASE e.of = "unit"
  <2>1. /\ Apply(f, e) = [f EXCEPT !.units[e.unit] = e.class]
        /\ Apply(g, e) = [g EXCEPT !.units[e.unit] = e.class]
    BY <1>2 DEF Apply, ApplyUnit
  <2> QED  BY <1>0, <2>1 DEF IsRecord, Direct
<1>3. CASE e.of = "runtime"
  <2>1. /\ Apply(f, e) = [f EXCEPT !.status = e.class]
        /\ Apply(g, e) = [g EXCEPT !.status = e.class]
    BY <1>3 DEF Apply, ApplyRuntime
  <2> QED  BY <1>0, <2>1 DEF IsRecord, Direct
<1>4. CASE e.of = "committed"
  <2>1. Apply(f, e) = ApplyCommitted(f, e) /\ Apply(g, e) = ApplyCommitted(g, e)
    BY <1>4 DEF Apply
  <2> QED  BY <2>1, ApplyCommittedAgrees
<1>5. CASE e.of = "invalidated"
  <2>1. Apply(f, e) = ApplyInvalidated(f, e) /\ Apply(g, e) = ApplyInvalidated(g, e)
    BY <1>5 DEF Apply
  <2> QED  BY <2>1, ApplyInvalidatedAgrees
<1> QED
  BY <1>1, <1>2, <1>3, <1>4, <1>5
  DEF Event, OfProcess, OfUnit, OfRuntime, Committed, Invalidated

-----------------------------------------------------------------------------

\* Appending an event keeps the folds together, and a refresh is behind.
LEMMA EmitAgrees ==
  ASSUME FoldsAgree, lag \in Nat, NEW e, Event(e), Emit(e)
  PROVE  FoldsAgree'
<1>1. /\ complete' = Apply(complete, e) /\ ahead' = Apply(ahead, e)
      /\ persisted' = persisted /\ lag' = lag + 1
  BY DEF Emit
<1>2. IsRecord(complete') /\ IsRecord(ahead') /\ Direct(ahead') = Direct(complete')
  <2>1. /\ IsRecord(Apply(ahead, e))
        /\ Direct(Apply(ahead, e)) = Direct(Apply(complete, e))
    BY ApplyAgrees DEF FoldsAgree
  <2>2. IsRecord(Apply(complete, e))
    BY ApplyAgrees DEF FoldsAgree
  <2> QED  BY <1>1, <2>1, <2>2
<1>3. lag' # 0
  BY <1>1
<1> QED  BY <1>1, <1>2, <1>3 DEF FoldsAgree, IsRecord

\* Every action either leaves the folds alone, appends one event or refreshes.
LEMMA StepKinds ==
  ASSUME [Next]_vars, program \in Programs
  PROVE  \/ UNCHANGED <<complete, ahead, persisted, lag>>
         \/ \E e : Event(e) /\ Emit(e)
         \/ Refresh
<1> USE DEF Event
<1>1. CASE UNCHANGED vars
  BY <1>1 DEF vars
<1>2. CASE RuntimeEvent
  BY <1>2 DEF RuntimeEvent
<1>3. CASE Interrupt
  BY <1>3 DEF Interrupt
<1>4. CASE Refresh
  BY <1>4
<1>5. ASSUME NEW p \in Process, OnProcess(p)
      PROVE  UNCHANGED <<complete, ahead, persisted, lag>> \/ \E e : Event(e) /\ Emit(e)
  <2>1. CASE Declare(p)            BY <2>1 DEF Declare
  <2>2. CASE BeginAttempt(p)       BY <2>2 DEF BeginAttempt
  <2>3. CASE Report(p)             BY <2>3 DEF Report
  <2>4. CASE OpenUnit(p)           BY <2>4 DEF OpenUnit
  <2>5. CASE CloseUnit(p)          BY <2>5 DEF CloseUnit
  <2>6. CASE RequestCancel(p)      BY <2>6 DEF RequestCancel
  <2>7. CASE RaiseCancelled(p)     BY <2>7 DEF RaiseCancelled
  <2>8. CASE Raise(p)              BY <2>8 DEF Raise
  <2>9. CASE Unwind(p)             BY <2>9 DEF Unwind
  <2>10. CASE FinishAttempt(p)     BY <2>10 DEF FinishAttempt
  <2>11. CASE Hook(p)              BY <2>11 DEF Hook
  <2>12. CASE Skip(p)              BY <2>12 DEF Skip
  <2>13. CASE MirrorRecord(p)      BY <2>13 DEF MirrorRecord
  <2>14. CASE CommitCheckpoint(p)
    BY <2>14, StructureAssumption DEF CommitCheckpoint
  <2>15. CASE InvalidateCheckpoint(p)
    BY <2>15, StructureAssumption DEF InvalidateCheckpoint
  <2> QED
    BY <1>5, <2>1, <2>2, <2>3, <2>4, <2>5, <2>6, <2>7, <2>8, <2>9, <2>10, <2>11, <2>12,
       <2>13, <2>14, <2>15 DEF OnProcess
<1> QED  BY <1>1, <1>2, <1>3, <1>4, <1>5 DEF Next

\* A refresh leaves the fold it stored, and what it shows is what a rebuild
\* derives.
LEMMA RefreshAgrees ==
  ASSUME FoldsAgree, Refresh
  PROVE  FoldsAgree'
<1>1. /\ persisted' = Finalize(ahead) /\ ahead' = Finalize(ahead)
      /\ complete' = complete
  BY DEF Refresh
<1>2. /\ IsRecord(Finalize(ahead)) /\ Direct(Finalize(ahead)) = Direct(ahead)
      /\ Finalize(ahead).shown = Propagate(ahead.order, ahead.events)
  BY FinalizeKeeps DEF FoldsAgree
<1>3. ahead.order = complete.order /\ ahead.events = complete.events
  BY DEF FoldsAgree, Direct
<1>4. Finalize(ahead).shown = Propagate(complete.order, complete.events)
  BY <1>2, <1>3
<1>5. Direct(Finalize(ahead)) = Direct(complete)
  BY <1>2 DEF FoldsAgree
<1> QED  BY <1>1, <1>2, <1>4, <1>5 DEF FoldsAgree

LEMMA EmptyIsRecord == IsRecord(Empty)
BY DEF IsRecord, Empty

\* The package registers what it registers.
LEMMA ProgramStays ==
  ASSUME [Next]_vars
  PROVE  program' = program
<1>1. ASSUME NEW e, Emit(e) PROVE program' = program
  BY <1>1 DEF Emit
<1>2. ASSUME NEW p \in Process, OnProcess(p) PROVE program' = program
  BY <1>1, <1>2
     DEF OnProcess, Declare, BeginAttempt, Report, OpenUnit, CloseUnit, RequestCancel, RaiseCancelled,
         Raise, Unwind, FinishAttempt, Hook, Skip, MirrorRecord, CommitCheckpoint, InvalidateCheckpoint
<1>3. CASE RuntimeEvent \/ Interrupt \/ Refresh \/ UNCHANGED vars
  BY <1>1, <1>3 DEF RuntimeEvent, Interrupt, Refresh, vars
<1> QED  BY <1>2, <1>3 DEF Next

Agreement == FoldsAgree /\ lag \in Nat /\ program \in Programs

\* The folds agree in every state.
THEOREM FoldsAlwaysAgree == Spec => []Agreement
<1>1. Init => Agreement
  <2> SUFFICES ASSUME Init PROVE Agreement
    OBVIOUS
  <2>1. complete = Empty /\ persisted = Finalize(Empty) /\ ahead = Finalize(Empty) /\ lag = 0
    BY DEF Init
  <2>2. /\ IsRecord(Finalize(Empty)) /\ Direct(Finalize(Empty)) = Direct(Empty)
        /\ Finalize(Empty).shown = Propagate(Empty.order, Empty.events)
    BY FinalizeKeeps, EmptyIsRecord
  <2> QED  BY <2>1, <2>2, EmptyIsRecord DEF FoldsAgree, Agreement, Init
<1>2. Agreement /\ [Next]_vars => Agreement'
  <2> SUFFICES ASSUME FoldsAgree, lag \in Nat, program \in Programs, [Next]_vars
               PROVE  FoldsAgree' /\ lag' \in Nat
    BY ProgramStays DEF Agreement
  <2>1. CASE UNCHANGED <<complete, ahead, persisted, lag>>
    BY <2>1 DEF FoldsAgree
  <2>2. CASE \E e : Event(e) /\ Emit(e)
    BY <2>2, EmitAgrees DEF Emit
  <2>3. CASE Refresh
    BY <2>3, RefreshAgrees DEF Refresh
  <2> QED  BY <2>1, <2>2, <2>3, StepKinds
<1> QED  BY <1>1, <1>2, PTL DEF Spec

\* "incrementally refreshed projection equal complete event-only rebuilds":
\* whenever no event is after the cursor, the processes, units and checkpoints
\* refresh_projection stored are those of a reduction from the first event.
THEOREM RefreshIsRebuild == Spec => []RefreshEqualsRebuild
<1>1. Agreement => RefreshEqualsRebuild
  <2> SUFFICES ASSUME FoldsAgree, lag = 0
               PROVE  Content(persisted) = Content(Finalize(complete))
    BY DEF RefreshEqualsRebuild, Agreement
  <2>1. /\ Direct(Finalize(complete)) = Direct(complete)
        /\ Finalize(complete).shown = Propagate(complete.order, complete.events)
    BY FinalizeKeeps DEF FoldsAgree
  <2>2. persisted = ahead /\ persisted.shown = Finalize(complete).shown
    BY <2>1 DEF FoldsAgree
  <2>3. Direct(persisted) = Direct(Finalize(complete))
    BY <2>1, <2>2 DEF FoldsAgree
  <2> QED  BY <2>2, <2>3 DEF Content, Direct
<1> QED  BY <1>1, FoldsAlwaysAgree, PTL

-----------------------------------------------------------------------------
(* The latest checkpoint.  Its place in a projection is updated by each     *)
(* commit and looked up anew only when the latest itself is invalidated;    *)
(* that the two agree takes the order of commits: one that is committed     *)
(* again is not older than it was.                                          *)

\* c is the last of the checkpoints of p.
LastOf(created, p, c) ==
  c \in Recorded(created, p) /\ \A d \in Recorded(created, p) : NoOlder(created, c, d)

\* The checkpoints of a projection: finitely many stand.
Created(created) ==
  /\ created \in [Checkpoint -> 0..MaxCreated]
  /\ \E n \in Nat : \A c \in Checkpoint : created[c] > 0 => c <= n

\* What latest says of every process.
LatestIs(created, latest) ==
  /\ latest \in [Process -> Checkpoint \cup {None}]
  /\ \A p \in Process :
       IF Recorded(created, p) = {} THEN latest[p] = None ELSE LastOf(created, p, latest[p])

LatestHolds(f) == Created(f.checkpoints) /\ LatestIs(f.checkpoints, f.latest)

\* Of two checkpoints one is not older, and only one of them.
LEMMA OrderOfCreation ==
  ASSUME NEW created, Created(created), NEW c \in Checkpoint, NEW d \in Checkpoint
  PROVE  /\ NoOlder(created, c, c)
         /\ NoOlder(created, c, d) \/ NoOlder(created, d, c)
         /\ NoOlder(created, c, d) /\ NoOlder(created, d, c) => c = d
         /\ \A e \in Checkpoint : NoOlder(created, c, d) /\ NoOlder(created, d, e) => NoOlder(created, c, e)
<1>1. \A x \in Checkpoint : x \in Nat /\ created[x] \in Nat
  BY StructureAssumption DEF Created
<1> QED  BY <1>1 DEF NoOlder

\* A process with checkpoints has a last one.
LEMMA LastExists ==
  ASSUME NEW created, Created(created), NEW p, Recorded(created, p) # {}
  PROVE  \E c : LastOf(created, p, c)
<1> DEFINE R == Recorded(created, p)
           S == {created[c] : c \in R}
           T == {c \in R : created[c] = Max(S)}
<1>1. PICK n \in Nat : \A c \in Checkpoint : created[c] > 0 => c <= n
  BY DEF Created
<1>2. \A c \in R : /\ c \in Checkpoint /\ c \in 0..n /\ created[c] \in 0..MaxCreated
                   /\ created[c] \in Nat /\ c \in Nat
  BY <1>1, StructureAssumption DEF Recorded, Created
<1>3. MaxCreated \in Nat
  BY StructureAssumption
<1> HIDE DEF R
<1>4. S \subseteq 0..MaxCreated /\ S # {}
  <2>1. R # {}
    BY DEF R
  <2> QED  BY <1>2, <2>1
<1> HIDE DEF S
<1>5. Max(S) \in S /\ \A x \in S : x <= Max(S)
  BY <1>3, <1>4, GreatestExists
<1>6. T \subseteq 0..n /\ T # {}
  BY <1>2, <1>5 DEF S
<1> HIDE DEF T
<1>7. Max(T) \in T /\ \A x \in T : x <= Max(T)
  BY <1>6, GreatestExists
<1>8. Max(T) \in R /\ created[Max(T)] = Max(S)
  BY <1>7 DEF T
<1>9. ASSUME NEW d \in R PROVE NoOlder(created, Max(T), d)
  <2>1. created[d] \in S /\ created[d] \in Nat /\ created[d] <= Max(S) /\ Max(S) \in Nat
    BY <1>2, <1>5, <1>8 DEF S
  <2>2. CASE created[d] = Max(S)
    <3>1. d \in T
      BY <2>2 DEF T
    <3>2. d <= Max(T) /\ d \in Nat /\ Max(T) \in Nat
      BY <1>2, <1>7, <1>8, <3>1
    <3> QED  BY <1>8, <2>2, <3>2 DEF NoOlder
  <2>3. CASE created[d] # Max(S)
    BY <1>8, <2>1, <2>3 DEF NoOlder
  <2> QED  BY <2>2, <2>3
<1> QED  BY <1>8, <1>9 DEF LastOf, R

\* The one that LatestOf chooses is it.
LEMMA LatestIsLast ==
  ASSUME NEW created, Created(created), NEW p, Recorded(created, p) # {}
  PROVE  LastOf(created, p, LatestOf(created, p))
<1>1. \E c \in Recorded(created, p) : \A d \in Recorded(created, p) : NoOlder(created, c, d)
  BY LastExists DEF LastOf
<1> QED  BY <1>1 DEF LatestOf, LastOf

LEMMA OneIsLast ==
  ASSUME NEW created, Created(created), NEW p, NEW c, NEW d, LastOf(created, p, c), LastOf(created, p, d)
  PROVE  c = d
<1>1. c \in Checkpoint /\ d \in Checkpoint
  BY DEF LastOf, Recorded
<1>2. NoOlder(created, c, d) /\ NoOlder(created, d, c)
  BY DEF LastOf
<1> QED  BY <1>1, <1>2, OrderOfCreation

\* A commit: the checkpoint becomes the latest unless it is older.
LEMMA CommitKeepsLatest ==
  ASSUME NEW f, LatestHolds(f), IsRecord(f), NEW c \in Checkpoint, NEW at \in 1..MaxCreated,
         at >= f.checkpoints[c]
  PROVE  LatestHolds(ApplyCommitted(f, Committed(c, at)))
<1> DEFINE old == f.checkpoints
           created == [old EXCEPT ![c] = at]
           o == Owner[c]
           latest == [f.latest EXCEPT ![o] = IF @ = None \/ NoOlder(created, c, @) THEN c ELSE @]
           g == ApplyCommitted(f, Committed(c, at))
<1>1. o \in Process /\ c \in Nat /\ MaxCreated \in Nat
  BY StructureAssumption
<1>2. g.checkpoints = created /\ g.latest = latest
  <2>1. g = [f EXCEPT !.checkpoints = created, !.latest = latest]
    BY DEF ApplyCommitted, Committed
  <2> HIDE DEF g, created, latest
  <2> QED  BY <2>1 DEF IsRecord
<1>3. Created(old) /\ LatestIs(old, f.latest)
  BY DEF LatestHolds
<1>4. /\ created \in [Checkpoint -> 0..MaxCreated] /\ created[c] = at
      /\ \A d \in Checkpoint : d # c => created[d] = old[d]
      /\ \A d \in Checkpoint : old[d] \in Nat /\ created[d] \in Nat /\ d \in Nat
  BY <1>1, <1>3, StructureAssumption DEF Created
<1>5. Created(created)
  <2>1. PICK n \in Nat : \A d \in Checkpoint : old[d] > 0 => d <= n
    BY <1>3 DEF Created
  <2>2. ASSUME NEW d \in Checkpoint, created[d] > 0 PROVE d <= n + c
    <3>1. CASE d = c
      BY <1>1, <2>1, <3>1
    <3>2. CASE d # c
      <4>1. d <= n
        BY <1>4, <2>1, <2>2, <3>2
      <4> QED  BY <1>1, <1>4, <4>1
    <3> QED  BY <3>1, <3>2
  <2>3. n + c \in Nat
    BY <1>1
  <2> HIDE DEF created
  <2> QED  BY <1>4, <2>2, <2>3 DEF Created
<1>6. \A p \in Process : IF p = o THEN Recorded(created, p) = Recorded(old, p) \cup {c}
                         ELSE Recorded(created, p) = Recorded(old, p)
  <2> HIDE DEF created
  <2> QED  BY <1>4 DEF Recorded
<1>7. /\ latest \in [Process -> Checkpoint \cup {None}]
      /\ latest[o] = IF f.latest[o] = None \/ NoOlder(created, c, f.latest[o]) THEN c ELSE f.latest[o]
      /\ \A p \in Process : p # o => latest[p] = f.latest[p]
  <2> HIDE DEF created
  <2> QED  BY <1>1, <1>3 DEF LatestIs
<1> HIDE DEF created, latest, old
<1>8. ASSUME NEW d \in Checkpoint, NEW e \in Checkpoint, e # c, NoOlder(old, d, e)
      PROVE  NoOlder(created, d, e)
  <2>1. created[d] >= old[d] /\ created[e] = old[e] /\ old[d] \in Nat /\ old[e] \in Nat /\ created[d] \in Nat
    <3>1. CASE d = c
      <4>1. at \in Nat /\ at >= old[c]
        BY DEF old
      <4> QED  BY <1>4, <1>8, <3>1, <4>1
    <3>2. CASE d # c
      BY <1>4, <1>8, <3>2
    <3> QED  BY <1>4, <1>8, <3>1, <3>2
  <2> QED  BY <1>4, <1>8, <2>1 DEF NoOlder
<1>9. ASSUME NEW p \in Process, p # o
      PROVE  IF Recorded(created, p) = {} THEN latest[p] = None ELSE LastOf(created, p, latest[p])
  <2>1. Recorded(created, p) = Recorded(old, p) /\ latest[p] = f.latest[p]
    BY <1>6, <1>7, <1>9
  <2>2. c \notin Recorded(old, p)
    BY <1>9 DEF Recorded
  <2>3. ASSUME Recorded(old, p) # {} PROVE LastOf(created, p, f.latest[p])
    <3>1. LastOf(old, p, f.latest[p])
      BY <1>3, <2>3 DEF LatestIs
    <3>2. \A d \in Recorded(old, p) : d \in Checkpoint
      BY DEF Recorded
    <3> QED  BY <1>8, <2>1, <2>2, <3>1, <3>2 DEF LastOf
  <2> QED  BY <1>3, <2>1, <2>3 DEF LatestIs
<1>10. LastOf(created, o, latest[o]) /\ Recorded(created, o) # {}
  <2>1. Recorded(created, o) = Recorded(old, o) \cup {c} /\ \A d \in Recorded(old, o) : d \in Checkpoint
    BY <1>1, <1>6 DEF Recorded
  <2>2. CASE Recorded(old, o) = {}
    <3>1. f.latest[o] = None
      BY <1>1, <1>3, <2>2 DEF LatestIs
    <3>2. latest[o] = c /\ Recorded(created, o) = {c}
      BY <1>7, <2>1, <2>2, <3>1
    <3> QED  BY <1>5, <3>2, OrderOfCreation DEF LastOf
  <2>3. CASE Recorded(old, o) # {}
    <3> DEFINE l == f.latest[o]
    <3>1. LastOf(old, o, l) /\ l \in Recorded(old, o) /\ l \in Checkpoint /\ l # None
      <4>1. LastOf(old, o, l)
        BY <1>1, <1>3, <2>3 DEF LatestIs
      <4> QED  BY <2>1, <4>1, StructureAssumption DEF LastOf
    <3> HIDE DEF l
    <3>2. \A d \in Recorded(old, o) : d # c => NoOlder(created, l, d)
      BY <1>8, <2>1, <3>1 DEF LastOf
    <3>3. CASE NoOlder(created, c, l)
      <4>1. latest[o] = c
        BY <1>7, <3>3 DEF l
      <4>2. \A d \in Recorded(created, o) : NoOlder(created, c, d)
        <5> TAKE d \in Recorded(created, o)
        <5>1. CASE d = c
          BY <1>5, <5>1, OrderOfCreation
        <5>2. CASE d # c
          <6>1. d \in Checkpoint /\ NoOlder(created, l, d)
            BY <2>1, <3>2, <5>2
          <6> QED  BY <1>5, <3>1, <3>3, <6>1, OrderOfCreation
        <5> QED  BY <5>1, <5>2
      <4> QED  BY <2>1, <4>1, <4>2 DEF LastOf
    <3>4. CASE ~NoOlder(created, c, l)
      <4>1. latest[o] = l
        BY <1>7, <3>1, <3>4 DEF l
      <4>2. NoOlder(created, l, c)
        BY <1>5, <3>1, <3>4, OrderOfCreation
      <4> QED  BY <2>1, <3>1, <3>2, <4>1, <4>2 DEF LastOf
    <3> QED  BY <3>3, <3>4
  <2> QED  BY <2>2, <2>3
<1>11. LatestIs(created, latest)
  BY <1>7, <1>9, <1>10 DEF LatestIs
<1> QED  BY <1>2, <1>5, <1>11 DEF LatestHolds

\* An invalidation: if it takes the latest, that is looked up among the rest.
LEMMA InvalidationKeepsLatest ==
  ASSUME NEW f, LatestHolds(f), IsRecord(f), NEW c \in Checkpoint
  PROVE  LatestHolds(ApplyInvalidated(f, Invalidated(c)))
<1> DEFINE old == f.checkpoints
           created == [old EXCEPT ![c] = 0]
           o == Owner[c]
           latest == [f.latest EXCEPT ![o] =
                        IF old[c] > 0 /\ @ = c THEN LatestOf(created, o) ELSE @]
           g == ApplyInvalidated(f, Invalidated(c))
<1>1. o \in Process /\ c \in Nat /\ MaxCreated \in Nat
  BY StructureAssumption
<1>2. g.checkpoints = created /\ g.latest = latest
  <2>1. g = [f EXCEPT !.checkpoints = created, !.latest = latest]
    BY DEF ApplyInvalidated, Invalidated
  <2> HIDE DEF g, created, latest
  <2> QED  BY <2>1 DEF IsRecord
<1>3. Created(old) /\ LatestIs(old, f.latest)
  BY DEF LatestHolds
<1>4. /\ created \in [Checkpoint -> 0..MaxCreated] /\ created[c] = 0
      /\ \A d \in Checkpoint : d # c => created[d] = old[d]
      /\ \A d \in Checkpoint : old[d] \in Nat /\ created[d] \in Nat
  BY <1>1, <1>3 DEF Created
<1>5. Created(created)
  <2>1. PICK n \in Nat : \A d \in Checkpoint : old[d] > 0 => d <= n
    BY <1>3 DEF Created
  <2> HIDE DEF created
  <2>2. \A d \in Checkpoint : created[d] > 0 => d <= n
    BY <1>4, <2>1
  <2> QED  BY <1>4, <2>2 DEF Created
<1>6. \A p \in Process : Recorded(created, p) = Recorded(old, p) \ {c}
  <2> HIDE DEF created
  <2> QED  BY <1>4 DEF Recorded
<1>7. /\ DOMAIN latest = Process
      /\ latest[o] = IF old[c] > 0 /\ f.latest[o] = c THEN LatestOf(created, o) ELSE f.latest[o]
      /\ \A p \in Process : p # o => latest[p] = f.latest[p]
      /\ latest = [p \in Process |-> latest[p]]
  <2> HIDE DEF created, old
  <2> QED  BY <1>1, <1>3 DEF LatestIs
<1>8. f.latest \in [Process -> Checkpoint \cup {None}]
  BY <1>3 DEF LatestIs
<1> HIDE DEF created, latest, old
<1>9. \A d \in Checkpoint, e \in Checkpoint :
        d # c /\ e # c /\ NoOlder(old, d, e) => NoOlder(created, d, e)
  BY <1>4 DEF NoOlder
<1>10. ASSUME NEW p \in Process, f.latest[p] # c \/ c \notin Recorded(old, p)
       PROVE  IF Recorded(created, p) = {} THEN f.latest[p] = None ELSE LastOf(created, p, f.latest[p])
  <2>1. Recorded(created, p) = Recorded(old, p) \ {c} /\ \A d \in Recorded(old, p) : d \in Checkpoint
    BY <1>6 DEF Recorded
  <2>2. CASE Recorded(old, p) = {}
    BY <1>3, <2>1, <2>2 DEF LatestIs
  <2>3. CASE Recorded(old, p) # {}
    <3>1. LastOf(old, p, f.latest[p])
      BY <1>3, <2>3 DEF LatestIs
    <3>2. f.latest[p] \in Recorded(old, p) /\ f.latest[p] # c
      BY <1>10, <3>1 DEF LastOf
    <3> QED  BY <1>9, <2>1, <3>1, <3>2 DEF LastOf
  <2> QED  BY <2>2, <2>3
<1>11. ASSUME NEW p \in Process
       PROVE  IF Recorded(created, p) = {} THEN latest[p] = None ELSE LastOf(created, p, latest[p])
  <2>1. CASE p # o
    <3>1. c \notin Recorded(old, p) /\ latest[p] = f.latest[p]
      BY <1>7, <2>1 DEF Recorded
    <3> QED  BY <1>10, <3>1
  <2>2. CASE p = o /\ ~(old[c] > 0 /\ f.latest[o] = c)
    <3>1. f.latest[p] # c \/ c \notin Recorded(old, p)
      BY <2>2 DEF Recorded
    <3>2. latest[p] = f.latest[p]
      BY <1>7, <2>2
    <3> QED  BY <1>10, <3>1, <3>2
  <2>3. CASE p = o /\ old[c] > 0 /\ f.latest[o] = c
    <3>1. latest[p] = LatestOf(created, p)
      BY <1>7, <2>3
    <3> QED  BY <1>5, <3>1, LatestIsLast DEF LatestOf
  <2> QED  BY <2>1, <2>2, <2>3
<1>12. LatestIs(created, latest)
  <2>1. ASSUME NEW p \in Process PROVE latest[p] \in Checkpoint \cup {None}
    BY <1>11 DEF LastOf, Recorded
  <2> QED  BY <1>7, <1>11, <2>1 DEF LatestIs
<1> QED  BY <1>2, <1>5, <1>12 DEF LatestHolds

\* The events of processes, units and the runtime leave the checkpoints alone.
LEMMA ApplyKeepsLatest ==
  ASSUME NEW f, LatestHolds(f), IsRecord(f), f.checkpoints = complete.checkpoints, NEW e, Event(e)
  PROVE  LatestHolds(Apply(f, e))
<1>1. ASSUME NEW g, g.checkpoints = f.checkpoints, g.latest = f.latest PROVE LatestHolds(g)
  BY <1>1 DEF LatestHolds
<1>2. ASSUME NEW events, NEW order
      PROVE  LatestHolds([f EXCEPT !.events = events, !.order = order])
  BY <1>1 DEF IsRecord
<1>3. CASE e.of = "process"
  <2> DEFINE events == [p \in Process |-> IF p \in e.processes THEN e.class ELSE f.events[p]]
             order == IF \E p \in e.processes : f.events[p] = None
                      THEN Append(f.order, CHOOSE p \in e.processes : TRUE) ELSE f.order
  <2>1. Apply(f, e) = [f EXCEPT !.events = events, !.order = order]
    BY <1>3, Zenon DEF Apply, ApplyProcess
  <2> HIDE DEF events, order
  <2>2. LatestHolds([f EXCEPT !.events = events, !.order = order])
    BY <1>2
  <2> QED  BY <2>1, <2>2, Zenon
<1>4. CASE e.of = "unit"
  <2>1. Apply(f, e) = [f EXCEPT !.units[e.unit] = e.class]
    BY <1>4 DEF Apply, ApplyUnit
  <2> QED  BY <1>1, <2>1 DEF IsRecord
<1>5. CASE e.of = "runtime"
  <2>1. Apply(f, e) = [f EXCEPT !.status = e.class]
    BY <1>5 DEF Apply, ApplyRuntime
  <2> QED  BY <1>1, <2>1 DEF IsRecord
<1>6. ASSUME NEW c \in Checkpoint, NEW at \in 1..MaxCreated, at >= complete.checkpoints[c],
             e = Committed(c, at)
      PROVE  LatestHolds(Apply(f, e))
  <2>1. Apply(f, e) = ApplyCommitted(f, Committed(c, at))
    BY <1>6 DEF Apply, Committed
  <2>2. at >= f.checkpoints[c]
    BY <1>6
  <2> QED  BY <2>1, <2>2, CommitKeepsLatest
<1>7. ASSUME NEW c \in Checkpoint, e = Invalidated(c) PROVE LatestHolds(Apply(f, e))
  <2>1. Apply(f, e) = ApplyInvalidated(f, Invalidated(c))
    BY <1>7 DEF Apply, Invalidated
  <2> QED  BY <2>1, InvalidationKeepsLatest
<1> QED
  BY <1>3, <1>4, <1>5, <1>6, <1>7 DEF Event, OfProcess, OfUnit, OfRuntime

LEMMA SameLatest ==
  ASSUME NEW f, NEW g, Direct(f) = Direct(g), LatestHolds(f)
  PROVE  LatestHolds(g)
BY DEF Direct, LatestHolds

\* latest_checkpoint_by_process, from which a process is resumed, names the
\* last created of the checkpoints that stand: after any commits, repeated
\* commits and invalidations, however refreshes cut the journal.
THEOREM ResumeFromTheLatest == Spec => []LatestCheckpointIsLatest
<1> DEFINE Holds == LatestHolds(complete) /\ LatestHolds(persisted)
<1>1. Init => Holds
  <2> SUFFICES ASSUME Init PROVE Holds
    OBVIOUS
  <2>1. \A p \in Process : Recorded(Empty.checkpoints, p) = {}
    BY DEF Empty, Recorded
  <2>2. /\ Empty.checkpoints \in [Checkpoint -> 0..MaxCreated]
        /\ \A c \in Checkpoint : Empty.checkpoints[c] > 0 => c <= 0
        /\ Empty.latest \in [Process -> Checkpoint \cup {None}]
        /\ \A p \in Process : Empty.latest[p] = None
    BY StructureAssumption DEF Empty
  <2>3. LatestHolds(Empty)
    <3>1. Created(Empty.checkpoints)
      BY <2>2 DEF Created
    <3>2. LatestIs(Empty.checkpoints, Empty.latest)
      BY <2>1, <2>2 DEF LatestIs
    <3> QED  BY <3>1, <3>2 DEF LatestHolds
  <2>4. Direct(Finalize(Empty)) = Direct(Empty) /\ complete = Empty /\ persisted = Finalize(Empty)
    BY FinalizeKeeps, EmptyIsRecord DEF Init
  <2>5. LatestHolds(Finalize(Empty))
    BY <2>3, <2>4, SameLatest
  <2> QED  BY <2>3, <2>4, <2>5
<1>2. Agreement /\ Holds /\ [Next]_vars => Holds'
  <2> SUFFICES ASSUME Agreement, Holds, [Next]_vars PROVE Holds'
    OBVIOUS
  <2>1. CASE UNCHANGED <<complete, ahead, persisted, lag>>
    BY <2>1 DEF LatestHolds
  <2>2. ASSUME NEW e, Event(e), Emit(e) PROVE Holds'
    <3>1. complete' = Apply(complete, e) /\ persisted' = persisted /\ IsRecord(complete)
      BY <2>2 DEF Emit, Agreement, FoldsAgree
    <3>2. LatestHolds(Apply(complete, e))
      BY <2>2, <3>1, ApplyKeepsLatest
    <3> QED  BY <3>1, <3>2
  <2>3. CASE Refresh
    <3>1. persisted' = Finalize(ahead) /\ complete' = complete
      BY <2>3 DEF Refresh
    <3>2. Direct(Finalize(ahead)) = Direct(complete)
      BY FinalizeKeeps DEF Agreement, FoldsAgree
    <3>3. LatestHolds(Finalize(ahead))
      BY <3>2, SameLatest
    <3> QED  BY <3>1, <3>3
  <2> QED  BY <2>1, <2>2, <2>3, StepKinds DEF Agreement
<1>3. Holds => LatestCheckpointIsLatest
  <2> SUFFICES ASSUME Holds, NEW p \in Process
               PROVE  persisted.latest[p] = LatestOf(persisted.checkpoints, p)
    BY DEF LatestCheckpointIsLatest
  <2> DEFINE created == persisted.checkpoints
  <2>1. Created(created) /\ LatestIs(created, persisted.latest)
    BY DEF LatestHolds
  <2> HIDE DEF created
  <2>2. CASE Recorded(created, p) = {}
    BY <2>1, <2>2 DEF LatestIs, LatestOf, created
  <2>3. CASE Recorded(created, p) # {}
    <3>1. LastOf(created, p, persisted.latest[p])
      BY <2>1, <2>3 DEF LatestIs
    <3>2. LastOf(created, p, LatestOf(created, p))
      BY <2>1, <2>3, LatestIsLast
    <3> QED  BY <2>1, <3>1, <3>2, OneIsLast DEF created
  <2> QED  BY <2>2, <2>3
<1> QED  BY <1>1, <1>2, <1>3, FoldsAlwaysAgree, PTL DEF Spec

-----------------------------------------------------------------------------
(* Failures reach the ancestors.  A pass that changes anything ends one more *)
(* process, so after as many passes as there are processes nothing is left   *)
(* to be changed.                                                            *)

States == [Process -> Class \cup {None}]
FailedIn(s) == {p \in Process : s[p] \in Failed}

\* Nothing is left to be propagated to the parent of the child.
Settled(child, s) ==
  s[child] \in Propagated /\ Parent[child] # None => s[Parent[child]] \in Failed \cup {None}

SettledAmong(order, s) == \A i \in 1..Len(order) : Settled(order[i], s)

\* What can become of the states s in a pass: others fail, and those that have
\* failed and those that are not there stay so.
Worse(s, t) ==
  /\ t \in States
  /\ \A p \in Process : t[p] = s[p] \/ (s[p] \notin Failed \cup {None} /\ t[p] \in Failed)

LEMMA WorseAgain ==
  ASSUME NEW s \in States, NEW t, NEW u, Worse(s, t), Worse(t, u)
  PROVE  Worse(s, u)
<1>1. None \notin Failed
  BY StructureAssumption DEF Class, Terminal
<1> QED  BY <1>1 DEF Worse

LEMMA EndParentWorsens ==
  ASSUME NEW s \in States, NEW child \in Process, NEW class
  PROVE  Worse(s, EndParent(child, class, s))
<1>1. CASE class \in Propagated /\ Parent[child] # None /\ s[Parent[child]] \notin Failed \cup {None}
  <2> DEFINE parent == Parent[child]
             t == [s EXCEPT ![parent] = class]
  <2>1. parent \in Process /\ class \in Failed /\ class \in Class /\ s[parent] \notin Failed \cup {None}
    BY <1>1, StructureAssumption DEF Class, Terminal
  <2>2. EndParent(child, class, s) = t
    BY <1>1 DEF EndParent
  <2> HIDE DEF parent
  <2>3. t \in States /\ t[parent] = class /\ \A p \in Process : p # parent => t[p] = s[p]
    BY <2>1 DEF States
  <2> HIDE DEF t
  <2>4. Worse(s, t)
    BY <2>1, <2>3 DEF Worse
  <2> QED  BY <2>2, <2>4
<1>2. CASE ~(class \in Propagated /\ Parent[child] # None /\ s[Parent[child]] \notin Failed \cup {None})
  <2>1. EndParent(child, class, s) = s
    BY <1>2 DEF EndParent
  <2> QED  BY <2>1 DEF Worse
<1> QED  BY <1>1, <1>2

\* The states within a pass.
After(order, s, after) ==
  /\ after[0] = s
  /\ \A n \in 1..Len(order) : after[n] = EndParent(order[n], s[order[n]], after[n - 1])

LEMMA PassSteps ==
  ASSUME NEW order \in Seq(Process), NEW s \in States
  PROVE  \E after \in [0..Len(order) -> States] :
           After(order, s, after) /\ Pass(order, s) = after[Len(order)]
<1> DEFINE L == Len(order)
           Advance(t, n) == EndParent(order[n], s[order[n]], t)
           step == [n \in 1..L |-> [t \in States |-> Advance(t, n)]]
           Equation(f) == f = [n \in 0..L |-> IF n = 0 THEN s ELSE Advance(f[n - 1], n)]
           after == CHOOSE f : Equation(f)
<1>1. L \in Nat /\ \A n \in 1..L : order[n] \in Process
  OBVIOUS
<1>2. \A n \in 1..L, t \in States : Advance(t, n) \in States
  BY <1>1, EndParentWorsens DEF Worse
<1>3. Pass(order, s) = after[L]
  BY Zenon DEF Pass
<1> HIDE DEF L
<1>4. step \in [1..L -> [States -> States]]
  BY <1>2
<1>5. \A n \in 1..L, t \in States : step[n][t] = Advance(t, n)
  OBVIOUS
<1> HIDE DEF Advance
<1> HIDE DEF step
<1>6. PICK f \in [0..L -> States] : Iterates(f, L, s, step)
  BY <1>1, <1>4, RecursionUpTo
<1>7. \A n \in 1..L : f[n] = Advance(f[n - 1], n)
  <2> TAKE n \in 1..L
  <2>1. n - 1 \in 0..L
    BY <1>1
  <2> QED  BY <1>5, <1>6, <2>1 DEF Iterates
<1>8. Equation(f)
  <2> DEFINE g == [n \in 0..L |-> IF n = 0 THEN s ELSE Advance(f[n - 1], n)]
  <2>1. \A n \in 0..L : f[n] = g[n]
    BY <1>1, <1>6, <1>7 DEF Iterates
  <2>2. DOMAIN f = 0..L /\ DOMAIN g = 0..L /\ f = [n \in 0..L |-> f[n]]
    BY <1>6
  <2>3. f = g
    BY <2>1, <2>2
  <2> QED  BY <2>3
<1>9. Equation(after)
  BY <1>8, Zenon
<1> HIDE DEF after
<1>10. after[0] = s /\ \A n \in 1..L : after[n] = Advance(after[n - 1], n)
  BY <1>1, <1>9
<1>11. DOMAIN after = 0..L /\ after = [n \in 0..L |-> after[n]]
  BY <1>9
<1>12. 0..L \subseteq {n \in 0..L : after[n] \in States}
  <2> DEFINE S == {n \in 0..L : after[n] \in States}
  <2>1. 0 \in S
    BY <1>1, <1>10
  <2>2. ASSUME NEW n \in 0..L, n < L, n \in S PROVE n + 1 \in S
    <3>1. n + 1 \in 1..L /\ (n + 1) - 1 = n
      BY <1>1, <2>2
    <3>2. after[n + 1] = Advance(after[n], n + 1)
      BY <1>10, <3>1
    <3> QED  BY <1>2, <2>2, <3>1, <3>2
  <2> HIDE DEF S
  <2>3. 0..L \subseteq S
    BY <1>1, <2>1, <2>2, InductionUpTo
  <2> QED  BY <2>3 DEF S
<1>13. after \in [0..L -> States]
  BY <1>11, <1>12
<1>14. After(order, s, after)
  BY <1>10 DEF After, L, Advance
<1> QED  BY <1>3, <1>13, <1>14 DEF L

\* Within a pass things get worse only.
LEMMA StepsWorsen ==
  ASSUME NEW order \in Seq(Process), NEW s \in States,
         NEW after \in [0..Len(order) -> States], After(order, s, after),
         NEW n \in 0..Len(order)
  PROVE  \A m \in n..Len(order) : Worse(after[n], after[m])
<1> DEFINE L == Len(order)
           S == {m \in 0..L : m >= n => Worse(after[n], after[m])}
<1>1. L \in Nat /\ \A m \in 1..L : order[m] \in Process
  OBVIOUS
<1>2. after[n] \in States /\ Worse(after[n], after[n])
  BY DEF Worse
<1> HIDE DEF L
<1>3. 0 \in S
  BY <1>1, <1>2 DEF L
<1>4. ASSUME NEW m \in 0..L, m < L, m \in S PROVE m + 1 \in S
  <2>1. m + 1 \in 1..L /\ (m + 1) - 1 = m
    BY <1>1, <1>4
  <2>2. after[m + 1] = EndParent(order[m + 1], s[order[m + 1]], after[m]) /\ order[m + 1] \in Process
    BY <1>1, <2>1 DEF After, L
  <2>3. Worse(after[m], after[m + 1])
    BY <2>2, EndParentWorsens DEF L
  <2>4. CASE m >= n
    BY <1>2, <1>4, <2>1, <2>3, <2>4, WorseAgain
  <2>5. CASE ~(m >= n)
    <3>1. m + 1 >= n => m + 1 = n
      BY <2>5 DEF L
    <3> QED  BY <1>2, <2>1, <3>1
  <2> QED  BY <2>4, <2>5
<1> HIDE DEF S
<1>5. 0..L \subseteq S
  BY <1>1, <1>3, <1>4, InductionUpTo
<1> QED  BY <1>5 DEF S, L


\* After a pass others have failed, unless nothing was left to be propagated;
\* then the pass changes nothing.
LEMMA PassWorsens ==
  ASSUME NEW order \in Seq(Process), NEW s \in States
  PROVE  /\ Worse(s, Pass(order, s))
         /\ SettledAmong(order, s) => Pass(order, s) = s
         /\ FailedIn(Pass(order, s)) = FailedIn(s) => SettledAmong(order, s)
<1> DEFINE L == Len(order)
<1>1. L \in Nat /\ \A n \in 1..L : order[n] \in Process /\ n - 1 \in 0..L /\ n \in 0..L
  OBVIOUS
<1>2. PICK after \in [0..L -> States] : After(order, s, after) /\ Pass(order, s) = after[L]
  BY PassSteps
<1>3. \A n \in 0..L : \A m \in n..L : Worse(after[n], after[m])
  BY <1>2, StepsWorsen
<1> HIDE DEF L
<1>4. after[0] = s /\ \A n \in 1..L : after[n] = EndParent(order[n], s[order[n]], after[n - 1])
  BY <1>2 DEF After, L
<1>5. Worse(s, after[L])
  BY <1>1, <1>3, <1>4
<1>6. ASSUME SettledAmong(order, s) PROVE after[L] = s
  <2> DEFINE S == {n \in 0..L : after[n] = s}
  <2>1. 0 \in S
    BY <1>1, <1>4
  <2>2. ASSUME NEW n \in 0..L, n < L, n \in S PROVE n + 1 \in S
    <3>1. n + 1 \in 1..L /\ (n + 1) - 1 = n /\ n + 1 \in 0..L
      BY <1>1, <2>2
    <3>2. Settled(order[n + 1], s)
      BY <1>6, <3>1 DEF SettledAmong, L
    <3>3. after[n + 1] = s
      BY <1>4, <2>2, <3>1, <3>2 DEF Settled, EndParent
    <3> QED  BY <3>1, <3>3
  <2> HIDE DEF S
  <2>3. 0..L \subseteq S
    BY <1>1, <2>1, <2>2, InductionUpTo
  <2> QED  BY <1>1, <2>3 DEF S
<1>7. ASSUME FailedIn(after[L]) = FailedIn(s), NEW n \in 1..L PROVE Settled(order[n], s)
  <2> DEFINE child == order[n]
             parent == Parent[child]
  <2>1. SUFFICES ASSUME s[child] \in Propagated, parent # None, s[parent] \notin Failed \cup {None}
                 PROVE  FALSE
    BY DEF Settled
  <2>2. child \in Process /\ parent \in Process
    BY <1>1, <2>1, StructureAssumption
  <2>3. after[L][parent] \notin Failed
    BY <1>7, <2>1, <2>2 DEF FailedIn
  <2>4. Worse(s, after[n - 1]) /\ Worse(after[n - 1], after[L]) /\ Worse(after[n], after[L])
        /\ after[n - 1] \in States /\ after[n] \in States
    BY <1>1, <1>2, <1>3, <1>4
  <2>5. after[n] = EndParent(child, s[child], after[n - 1])
    BY <1>4
  <2> HIDE DEF child, parent
  <2>6. after[n - 1][parent] = s[parent]
    BY <2>2, <2>3, <2>4 DEF Worse
  <2>7. after[n][parent] = s[child]
    BY <2>1, <2>2, <2>4, <2>5, <2>6 DEF EndParent, States, parent
  <2>8. s[child] \in Failed
    BY <2>1, StructureAssumption
  <2> QED  BY <2>2, <2>3, <2>4, <2>7, <2>8 DEF Worse
<1>8. FailedIn(after[L]) = FailedIn(s) => SettledAmong(order, s)
  BY <1>7 DEF SettledAmong, L
<1> QED  BY <1>2, <1>5, <1>6, <1>8 DEF L

\* The states after each pass.
LEMMA PropagateSteps ==
  ASSUME NEW order \in Seq(Process), NEW events \in States
  PROVE  \E after \in [0..Cardinality(Process) -> States] :
           /\ after[0] = events
           /\ \A n \in 1..Cardinality(Process) : after[n] = Pass(order, after[n - 1])
           /\ Propagate(order, events) = after[Cardinality(Process)]
<1> DEFINE N == Cardinality(Process)
           step == [n \in 1..N |-> [t \in States |-> Pass(order, t)]]
           Equation(f) == f = [n \in 0..N |-> IF n = 0 THEN events ELSE Pass(order, f[n - 1])]
           after == CHOOSE f : Equation(f)
<1>1. N \in Nat
  BY StructureAssumption, FS_CardinalityType
<1>2. \A t \in States : Pass(order, t) \in States
  BY PassWorsens DEF Worse
<1>3. Propagate(order, events) = after[N]
  BY Zenon DEF Propagate
<1> HIDE DEF N
<1>4. step \in [1..N -> [States -> States]] /\ \A n \in 1..N, t \in States : step[n][t] = Pass(order, t)
  BY <1>2
<1> HIDE DEF step
<1>5. PICK f \in [0..N -> States] : Iterates(f, N, events, step)
  BY <1>1, <1>4, RecursionUpTo
<1>6. \A n \in 1..N : f[n] = Pass(order, f[n - 1])
  <2> TAKE n \in 1..N
  <2>1. n - 1 \in 0..N
    BY <1>1
  <2> QED  BY <1>4, <1>5, <2>1 DEF Iterates
<1>7. Equation(f)
  <2> DEFINE g == [n \in 0..N |-> IF n = 0 THEN events ELSE Pass(order, f[n - 1])]
  <2>1. \A n \in 0..N : f[n] = g[n]
    BY <1>1, <1>5, <1>6 DEF Iterates
  <2>2. DOMAIN f = 0..N /\ DOMAIN g = 0..N /\ f = [n \in 0..N |-> f[n]]
    BY <1>5
  <2>3. f = g
    BY <2>1, <2>2
  <2> QED  BY <2>3
<1>8. Equation(after)
  BY <1>7, Zenon
<1> HIDE DEF after
<1>9. after[0] = events /\ \A n \in 1..N : after[n] = Pass(order, after[n - 1])
  BY <1>1, <1>8
<1>10. DOMAIN after = 0..N /\ after = [n \in 0..N |-> after[n]]
  BY <1>8
<1>11. 0..N \subseteq {n \in 0..N : after[n] \in States}
  <2> DEFINE S == {n \in 0..N : after[n] \in States}
  <2>1. 0 \in S
    BY <1>1, <1>9
  <2>2. ASSUME NEW n \in 0..N, n < N, n \in S PROVE n + 1 \in S
    <3>1. n + 1 \in 1..N /\ (n + 1) - 1 = n /\ n + 1 \in 0..N
      BY <1>1, <2>2
    <3>2. after[n + 1] = Pass(order, after[n])
      BY <1>9, <3>1
    <3> QED  BY <1>2, <2>2, <3>1, <3>2
  <2> HIDE DEF S
  <2>3. 0..N \subseteq S
    BY <1>1, <2>1, <2>2, InductionUpTo
  <2> QED  BY <2>3 DEF S
<1>12. after \in [0..N -> States]
  BY <1>10, <1>11
<1> QED  BY <1>3, <1>9, <1>12 DEF N

\* The processes that have failed are finitely many, and more after a pass that
\* was not idle.
LEMMA FailuresGrow ==
  ASSUME NEW s \in States, NEW t, Worse(s, t)
  PROVE  /\ Cardinality(FailedIn(s)) \in Nat /\ Cardinality(FailedIn(t)) \in Nat
         /\ FailedIn(t) = FailedIn(s) \/ Cardinality(FailedIn(t)) > Cardinality(FailedIn(s))
<1>1. FailedIn(s) \subseteq FailedIn(t) /\ FailedIn(t) \subseteq Process
  BY DEF FailedIn, Worse
<1> DEFINE F == FailedIn(s)
           G == FailedIn(t)
<1> HIDE DEF F, G
<1>2. IsFiniteSet(G) /\ IsFiniteSet(F)
  BY <1>1, StructureAssumption, FS_Subset DEF F, G
<1>3. Cardinality(F) \in Nat /\ Cardinality(G) \in Nat
  BY <1>2, FS_CardinalityType
<1>4. Cardinality(F) <= Cardinality(G) /\ (Cardinality(G) = Cardinality(F) => G = F)
  BY <1>1, <1>2, FS_Subset DEF F, G
<1> QED  BY <1>3, <1>4 DEF F, G

\* When the passes are over nothing is left to be propagated, and what was not
\* there is not there.
LEMMA PropagateSettles ==
  ASSUME NEW order \in Seq(Process), NEW events \in States
  PROVE  Worse(events, Propagate(order, events)) /\ SettledAmong(order, Propagate(order, events))
<1> DEFINE N == Cardinality(Process)
<1>1. N \in Nat
  BY StructureAssumption, FS_CardinalityType
<1>2. PICK after \in [0..N -> States] :
        /\ after[0] = events
        /\ \A n \in 1..N : after[n] = Pass(order, after[n - 1])
        /\ Propagate(order, events) = after[N]
  BY PropagateSteps
<1> HIDE DEF N
<1> DEFINE Done(n) == SettledAmong(order, after[n]) \/ Cardinality(FailedIn(after[n])) >= n
           S == {n \in 0..N : Worse(events, after[n]) /\ Done(n)}
<1>3. 0 \in S
  <2>1. Worse(events, events) /\ Cardinality(FailedIn(events)) \in Nat
    <3>1. Worse(events, events)
      BY DEF Worse
    <3> QED  BY <3>1, FailuresGrow
  <2> QED  BY <1>1, <1>2, <2>1
<1>4. ASSUME NEW n \in 0..N, n < N, n \in S PROVE n + 1 \in S
  <2> DEFINE s == after[n]
             t == after[n + 1]
  <2>1. n + 1 \in 1..N /\ (n + 1) - 1 = n /\ n + 1 \in 0..N /\ s \in States
    BY <1>1, <1>2, <1>4
  <2>2. t = Pass(order, s)
    BY <1>2, <2>1
  <2>3. /\ Worse(s, t)
        /\ SettledAmong(order, s) => t = s
        /\ FailedIn(t) = FailedIn(s) => SettledAmong(order, s)
    BY <2>1, <2>2, PassWorsens
  <2>4. Worse(events, s) /\ Done(n)
    BY <1>4
  <2>5. Worse(events, t)
    BY <2>3, <2>4, WorseAgain
  <2>6. Cardinality(FailedIn(s)) \in Nat /\ Cardinality(FailedIn(t)) \in Nat
        /\ (FailedIn(t) = FailedIn(s) \/ Cardinality(FailedIn(t)) > Cardinality(FailedIn(s)))
    BY <2>1, <2>3, FailuresGrow
  <2>7. Done(n + 1)
    <3>1. CASE SettledAmong(order, s)
      BY <2>3, <3>1
    <3>2. CASE ~SettledAmong(order, s)
      <4>1. Cardinality(FailedIn(s)) >= n /\ Cardinality(FailedIn(t)) > Cardinality(FailedIn(s))
        BY <2>3, <2>4, <2>6, <3>2
      <4>2. Cardinality(FailedIn(t)) >= n + 1
        BY <2>6, <4>1
      <4> QED  BY <4>2
    <3> QED  BY <3>1, <3>2
  <2> QED  BY <2>1, <2>5, <2>7
<1> HIDE DEF S
<1>5. 0..N \subseteq S
  BY <1>1, <1>3, <1>4, InductionUpTo
<1>6. Worse(events, after[N]) /\ Done(N) /\ after[N] \in States
  BY <1>1, <1>2, <1>5 DEF S
<1>7. ASSUME Cardinality(FailedIn(after[N])) >= N PROVE SettledAmong(order, after[N])
  <2> DEFINE F == FailedIn(after[N])
  <2>1. F \subseteq Process
    BY DEF FailedIn
  <2> HIDE DEF F
  <2>2. Cardinality(F) <= N /\ (N = Cardinality(F) => Process = F) /\ IsFiniteSet(F)
    BY <2>1, StructureAssumption, FS_Subset DEF N
  <2>3. Cardinality(F) \in Nat /\ Cardinality(F) >= N
    BY <1>7, <2>2, FS_CardinalityType DEF F
  <2>4. Process = F
    BY <1>1, <2>2, <2>3
  <2>5. \A p \in Process : after[N][p] \in Failed
    BY <2>4 DEF F, FailedIn
  <2>6. \A i \in 1..Len(order) : order[i] \in Process
    OBVIOUS
  <2> QED  BY <2>5, <2>6, StructureAssumption DEF SettledAmong, Settled
<1> QED  BY <1>2, <1>6, <1>7


\* Every process that is there is in the order, and the passes go over it.
Listed(f) ==
  /\ f.order \in Seq(Process) /\ f.events \in States
  /\ \A p \in Process : f.events[p] # None => \E i \in 1..Len(f.order) : f.order[i] = p

\* Attempts are those of processes that are there.
AttemptsDeclared ==
  attempts \subseteq Process /\ \A p \in attempts : complete.events[p] # None

ListedInv ==
  /\ Listed(complete) /\ AttemptsDeclared
  /\ Listed(persisted) /\ persisted.shown = Propagate(persisted.order, persisted.events)

\* What one event of processes does: to a process alone, which may be its
\* first, or to processes that are there.
LEMMA ProcessEventLists ==
  ASSUME NEW f, Listed(f), IsRecord(f), NEW ps \in SUBSET Process, NEW class \in Class,
         (\A p \in ps : f.events[p] # None) \/ \E p \in Process : ps = {p}
  PROVE  /\ Listed(Apply(f, OfProcess(ps, class)))
         /\ \A p \in Process : Apply(f, OfProcess(ps, class)).events[p]
                                 = IF p \in ps THEN class ELSE f.events[p]
<1> DEFINE e == OfProcess(ps, class)
           events == [p \in Process |-> IF p \in ps THEN class ELSE f.events[p]]
           order == IF \E p \in ps : f.events[p] = None
                    THEN Append(f.order, CHOOSE p \in ps : TRUE) ELSE f.order
           after == Apply(f, e)
<1>1. after = [f EXCEPT !.events = events, !.order = order]
  <2>1. e.of = "process" /\ e.processes = ps /\ e.class = class
    BY DEF OfProcess
  <2>2. after = ApplyProcess(f, e)
    BY <2>1, Zenon DEF Apply
  <2> HIDE DEF e
  <2> QED  BY <2>1, <2>2, Zenon DEF ApplyProcess
<1>2. f.order \in Seq(Process) /\ f.events \in States
  BY DEF Listed
<1>3. events \in States /\ \A p \in Process : events[p] = IF p \in ps THEN class ELSE f.events[p]
  BY <1>2 DEF States
<1>4. /\ order \in Seq(Process)
      /\ \A p \in Process : events[p] # None => \E i \in 1..Len(order) : order[i] = p
  <2>1. CASE \A p \in ps : f.events[p] # None
    <3>1. order = f.order
      BY <2>1
    <3> HIDE DEF order, events
    <3> QED  BY <1>2, <1>3, <2>1, <3>1 DEF Listed
  <2>2. ASSUME NEW p \in Process, ps = {p}, f.events[p] = None
        PROVE  /\ order \in Seq(Process)
               /\ \A q \in Process : events[q] # None => \E i \in 1..Len(order) : order[i] = q
    <3>1. (CHOOSE q \in ps : TRUE) = p
      BY <2>2
    <3>2. order = Append(f.order, p)
      BY <2>2, <3>1
    <3> HIDE DEF order, events
    <3>3. /\ order \in Seq(Process) /\ Len(order) = Len(f.order) + 1 /\ Len(f.order) \in Nat
          /\ order[Len(order)] = p /\ \A i \in 1..Len(f.order) : order[i] = f.order[i]
      BY <1>2, <2>2, <3>2
    <3>4. ASSUME NEW q \in Process, events[q] # None PROVE \E i \in 1..Len(order) : order[i] = q
      <4>1. CASE q = p
        BY <3>3, <4>1
      <4>2. CASE q # p
        <5>1. f.events[q] # None
          BY <1>3, <2>2, <3>4, <4>2
        <5>2. PICK i \in 1..Len(f.order) : f.order[i] = q
          BY <5>1 DEF Listed
        <5> QED  BY <3>3, <5>2
      <4> QED  BY <4>1, <4>2
    <3> QED  BY <3>3, <3>4
  <2> QED  BY <2>1, <2>2
<1> HIDE DEF events, order, e
<1>5. after.events = events /\ after.order = order
  BY <1>1 DEF IsRecord
<1> QED  BY <1>3, <1>4, <1>5 DEF Listed, e

\* The other events are not about processes.
LEMMA OtherEventsKeepTheList ==
  ASSUME NEW f, IsRecord(f), NEW e, Event(e), e.of # "process"
  PROVE  Apply(f, e).order = f.order /\ Apply(f, e).events = f.events
<1>1. CASE e.of = "unit"
  BY <1>1 DEF Apply, ApplyUnit, IsRecord
<1>2. CASE e.of = "runtime"
  BY <1>2 DEF Apply, ApplyRuntime, IsRecord
<1>3. CASE e.of = "committed"
  <2> DEFINE p == Owner[e.checkpoint]
             created == [f.checkpoints EXCEPT ![e.checkpoint] = e.at]
             latest == [f.latest EXCEPT ![p] = IF @ = None \/ NoOlder(created, e.checkpoint, @)
                                               THEN e.checkpoint ELSE @]
  <2>1. Apply(f, e) = [f EXCEPT !.checkpoints = created, !.latest = latest]
    BY <1>3, Zenon DEF Apply, ApplyCommitted
  <2> HIDE DEF created, latest
  <2> QED  BY <2>1 DEF IsRecord
<1>4. CASE e.of = "invalidated"
  <2> DEFINE p == Owner[e.checkpoint]
             created == [f.checkpoints EXCEPT ![e.checkpoint] = 0]
             latest == [f.latest EXCEPT ![p] = IF f.checkpoints[e.checkpoint] > 0 /\ @ = e.checkpoint
                                               THEN LatestOf(created, p) ELSE @]
  <2>1. Apply(f, e) = [f EXCEPT !.checkpoints = created, !.latest = latest]
    BY <1>4, Zenon DEF Apply, ApplyInvalidated
  <2> HIDE DEF created, latest
  <2> QED  BY <2>1 DEF IsRecord
<1> QED
  BY <1>1, <1>2, <1>3, <1>4 DEF Event, OfProcess, OfUnit, OfRuntime, Committed, Invalidated

\* What the actions do to attempts and to the list of processes.
LEMMA AttemptSteps ==
  ASSUME [Next]_vars, program \in Programs
  PROVE  \/ UNCHANGED <<complete, persisted, attempts>>
         \/ \E e : Event(e) /\ e.of # "process" /\ Emit(e) /\ UNCHANGED attempts
         \/ \E p \in Process, class \in Class :
              Emit(OfProcess({p}, class)) /\ attempts' \subseteq attempts \cup {p}
         \/ Emit(OfProcess(attempts, "failure")) /\ attempts' = {}
         \/ Refresh
<1> USE DEF Event, Class, Terminal, Failed, work
<1>1. CASE UNCHANGED vars
  BY <1>1 DEF vars
<1>2. CASE RuntimeEvent
  BY <1>2 DEF RuntimeEvent, OfRuntime
<1>3. CASE Interrupt
  BY <1>3 DEF Interrupt
<1>4. CASE Refresh
  BY <1>4
<1>5. ASSUME NEW p \in Process, OnProcess(p)
      PROVE  \/ UNCHANGED <<complete, persisted, attempts>>
             \/ \E e : Event(e) /\ e.of # "process" /\ Emit(e) /\ UNCHANGED attempts
             \/ \E class \in Class : Emit(OfProcess({p}, class)) /\ attempts' \subseteq attempts \cup {p}
  <2>1. CASE Declare(p)            BY <2>1 DEF Declare
  <2>2. CASE BeginAttempt(p)       BY <2>2 DEF BeginAttempt
  <2>3. CASE Report(p)             BY <2>3 DEF Report
  <2>4. CASE OpenUnit(p)           BY <2>4 DEF OpenUnit, OfUnit
  <2>5. CASE CloseUnit(p)          BY <2>5 DEF CloseUnit, OfUnit
  <2>6. CASE RequestCancel(p)      BY <2>6 DEF RequestCancel
  <2>7. CASE RaiseCancelled(p)     BY <2>7 DEF RaiseCancelled
  <2>8. CASE Raise(p)              BY <2>8 DEF Raise
  <2>9. CASE Unwind(p)             BY <2>9 DEF Unwind, OfUnit
  <2>10. CASE FinishAttempt(p)     BY <2>10 DEF FinishAttempt
  <2>11. CASE Hook(p)              BY <2>11 DEF Hook
  <2>12. CASE Skip(p)              BY <2>12 DEF Skip
  <2>13. CASE MirrorRecord(p)      BY <2>13 DEF MirrorRecord
  <2>14. CASE CommitCheckpoint(p)
    BY <2>14, StructureAssumption DEF CommitCheckpoint, Committed
  <2>15. CASE InvalidateCheckpoint(p)
    BY <2>15, StructureAssumption DEF InvalidateCheckpoint, Invalidated
  <2> QED
    BY <1>5, <2>1, <2>2, <2>3, <2>4, <2>5, <2>6, <2>7, <2>8, <2>9, <2>10, <2>11, <2>12,
       <2>13, <2>14, <2>15 DEF OnProcess
<1> QED  BY <1>1, <1>2, <1>3, <1>4, <1>5 DEF Next

LEMMA ListedStep ==
  ASSUME Agreement, ListedInv, [Next]_vars
  PROVE  ListedInv'
<1>1. CASE UNCHANGED <<complete, persisted, attempts>>
  BY <1>1 DEF ListedInv, Listed, AttemptsDeclared
<1>2. ASSUME NEW e, Event(e), e.of # "process", Emit(e), UNCHANGED attempts PROVE ListedInv'
  <2>1. complete' = Apply(complete, e) /\ persisted' = persisted /\ IsRecord(complete)
    BY <1>2 DEF Emit, Agreement, FoldsAgree
  <2>2. complete'.order = complete.order /\ complete'.events = complete.events
    BY <1>2, <2>1, OtherEventsKeepTheList
  <2> QED  BY <1>2, <2>1, <2>2 DEF ListedInv, Listed, AttemptsDeclared
<1>3. ASSUME NEW ps \in SUBSET Process, NEW class \in Class, Emit(OfProcess(ps, class)),
             (\A p \in ps : complete.events[p] # None) \/ \E p \in Process : ps = {p},
             attempts' \subseteq attempts \cup ps
      PROVE  ListedInv'
  <2>1. complete' = Apply(complete, OfProcess(ps, class)) /\ persisted' = persisted /\ IsRecord(complete)
    BY <1>3 DEF Emit, Agreement, FoldsAgree
  <2>2. /\ Listed(complete')
        /\ \A p \in Process : complete'.events[p] = IF p \in ps THEN class ELSE complete.events[p]
    <3> DEFINE after == Apply(complete, OfProcess(ps, class))
    <3>1. Listed(complete) /\ IsRecord(complete)
      BY <2>1 DEF ListedInv
    <3>2. Listed(after) /\ \A p \in Process : after.events[p] = IF p \in ps THEN class ELSE complete.events[p]
      BY <1>3, <3>1, ProcessEventLists, ZenonT(30)
    <3> HIDE DEF after
    <3>3. complete' = after
      BY <2>1 DEF after
    <3> QED  BY <3>2, <3>3 DEF Listed
  <2>3. class # None
    BY StructureAssumption
  <2>4. AttemptsDeclared'
    BY <1>3, <2>2, <2>3 DEF ListedInv, AttemptsDeclared
  <2> QED  BY <2>1, <2>2, <2>4 DEF ListedInv
<1>4. CASE Emit(OfProcess(attempts, "failure")) /\ attempts' = {}
  <2>1. attempts \subseteq Process /\ (\A p \in attempts : complete.events[p] # None) /\ "failure" \in Class
    BY DEF ListedInv, AttemptsDeclared, Class, Terminal, Failed
  <2> QED  BY <1>3, <1>4, <2>1
<1>5. CASE Refresh
  <2>1. persisted' = Finalize(ahead) /\ complete' = complete /\ attempts' = attempts
    BY <1>5 DEF Refresh, work
  <2>2. /\ Direct(Finalize(ahead)) = Direct(ahead) /\ Direct(ahead) = Direct(complete)
        /\ Finalize(ahead).shown = Propagate(ahead.order, ahead.events)
    BY FinalizeKeeps DEF Agreement, FoldsAgree
  <2>3. /\ persisted'.order = complete.order /\ persisted'.events = complete.events
        /\ ahead.order = complete.order /\ ahead.events = complete.events
    BY <2>1, <2>2 DEF Direct
  <2> QED  BY <2>1, <2>2, <2>3 DEF ListedInv, Listed, AttemptsDeclared
<1> QED
  <2>1. ASSUME NEW p \in Process, NEW class \in Class, Emit(OfProcess({p}, class)),
               attempts' \subseteq attempts \cup {p}
        PROVE  ListedInv'
    BY <1>3, <2>1
  <2> QED  BY <1>1, <1>2, <1>4, <1>5, <2>1, AttemptSteps DEF Agreement

\* "A child that failed fails its parent": in the stored projection a failure
\* or cancellation has reached every ancestor, for any forest of processes, in
\* whatever order they were declared and however they ended.
THEOREM FailuresReachAncestors == Spec => []FailureReachesAncestors
<1>1. Init => ListedInv
  <2> SUFFICES ASSUME Init PROVE ListedInv
    OBVIOUS
  <2>1. Listed(Empty) /\ \A p \in Process : Empty.events[p] = None
    BY DEF Empty, Listed, States
  <2>2. /\ Direct(Finalize(Empty)) = Direct(Empty) /\ complete = Empty /\ persisted = Finalize(Empty)
        /\ Finalize(Empty).shown = Propagate(Empty.order, Empty.events)
    BY FinalizeKeeps, EmptyIsRecord DEF Init
  <2>3. persisted.order = Empty.order /\ persisted.events = Empty.events
    BY <2>2 DEF Direct
  <2> QED  BY <2>1, <2>2, <2>3 DEF ListedInv, Listed, AttemptsDeclared, Init
<1>2. Agreement /\ ListedInv /\ [Next]_vars => ListedInv'
  BY ListedStep
<1>3. ListedInv => FailureReachesAncestors
  <2> SUFFICES ASSUME ListedInv, NEW p \in Process, Parent[p] # None, persisted.shown[p] \in Propagated
               PROVE  persisted.shown[Parent[p]] \in Failed \cup {None}
    BY DEF FailureReachesAncestors
  <2> DEFINE order == persisted.order
             events == persisted.events
             shown == persisted.shown
  <2>1. Listed(persisted) /\ shown = Propagate(order, events)
    BY DEF ListedInv
  <2>2. Worse(events, shown) /\ SettledAmong(order, shown)
    BY <2>1, PropagateSettles DEF Listed
  <2>3. shown[p] # None
    BY StructureAssumption DEF Class, Terminal
  <2>4. events[p] # None
    BY <2>2, <2>3, StructureAssumption DEF Worse
  <2>5. PICK i \in 1..Len(order) : order[i] = p
    BY <2>1, <2>4 DEF Listed
  <2>6. Settled(p, shown)
    BY <2>2, <2>5 DEF SettledAmong
  <2> QED  BY <2>6 DEF Settled
<1> QED  BY <1>1, <1>2, <1>3, FoldsAlwaysAgree, PTL DEF Spec

=============================================================================
