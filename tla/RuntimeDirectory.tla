-------------------------- MODULE RuntimeDirectory --------------------------
(***************************************************************************)
(* RuntimeDirectoryManager (flowlet/runtime/directory.py): create,         *)
(* continue_runtime, rerun and recover_pending_reset of one runtime        *)
(* directory, by any number of processes, each of which may be killed      *)
(* between any two file operations.  The files survive; the machine does   *)
(* not lose writes.                                                        *)
(*                                                                         *)
(* An operation runs under an exclusive SQLite lock, one file operation    *)
(* per step.  Back ends that opened the store earlier do not take that     *)
(* lock: they acquire a session lease, and write their files, meanwhile.   *)
(***************************************************************************)
EXTENDS Naturals, FiniteSets

CONSTANTS
  Manager,        \* processes that use a RuntimeDirectoryManager
  RuntimeId,      \* runtime ids callers make up
  File,           \* top-level entries of the directory besides the database
  Database,       \* the entry that holds runtime/runtime.db
  MaxGeneration,  \* bound on the generation
  None

ASSUME RuntimeDirectoryAssumption ==
  /\ Database \notin File
  /\ MaxGeneration \in Nat \ {0}
  /\ None \notin Manager \cup RuntimeId

VARIABLES
  tree,    \* runtime_dir without .control: entry -> content, None if absent
  staged,  \* the directory old entries are moved to: None or like tree
  marker,  \* .control/reset.json: None or [phase, identity]
  lock,    \* holder of .control/reset_lock.sqlite, None if free
  call     \* the operation each process is in, with its local variables

disk == <<tree, staged, marker>>
vars == <<tree, staged, marker, lock, call>>

Entry == File \cup {Database}

\* A RuntimeIdentity; rerun_of_runtime_id and logical_task_id add nothing.
Identity == [id: RuntimeId, generation: 1..MaxGeneration]

\* The database: its identity, None when only the schema exists, and whether
\* a session lease in it is live.  Of another file: the lineage that wrote it.
Content == [identity: Identity \cup {None}, leased: BOOLEAN]

\* What a directory holds, and what .control/reset.json says.
Entries == [Entry -> Content \cup {None}]
Marker == [phase: {"prepared", "moved", "initialized"}, identity: Identity]

\* Nothing of this is what None stands for.
ASSUME NoneAssumption == None \notin Identity \cup Content \cup Entries \cup Marker

Uninitialized == [identity |-> None, leased |-> FALSE]
Holding(identity) == [identity |-> identity, leased |-> FALSE]

NoEntries == [x \in Entry |-> None]
Present(entries) == IF entries = None THEN {} ELSE {x \in Entry : entries[x] # None}

\* The identity a RuntimeDurableStore opened on the database reports.
IdentityIn(entries) ==
  IF Database \in Present(entries) THEN entries[Database].identity ELSE None

\* The database opens under an expected runtime id, instead of raising.
Answers(id) == IdentityIn(tree) # None /\ IdentityIn(tree).id = id

Idle == [at |-> "idle"]
At(m, label) == call[m].at = label
Go(m, label) == call' = [call EXCEPT ![m].at = label] /\ UNCHANGED lock

\* Mutation: an exception leaves the lock behind.
LeaveLocked(m) == call' = [call EXCEPT ![m] = Idle] /\ UNCHANGED lock

\* The end of an operation, by return, exception or death of the process:
\* either way the lock is gone.
Leave(m) == call' = [call EXCEPT ![m] = Idle] /\ lock' = None

-----------------------------------------------------------------------------
(* Start of an operation: the lock, then _recover_pending_reset_locked.     *)

\* `expected` is expected_runtime_id and `identity` the (new) identity, where
\* the operation has them; `own` tells the reset a rerun does for itself from
\* the one it finishes for somebody else.
Begin(m, op, identity, expected) ==
  /\ call[m] = Idle
  /\ lock = None
  /\ lock' = m
  /\ call' = [call EXCEPT ![m] = [at |-> "recover", op |-> op, identity |-> identity,
                                  expected |-> expected, own |-> FALSE, todo |-> {}]]
  /\ UNCHANGED disk

RecoverPendingReset(m) ==
  /\ At(m, "recover")
  /\ \/ marker # None /\ Go(m, "inspect")
     \/ marker = None /\ call[m].op # "recover" /\ Go(m, call[m].op)
     \/ marker = None /\ call[m].op = "recover" /\ Leave(m)
  /\ UNCHANGED disk

-----------------------------------------------------------------------------
(* _complete_reset_locked.                                                  *)

\* Mutation: any initialized database is taken for the new one.
InspectAnyIdentity(m) ==
  /\ At(m, "inspect")
  /\ \/ IdentityIn(tree) # None /\ Go(m, "discard")
     \/ IdentityIn(tree) = None /\ Go(m, "stage")
  /\ UNCHANGED disk

\* The reset is over but for cleaning up when the database has the new
\* runtime id; a database without one, or with another, is staged.
Inspect(m) ==
  /\ At(m, "inspect")
  /\ \/ Answers(marker.identity.id) /\ Go(m, "discard")
     \/ ~Answers(marker.identity.id) /\ Go(m, "stage")
  /\ UNCHANGED disk

\* Mutation: only the database is put aside.
StageDatabaseOnly(m) ==
  /\ At(m, "stage")
  /\ staged' = IF staged = None THEN NoEntries ELSE staged
  /\ call' = [call EXCEPT ![m].at = "move", ![m].todo = Present(tree) \cap {Database}]
  /\ UNCHANGED <<tree, marker, lock>>

\* mkdir(exist_ok=True), and the directory listing that is worked off.
Stage(m) ==
  /\ At(m, "stage")
  /\ staged' = IF staged = None THEN NoEntries ELSE staged
  /\ call' = [call EXCEPT ![m].at = "move", ![m].todo = Present(tree)]
  /\ UNCHANGED <<tree, marker, lock>>

\* os.replace of one entry; an occupied target raises FileExistsError.
MoveEntry(m, x) ==
  /\ At(m, "move")
  /\ x \in call[m].todo
  /\ \/ /\ staged[x] # None
        /\ Leave(m)
        /\ UNCHANGED disk
     \/ /\ staged[x] = None
        /\ staged' = [staged EXCEPT ![x] = tree[x]]
        /\ tree' = [tree EXCEPT ![x] = None]
        /\ call' = [call EXCEPT ![m].todo = @ \ {x}]
        /\ UNCHANGED <<marker, lock>>

MarkMoved(m) ==
  /\ At(m, "move") /\ call[m].todo = {}
  /\ marker' = [marker EXCEPT !.phase = "moved"]
  /\ Go(m, "initialize")
  /\ UNCHANGED <<tree, staged>>

\* RuntimeDurableStore.create commits the schema and then, in a transaction
\* of its own, the identity.  (In a reset the path is free: all was moved.)
CreateSchema(m) ==
  /\ At(m, "initialize")
  /\ tree' = [tree EXCEPT ![Database] = Uninitialized]
  /\ Go(m, "identify")
  /\ UNCHANGED <<staged, marker>>

CommitIdentity(m) ==
  /\ At(m, "identify")
  /\ \/ /\ marker = None
        /\ tree' = [tree EXCEPT ![Database] = Holding(call[m].identity)]
        /\ Leave(m)
     \/ /\ marker # None
        /\ tree' = [tree EXCEPT ![Database] = Holding(marker.identity)]
        /\ Go(m, "initialized")
  /\ UNCHANGED <<staged, marker>>

MarkInitialized(m) ==
  /\ At(m, "initialized")
  /\ marker' = [marker EXCEPT !.phase = "initialized"]
  /\ Go(m, "discard")
  /\ UNCHANGED <<tree, staged>>

\* shutil.rmtree of the staging directory, entry by entry; when it is empty
\* or missing, the marker is next.
DiscardStaged(m) ==
  /\ At(m, "discard")
  /\ \/ /\ \E x \in Present(staged) : staged' = [staged EXCEPT ![x] = None]
        /\ UNCHANGED <<lock, call>>
     \/ /\ Present(staged) = {}
        /\ staged' = None
        /\ Go(m, "unlink")
  /\ UNCHANGED <<tree, marker>>

\* marker_path.unlink() ends the reset; an operation that recovered somebody
\* else's goes on with its own business.
UnlinkMarker(m) ==
  /\ At(m, "unlink")
  /\ marker' = None
  /\ \/ (call[m].own \/ call[m].op = "recover") /\ Leave(m)
     \/ ~call[m].own /\ call[m].op # "recover" /\ Go(m, call[m].op)
  /\ UNCHANGED <<tree, staged>>

-----------------------------------------------------------------------------
(* What the operations do after recovery.                                   *)

\* RuntimeDurableStore(path, expected_runtime_id=...): opening a database
\* that is not there creates one without identity, and raises.
OpenStore(m, opened) ==
  \/ /\ tree[Database] = None
     /\ tree' = [tree EXCEPT ![Database] = Uninitialized]
     /\ Leave(m)
     /\ UNCHANGED <<staged, marker>>
  \/ /\ tree[Database] # None
     /\ IF Answers(call[m].expected) THEN opened ELSE Leave(m)
     /\ UNCHANGED disk

\* create: only in an empty directory.
CheckEmpty(m) ==
  /\ At(m, "create")
  /\ \/ Present(tree) = {} /\ Go(m, "initialize")
     \/ Present(tree) # {} /\ Leave(m)
  /\ UNCHANGED disk

\* continue_runtime returns the store it opened.
Continue(m) == At(m, "continue") /\ OpenStore(m, Leave(m))

OpenCurrent(m) == At(m, "rerun") /\ OpenStore(m, Go(m, "check"))

\* Mutation: any later generation will do.
SucceedsByAny(new, current) ==
  new.id # current.id /\ new.generation > current.generation

\* _validate_rerun_identity.
Succeeds(new, current) ==
  new.id # current.id /\ new.generation = current.generation + 1

\* active_backend_session and _validate_rerun_identity; the package's cleanup
\* callback runs after them.
CheckRerun(m) ==
  LET accepted == ~tree[Database].leased /\ Succeeds(call[m].identity, IdentityIn(tree))
  IN  /\ At(m, "check")
      /\ \/ accepted /\ Go(m, "prepare")
         \/ ~accepted /\ Leave(m)
      /\ UNCHANGED disk

\* The marker names a fresh staging directory and commits to the reset.
PrepareReset(m) ==
  /\ At(m, "prepare")
  /\ marker' = [phase |-> "prepared", identity |-> call[m].identity]
  /\ call' = [call EXCEPT ![m].at = "inspect", ![m].own = TRUE]
  /\ UNCHANGED <<tree, staged, lock>>

-----------------------------------------------------------------------------
(* Processes die, and back ends work on the store without the lock.         *)

Crash(m) == call[m] # Idle /\ Leave(m) /\ UNCHANGED disk

SetLease(leased) ==
  /\ IdentityIn(tree) # None
  /\ tree[Database].leased # leased
  /\ tree' = [tree EXCEPT ![Database].leased = leased]
  /\ UNCHANGED <<staged, marker, lock, call>>

\* acquire_backend_session through a store object opened before.
AcquireSession == SetLease(TRUE)

\* Release of the session, or the end of its time.
EndSession == SetLease(FALSE)

\* The owner of the runtime writes status, snapshots and the like.
WriteFile(f) ==
  /\ tree[Database] # None /\ tree[Database].leased
  /\ tree' = [tree EXCEPT ![f] = Holding(IdentityIn(tree))]
  /\ UNCHANGED <<staged, marker, lock, call>>

-----------------------------------------------------------------------------

Init ==
  /\ tree = NoEntries
  /\ staged = None
  /\ marker = None
  /\ lock = None
  /\ call = [m \in Manager |-> Idle]

Call(m) ==
  \/ \E identity \in Identity : Begin(m, "create", identity, None)
  \/ \E expected \in RuntimeId :
       \/ Begin(m, "continue", None, expected)
       \/ \E identity \in Identity : Begin(m, "rerun", identity, expected)
  \/ Begin(m, "recover", None, None)

\* One step of the operation m is in.
Step(m) ==
  \/ RecoverPendingReset(m) \/ Inspect(m) \/ Stage(m)
  \/ \E x \in Entry : MoveEntry(m, x)
  \/ MarkMoved(m) \/ CreateSchema(m) \/ CommitIdentity(m) \/ MarkInitialized(m)
  \/ DiscardStaged(m) \/ UnlinkMarker(m)
  \/ CheckEmpty(m) \/ Continue(m) \/ OpenCurrent(m) \/ CheckRerun(m) \/ PrepareReset(m)

BackendStep == AcquireSession \/ EndSession \/ \E f \in File : WriteFile(f)

Next == BackendStep \/ \E m \in Manager : Call(m) \/ Step(m) \/ Crash(m)

\* A process that is not killed goes on with its operation.
Fairness == \A m \in Manager : WF_vars(Step(m))

Spec == Init /\ [][Next]_vars /\ Fairness

-----------------------------------------------------------------------------
(* What the manager relies on.                                              *)

PastLeaseCheck ==
  marker # None \/ \E m \in Manager : call[m] # Idle /\ At(m, "prepare")

\* Past the lease check of a rerun no session is acquired.  Nothing enforces
\* it: without it a database somebody has just leased is put aside.
SessionsInTime == ~(PastLeaseCheck /\ IdentityIn(tree) # None /\ tree[Database].leased)

-----------------------------------------------------------------------------
(* Properties.                                                              *)

\* "No old event, execution, attempt, or checkpoint is visible": whatever
\* lies beside an initialized database belongs to its lineage.
OneLineageInPlace ==
  IdentityIn(tree) # None =>
    \A f \in File : tree[f] # None => tree[f].identity = IdentityIn(tree)

\* A rerun that has written its marker is never given up: the marker goes
\* only when the new lineage is in place and the old one is gone.
ResetNotDropped ==
  [][marker # None /\ marker' = None =>
       IdentityIn(tree) = marker.identity /\ staged = None]_vars

\* The lineage a directory stands for is the one in place or, while a reset
\* has taken that away, the staged one.
CurrentLineage ==
  IF IdentityIn(tree) # None THEN IdentityIn(tree) ELSE IdentityIn(staged)

\* Reruns are atomic: through crashes and recoveries by other processes, the
\* lineage is created once and then replaced one generation at a time.
Lineage == INSTANCE RuntimeLineage WITH lineage <- CurrentLineage
RerunsAreAtomic == Lineage!LineageSpec

\* No operation, whether it returns, raises or dies, keeps the lock others
\* poll for.
LockIsReleased == \A m \in Manager : lock = m ~> lock # m

=============================================================================
