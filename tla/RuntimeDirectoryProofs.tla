----------------------- MODULE RuntimeDirectoryProofs -----------------------
(***************************************************************************)
(* RuntimeDirectory implements RuntimeLineage: for any number of managers, *)
(* files and generations, through crashes and recoveries, a directory      *)
(* holds one lineage, which reruns replace atomically.                     *)
(***************************************************************************)
EXTENDS RuntimeDirectory, TLAPS

Label == {"recover", "inspect", "stage", "move", "initialize", "identify",
          "initialized", "discard", "unlink", "create", "continue", "rerun",
          "check", "prepare"}

CallRecord ==
  [at: Label, op: {"create", "continue", "rerun", "recover"},
   identity: Identity \cup {None}, expected: RuntimeId \cup {None},
   own: BOOLEAN, todo: SUBSET Entry]

TypeInv ==
  /\ tree \in Entries
  /\ staged \in Entries \cup {None}
  /\ marker \in Marker \cup {None}
  /\ call \in [Manager -> CallRecord \cup {Idle}]

\* A pending reset leads from the lineage in place, or the staged one, to the
\* one of the marker, and is over once that one is in place.
ResetInv ==
  /\ marker = None => staged = None
  /\ marker = None /\ IdentityIn(tree) = None => \A f \in File : tree[f] = None
  /\ marker # None /\ IdentityIn(tree) = None =>
       IdentityIn(staged) # None /\ Succeeds(marker.identity, IdentityIn(staged))
  /\ marker # None /\ IdentityIn(tree) # None =>
       IdentityIn(tree) = marker.identity \/ Succeeds(marker.identity, IdentityIn(tree))
  /\ tree[Database] # None /\ tree[Database].leased => IdentityIn(tree) # None
  /\ OneLineageInPlace

\* What an operation has established where it is.
Established(m) ==
  /\ call[m].op \in {"create", "rerun"} => call[m].identity \in Identity
  /\ call[m].at \in {"create", "continue", "rerun", "check", "prepare"} => marker = None
  /\ At(m, "create") => call[m].op = "create"
  /\ call[m].at \in {"rerun", "check", "prepare"} => call[m].op = "rerun"
  /\ call[m].at \in {"check", "prepare"} => IdentityIn(tree) # None
  /\ At(m, "prepare") => Succeeds(call[m].identity, IdentityIn(tree))
  /\ call[m].at \in {"inspect", "stage", "move", "initialized", "discard", "unlink"} => marker # None
  /\ call[m].at \in {"stage", "move"} => IdentityIn(tree) # marker.identity
  /\ At(m, "move") => staged # None /\ Present(tree) \subseteq call[m].todo
  /\ call[m].at \in {"initialize", "identify"} /\ marker = None => call[m].op = "create"
  /\ At(m, "initialize") => Present(tree) = {}
  /\ At(m, "identify") =>
       IdentityIn(tree) = None /\ tree[Database] # None /\ \A f \in File : tree[f] = None
  /\ call[m].at \in {"initialized", "discard", "unlink"} => IdentityIn(tree) = marker.identity
  /\ At(m, "unlink") => staged = None

\* Whoever is in an operation holds the lock.
CallInv == \A m \in Manager : call[m] # Idle => lock = m /\ Established(m)

Inv == TypeInv /\ ResetInv /\ CallInv

-----------------------------------------------------------------------------
(* Directories and calls.                                                   *)

LEMMA Directories ==
  ASSUME NEW t \in Entries
  PROVE  /\ t # None /\ None \notin Identity
         /\ \A x \in Entry : t[x] \in Content \cup {None}
         /\ Present(t) = {x \in Entry : t[x] # None}
         /\ IdentityIn(t) = IF t[Database] # None THEN t[Database].identity ELSE None
         /\ IdentityIn(t) \in Identity \cup {None}
<1>1. t # None /\ None \notin Identity /\ Database \in Entry
  BY NoneAssumption DEF Entry
<1>2. Present(t) = {x \in Entry : t[x] # None} /\ \A x \in Entry : t[x] \in Content \cup {None}
  BY <1>1 DEF Present, Entries
<1>3. IdentityIn(t) = IF t[Database] # None THEN t[Database].identity ELSE None
  BY <1>1, <1>2 DEF IdentityIn
<1>4. IdentityIn(t) \in Identity \cup {None}
  BY <1>1, <1>2, <1>3 DEF Content
<1> QED
  BY <1>1, <1>2, <1>3, <1>4

\* A staging directory that is not there holds nothing.
LEMMA NoStaging == Present(None) = {} /\ IdentityIn(None) = None
BY DEF Present, IdentityIn

LEMMA SomeContent ==
  /\ Uninitialized \in Content /\ Uninitialized # None
  /\ Uninitialized.identity = None /\ ~Uninitialized.leased
  /\ \A i \in Identity \cup {None} :
       Holding(i) \in Content /\ Holding(i) # None /\ Holding(i).identity = i /\ ~Holding(i).leased
  /\ NoEntries \in Entries /\ \A x \in Entry : NoEntries[x] = None
<1>1. Uninitialized \in Content /\ Uninitialized.identity = None /\ ~Uninitialized.leased
  BY DEF Uninitialized, Content
<1>2. ASSUME NEW i \in Identity \cup {None}
      PROVE  Holding(i) \in Content /\ Holding(i).identity = i /\ ~Holding(i).leased
  BY DEF Holding, Content
<1>3. None \notin Content
  BY NoneAssumption
<1>4. NoEntries \in Entries /\ \A x \in Entry : NoEntries[x] = None
  BY DEF NoEntries, Entries
<1> QED
  BY <1>1, <1>2, <1>3, <1>4

LEMMA Calls ==
  ASSUME TypeInv, NEW m \in Manager, call[m] # Idle
  PROVE  call[m] \in CallRecord /\ call[m].at \in Label /\ ~At(m, "idle")
BY DEF TypeInv, CallRecord, Label, At

\* A label is only at a call.
LEMMA InCall ==
  ASSUME TypeInv, NEW m \in Manager, NEW label \in Label, At(m, label)
  PROVE  call[m] # Idle /\ call[m] \in CallRecord
BY DEF TypeInv, Label, At, Idle

\* Where a call goes on, and what it keeps.
LEMMA Going ==
  ASSUME TypeInv, NEW m \in Manager, call[m] # Idle, NEW label \in Label, Go(m, label)
  PROVE  /\ call' \in [Manager -> CallRecord \cup {Idle}] /\ lock' = lock
         /\ call'[m].at = label /\ call'[m].op = call[m].op
         /\ call'[m].identity = call[m].identity /\ call'[m].own = call[m].own
         /\ call'[m].todo = call[m].todo
         /\ \A n \in Manager : n # m => call'[n] = call[n]
<1>1. call[m] \in CallRecord /\ call \in [Manager -> CallRecord \cup {Idle}]
  BY Calls DEF TypeInv
<1>2. call' = [call EXCEPT ![m] = [call[m] EXCEPT !.at = label]] /\ lock' = lock
  BY DEF Go
<1>3. [call[m] EXCEPT !.at = label] \in CallRecord
  BY <1>1 DEF CallRecord
<1>4. /\ [call[m] EXCEPT !.at = label].at = label
      /\ [call[m] EXCEPT !.at = label].op = call[m].op
      /\ [call[m] EXCEPT !.at = label].identity = call[m].identity
      /\ [call[m] EXCEPT !.at = label].own = call[m].own
      /\ [call[m] EXCEPT !.at = label].todo = call[m].todo
  BY <1>1 DEF CallRecord
<1> QED
  BY <1>1, <1>2, <1>3, <1>4

\* Only one call runs at a time: it suffices to look at that one.
LEMMA OneCall ==
  ASSUME CallInv, NEW m \in Manager, call[m] # Idle, lock' = lock, Established(m)',
         \A n \in Manager : n # m => call'[n] = call[n]
  PROVE  CallInv'
BY DEF CallInv

\* The end of a call leaves nobody with the lock.
LEMMA Leaving ==
  ASSUME TypeInv, CallInv, NEW m \in Manager, call[m] # Idle, Leave(m)
  PROVE  CallInv' /\ call' \in [Manager -> CallRecord \cup {Idle}]
<1>1. call \in [Manager -> CallRecord \cup {Idle}] /\ call' = [call EXCEPT ![m] = Idle]
  BY DEF TypeInv, Leave
<1>2. \A n \in Manager : call'[n] = IF n = m THEN Idle ELSE call[n]
  BY <1>1
<1>3. \A n \in Manager : call'[n] = Idle
  BY <1>2 DEF CallInv
<1> QED
  BY <1>1, <1>3 DEF CallInv

\* What a step does to the lineage.
LineageStep == [Lineage!Create \/ Lineage!Rerun]_CurrentLineage

\* A step that leaves the files alone.
LEMMA SameFiles ==
  ASSUME TypeInv, ResetInv, UNCHANGED disk, call' \in [Manager -> CallRecord \cup {Idle}]
  PROVE  TypeInv' /\ ResetInv' /\ LineageStep
BY DEF TypeInv, ResetInv, disk, IdentityIn, Present, OneLineageInPlace, LineageStep, CurrentLineage

-----------------------------------------------------------------------------
(* Steps of an operation, one lemma for each.                               *)

Kept == Inv' /\ LineageStep

\* A step that goes on and leaves the files alone.
LEMMA GoesOn ==
  ASSUME Inv, NEW m \in Manager, call[m] # Idle, NEW label \in Label, Go(m, label),
         UNCHANGED disk, Established(m)'
  PROVE  Kept
<1>1. TypeInv' /\ ResetInv' /\ LineageStep
  BY Going, SameFiles DEF Inv
<1>2. CallInv'
  BY Going, OneCall DEF Inv
<1> QED
  BY <1>1, <1>2 DEF Kept, Inv

\* A step that ends the call and leaves the files alone.
LEMMA Ends ==
  ASSUME Inv, NEW m \in Manager, call[m] # Idle, Leave(m), UNCHANGED disk
  PROVE  Kept
BY Leaving, SameFiles DEF Kept, Inv

LEMMA BeginKeeps ==
  ASSUME Inv, NEW m \in Manager, Call(m)
  PROVE  Kept
<1> USE DEF Inv
<1>1. PICK op \in {"create", "continue", "rerun", "recover"},
           identity \in Identity \cup {None}, expected \in RuntimeId \cup {None} :
        Begin(m, op, identity, expected) /\ (op \in {"create", "rerun"} => identity \in Identity)
  BY DEF Call
<1> DEFINE r == [at |-> "recover", op |-> op, identity |-> identity,
                 expected |-> expected, own |-> FALSE, todo |-> {}]
<1>2. r \in CallRecord /\ r.at = "recover" /\ r.op = op /\ r.identity = identity
  BY DEF CallRecord, Label
<1>3. lock = None /\ lock' = m /\ call' = [call EXCEPT ![m] = r] /\ UNCHANGED disk
  BY <1>1 DEF Begin
<1> HIDE DEF r
<1>4. \A n \in Manager : call[n] = Idle
  BY <1>3, RuntimeDirectoryAssumption DEF CallInv
<1>5. call' \in [Manager -> CallRecord \cup {Idle}] /\ call'[m] = r
      /\ \A n \in Manager : n # m => call'[n] = Idle
  BY <1>2, <1>3, <1>4 DEF TypeInv
<1>6. Established(m)'
  BY <1>1, <1>2, <1>5 DEF Established, At
<1>7. CallInv'
  BY <1>3, <1>5, <1>6 DEF CallInv
<1> QED
  BY <1>3, <1>5, <1>7, SameFiles DEF Kept

LEMMA RecoverKeeps ==
  ASSUME Inv, NEW m \in Manager, RecoverPendingReset(m)
  PROVE  Kept
<1>1. call[m] # Idle /\ call[m] \in CallRecord /\ Established(m) /\ At(m, "recover") /\ UNCHANGED disk
  BY InCall DEF Inv, RecoverPendingReset, Label, CallInv
<1>2. CASE marker # None /\ Go(m, "inspect")
  <2>1. /\ call'[m].at = "inspect" /\ call'[m].op = call[m].op
        /\ call'[m].identity = call[m].identity
    BY <1>1, <1>2, Going DEF Inv, Label
  <2>2. Established(m)'
    BY <1>1, <1>2, <2>1 DEF Established, At, disk
  <2> QED
    BY <1>1, <1>2, <2>2, GoesOn DEF Label
<1>3. CASE marker = None /\ call[m].op # "recover" /\ Go(m, call[m].op)
  <2>1. call[m].op \in {"create", "continue", "rerun"} /\ call[m].op \in Label
    BY <1>1, <1>3 DEF CallRecord, Label
  <2>2. /\ call'[m].at = call[m].op /\ call'[m].op = call[m].op
        /\ call'[m].identity = call[m].identity
    BY <1>1, <1>3, <2>1, Going DEF Inv
  <2>3. Established(m)'
    BY <1>1, <1>3, <2>1, <2>2 DEF Established, At, disk
  <2> QED
    BY <1>1, <1>3, <2>1, <2>3, GoesOn
<1>4. CASE Leave(m)
  BY <1>1, <1>4, Ends
<1> QED
  BY <1>2, <1>3, <1>4 DEF RecoverPendingReset

LEMMA InspectKeeps ==
  ASSUME Inv, NEW m \in Manager, Inspect(m)
  PROVE  Kept
<1>1. call[m] # Idle /\ Established(m) /\ At(m, "inspect") /\ UNCHANGED disk
      /\ marker # None /\ marker \in Marker
  <2>1. call[m] # Idle /\ At(m, "inspect") /\ UNCHANGED disk /\ Established(m)
    BY InCall DEF Inv, Inspect, Label, CallInv
  <2>2. call[m].at = "inspect" /\ marker \in Marker \cup {None}
    BY <2>1 DEF At, Inv, TypeInv
  <2> QED
    BY <2>1, <2>2 DEF Established
<1>2. IdentityIn(tree) \in Identity \cup {None} /\ None \notin Identity /\ marker.identity \in Identity
  BY <1>1, Directories DEF Inv, TypeInv, Marker
<1>3. IdentityIn(tree) = marker.identity <=> Answers(marker.identity.id)
  <2>1. marker.identity # None
    BY <1>2
  <2>2. IdentityIn(tree) = marker.identity => Answers(marker.identity.id)
    BY <2>1 DEF Answers
  <2>3. Answers(marker.identity.id) => IdentityIn(tree) = marker.identity
    BY <1>1 DEF Answers, Inv, ResetInv, Succeeds
  <2> QED
    BY <2>2, <2>3
<1>4. CASE Answers(marker.identity.id) /\ Go(m, "discard")
  <2>1. /\ call'[m].at = "discard" /\ call'[m].op = call[m].op
        /\ call'[m].identity = call[m].identity
    BY <1>1, <1>4, Going DEF Inv, Label
  <2>2. Established(m)'
    BY <1>1, <1>3, <1>4, <2>1 DEF Established, At, disk, IdentityIn, Present
  <2> QED
    BY <1>1, <1>4, <2>2, GoesOn DEF Label
<1>5. CASE ~Answers(marker.identity.id) /\ Go(m, "stage")
  <2>1. /\ call'[m].at = "stage" /\ call'[m].op = call[m].op
        /\ call'[m].identity = call[m].identity
    BY <1>1, <1>5, Going DEF Inv, Label
  <2>2. Established(m)'
    BY <1>1, <1>3, <1>5, <2>1 DEF Established, At, disk, IdentityIn, Present
  <2> QED
    BY <1>1, <1>5, <2>2, GoesOn DEF Label
<1> QED
  BY <1>4, <1>5 DEF Inspect

LEMMA StageKeeps ==
  ASSUME Inv, NEW m \in Manager, Stage(m)
  PROVE  Kept
<1>1. call[m] # Idle /\ call[m] \in CallRecord /\ Established(m) /\ call[m].at = "stage"
      /\ UNCHANGED <<tree, marker, lock>>
  BY InCall DEF Inv, Stage, Label, CallInv, At
<1>2. marker # None /\ tree \in Entries /\ staged \in Entries \cup {None} /\ marker \in Marker
      /\ call \in [Manager -> CallRecord \cup {Idle}]
  BY <1>1 DEF Established, Inv, TypeInv
<1>3. staged' \in Entries /\ staged' # None
      /\ IdentityIn(staged') = IdentityIn(staged)
  <2>1. CASE staged = None
    <3>1. staged' = NoEntries
      BY <2>1 DEF Stage
    <3>2. staged' \in Entries /\ staged'[Database] = None
      BY <3>1, SomeContent DEF Entry
    <3> QED
      BY <2>1, <3>2, NoStaging, Directories
  <2>2. CASE staged # None
    BY <1>2, <2>2, Directories DEF Stage
  <2> QED
    BY <2>1, <2>2
<1> DEFINE r == [call[m] EXCEPT !.at = "move", !.todo = Present(tree)]
<1>4. /\ r \in CallRecord /\ r.at = "move" /\ r.todo = Present(tree)
      /\ r.op = call[m].op /\ r.identity = call[m].identity
  <2>1. Present(tree) \subseteq Entry
    BY <1>2, Directories
  <2> QED
    BY <1>1, <2>1 DEF CallRecord, Label
<1>5. call' = [call EXCEPT ![m] = r]
  BY DEF Stage
<1> HIDE DEF r
<1>6. call' \in [Manager -> CallRecord \cup {Idle}] /\ call'[m] = r
      /\ \A n \in Manager : n # m => call'[n] = call[n]
  BY <1>2, <1>4, <1>5
<1>7. IdentityIn(tree)' = IdentityIn(tree) /\ Present(tree)' = Present(tree)
      /\ IdentityIn(staged)' = IdentityIn(staged)
  BY <1>1, <1>3 DEF IdentityIn, Present
<1>8. Established(m)'
  BY <1>1, <1>3, <1>4, <1>6, <1>7 DEF Established, At
<1>9. TypeInv'
  BY <1>1, <1>2, <1>3, <1>6 DEF TypeInv
<1>10. ResetInv'
  BY <1>1, <1>2, <1>7 DEF Inv, ResetInv, OneLineageInPlace
<1>11. LineageStep
  BY <1>7 DEF LineageStep, CurrentLineage
<1> QED
  BY <1>1, <1>6, <1>8, <1>9, <1>10, <1>11, OneCall DEF Kept, Inv

LEMMA MoveKeeps ==
  ASSUME Inv, NEW m \in Manager, NEW x \in Entry, MoveEntry(m, x)
  PROVE  Kept
<1>1. call[m] # Idle /\ call[m] \in CallRecord /\ Established(m) /\ call[m].at = "move"
  BY InCall DEF Inv, MoveEntry, Label, CallInv, At
<1>2. marker # None /\ tree \in Entries /\ staged \in Entries /\ marker \in Marker
      /\ call \in [Manager -> CallRecord \cup {Idle}]
  BY <1>1 DEF Established, At, Inv, TypeInv
<1>3. CASE Leave(m) /\ UNCHANGED disk
  BY <1>1, <1>3, Ends
<1>4. CASE /\ staged[x] = None
           /\ staged' = [staged EXCEPT ![x] = tree[x]]
           /\ tree' = [tree EXCEPT ![x] = None]
           /\ call' = [call EXCEPT ![m].todo = @ \ {x}]
           /\ UNCHANGED <<marker, lock>>
  <2> DEFINE r == [call[m] EXCEPT !.todo = @ \ {x}]
  <2>1. /\ r \in CallRecord /\ r.at = "move" /\ r.todo = call[m].todo \ {x}
        /\ r.op = call[m].op /\ r.identity = call[m].identity
    BY <1>1 DEF CallRecord
  <2>2. call' = [call EXCEPT ![m] = r]
    BY <1>4
  <2> HIDE DEF r
  <2>3. call' \in [Manager -> CallRecord \cup {Idle}] /\ call'[m] = r
        /\ \A n \in Manager : n # m => call'[n] = call[n]
    BY <1>2, <2>1, <2>2
  <2>4. /\ tree' \in Entries /\ staged' \in Entries /\ staged' # None
        /\ \A y \in Entry : tree'[y] = IF y = x THEN None ELSE tree[y]
        /\ \A y \in Entry : staged'[y] = IF y = x THEN tree[x] ELSE staged[y]
    <3>1. tree' \in Entries /\ staged' \in Entries
      BY <1>2, <1>4 DEF Entries
    <3>2. /\ \A y \in Entry : tree'[y] = IF y = x THEN None ELSE tree[y]
          /\ \A y \in Entry : staged'[y] = IF y = x THEN tree[x] ELSE staged[y]
      BY <1>2, <1>4 DEF Entries
    <3> QED
      BY <3>1, <3>2, Directories
  <2>5. Present(tree') = Present(tree) \ {x}
    BY <1>2, <2>4, Directories
  <2>6. /\ x # Database => IdentityIn(tree') = IdentityIn(tree) /\ IdentityIn(staged') = IdentityIn(staged)
        /\ x = Database => /\ IdentityIn(tree') = None /\ IdentityIn(staged') = IdentityIn(tree)
                           /\ IdentityIn(staged) = None
    <3>1. Database \in Entry
      BY DEF Entry
    <3>2. /\ IdentityIn(tree) = IF tree[Database] # None THEN tree[Database].identity ELSE None
          /\ IdentityIn(staged) = IF staged[Database] # None THEN staged[Database].identity ELSE None
      BY <1>2, Directories
    <3>3. /\ IdentityIn(tree') = IF tree'[Database] # None THEN tree'[Database].identity ELSE None
          /\ IdentityIn(staged') = IF staged'[Database] # None THEN staged'[Database].identity ELSE None
      BY <2>4, Directories
    <3>4. CASE x # Database
      BY <2>4, <3>1, <3>2, <3>3, <3>4
    <3>5. CASE x = Database
      BY <1>4, <2>4, <3>1, <3>2, <3>3, <3>5
    <3> QED
      BY <3>4, <3>5
  <2>7. Established(m)'
    <3>1. /\ call'[m].at = "move" /\ marker' = marker /\ staged' # None
          /\ call'[m].op = call[m].op /\ call'[m].identity = call[m].identity
      BY <1>4, <2>1, <2>3, <2>4
    <3>2. IdentityIn(tree') # marker.identity
      <4>1. IdentityIn(tree) # marker.identity /\ marker.identity \in Identity /\ None \notin Identity
        BY <1>1, <1>2, Directories DEF Established, Marker
      <4> QED
        BY <4>1, <2>6
    <3>3. Present(tree') \subseteq call'[m].todo
      BY <1>1, <2>1, <2>3, <2>5 DEF Established, At
    <3> QED
      BY <1>1, <1>2, <3>1, <3>2, <3>3 DEF Established, At, IdentityIn, Present
  <2>8. TypeInv'
    BY <1>2, <1>4, <2>3, <2>4 DEF TypeInv
  <2>9. IdentityIn(tree) # marker.identity
    BY <1>1 DEF Established
  <2>10. ResetInv'
    <3>1. CASE x = Database
      BY <1>2, <1>4, <2>4, <2>6, <2>9, <3>1 DEF Inv, ResetInv, OneLineageInPlace, Entry
    <3>2. CASE x # Database
      BY <1>2, <1>4, <2>4, <2>6, <3>2 DEF Inv, ResetInv, OneLineageInPlace, Entry
    <3> QED
      BY <3>1, <3>2
  <2>11. LineageStep
    BY <2>6, Directories, <1>2 DEF LineageStep, CurrentLineage
  <2> QED
    BY <1>1, <1>4, <2>3, <2>7, <2>8, <2>10, <2>11, OneCall DEF Kept, Inv
<1> QED
  BY <1>3, <1>4 DEF MoveEntry

LEMMA MarkMovedKeeps ==
  ASSUME Inv, NEW m \in Manager, MarkMoved(m)
  PROVE  Kept
<1>1. call[m] # Idle /\ Established(m) /\ call[m].at = "move" /\ call[m].todo = {}
      /\ Go(m, "initialize") /\ UNCHANGED <<tree, staged>> /\ "initialize" \in Label
  BY InCall DEF Inv, MarkMoved, Label, CallInv, At
<1>2. marker # None /\ marker \in Marker /\ tree \in Entries
  BY <1>1 DEF Established, Inv, TypeInv
<1>3. marker' \in Marker /\ marker'.identity = marker.identity
  BY <1>2 DEF MarkMoved, Marker
<1>4. None \notin Marker
  BY NoneAssumption
<1>5. /\ call' \in [Manager -> CallRecord \cup {Idle}] /\ lock' = lock
      /\ call'[m].at = "initialize" /\ call'[m].op = call[m].op
      /\ call'[m].identity = call[m].identity
      /\ \A n \in Manager : n # m => call'[n] = call[n]
  BY <1>1, Going DEF Inv
<1>6. Present(tree) = {}
  BY <1>1 DEF Established, At
<1>7. IdentityIn(tree)' = IdentityIn(tree) /\ Present(tree)' = Present(tree)
      /\ IdentityIn(staged)' = IdentityIn(staged)
  BY <1>1 DEF IdentityIn, Present
<1>8. Established(m)'
  BY <1>1, <1>3, <1>4, <1>5, <1>6, <1>7 DEF Established, At
<1>9. TypeInv'
  BY <1>1, <1>3, <1>5 DEF TypeInv, Inv
<1>10. ResetInv'
  BY <1>1, <1>2, <1>3, <1>4, <1>7 DEF Inv, ResetInv, OneLineageInPlace
<1>11. LineageStep
  BY <1>7 DEF LineageStep, CurrentLineage
<1> QED
  BY <1>1, <1>5, <1>8, <1>9, <1>10, <1>11, OneCall DEF Kept, Inv

LEMMA MarkInitializedKeeps ==
  ASSUME Inv, NEW m \in Manager, MarkInitialized(m)
  PROVE  Kept
<1>1. call[m] # Idle /\ Established(m) /\ call[m].at = "initialized"
      /\ Go(m, "discard") /\ UNCHANGED <<tree, staged>> /\ "discard" \in Label
  BY InCall DEF Inv, MarkInitialized, Label, CallInv, At
<1>2. marker # None /\ marker \in Marker
  BY <1>1 DEF Established, Inv, TypeInv
<1>3. marker' \in Marker /\ marker'.identity = marker.identity
  BY <1>2 DEF MarkInitialized, Marker
<1>4. None \notin Marker
  BY NoneAssumption
<1>5. /\ call' \in [Manager -> CallRecord \cup {Idle}] /\ lock' = lock
      /\ call'[m].at = "discard" /\ call'[m].op = call[m].op
      /\ call'[m].identity = call[m].identity
      /\ \A n \in Manager : n # m => call'[n] = call[n]
  BY <1>1, Going DEF Inv
<1>6. IdentityIn(tree)' = IdentityIn(tree) /\ IdentityIn(staged)' = IdentityIn(staged)
  BY <1>1 DEF IdentityIn, Present
<1>7. Established(m)'
  BY <1>1, <1>3, <1>4, <1>5, <1>6 DEF Established, At
<1>8. TypeInv'
  BY <1>1, <1>3, <1>5 DEF TypeInv, Inv
<1>9. ResetInv'
  BY <1>1, <1>2, <1>3, <1>4, <1>6 DEF Inv, ResetInv, OneLineageInPlace
<1>10. LineageStep
  BY <1>6 DEF LineageStep, CurrentLineage
<1> QED
  BY <1>1, <1>5, <1>7, <1>8, <1>9, <1>10, OneCall DEF Kept, Inv

\* The database is replaced, with an identity or without.
Replaced(t, u, content) ==
  /\ u \in Entries
  /\ u[Database] = content
  /\ \A f \in File : u[f] = t[f]
  /\ IdentityIn(u) = content.identity

LEMMA Replacing ==
  ASSUME NEW t \in Entries, NEW content \in Content
  PROVE  Replaced(t, [t EXCEPT ![Database] = content], content)
<1> DEFINE u == [t EXCEPT ![Database] = content]
<1>1. u \in Entries /\ u[Database] = content /\ \A f \in File : u[f] = t[f]
  BY RuntimeDirectoryAssumption DEF Entries, Entry
<1>2. content # None
  BY NoneAssumption
<1> HIDE DEF u
<1>3. IdentityIn(u) = content.identity
  BY <1>1, <1>2, Directories
<1> QED
  BY <1>1, <1>3 DEF Replaced, u

LEMMA CreateSchemaKeeps ==
  ASSUME Inv, NEW m \in Manager, CreateSchema(m)
  PROVE  Kept
<1>1. call[m] # Idle /\ Established(m) /\ call[m].at = "initialize"
      /\ Go(m, "identify") /\ UNCHANGED <<staged, marker>> /\ "identify" \in Label
  BY InCall DEF Inv, CreateSchema, Label, CallInv, At
<1>2. tree \in Entries /\ staged \in Entries \cup {None}
  BY DEF Inv, TypeInv
<1>3. \A x \in Entry : tree[x] = None
  BY <1>1, <1>2, Directories DEF Established, At
<1>4. IdentityIn(tree) = None
  BY <1>2, <1>3, Directories DEF Entry
<1>5. /\ call' \in [Manager -> CallRecord \cup {Idle}] /\ lock' = lock
      /\ call'[m].at = "identify" /\ call'[m].op = call[m].op
      /\ call'[m].identity = call[m].identity
      /\ \A n \in Manager : n # m => call'[n] = call[n]
  BY <1>1, Going DEF Inv
<1>6. Replaced(tree, tree', Uninitialized)
  BY <1>2, Replacing, SomeContent DEF CreateSchema
<1>7. /\ tree' \in Entries /\ tree'[Database] # None /\ ~tree'[Database].leased
      /\ IdentityIn(tree') = None /\ \A f \in File : tree'[f] = None
  BY <1>3, <1>6, SomeContent DEF Replaced, Entry
<1>8. Established(m)'
  <2>1. IdentityIn(tree)' = None
    BY <1>7 DEF IdentityIn, Present
  <2> QED
    BY <1>1, <1>5, <1>7, <2>1 DEF Established, At
<1>9. TypeInv'
  BY <1>1, <1>5, <1>7 DEF TypeInv, Inv
<1>10. ResetInv'
  BY <1>1, <1>3, <1>4, <1>7 DEF Inv, ResetInv, OneLineageInPlace
<1>11. LineageStep
  BY <1>1, <1>4, <1>7 DEF LineageStep, CurrentLineage
<1> QED
  BY <1>1, <1>5, <1>8, <1>9, <1>10, <1>11, OneCall DEF Kept, Inv

LEMMA CommitIdentityKeeps ==
  ASSUME Inv, NEW m \in Manager, CommitIdentity(m)
  PROVE  Kept
<1>1. call[m] # Idle /\ Established(m) /\ call[m].at = "identify" /\ UNCHANGED <<staged, marker>>
  BY InCall DEF Inv, CommitIdentity, Label, CallInv, At
<1>2. tree \in Entries /\ staged \in Entries \cup {None} /\ marker \in Marker \cup {None}
  BY DEF Inv, TypeInv
<1>3. IdentityIn(tree) = None /\ \A f \in File : tree[f] = None
  BY <1>1 DEF Established, At
<1>4. None \notin Identity
  BY NoneAssumption
<1>5. ASSUME NEW i \in Identity, tree' = [tree EXCEPT ![Database] = Holding(i)]
      PROVE  /\ tree' \in Entries /\ IdentityIn(tree') = i /\ ~tree'[Database].leased
             /\ \A f \in File : tree'[f] = None
  <2>1. Holding(i) \in Content /\ Holding(i).identity = i /\ ~Holding(i).leased
    BY SomeContent
  <2>2. Replaced(tree, tree', Holding(i))
    BY <1>2, <1>5, <2>1, Replacing
  <2> QED
    BY <1>3, <2>1, <2>2 DEF Replaced
<1>6. CASE /\ marker = None
           /\ tree' = [tree EXCEPT ![Database] = Holding(call[m].identity)]
           /\ Leave(m)
  <2>1. call[m].identity \in Identity
    BY <1>1, <1>6 DEF Established
  <2>2. /\ tree' \in Entries /\ IdentityIn(tree') = call[m].identity /\ ~tree'[Database].leased
        /\ \A f \in File : tree'[f] = None
    BY <1>5, <1>6, <2>1
  <2>3. CallInv' /\ call' \in [Manager -> CallRecord \cup {Idle}]
    BY <1>1, <1>6, Leaving DEF Inv
  <2>4. TypeInv'
    BY <1>1, <1>2, <2>2, <2>3 DEF TypeInv
  <2>5. ResetInv'
    BY <1>1, <1>4, <1>6, <2>1, <2>2 DEF Inv, ResetInv, OneLineageInPlace
  <2>6. CurrentLineage = None /\ CurrentLineage' = call[m].identity
    BY <1>1, <1>3, <1>4, <1>6, <2>1, <2>2, NoStaging DEF CurrentLineage, Inv, ResetInv
  <2>7. call[m].identity \in Lineage!Identity
    BY <2>1, RuntimeDirectoryAssumption DEF Identity, Lineage!Identity
  <2>8. LineageStep
    BY <2>6, <2>7 DEF LineageStep, Lineage!Create
  <2> QED
    BY <2>3, <2>4, <2>5, <2>8 DEF Kept, Inv
<1>7. CASE /\ marker # None
           /\ tree' = [tree EXCEPT ![Database] = Holding(marker.identity)]
           /\ Go(m, "initialized")
  <2>1. marker.identity \in Identity
    BY <1>2, <1>7 DEF Marker
  <2>2. /\ tree' \in Entries /\ IdentityIn(tree') = marker.identity /\ ~tree'[Database].leased
        /\ \A f \in File : tree'[f] = None
    BY <1>5, <1>7, <2>1
  <2>3. /\ call' \in [Manager -> CallRecord \cup {Idle}] /\ lock' = lock
        /\ call'[m].at = "initialized" /\ call'[m].op = call[m].op
        /\ call'[m].identity = call[m].identity
        /\ \A n \in Manager : n # m => call'[n] = call[n]
    BY <1>1, <1>7, Going DEF Inv, Label
  <2>4. Established(m)'
    <3>1. IdentityIn(tree)' = marker'.identity
      BY <1>1, <2>2 DEF IdentityIn, Present
    <3> QED
      BY <1>1, <1>7, <2>3, <3>1 DEF Established, At
  <2>5. TypeInv'
    BY <1>1, <1>2, <2>2, <2>3 DEF TypeInv
  <2>6. ResetInv'
    BY <1>1, <1>4, <1>7, <2>1, <2>2 DEF Inv, ResetInv, OneLineageInPlace
  <2>7. /\ CurrentLineage = IdentityIn(staged) /\ CurrentLineage # None
        /\ CurrentLineage' = marker.identity /\ Succeeds(marker.identity, CurrentLineage)
    BY <1>1, <1>3, <1>4, <1>7, <2>1, <2>2 DEF CurrentLineage, Inv, ResetInv
  <2>8. marker.identity \in Lineage!Identity
    BY <2>1, RuntimeDirectoryAssumption DEF Identity, Lineage!Identity
  <2>9. LineageStep
    BY <2>7, <2>8 DEF LineageStep, Lineage!Rerun, Succeeds
  <2> QED
    BY <1>1, <2>3, <2>4, <2>5, <2>6, <2>9, OneCall DEF Kept, Inv
<1> QED
  BY <1>6, <1>7 DEF CommitIdentity

LEMMA DiscardKeeps ==
  ASSUME Inv, NEW m \in Manager, DiscardStaged(m)
  PROVE  Kept
<1>1. call[m] # Idle /\ Established(m) /\ call[m].at = "discard" /\ UNCHANGED <<tree, marker>>
  BY InCall DEF Inv, DiscardStaged, Label, CallInv, At
<1>2. marker # None /\ IdentityIn(tree) = marker.identity /\ marker \in Marker
      /\ tree \in Entries /\ staged \in Entries \cup {None}
      /\ call \in [Manager -> CallRecord \cup {Idle}]
  BY <1>1 DEF Established, Inv, TypeInv
<1>3. marker.identity \in Identity /\ None \notin Identity
  BY <1>2, NoneAssumption DEF Marker
<1>4. IdentityIn(tree)' = IdentityIn(tree)
  BY <1>1 DEF IdentityIn, Present
<1>5. ResetInv'
  BY <1>1, <1>2, <1>3, <1>4 DEF Inv, ResetInv, OneLineageInPlace
<1>6. LineageStep
  BY <1>2, <1>3, <1>4 DEF LineageStep, CurrentLineage
<1>7. CASE /\ \E x \in Present(staged) : staged' = [staged EXCEPT ![x] = None]
           /\ UNCHANGED <<lock, call>>
  <2>1. staged \in Entries
    BY <1>2, <1>7, NoStaging
  <2>2. staged' \in Entries
    BY <1>7, <2>1 DEF Entries
  <2>3. TypeInv'
    BY <1>1, <1>2, <1>7, <2>2 DEF TypeInv
  <2>4. Established(m)'
    BY <1>1, <1>4, <1>7 DEF Established, At
  <2> QED
    BY <1>1, <1>5, <1>6, <1>7, <2>3, <2>4, OneCall DEF Kept, Inv
<1>8. CASE Present(staged) = {} /\ staged' = None /\ Go(m, "unlink")
  <2>1. /\ call' \in [Manager -> CallRecord \cup {Idle}] /\ lock' = lock
        /\ call'[m].at = "unlink" /\ call'[m].op = call[m].op
        /\ call'[m].identity = call[m].identity
        /\ \A n \in Manager : n # m => call'[n] = call[n]
    BY <1>1, <1>8, Going DEF Inv, Label
  <2>2. TypeInv'
    BY <1>1, <1>2, <1>8, <2>1 DEF TypeInv
  <2>3. Established(m)'
    BY <1>1, <1>2, <1>4, <1>8, <2>1 DEF Established, At
  <2> QED
    BY <1>1, <1>5, <1>6, <2>1, <2>2, <2>3, OneCall DEF Kept, Inv
<1> QED
  BY <1>7, <1>8 DEF DiscardStaged

LEMMA UnlinkKeeps ==
  ASSUME Inv, NEW m \in Manager, UnlinkMarker(m)
  PROVE  Kept
<1>1. call[m] # Idle /\ call[m] \in CallRecord /\ Established(m) /\ call[m].at = "unlink"
      /\ marker' = None /\ UNCHANGED <<tree, staged>>
  BY InCall DEF Inv, UnlinkMarker, Label, CallInv, At
<1>2. marker # None /\ IdentityIn(tree) = marker.identity /\ marker \in Marker /\ staged = None
  BY <1>1 DEF Established, Inv, TypeInv, At
<1>3. IdentityIn(tree) # None
  BY <1>2, NoneAssumption DEF Marker
<1>4. IdentityIn(tree)' = IdentityIn(tree)
  BY <1>1 DEF IdentityIn, Present
<1>5. ResetInv'
  BY <1>1, <1>2, <1>3, <1>4 DEF Inv, ResetInv, OneLineageInPlace
<1>6. LineageStep
  BY <1>3, <1>4 DEF LineageStep, CurrentLineage
<1>7. ASSUME call' \in [Manager -> CallRecord \cup {Idle}] PROVE TypeInv'
  BY <1>1, <1>2, <1>7 DEF TypeInv, Inv
<1>8. CASE Leave(m)
  BY <1>1, <1>5, <1>6, <1>7, <1>8, Leaving DEF Kept, Inv
<1>9. CASE call[m].op # "recover" /\ Go(m, call[m].op)
  <2>1. call[m].op \in {"create", "continue", "rerun"} /\ call[m].op \in Label
    BY <1>1, <1>9 DEF CallRecord, Label
  <2>2. /\ call' \in [Manager -> CallRecord \cup {Idle}] /\ lock' = lock
        /\ call'[m].at = call[m].op /\ call'[m].op = call[m].op
        /\ call'[m].identity = call[m].identity
        /\ \A n \in Manager : n # m => call'[n] = call[n]
    BY <1>1, <1>9, <2>1, Going DEF Inv
  <2>3. Established(m)'
    BY <1>1, <2>1, <2>2 DEF Established, At
  <2> QED
    BY <1>1, <1>5, <1>6, <1>7, <2>2, <2>3, OneCall DEF Kept, Inv
<1> QED
  BY <1>8, <1>9 DEF UnlinkMarker

LEMMA CheckEmptyKeeps ==
  ASSUME Inv, NEW m \in Manager, CheckEmpty(m)
  PROVE  Kept
<1>1. call[m] # Idle /\ Established(m) /\ call[m].at = "create" /\ UNCHANGED disk
  BY InCall DEF Inv, CheckEmpty, Label, CallInv, At
<1>2. CASE Present(tree) = {} /\ Go(m, "initialize")
  <2>1. /\ call'[m].at = "initialize" /\ call'[m].op = call[m].op
        /\ call'[m].identity = call[m].identity
    BY <1>1, <1>2, Going DEF Inv, Label
  <2>2. Present(tree)' = {}
    BY <1>1, <1>2 DEF disk, Present
  <2>3. Established(m)'
    BY <1>1, <2>1, <2>2 DEF Established, At, disk
  <2> QED
    BY <1>1, <1>2, <2>3, GoesOn DEF Label
<1>3. CASE Leave(m)
  BY <1>1, <1>3, Ends
<1> QED
  BY <1>2, <1>3 DEF CheckEmpty

\* Opening a database that is not there makes one without an identity.
LEMMA OpenKeeps ==
  ASSUME Inv, NEW m \in Manager, call[m] # Idle, marker = None, Leave(m),
         tree[Database] = None, tree' = [tree EXCEPT ![Database] = Uninitialized],
         UNCHANGED <<staged, marker>>
  PROVE  Kept
<1>1. tree \in Entries
  BY DEF Inv, TypeInv
<1>2. IdentityIn(tree) = None
  BY <1>1, Directories
<1>3. Replaced(tree, tree', Uninitialized)
  BY <1>1, Replacing, SomeContent
<1>4. /\ tree' \in Entries /\ IdentityIn(tree') = None /\ ~tree'[Database].leased
      /\ \A f \in File : tree'[f] = tree[f]
  BY <1>3, SomeContent DEF Replaced
<1>5. CallInv' /\ call' \in [Manager -> CallRecord \cup {Idle}]
  BY Leaving DEF Inv
<1>6. TypeInv'
  BY <1>4, <1>5 DEF TypeInv, Inv
<1>7. ResetInv'
  BY <1>2, <1>4 DEF Inv, ResetInv, OneLineageInPlace
<1>8. LineageStep
  BY <1>2, <1>4 DEF LineageStep, CurrentLineage
<1> QED
  BY <1>5, <1>6, <1>7, <1>8 DEF Kept, Inv

LEMMA ContinueKeeps ==
  ASSUME Inv, NEW m \in Manager, Continue(m)
  PROVE  Kept
<1>1. call[m] # Idle /\ Established(m) /\ call[m].at = "continue"
  BY InCall DEF Inv, Continue, Label, CallInv, At
<1>2. marker = None /\ OpenStore(m, Leave(m))
  BY <1>1 DEF Established, Continue
<1> QED
  BY <1>1, <1>2, OpenKeeps, Ends DEF OpenStore

LEMMA OpenCurrentKeeps ==
  ASSUME Inv, NEW m \in Manager, OpenCurrent(m)
  PROVE  Kept
<1>1. call[m] # Idle /\ Established(m) /\ call[m].at = "rerun"
  BY InCall DEF Inv, OpenCurrent, Label, CallInv, At
<1>2. marker = None /\ OpenStore(m, Go(m, "check"))
  BY <1>1 DEF Established, OpenCurrent
<1>3. CASE Answers(call[m].expected) /\ Go(m, "check") /\ UNCHANGED disk
  <2>1. /\ call'[m].at = "check" /\ call'[m].op = call[m].op
        /\ call'[m].identity = call[m].identity
    BY <1>1, <1>3, Going DEF Inv, Label
  <2>2. IdentityIn(tree)' # None
    BY <1>3 DEF Answers, disk, IdentityIn, Present
  <2>3. Established(m)'
    BY <1>1, <1>2, <1>3, <2>1, <2>2 DEF Established, At, disk
  <2> QED
    BY <1>1, <1>3, <2>3, GoesOn DEF Label
<1> QED
  BY <1>1, <1>2, <1>3, OpenKeeps, Ends DEF OpenStore

LEMMA CheckRerunKeeps ==
  ASSUME Inv, NEW m \in Manager, CheckRerun(m)
  PROVE  Kept
<1>1. call[m] # Idle /\ Established(m) /\ call[m].at = "check" /\ UNCHANGED disk
  BY InCall DEF Inv, CheckRerun, Label, CallInv, At
<1>2. CASE Succeeds(call[m].identity, IdentityIn(tree)) /\ Go(m, "prepare")
  <2>1. /\ call'[m].at = "prepare" /\ call'[m].op = call[m].op
        /\ call'[m].identity = call[m].identity
    BY <1>1, <1>2, Going DEF Inv, Label
  <2>2. IdentityIn(tree)' = IdentityIn(tree)
    BY <1>1 DEF disk, IdentityIn, Present
  <2>3. Established(m)'
    BY <1>1, <1>2, <2>1, <2>2 DEF Established, At, disk
  <2> QED
    BY <1>1, <1>2, <2>3, GoesOn DEF Label
<1>3. CASE Leave(m)
  BY <1>1, <1>3, Ends
<1> QED
  BY <1>2, <1>3 DEF CheckRerun

LEMMA PrepareKeeps ==
  ASSUME Inv, NEW m \in Manager, PrepareReset(m)
  PROVE  Kept
<1>1. /\ call[m] # Idle /\ call[m] \in CallRecord /\ Established(m) /\ call[m].at = "prepare"
      /\ UNCHANGED <<tree, staged, lock>>
  BY InCall DEF Inv, PrepareReset, Label, CallInv, At
<1>2. /\ call[m].identity \in Identity /\ marker = None /\ IdentityIn(tree) # None
      /\ Succeeds(call[m].identity, IdentityIn(tree))
  BY <1>1 DEF Established, At
<1>3. marker' \in Marker /\ marker'.identity = call[m].identity
  BY <1>2 DEF PrepareReset, Marker
<1>4. None \notin Marker
  BY NoneAssumption
<1> DEFINE r == [call[m] EXCEPT !.at = "inspect", !.own = TRUE]
<1>5. r \in CallRecord /\ r.at = "inspect" /\ r.op = call[m].op /\ r.identity = call[m].identity
  BY <1>1 DEF CallRecord, Label
<1>6. call' = [call EXCEPT ![m] = r] /\ call \in [Manager -> CallRecord \cup {Idle}]
  BY DEF PrepareReset, Inv, TypeInv
<1> HIDE DEF r
<1>7. /\ call' \in [Manager -> CallRecord \cup {Idle}] /\ call'[m] = r
      /\ \A n \in Manager : n # m => call'[n] = call[n]
  BY <1>5, <1>6
<1>8. IdentityIn(tree)' = IdentityIn(tree) /\ IdentityIn(staged)' = IdentityIn(staged)
  BY <1>1 DEF IdentityIn, Present
<1>9. Established(m)'
  BY <1>1, <1>3, <1>4, <1>5, <1>7 DEF Established, At
<1>10. TypeInv'
  BY <1>1, <1>3, <1>7 DEF TypeInv, Inv
<1>11. ResetInv'
  BY <1>1, <1>2, <1>3, <1>4, <1>8 DEF Inv, ResetInv, OneLineageInPlace
<1>12. LineageStep
  BY <1>8 DEF LineageStep, CurrentLineage
<1> QED
  BY <1>1, <1>7, <1>9, <1>10, <1>11, <1>12, OneCall DEF Kept, Inv

-----------------------------------------------------------------------------
(* Steps of back ends.                                                      *)

\* What a call has established does not depend on what back ends change: the
\* lease, or files while no reset is pending.
LEMMA OtherFiles ==
  ASSUME Inv, UNCHANGED <<staged, marker, lock, call>>, tree' \in Entries,
         IdentityIn(tree') = IdentityIn(tree), tree[Database] # None, tree'[Database] # None,
         \/ \A f \in File : tree'[f] = tree[f]
         \/ marker = None /\ IdentityIn(tree) # None,
         OneLineageInPlace', tree'[Database].leased => IdentityIn(tree') # None
  PROVE  Kept
<1>1. tree \in Entries /\ None \notin Identity
  BY NoneAssumption DEF Inv, TypeInv
<1>2. IdentityIn(tree)' = IdentityIn(tree) /\ IdentityIn(staged)' = IdentityIn(staged)
  BY DEF IdentityIn, Present
<1>3. TypeInv'
  BY DEF TypeInv, Inv
<1>4. ResetInv'
  BY <1>2 DEF Inv, ResetInv
<1>5. ASSUME NEW m \in Manager, call[m] # Idle
      PROVE  Established(m)'
  <2>1. Established(m)
    BY <1>5 DEF Inv, CallInv
  <2>2. Database \in Present(tree)
    BY <1>1, Directories DEF Entry
  <2>3. ~At(m, "initialize")
    BY <2>1, <2>2 DEF Established
  <2>4. At(m, "move") => Present(tree') \subseteq call[m].todo
    <3>1. CASE marker = None
      BY <2>1, <3>1 DEF Established, At
    <3>2. CASE \A f \in File : tree'[f] = tree[f]
      <4>1. /\ Present(tree) = {x \in Entry : tree[x] # None}
            /\ Present(tree') = {x \in Entry : tree'[x] # None}
        BY <1>1, Directories
      <4>2. \A x \in Entry : tree'[x] = None <=> tree[x] = None
        BY <3>2 DEF Entry
      <4> QED
        BY <2>1, <4>1, <4>2 DEF Established
    <3> QED
      BY <3>1, <3>2
  <2>5. At(m, "identify") => \A f \in File : tree'[f] = None
    BY <2>1 DEF Established
  <2> QED
    BY <1>2, <2>1, <2>3, <2>4, <2>5 DEF Established, At, Present
<1>6. CallInv'
  BY <1>5 DEF Inv, CallInv
<1>7. LineageStep
  BY <1>2 DEF LineageStep, CurrentLineage
<1> QED
  BY <1>3, <1>4, <1>6, <1>7 DEF Kept, Inv

LEMMA LeaseKeeps ==
  ASSUME Inv, NEW leased \in BOOLEAN, SetLease(leased)
  PROVE  Kept
<1>1. /\ tree \in Entries /\ IdentityIn(tree) # None
      /\ tree' = [tree EXCEPT ![Database] = [tree[Database] EXCEPT !.leased = leased]]
      /\ UNCHANGED <<staged, marker, lock, call>>
  BY DEF Inv, TypeInv, SetLease
<1>2. tree[Database] # None /\ tree[Database] \in Content /\ IdentityIn(tree) = tree[Database].identity
  BY <1>1, Directories DEF Entry
<1> DEFINE c == [tree[Database] EXCEPT !.leased = leased]
<1>3. c \in Content /\ c.identity = tree[Database].identity
  BY <1>2 DEF Content
<1>4. c # None
  BY <1>3, NoneAssumption
<1> HIDE DEF c
<1>5. Replaced(tree, tree', c)
  BY <1>1, <1>3, Replacing DEF c
<1>6. /\ tree' \in Entries /\ IdentityIn(tree') = IdentityIn(tree) /\ tree'[Database] # None
      /\ \A f \in File : tree'[f] = tree[f]
  BY <1>2, <1>3, <1>4, <1>5 DEF Replaced
<1>7. OneLineageInPlace'
  BY <1>6 DEF Inv, ResetInv, OneLineageInPlace
<1> QED
  BY <1>1, <1>2, <1>6, <1>7, OtherFiles

\* Files are written by the holder of a lease, so before any reset.
LEMMA WriteKeeps ==
  ASSUME Inv, SessionsInTime, NEW f \in File, WriteFile(f)
  PROVE  Kept
<1>1. /\ tree \in Entries /\ tree[Database] # None /\ tree[Database].leased
      /\ tree' = [tree EXCEPT ![f] = Holding(IdentityIn(tree))]
      /\ UNCHANGED <<staged, marker, lock, call>>
  BY DEF Inv, TypeInv, WriteFile
<1>2. IdentityIn(tree) # None
  BY <1>1 DEF Inv, ResetInv
<1>3. marker = None
  BY <1>1, <1>2 DEF SessionsInTime, PastLeaseCheck
<1>4. Holding(IdentityIn(tree)) \in Content /\ Holding(IdentityIn(tree)).identity = IdentityIn(tree)
  BY <1>1, Directories, SomeContent
<1>5. /\ tree' \in Entries /\ tree'[Database] = tree[Database]
      /\ \A g \in File : tree'[g] = IF g = f THEN Holding(IdentityIn(tree)) ELSE tree[g]
  BY <1>1, <1>4, RuntimeDirectoryAssumption DEF Entries, Entry
<1>6. IdentityIn(tree') = IdentityIn(tree)
  BY <1>1, <1>5, Directories
<1>7. OneLineageInPlace'
  BY <1>4, <1>5, <1>6 DEF Inv, ResetInv, OneLineageInPlace
<1> QED
  BY <1>1, <1>2, <1>3, <1>5, <1>6, <1>7, OtherFiles

-----------------------------------------------------------------------------
(* The invariant, and what follows.                                         *)

LEMMA InitHolds == Init => Inv /\ Lineage!LineageInit
<1> SUFFICES ASSUME Init PROVE Inv /\ Lineage!LineageInit
  OBVIOUS
<1>1. /\ tree \in Entries /\ \A x \in Entry : tree[x] = None
      /\ staged = None /\ marker = None /\ \A m \in Manager : call[m] = Idle
  BY SomeContent DEF Init
<1>2. tree[Database] = None /\ IdentityIn(tree) = None /\ \A f \in File : tree[f] = None
  BY <1>1, Directories DEF Entry
<1>3. TypeInv
  BY <1>1 DEF Init, TypeInv
<1>4. ResetInv
  BY <1>1, <1>2 DEF ResetInv, OneLineageInPlace
<1>5. CallInv
  BY <1>1 DEF CallInv
<1>6. CurrentLineage = None
  BY <1>1, <1>2, NoStaging DEF CurrentLineage
<1> QED
  BY <1>3, <1>4, <1>5, <1>6 DEF Inv, Lineage!LineageInit

LEMMA NextKeeps == Inv /\ SessionsInTime /\ [Next]_vars => Kept
<1> SUFFICES ASSUME Inv, SessionsInTime, [Next]_vars PROVE Kept
  OBVIOUS
<1>1. CASE UNCHANGED vars
  <2>1. UNCHANGED disk /\ UNCHANGED <<lock, call>>
    BY <1>1 DEF vars, disk
  <2>2. TypeInv' /\ ResetInv' /\ LineageStep
    BY <2>1, SameFiles DEF Inv, TypeInv
  <2>3. CallInv'
    BY <2>1 DEF Inv, CallInv, Established, At, disk, IdentityIn, Present
  <2> QED
    BY <2>2, <2>3 DEF Kept, Inv
<1>2. CASE BackendStep
  BY <1>2, LeaseKeeps, WriteKeeps DEF BackendStep, AcquireSession, EndSession
<1>3. ASSUME NEW m \in Manager, Call(m) PROVE Kept
  BY <1>3, BeginKeeps
<1>4. ASSUME NEW m \in Manager, Crash(m) PROVE Kept
  BY <1>4, Ends DEF Crash
<1>5. ASSUME NEW m \in Manager, Step(m) PROVE Kept
  BY <1>5, RecoverKeeps, InspectKeeps, StageKeeps, MoveKeeps, MarkMovedKeeps,
     CreateSchemaKeeps, CommitIdentityKeeps, MarkInitializedKeeps, DiscardKeeps,
     UnlinkKeeps, CheckEmptyKeeps, ContinueKeeps, OpenCurrentKeeps, CheckRerunKeeps,
     PrepareKeeps DEF Step
<1> QED
  BY <1>1, <1>2, <1>3, <1>4, <1>5 DEF Next

LEMMA Invariance == Spec /\ []SessionsInTime => []Inv
<1>1. Init => Inv
  BY InitHolds
<1>2. Inv /\ SessionsInTime /\ [Next]_vars => Inv'
  BY NextKeeps DEF Kept
<1> QED
  BY <1>1, <1>2, PTL DEF Spec

\* As long as no session is acquired past the lease check of a rerun, nothing
\* of an abandoned lineage lies beside an initialized database, wherever
\* operations died.
THEOREM OldLineageIsGone == Spec /\ []SessionsInTime => []OneLineageInPlace
<1>1. Inv => OneLineageInPlace
  BY DEF Inv, ResetInv
<1> QED
  BY <1>1, Invariance, PTL

\* The marker of a reset is unlinked only when the reset is complete.
THEOREM ResetsAreFinished == Spec /\ []SessionsInTime => ResetNotDropped
<1>1. Inv /\ [Next]_vars =>
        [marker # None /\ marker' = None =>
           IdentityIn(tree) = marker.identity /\ staged = None]_vars
  <2> SUFFICES ASSUME Inv, Next, marker # None, marker' = None
               PROVE  IdentityIn(tree) = marker.identity /\ staged = None
    BY DEF ResetNotDropped
  <2>1. ASSUME NEW m \in Manager, UnlinkMarker(m)
        PROVE  IdentityIn(tree) = marker.identity /\ staged = None
    <3>1. Established(m) /\ call[m].at = "unlink"
      BY <2>1, InCall DEF Inv, UnlinkMarker, Label, CallInv, At
    <3> QED
      BY <3>1 DEF Established, At
  <2>2. ~BackendStep
    BY DEF BackendStep, AcquireSession, EndSession, SetLease, WriteFile
  <2>3. ASSUME NEW m \in Manager PROVE ~Call(m) /\ ~Crash(m)
    BY DEF Call, Begin, Crash, disk
  <2>4. ASSUME NEW m \in Manager, MarkMoved(m) \/ MarkInitialized(m) \/ PrepareReset(m) PROVE FALSE
    <3>1. marker' \in Marker
      <4>1. marker \in Marker
        BY DEF Inv, TypeInv
      <4>2. CASE MarkMoved(m) \/ MarkInitialized(m)
        BY <4>1, <4>2 DEF MarkMoved, MarkInitialized, Marker
      <4>3. CASE PrepareReset(m)
        <5>1. Established(m) /\ call[m].at = "prepare"
          BY <4>3, InCall DEF Inv, PrepareReset, Label, CallInv, At
        <5> QED
          BY <5>1 DEF Established
      <4> QED
        BY <2>4, <4>2, <4>3
    <3> QED
      BY <3>1, NoneAssumption
  <2>5. ASSUME NEW m \in Manager, Step(m), ~UnlinkMarker(m) PROVE FALSE
    BY <2>4, <2>5 DEF Step, RecoverPendingReset, Inspect, Stage, MoveEntry, CreateSchema,
       CommitIdentity, DiscardStaged, CheckEmpty, Continue, OpenCurrent, OpenStore,
       CheckRerun, disk
  <2> QED
    BY <2>1, <2>2, <2>3, <2>5 DEF Next
<1> QED
  BY <1>1, Invariance, PTL DEF Spec, ResetNotDropped

\* Reruns are atomic: the directory manager implements RuntimeLineage, with
\* deaths between any two file operations and recovery by anyone.
THEOREM RerunsAreAtomicReplacements == Spec /\ []SessionsInTime => RerunsAreAtomic
<1>1. Init => Lineage!LineageInit
  BY InitHolds
<1>2. Inv /\ SessionsInTime /\ [Next]_vars => [Lineage!Create \/ Lineage!Rerun]_CurrentLineage
  BY NextKeeps DEF Kept, LineageStep
<1> QED
  BY <1>1, <1>2, Invariance, PTL DEF Spec, RerunsAreAtomic, Lineage!LineageSpec
=============================================================================
