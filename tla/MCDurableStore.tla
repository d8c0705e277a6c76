--------------------------- MODULE MCDurableStore ---------------------------
(***************************************************************************)
(* TLC instances of DurableStore.  The journal is part of the state, so    *)
(* the calls that only lengthen it are bounded one kind at a time.         *)
(***************************************************************************)
EXTENDS DurableStore, TLC

CONSTANTS
  MaxObservations, \* bound on events appended through append()
  MaxRenewals,     \* bound on lease renewals
  MaxAttempts,     \* bound on attempts of one process
  DeclareFirst,    \* whether processes are declared before anything else
  ConsistentIds    \* whether callers only name executions that were begun

Occurrences(kind, status) ==
  Cardinality({i \in DOMAIN events : events[i].kind = kind /\ events[i].status = status})

BriefCallers ==
  /\ Occurrences("progress", "running") <= MaxObservations
  /\ Occurrences("session", "renewed") <= MaxRenewals
  /\ \A p \in Process : Cardinality(Ordinals(p)) <= MaxAttempts
  /\ DeclareFirst => \A p \in Process : specs[p] # None \/ (events = <<>> /\ clock = 0)
  /\ ConsistentIds => Reducible(events)

\* While sessions compete for the lease one wave of one process runs, is not
\* retried and is not observed, and a wave without a session meets one session
\* at most; without sessions, waves, retries, commands and observations
\* interleave, up to a journal of one event more than MaxWaveEvents.
MaxWaveEvents == 6

OneStoryAtATime ==
  IF clock > 0 \/ DOMAIN sessions # {}
  THEN /\ Cardinality(DOMAIN executions) <= 1
       /\ DOMAIN attempts \subseteq {<<1, 1>>}
       /\ DOMAIN commands = {}
       /\ Occurrences("progress", "running") = 0
       /\ \/ Cardinality(DOMAIN sessions) <= 1 /\ Occurrences("session", "renewed") = 0
          \/ \A e \in DOMAIN executions : executions[e].session # None
  ELSE /\ Len(events) <= MaxWaveEvents
       /\ \/ /\ \A e \in DOMAIN executions : executions[e].session = None
             /\ \A a \in DOMAIN attempts : attempts[a].session = None
          \/ Len(events) <= 2

\* Execution and session ids are interchangeable: no action orders them.
Interchangeable == Permutations(Execution) \cup Permutations(SessionId)

=============================================================================
