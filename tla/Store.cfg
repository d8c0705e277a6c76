CONSTANTS
  Process = {1, 2}
  Execution = {e1, e2}
  SessionId = {s1, s2}
  Owner = {o1}
  SpecVersion = {v1}
  Command = {c1}
  AttemptOutcome = {"failed"}
  WaveOutcome = {"failed"}
  Ttl = {1}
  Lag = 1
  MaxTime = 2
  MaxEvents = 8
  None = NoValue
  MaxObservations = 1
  MaxRenewals = 1
  MaxAttempts = 2
  DeclareFirst = TRUE
  ConsistentIds = TRUE
SPECIFICATION Spec
CONSTRAINTS BriefCallers OneStoryAtATime
SYMMETRY Interchangeable
INVARIANTS TypeOK ExecutionsMatchJournal AttemptsMatchJournal JournalNamesTheOwner CommandsMatchJournal OrdinalsFollowJournal 
PROPERTIES  LeaseNotStolen OnlyLostWorkInterrupted ReconciliationIsIdempotent
CHECK_DEADLOCK FALSE
