CONSTANTS
  Process = {1}
  Execution = {e1}
  SessionId = {}
  Owner = {o1}
  SpecVersion = {v1}
  Command = {c1}
  AttemptOutcome = {"failed"}
  WaveOutcome = {"failed"}
  Ttl = {1}
  Lag = 0
  MaxTime = 0
  MaxEvents = 4
  None = NoValue
  MaxObservations = 0
  MaxRenewals = 0
  MaxAttempts = 1
  DeclareFirst = TRUE
  ConsistentIds = TRUE
  Maintainer = {m1, m2}
SPECIFICATION MaintenanceSpec
CONSTRAINT FewTasks
SYMMETRY AllInterchangeable
INVARIANTS  RowsAreJournaled LedgerBehindItsCursor
CHECK_DEADLOCK FALSE
