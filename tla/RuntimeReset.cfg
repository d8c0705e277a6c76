CONSTANTS
  Manager = {m1, m2}
  RuntimeId = {r1, r2}
  File = {status}
  Database = database
  MaxGeneration = 3
  None = NoValue
SPECIFICATION Spec
CONSTRAINT SessionsInTime
INVARIANT OneLineageInPlace
PROPERTIES ResetNotDropped RerunsAreAtomic LockIsReleased
