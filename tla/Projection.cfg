\* Three generations, declared in any order; or units; or three checkpoints.
SPECIFICATION Spec
CONSTANTS
  None = None
  Process = {1, 2, 3}
  Unit = {u1, u2}
  Checkpoint = {1, 2, 3}
  Propagated = {"failure", "cancelled"}
  Bridged = {3}
  MaxLag = 2
  MaxCreated = 2
  Parent <- MCParent
  Owner <- MCOwner
  Programs <- MCPrograms
INVARIANTS
  RefreshEqualsRebuild
  FailureReachesAncestors
  
