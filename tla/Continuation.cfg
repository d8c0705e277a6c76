\* Three processes on two shapes of graph (a third is refused), every combination
\* of declarations.
SPECIFICATION Spec
CONSTANTS
  Process = {1, 2, 3}
  Declarations <- Kinds
  Graphs <- Shapes
  Registrations <- Orders
  MaxMishaps = 2
INVARIANTS
  CompletedPlanIsFresh
  AffectedSubgraphOnly
PROPERTIES
  ContinuationConverges
CHECK_DEADLOCK FALSE
