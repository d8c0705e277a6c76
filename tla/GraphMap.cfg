\* All graphs of three nodes, chains and joins; two threads, two values.
SPECIFICATION GraphSpec
CONSTANTS
  Nil = Nil
  Slots = {"x", "y"}
  Required = {"x"}
  Vars = {a, b}
  Name <- OneName
  Given = {1, 2}
  Threads = {t1, t2}
  MaxNodes = 5
  MaxRuns = 1
CONSTRAINT FewGraphs
SYMMETRY Interchangeable
INVARIANT MapReturnsOwnResults
CHECK_DEADLOCK FALSE
