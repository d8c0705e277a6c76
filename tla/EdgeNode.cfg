\* One client, either back end, four commands; run_until_terminal takes a step.
SPECIFICATION Spec
CONSTANTS
  Transitions <- MCTransitions
  Initial = "new"
  Terminals = {"done"}
  Backends = {"thread", "asyncio"}
  Events = {"go", "back"}
  MaxCommands = 4
  MaxSteps = 1
INVARIANTS
  NothingForgotten
  AtMostOneLate
  HistoryIsPath
PROPERTY
  CallsReturn
CHECK_DEADLOCK FALSE
