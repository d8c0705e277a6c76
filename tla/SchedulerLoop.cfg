CONSTANTS
  first = first
  second = second
  go = go
  Action <- TwoActions
  Input = {go}
  Mode <- FirstOnChange
  Backend <- CoroutineThenSync
  RunLimit <- TwiceThenOnce
  Awaits <- AfterEachOther
  Loop = {loop}
  Reader = {}
  Closer = {closer}
  Killer = {killer}
  MaxUpdates = 2
  None = NoValue
SPECIFICATION Spec
INVARIANTS OneRunAtATime StartsAfterAwaited 
PROPERTIES OnlyEndedWorkDropped EveryResultReported TriggeredActionStarts
CHECK_DEADLOCK FALSE
