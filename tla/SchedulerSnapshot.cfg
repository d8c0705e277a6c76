CONSTANTS
  first = first
  second = second
  go = go
  Action <- TwoActions
  Input = {go}
  Mode <- FirstRepeats
  Backend <- ThreadThenSync
  RunLimit <- TwiceThenOnce
  Awaits <- AfterEachOther
  Loop = {loop}
  Reader = {dashboard}
  Closer = {}
  Killer = {}
  MaxUpdates = 2
  None = NoValue
SPECIFICATION Spec
PROPERTY OnlyEndedWorkDropped
