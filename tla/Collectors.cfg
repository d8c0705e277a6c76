\* Two workers and the driver write up to three times, over both channels.
SPECIFICATION CollectorsSpec
CONSTANTS
  Managers = {"logs", "streams", "telemetry", "progress", "signals"}
  Workers = {"w1", "w2"}
  MaxKept = 2
  MaxWrites = 3
INVARIANT
  NothingLostInTransit

  
CHECK_DEADLOCK FALSE
