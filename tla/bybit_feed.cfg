CONSTANTS
  Symbols = {"s1", "s2"}
  QueueSize = 2
  MaxFaults = 3
SPECIFICATION FeedSpec
INVARIANT SyncedMissesNothing
PROPERTIES SettlesAfterFaults StopEnds
CHECK_DEADLOCK FALSE
