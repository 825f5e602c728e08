CONSTANTS
  QueueSize = 2
  MaxPlain = 2
SPECIFICATION WatchFairSpec
INVARIANT ScreenIsLastToldUnlessHeld
PROPERTY SilenceNoticed
