CONSTANTS
  Signals = {"s1", "s2"}
  Slotted = {"x"}
  Plain = {"p"}
  MaxQueue = 2
  MaxStarts = 2
SPECIFICATION Spec
INVARIANTS NothingVanishes NotAcknowledgedUnhandled
PROPERTIES QueuedIsHandled
CHECK_DEADLOCK FALSE
