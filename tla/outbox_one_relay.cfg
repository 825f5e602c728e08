CONSTANTS
  Alerts = {a1, a2, a3}
  Urgent = {a1, a3}
  Poison = {a3}
  Relays = {r1}
  BatchSize = 2
  Attempts = 2
  MaxDbFaults = 1
  MaxInterrupts = 1
  MaxLostAcks = 1
SPECIFICATION FairSpec
INVARIANTS NeverDeletedUnseen NoUnexplainedDuplicate StrandedOnlyByFailure SendsOnlyClaimedRows
PROPERTIES ImplementsDelivery EventuallyDelivered
CHECK_DEADLOCK FALSE
