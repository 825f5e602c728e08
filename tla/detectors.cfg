CONSTANTS
  MinTrades = 2
  SweepWindow = 2
  MinSweep = 3
  SweepCooldown = 2
  MinPrint = 2
  Percent = 1
  PrintCooldown = 3
  BucketSec = 2
  HistoryBuckets = 4
  K = 2
  MinPulse = 1
  MinHistory = 2
  PulseCooldown = 2
  Usd = {1, 2}
  Gaps = {0, 1, 2}
  Turnovers = {0, 200}
  MaxTrades = 5
SPECIFICATION DetectorSpec
INVARIANTS AlertsAreGenuine BurstIsHeard
CHECK_DEADLOCK FALSE
