SPECIFICATION Spec
CONSTANTS
  Threshold = 20
  Scale = 10
  Slots = 4
  MaxOpen = 2
  Tp = 1000
  Sl = 1000
  MaxBars = 1
  MaxEntries = 2
  Entry = 100
  Trades <- TapeTrades
  MaxTrades = 2
  MaxIntents = 3
  MaxLives = 2
INVARIANTS
  BarsAreExact
  LabelsArePessimistic
  UnlabelledIsOpenOrEvicted
  PairsMatch
CHECK_DEADLOCK FALSE
