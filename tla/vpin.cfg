CONSTANTS
  WindowSize = 2
  HistorySize = 3
  Unit = 2
  ZSquare = 1
  Bars <- MCBars
  RebuildInterval = 4
  MaxResets = 1
SPECIFICATION Spec
INVARIANT SumsMatchArrays
PROPERTY ImplementsSliding
