CONSTANTS
  A = A
  B = B
  o1 = o1
  o2 = o2
  o3 = o3
  Orders = {o1, o2, o3}
  Symbols = {A, B}
  SymbolOf <- MCSymbolOf
  SideOf <- MCSideOf
  QtyOf <- MCQtyOf
  MaxExposure = 3
  MaxRetries = 2
  MaxDrops = 1
SPECIFICATION Spec
INVARIANTS ConfirmedIsExecuted ShadowCoversExchange ArbitratedIsSettled
PROPERTIES ReconciliationEnds
CHECK_DEADLOCK FALSE
