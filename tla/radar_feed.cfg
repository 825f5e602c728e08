CONSTANTS
  c1 = c1
  c2 = c2
  s1 = s1
  s2 = s2
  Symbols = {s1, s2}
  Conns = {c1, c2}
  ConnOf <- MCConnOf
  Usd = {1, 2}
  Thresholds = {2, 3}
  BackoffCap = 1
  MaxTrades <- MCMaxTrades
  MaxInbox = 1
  Loud = {s1}
  Garblable = {s1}
SPECIFICATION Spec
INVARIANT NoGapInBar
PROPERTY BarsInOrder
