CONSTANTS
  c1 = c1
  c2 = c2
  s1 = s1
  s2 = s2
  top = top
  Symbols = {s1, s2}
  Shards = {c1, c2}
  ShardOf <- MCShardOf
  MaxUpdates <- MCMaxUpdates
  Capacity = 1
  MaxDrops <- MCMaxDrops
  MaxFailures <- MCMaxFailures
  Level <- MCLevel
  Removals = {3}
  MaxRetries = 1
SPECIFICATION ShotSpec
INVARIANTS HoleOnlyByRace UsableOnlyConnected StuckOnlyByForeignDrop PassesOnlyWhatWas
PROPERTY Recovers
CHECK_DEADLOCK FALSE
