CONSTANTS
  Items = {"i1", "i2"}
  MaxSpill = 1
  MaxFaults = 2
SPECIFICATION BufferSpec
INVARIANTS AtLeastOnceFromRedis VanishesOnlyWithItsPlace
PROPERTIES RedisIsWorkedOff
CHECK_DEADLOCK FALSE
