CONSTANTS
  HeartbeatTimeout = 0
  Cooldown = 2
  RapidWindow = 1
  MinSamples = 1
  CapsuleTtl = 1
  IntentTtl = 1
  MaxNonceCache = 1
  Beats <- MCBeats
  MaxNow = 3
  MaxVersion = 2
  MaxCapsules = 2
  MaxBeats = 2
  MaxAdmin = 1
  MaxClicks = 3
SPECIFICATION Spec
INVARIANT ReplayOnlyAfterEviction
PROPERTIES NoStrikeDuringLock SeenIsStillTrue RevokedNeverStrikes
CHECK_DEADLOCK FALSE
