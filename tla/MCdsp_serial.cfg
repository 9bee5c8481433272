SPECIFICATION SerialSpec
CONSTANTS
  Settings <- VoicingSettings
  Rates = {44100, 96000, 192000}
  PowerMax = 8
  Settled = 1
INVARIANTS
  TypeOK
  CacheSound
  NoStaleState
PROPERTIES
  PromiseKept
  CurveIsHeard
