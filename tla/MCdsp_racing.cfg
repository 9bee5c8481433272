SPECIFICATION ConcurrentSpec
CONSTANTS
  Settings <- RacingSettings
  Rates = {44100}
  PowerMax = 6
  Settled = 1
INVARIANTS
  NoStaleState
PROPERTIES
  VoiceSettles
  BypassSettles
