SPECIFICATION ConcurrentSpec
CONSTANTS
  Settings <- RacingSettings
  Rates = {44100}
  PowerMax = 4
  Settled = 1
PROPERTIES
  AutoGainSettles
