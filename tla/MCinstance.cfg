SPECIFICATION InstanceSpec
CONSTANTS
  Moves <- MCMoves
  Programs <- MCPrograms
  EqFrequencyControls <- Controls
  EqGainControls <- Gains
  EqBands <- MCBands
  FilterCalibrations <- MCFilters
  Recalls <- MCRecalls
  OldBlobs <- MCOldBlobs
  MaxClip = 1
  Rates = {44100}
  PowerMax = 8
  Settled = 1
PROPERTIES
  HeardIsShown
  RecallSoundsAuthored
