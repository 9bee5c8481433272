SPECIFICATION Spec
CONSTANTS
  Moves <- MCMoves
  Programs <- MCPrograms
  EqFrequencyControls <- Controls
  EqGainControls <- Gains
  EqBands <- MCBands
  FilterCalibrations <- MCFilters
  Recalls <- MCRecalls
  OldBlobs <- MCOldBlobs
  MaxClip = 1
PROPERTIES
  DialAgreesWithPreset
