SPECIFICATION Spec
CONSTANTS
  Ring = 128
  TapsA <- KA
  TapsB <- KB
  ResponseLength = 60
INVARIANTS
  LatencyIsGroupDelay
CHECK_DEADLOCK FALSE
