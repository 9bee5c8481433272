SPECIFICATION Spec
CONSTANTS
  FullScale = 8
  Unit = 1024
  Ring = 8
  TapsA <- KA
  TapsB <- KB
  Stream <- Frame
  Blocks = {1, 5}
  Frames = 3
  MaxBlock = 2
  Gain = 2
  Rail = 12
  PowerMax = 4
  TapUnit = 4
  KSize = 2
  Wrap = 4
  Snapshots = {1, 3}
INVARIANTS
  SplitIsWhole
  SnapshotsAreRecent
PROPERTIES
  StreamKept
  DryIsBitExact
