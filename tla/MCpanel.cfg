SPECIFICATION Spec
CONSTANTS
  Slots <- MCSlots
  EqAt <- MCEqAt
  MaxDial = 2
  MaxActs = 4
  MaxQueue = 2
INVARIANTS
  TypeOK
  HandIsTruth
  ShowsItsTrack
PROPERTIES
  SendsGoToTheEq
  PanelSettles
