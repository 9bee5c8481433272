SPECIFICATION Spec
CONSTANTS
  Prompt = TRUE
  MaxInbox = 4
INVARIANTS
  VerdictIsCurrent
CHECK_DEADLOCK FALSE
