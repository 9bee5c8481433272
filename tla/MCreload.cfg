SPECIFICATION Spec
CONSTANTS
  Prompt = FALSE
  MaxInbox = 4
INVARIANTS
  TypeOK
  MappedCodeIntact
  VerdictWasTrue
PROPERTIES
  ScriptsEnd
CHECK_DEADLOCK FALSE
