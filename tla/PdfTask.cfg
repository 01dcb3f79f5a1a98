CONSTANTS
  Tasks = {t, u}
  Documents <- MCDocuments
  OcrEnabled = TRUE
SPECIFICATION FairSpec
INVARIANTS
  TaskTypeOK
  NothingLeftBehind
  GivesUpForCause
PROPERTIES
  SlotReturned
CHECK_DEADLOCK FALSE
