CONSTANTS
  Scans = {s}
  Mails = {}
  NoJob = NoJob
SPECIFICATION Spec
INVARIANTS
  CancelPurges
CHECK_DEADLOCK FALSE
