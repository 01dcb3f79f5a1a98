CONSTANTS
  Scans = {s, r}
  Mails = {m}
  NoJob = NoJob
SPECIFICATION FairSpec
INVARIANTS
  ScanTypeOK
  CancelledIsSilent
  JobsInReach
PROPERTIES
  BusyEnds
CHECK_DEADLOCK FALSE
