\* One job and two attempts to send its report.
CONSTANTS
  Jobs = {j1}
  MaxActive = 1
  PoolSize = 1
  MaxAttempts = 1
  MaxMailAttempts = 2
SPECIFICATION Spec
INVARIANTS
  AtMostOneMail
CHECK_DEADLOCK FALSE
