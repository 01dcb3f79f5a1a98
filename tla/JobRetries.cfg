\* One job under the default retry limits (PROCESSING_MAX_ATTEMPTS and
\* EMAIL_MAX_ATTEMPTS are 3): every order of claims, lapses, sweeps, crashes,
\* lost acknowledgements and requests; and the TTL alone.
CONSTANTS
  Jobs = {j1}
  MaxActive = 1
  PoolSize = 1
  MaxAttempts = 3
  MaxMailAttempts = 3
SPECIFICATION SweepSpec
INVARIANTS
  TypeOK
  PayloadsMatchStatus
  AttemptsBounded
  MailsBounded
PROPERTIES
  StaleTaskHarmless
  ResendOnlyIfTakenForUnsent
  KeepsPromise
  AnalysisSettles
  DeliverySettles
  EveryJobPurged
CHECK_DEADLOCK FALSE
