\* Uploads without end share the worker, the sweeps and the claims, two of them
\* at a time: a queued job always goes before a report that waits for delivery.
CONSTANTS
  Jobs = {j1, j2}
  MaxActive = 2
  PoolSize = 2
  MaxAttempts = 1
  MaxMailAttempts = 1
SPECIFICATION EndlessSpec
INVARIANTS
  LedgerBalances
PROPERTIES
  DeliverySettlesInPause
CHECK_DEADLOCK FALSE
