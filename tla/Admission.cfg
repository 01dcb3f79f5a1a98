\* Four uploads race for a queue of two over two connections; no worker runs.
CONSTANTS
  Jobs = {j1, j2, j3, j4}
  MaxActive = 2
  PoolSize = 2
  MaxAttempts = 1
  MaxMailAttempts = 1
SYMMETRY JobSymmetry
SPECIFICATION AdmissionSpec
INVARIANTS
  QueueBounded
CHECK_DEADLOCK FALSE
