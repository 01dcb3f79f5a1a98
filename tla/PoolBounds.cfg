\* Two slots and three overlapping ticks, as many tasks as the bound allows.
CONSTANTS
  Calls = {f1, f2, f3}
  Tasks = {t1, t2, t3, t4}
  Concurrency = 2
  MaxArrivals = 5
SPECIFICATION FairSpec
INVARIANTS
  PoolTypeOK
  OverlapBounded
PROPERTIES
  BacklogDrains
  StopExits
CHECK_DEADLOCK FALSE
