\* A login, a change and another request or change at once; sessions lapse by
\* idleness and by age, and are prolonged by use.
CONSTANTS
  Requests = {p, q, o}
  Sessions = {t1, t2}
  NoSession = NoSession
  Idle = 2
  Absolute = 3
  MaxClock = 3
  MaxGeneration = 2
SPECIFICATION Spec
INVARIANTS
  SessionTypeOK
  SurvivorsWereInFlight
PROPERTIES
  ChangesVerified
  DeadStaysDead
SYMMETRY Symmetry
CHECK_DEADLOCK FALSE
