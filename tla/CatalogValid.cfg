CONSTANTS
  Sessions = {s1, s2}
  Roles = {r}
  Seeded = {r}
  Seniorities = {All, junior}
  All = All
  None = None
  MaxVersion = 2
  MaxClock = 2
SPECIFICATION Spec
INVARIANT
  PublishedCatalogsValid
CHECK_DEADLOCK FALSE
