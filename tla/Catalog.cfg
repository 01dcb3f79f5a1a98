CONSTANTS
  Sessions = {s1, s2}
  Roles = {q, r}
  Seeded = {r}
  Seniorities = {All}
  All = All
  None = None
  MaxVersion = 2
  MaxClock = 2
SPECIFICATION Spec
INVARIANTS
  CatalogTypeOK
  ActiveImpliesPublished
  NoDraftServed
  JobFindsItsCatalog
PROPERTIES
  VersionsMoveForward
  RetiredNotServed
  ArchivedNotServed
SYMMETRY Symmetry
CHECK_DEADLOCK FALSE
