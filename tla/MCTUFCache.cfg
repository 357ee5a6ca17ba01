\* Two processes in one directory, three calls, two versions of the target.
SPECIFICATION Spec
CONSTANTS
  p1 = p1
  p2 = p2
  Processes = {p1, p2}
  Calls <- SomeCalls
  SeedVersion = 1
  MaxVersion = 2
  MaxStarts = 3
SYMMETRY Symmetric
INVARIANTS
  CacheTypeOK
  DamageIsByWriter
  AloneSucceeds
  AloneIsCurrent
\* Every call may be over and the last version published.
CHECK_DEADLOCK FALSE
