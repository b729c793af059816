CONSTANTS
  Monitors = {m1, m2}
  Modulus = 8
  MaxTicks = 5
  GoesBack = TRUE
  Overlap = FALSE

SPECIFICATION Spec

INVARIANTS
  TypeOK
  UsageIsShare
  EveryTickOnce

CHECK_DEADLOCK FALSE
