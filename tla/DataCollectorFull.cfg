\* A disk that fills up while points are collected.
SPECIFICATION Spec
CONSTANTS
  Writers = {w1}
  NoWriter = none
  Formats = {"CSV"}
  MaxPoints = 2
  DiskMayFail = TRUE
  AllocMayFail = FALSE
INVARIANTS
  TrueMeansWritten
CHECK_DEADLOCK FALSE
