\* Usages at and around the thresholds, the default CPU threshold and the largest, one refused opening.
SPECIFICATION FairSpec
CONSTANTS
  Cpus = {c1, c2}
  CpuLevels = {79, 80, 100}
  MemoryLevels = {89, 90}
  Traffic = {0, 1}
  MaxBytes = 1
  DetectorThresholds <- MCThresholds
  KnowledgeBases <- MCKnowledgeBases
  Numbers <- MCNumbers
  Unset = unset
  Absent <- MCAbsent
  MaxRefused = 1
  Monitoring = TRUE
  OwnCpu = 80
  OwnMemory = 90
  OwnNetwork = 1
INVARIANTS
  TypeOK
  SeverityInRange
  RoundResult
PROPERTIES
  NothingWithoutCause
  DetectorDecides
  OptimizationTakesHold
CHECK_DEADLOCK FALSE
