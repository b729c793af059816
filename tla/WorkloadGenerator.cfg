\* Two calls of Generate, up to two faults, Stop at any moment.
SPECIFICATION FairSpec
CONSTANTS
  Modulus = 8
  SectorSize = 2
  Profiles <- MCProfiles
  MaxRuns = 2
  MaxFaults = 2
INVARIANTS
  TypeOK
  NoOvershoot
  ReportTruthful
  BufferOutlivesCommand
  StaysInRegion
  SequentialCoversRegion
  Reusable
PROPERTIES
  StopEnds
  SmallWorkloadEnds
CHECK_DEADLOCK FALSE
