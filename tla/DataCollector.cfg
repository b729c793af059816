\* Two threads, all formats, with write errors and allocation failures.
SPECIFICATION FairSpec
CONSTANTS
  Writers = {w1, w2}
  NoWriter = none
  Formats = {"CSV", "JSON", "PLAINTEXT"}
  MaxPoints = 2
  DiskMayFail = TRUE
  AllocMayFail = TRUE
INVARIANTS
  TypeOK
  OutputMatchesPoints
  FlushTruthful
  ClosedFileComplete
PROPERTIES
  CallsReturn
  ImplementsLog
CHECK_DEADLOCK FALSE
