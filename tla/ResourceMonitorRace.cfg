\* A callback is installed while the monitor runs, as the unit test does.
SPECIFICATION Spec
CONSTANTS
  Controllers = {main}
  Observers = {}
  Samples = {s1}
  Never = never
  MaxStarts = 1
  MaxReads = 0
  LiveReconfig = TRUE
INVARIANTS
  NoDataRace
CHECK_DEADLOCK FALSE
