\* main.cpp: one controller, which like another thread also reads the latest usage.
\* A monitor is configured anew only while it is stopped: ResourceMonitorRace has the rest.
SPECIFICATION FairSpec
CONSTANTS
  Controllers = {main}
  Observers = {main, o1}
  Samples = {s1, s2}
  Never = never
  MaxStarts = 3
  MaxReads = 2
  LiveReconfig = FALSE
INVARIANTS
  TypeOK
  NoTerminate
  AtMostOneMonitor
  QuietWhenStopped
  SamplesWhole
PROPERTIES
  StopReturns
  ImplementsLifecycle
CHECK_DEADLOCK FALSE
