\* Two iterations and one or two samples, with every combination of the switches.
SPECIFICATION Spec
CONSTANTS
  Main = main
  Sample = s
  Never = never
  Increment = 2
  Full = 3
  RowsPerStep = 1
  CallbackRows = 2
  MaxSamples = 1
INVARIANTS
  TypeOK
  CollectorOutlivesMonitor
  ExitComplete
PROPERTIES
  Terminates
CHECK_DEADLOCK FALSE
