\* --visualize after a benchmark that ran to its end.
SPECIFICATION Spec
CONSTANTS
  Main = main
  Sample = s
  Never = never
  Increment = 2
  Full = 3
  RowsPerStep = 1
  CallbackRows = 2
  MaxSamples = 1
INVARIANTS
  VisualizerSeesResults
CHECK_DEADLOCK FALSE
