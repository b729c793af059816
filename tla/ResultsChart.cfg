\* The default chart of a results file that holds one value of a metric.
SPECIFICATION Spec
CONSTANTS
  Collected <- MCThroughput
  Split <- MCSplit
  MaxRows = 2
  Grain = 3
  NotANumber = NotANumber
  NetworkLabels <- MCNetwork
  StorageLabels <- MCStorage
  Limits <- MCLimits
  Base <- MCBase
  ChartTypes = {"line"}
  Terminals <- MCSmall
  LabelWidth = 12
INVARIANTS
  NeverCrashes
CHECK_DEADLOCK FALSE
