\* Every order of three rows, cut off anywhere, read by each tool at any time.
SPECIFICATION Spec
CONSTANTS
  Collected <- MCCollected
  Split <- MCSplit
  MaxRows = 3
  Grain = 3
  NotANumber = NotANumber
  NetworkLabels <- MCNetwork
  StorageLabels <- MCStorage
  Limits <- MCLimits
  Base <- MCBase
  ChartTypes = {"line", "bar", "histogram", "heatmap"}
  Terminals <- MCTerminals
  LabelWidth = 9
INVARIANTS
  TypeOK
  OnlyCollected
  BottlenecksFound
  ToolsAgree
  ChartsShowValues
CHECK_DEADLOCK FALSE
