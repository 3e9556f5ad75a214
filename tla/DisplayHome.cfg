SPECIFICATION FairDisplay
CONSTANTS
  NodeId <- ThreeNodes
  NoNode = NoNode
  NoTime <- Minus1
  Moments <- Zero
  ChartMetrics <- OneMetric
  Lists <- OneNode
  Points <- HomePoints
  HoldTime = 2
  LongAfter = 2
  MinShort = 1
  Debounce = 0
  Tolerance = 16
  PointsKept = 1
  MenuTimeout = 2
  DetailTimeout = 2
  RotateEvery = 0
  PauseAfterTouch = 0
  RefreshEvery = 2
  FetchMax = 0
  RequestMax = 1
  RestMax = 1
PROPERTIES
  ComesHome
