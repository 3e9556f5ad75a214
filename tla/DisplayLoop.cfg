SPECIFICATION DisplaySpec
CONSTANTS
  NodeId <- ThreeNodes
  NoNode = NoNode
  NoTime <- Minus1
  Moments <- Zero
  ChartMetrics <- OneMetric
  Lists <- ComeAndGo
  Points <- LoopPoints
  HoldTime = 3
  LongAfter = 2
  MinShort = 1
  Debounce = 1
  Tolerance = 16
  PointsKept = 2
  MenuTimeout = 2
  DetailTimeout = 2
  RotateEvery = 2
  PauseAfterTouch = 0
  RefreshEvery = 2
  FetchMax = 1
  RequestMax = 1
  RestMax = 1
VIEW WithoutHeldFor
INVARIANTS
  RequestIsShown
  NeverFails
  OneTurnPerPress
  HighlightIsLive
PROPERTIES
  HoldIsWatched
  RefinesReducer
