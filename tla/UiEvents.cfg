SPECIFICATION UiSpec
CONSTANTS
  NodeId <- SixNodes
  NoNode = NoNode
  NoTime = NoTime
  Moments <- ZeroOnly
  ChartMetrics <- OneOrTwoMetrics
  Lists <- AllLists
  Points <- AllPoints
INVARIANTS
  UiTypeOK
  SelectionAgrees
  CategoryShown
  NodesReachable
  PowerCoherent
PROPERTIES
  PowerPath
  RefreshKeepsSelection
