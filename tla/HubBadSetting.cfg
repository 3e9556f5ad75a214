SPECIFICATION Spec
CONSTANTS
  Key = {k1}
  ShortKey = {}
  NoKey = NoKey
  None = None
  NotInt = NotInt
  Node <- TwoNodes
  Settings <- BadSettings
  MaxSampleAge = 1
  MaxFutureSkew = 1
  FileKinds <- TextOnly
  DbFailures = FALSE
  EditsDuringStartup = FALSE
  ClockSteps = FALSE
  MaxTime = 2
  MaxEdits = 3
PROPERTY AddedNodeWaits
CHECK_DEADLOCK FALSE
