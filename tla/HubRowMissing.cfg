SPECIFICATION Spec
CONSTANTS
  Key = {k1}
  ShortKey = {}
  NoKey = NoKey
  None = None
  NotInt = NotInt
  Node <- TwoNodes
  Settings <- TwoSettings
  MaxSampleAge = 1
  MaxFutureSkew = 1
  FileKinds <- TextOnly
  DbFailures = FALSE
  EditsDuringStartup = FALSE
  ClockSteps = FALSE
  MaxTime = 3
  MaxEdits = 3
INVARIANT AcceptedHasRow
CHECK_DEADLOCK FALSE
