SPECIFICATION Spec
CONSTANTS
  Key = {k1}
  ShortKey = {}
  NoKey = NoKey
  None = None
  NotInt = NotInt
  Node <- TwoNodes
  Settings <- TwoSettings
  MaxSampleAge = 1
  MaxFutureSkew = 1
  FileKinds <- TextOnly
  DbFailures = FALSE
  EditsDuringStartup = TRUE
  ClockSteps = FALSE
  MaxTime = 3
  MaxEdits = 3
INVARIANT RegistryFresh
CHECK_DEADLOCK FALSE
