SPECIFICATION Spec
CONSTANTS
  Key = {k1}
  ShortKey = {}
  NoKey = NoKey
  None = None
  NotInt = NotInt
  Node <- TwoNodes
  Settings <- TwoSettings
  MaxSampleAge = 1
  MaxFutureSkew = 0
  FileKinds <- TextOnly
  DbFailures = FALSE
  EditsDuringStartup = FALSE
  ClockSteps = TRUE
  MaxTime = 3
  MaxEdits = 3
INVARIANTS
  NoOrphanSamples
  StampWindow
  DiskCloseBehind
PROPERTIES
  StampsAdvance
  WriteRate
  KeepsPromise
