SPECIFICATION FairSpec
CONSTANTS
  Key = {k1, ks}
  ShortKey = {ks}
  NoKey = NoKey
  None = None
  NotInt = NotInt
  Node <- TwoNodes
  Settings <- BadSettings
  MaxSampleAge = 1
  MaxFutureSkew = 0
  FileKinds <- AnyFile
  DbFailures = TRUE
  EditsDuringStartup = FALSE
  ClockSteps = FALSE
  MaxTime = 1
  MaxEdits = 3
INVARIANTS
  TypeOK
  RegistryFresh
  ThrottleCountsWrites
PROPERTIES
  RotationIsImmediate
  RegistryConverges
CHECK_DEADLOCK FALSE
