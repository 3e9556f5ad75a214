SPECIFICATION MCSpec
CONSTANTS
  TheNode = TheNode
  Absent = Absent
  Interval = 1
  PostTimeout = 1
  OfflineAfter = 0
  RefreshEvery = 1
  FetchTimeout = 1
  Window = 1
  MaxSamples = 3
  MaxLate = 1
  MaxEpoch = 1
  Clock <- MCClock
  EndOfTime = 4
  Interface = {i1, i2}
  Disk = {d1}
  Package <- MCPackage
  EnergyRange <- MCRange
  MaxCount = 3
  MaxTime = 2
  None = None
  Script = {s1, s2, s3}
  OldNode = {o1}
  First = First
  Empty = Empty
  Torn = Torn
  NoFile = NoFile
INVARIANTS
  SeriesInOrder
  WindowKept
  OnlineWasHeard
  RateIsReal
  UsageIsHonest
  PowerIsExactWhenAlike
  RegistryIsUsable
  DoneIsRegistered
PROPERTIES
  SeenIsKept
  ChartFollows
