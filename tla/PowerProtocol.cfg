SPECIFICATION FairSpec
CONSTANTS
  Conn = {c1, c2}
  Junk = Junk
  None = None
  OtherPayload <- MCOtherPayload
  Size <- MCSize
  MaxRequest = 1
  Slots = 2
  ClientTimeout = 1
  ReadTimeout = 1
  CommandTimeout = 2
INVARIANTS
  ReadIsBounded
PROPERTIES
  KeepsPowerPromise
  NobodyHangs
