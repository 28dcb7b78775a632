SPECIFICATION FairSpec
CONSTANTS
  ta = ta
  tb = tb
  r1 = r1
  r2 = r2
  r3 = r3
  Tenants = {ta}
  Requests = {r1, r2, r3}
  NoReq = NoReq
  Readers = {}
  TenantOf <- OneTenantTenantOf
  RawIdOf <- OneTenantRawIdOf
  SessionMaxLen = 10
  ClientSerial = FALSE
  ClientResumes = TRUE
  MaxProgress = 1
  MaxStops = 1
  MaxFaults = 2
  MaxDrops = 0
CHECK_DEADLOCK FALSE
INVARIANTS
  FifoOrder
  TurnsInOrder
  TurnShape
  GlobalFollowsSession
  LossesAreCharged
PROPERTIES
  QueueDrains
  ImplementsWorkQueue
