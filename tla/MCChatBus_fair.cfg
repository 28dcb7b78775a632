SPECIFICATION FairSpec
CONSTANTS
  ta = ta
  tb = tb
  r1 = r1
  r2 = r2
  r3 = r3
  Tenants = {ta, tb}
  Requests = {r1, r2, r3}
  NoReq = NoReq
  Readers = {r1, r2}
  TenantOf <- TwoSessionsTenantOf
  RawIdOf <- TwoSessionsRawIdOf
  SessionMaxLen = 2
  ClientSerial = TRUE
  ClientResumes = TRUE
  MaxProgress = 1
  MaxStops = 0
  MaxFaults = 0
  MaxDrops = 1
CHECK_DEADLOCK FALSE
INVARIANTS
  TypeOK
  AnswerIsOwn
PROPERTIES
  EveryClientAnswered
  EveryRequestFinished
