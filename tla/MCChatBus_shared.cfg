SPECIFICATION Spec
CONSTANTS
  ta = ta
  tb = tb
  r1 = r1
  r2 = r2
  r3 = r3
  Tenants = {ta, tb}
  Requests = {r1, r2, r3}
  NoReq = NoReq
  Readers = {r1, r2, r3}
  TenantOf <- TwoSessionsTenantOf
  RawIdOf <- NoSessionIdRawIdOf
  SessionMaxLen = 2
  ClientSerial = FALSE
  ClientResumes = TRUE
  MaxProgress = 1
  MaxStops = 0
  MaxFaults = 0
  MaxDrops = 0
CHECK_DEADLOCK FALSE
INVARIANTS
  AnswerFromOwnTenant
