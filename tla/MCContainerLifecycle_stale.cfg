SPECIFICATION Spec
CONSTANTS
  g1 = g1
  g2 = g2
  c1 = c1
  c2 = c2
  Default = Default
  Gateways = {g1}
  Configs = {c1}
  HostConfigs = {c1}
  EnvConfigs = {}
  IdleTimeout = 0
  MaxOps = 2
  MaxEnds = 0
  MaxFaults = 0
  FaultKinds = {}
CHECK_DEADLOCK FALSE
INVARIANTS
  CacheFollowsRedis
