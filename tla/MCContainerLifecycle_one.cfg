SPECIFICATION FairSpec
CONSTANTS
  g1 = g1
  g2 = g2
  c1 = c1
  c2 = c2
  Default = Default
  Gateways = {g1}
  Configs = {c1}
  HostConfigs = {c1}
  EnvConfigs = {c1}
  IdleTimeout = 0
  MaxOps = 3
  MaxEnds = 1
  MaxFaults = 2
  FaultKinds = {"load", "save", "docker", "exit"}
CHECK_DEADLOCK FALSE
INVARIANTS
  TypeOK
  ContainerIsKnown
  RedisNamesNewest
  ConfigsAgree
PROPERTIES
  ConfigNeverErased
  IdleIsPruned
  ShutdownStopsAll
