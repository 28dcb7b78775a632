SPECIFICATION Spec
CONSTANTS
  g1 = g1
  g2 = g2
  c1 = c1
  c2 = c2
  Default = Default
  Gateways = {g1, g2}
  Configs = {c1}
  HostConfigs = {c1}
  EnvConfigs = {c1}
  IdleTimeout = 0
  MaxOps = 2
  MaxEnds = 1
  MaxFaults = 1
  FaultKinds = {"docker"}
CHECK_DEADLOCK FALSE
SYMMETRY GatewaySymmetry
INVARIANTS
  ContainerIsKnown
PROPERTIES
  ConfigNeverErased
