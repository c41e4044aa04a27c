SPECIFICATION Spec
CONSTANTS
  Callers = {c1}
  VpcIds = {1}
  IgwIds = {1, 2}
  RouteTableIds = {1, 2}
  SubnetIds = {1}
  Zones = {1}
  Requests <- OnePlacement
  MaxIndex = 0
  MaxV6Blocks = 2
  MaxPolls = 1
  MaxCalls = 1
  StartRegions = {"empty"}
  Consistent = TRUE
  LateCidr = TRUE
  AssociationFails = FALSE
  MayFail = FALSE
PROPERTY AssociationAwaited
