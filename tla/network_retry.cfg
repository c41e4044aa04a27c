SPECIFICATION Spec
CONSTANTS
  Callers = {c1}
  VpcIds = {1, 2}
  IgwIds = {1, 2}
  RouteTableIds = {1, 2}
  SubnetIds = {1, 2}
  Zones = {1}
  Requests <- BothModes
  MaxIndex = 1
  MaxV6Blocks = 2
  MaxPolls = 1
  MaxCalls = 4
  StartRegions = {"empty"}
  Consistent = TRUE
  LateCidr = FALSE
  AssociationFails = TRUE
  MayFail = TRUE
INVARIANT OneVpcPerCaller
PROPERTY AssociationAwaited
