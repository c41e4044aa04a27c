SPECIFICATION Spec
CONSTANTS
  Callers = {c1, c2}
  VpcIds = {1}
  IgwIds = {1, 2}
  RouteTableIds = {1, 2}
  SubnetIds = {1, 2}
  Zones = {1, 2}
  Requests <- MixedPlacements
  MaxIndex = 1
  MaxV6Blocks = 1
  MaxPolls = 0
  MaxCalls = 1
  StartRegions = {"prepared"}
  Consistent = FALSE
  LateCidr = FALSE
  AssociationFails = FALSE
  MayFail = FALSE
INVARIANT UniqueSubnetPerPlacement
PROPERTY ActsAsRegistry
