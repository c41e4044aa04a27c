SPECIFICATION FairSpec
CONSTANTS
  Callers = {c1, c2}
  VpcIds = {1}
  IgwIds = {1, 2}
  RouteTableIds = {1, 2}
  SubnetIds = {1, 2}
  Zones = {1, 2}
  Requests <- TwoZones
  MaxIndex = 1
  MaxV6Blocks = 1
  MaxPolls = 1
  MaxCalls = 1
  StartRegions = {"empty", "legacy"}
  Consistent = TRUE
  LateCidr = TRUE
  AssociationFails = FALSE
  MayFail = FALSE
INVARIANTS
  UsableWhenDone
  OutboundOnlyWhenDone
PROPERTY EveryCallEnds
