SPECIFICATION FairSpec
CONSTANTS
  p1 = p1
  p2 = p2
  l1 = l1
  l2 = l2
  Processes = {p1, p2}
  Loads = {l1, l2}
  ProcessOf <- OneEach
  MaxVersion = 2
  Size <- DistinctSizes
INVARIANTS
  SoloLoadIsWhole
  ServedIsRecent
  AvailableOnceInstalled
PROPERTY EveryLoadEnds
