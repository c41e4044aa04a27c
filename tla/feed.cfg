SPECIFICATION FairSpec
CONSTANTS
  NAccounts = 2
  Regions = {1, 2}
  Listings <- OneEachOrNone
  TypedRegions = {1}
  NBatches = 2
  ChunkSize = 2
INVARIANTS
  ViewIsOneBuild
  NothingSilentlyMissing
PROPERTIES
  PublishesWhole
  CancelEnds
