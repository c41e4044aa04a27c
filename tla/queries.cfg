SPECIFICATION QuerySpec
CONSTANTS
  Regions = {1, 2}
  Zones = {11, 12, 21}
  LocalZones = {12}
  Types = {"c7g"}
  RegionOf <- RegionByName
  Levels = {"low"}
  Times = {1, 2}
  MaxEntries = 2
  Spellings <- Written
  KeyOf <- Lower
  Blank = ""
  SeriesNames = {"", "s"}
  Generations = {"", "new"}
  Architectures = {"", "arm", "amd"}
  Codes = {"", "r1"}
  Names = {"", "n"}
  MetadataFiles <- SomeMetadata
  RegionFiles <- SomeRegions
  Filters <- SomeFilters
  MaxAsked = 3
  LengthOf <- Lengths
  MaxItems = 2
  MaxLength = 3
  Amounts = {1, 2}
  MaxDocuments = 2
  Machines = {"x", "y", "z"}
  HomeOf <- Homes
  KindOf <- Kinds
  ZoneOf <- ZonesOfMachines
  ScopeIdOf <- Scopes
  Sees <- Seen2
  Selections <- SomeSelections
  TagKeys = {"k"}
  TagValues = {"v", "w"}
  NoValue = ""
  MaxEvents = 1
INVARIANTS
  RegionsTold
  ZonesTold
  NewestPriceKept
  AnswersTheFiles
  NamesKnown
  EachAskedOnce
  PricedOrMissing
  ActiveAreListed
CHECK_DEADLOCK FALSE
