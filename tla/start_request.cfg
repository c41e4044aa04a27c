SPECIFICATION StartSpec
CONSTANTS
  Texts = {"", "a", "b", "k", "t", "r", "e", "p"}
  None = ""
  Accounts <- SomeAccounts
  Endpoints = {"", "local"}
  MaxAccounts = 2
  Counts <- SmallNumbers
  Sizes <- SmallNumbers
  HalfRange = 4
  DefaultSize = 3
  Parameters <- SomeParameters
  MaxLength = 3
INVARIANTS
  ReachesIssuer
  ScopeStaysKnown
  AcceptedIsUsable
  KeyedIdentityArrives
  ModeIsStrict
  OwnSubnetServes
  ManagedTogether
  PickIsGreatest
CHECK_DEADLOCK FALSE
