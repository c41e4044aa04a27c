SPECIFICATION FairSpec
CONSTANTS
  Accounts = {1, 2, 3}
  ScopeOf <- OwnScopes
  Regions = {1, 2}
  MaxChanges = 3
INVARIANTS
  RoundIsComplete
PROPERTY RoundsEnd
