SPECIFICATION AccountSpec
CONSTANTS
  Texts = {"", "a", "b", "k", "t", "r", "e", "p"}
  None = ""
  Accounts <- SomeAccounts
  Endpoints = {""}
  MaxAccounts = 2
INVARIANT IdentityArrives
