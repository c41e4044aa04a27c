--------------------------- MODULE MCStartRequest ---------------------------
(* What a StartInstance request goes through before it reaches EC2: the      *)
(* account it acts as, the options of its launch and its image.  They share  *)
(* no variable, so each is explored with the others at rest.                 *)
EXTENDS MCAccountRouting, MCLaunchConfig, MCAmiSelection

LaunchAtRest ==
  /\ config = [mode |-> "any", subnet |-> {}, groups |-> {}, useVpc |-> FALSE,
               useSubnet |-> FALSE, useGroup |-> FALSE, publicV4 |-> {},
               assignV6 |-> {}, count |-> {}, size |-> {}]
  /\ pc = "Parse"
  /\ options = NoOptions /\ subnet = {} /\ groups = {}
  /\ reason = {} /\ input = NoInput
PickAtRest ==
  /\ architecture = "amd64" /\ parameters = << >> /\ index = 1
  /\ bestScore = -1 /\ bestVersion = -1 /\ bestName = 0 /\ best = NoParameter
AccountsAtRest == AccountInit /\ endpoint = CHOOSE e \in Endpoints : TRUE

VARIABLE part

StartInit ==
  \/ part = "account" /\ AccountInit /\ LaunchAtRest /\ PickAtRest
  \/ part = "options" /\ Init /\ AccountsAtRest /\ PickAtRest
  \/ part = "image" /\ PickInit /\ AccountsAtRest /\ LaunchAtRest

StartNext ==
  /\ UNCHANGED part
  /\ \/ part = "account" /\ AccountNext /\ UNCHANGED <<vars, pickVars>>
     \/ part = "options" /\ Next /\ UNCHANGED <<accountVars, pickVars>>
     \/ part = "image" /\ PickNext /\ UNCHANGED <<accountVars, vars>>

StartSpec == StartInit /\ [][StartNext]_<<part, accountVars, vars, pickVars>>
=============================================================================
