---------------------------- MODULE SubnetProofs ----------------------------
(***************************************************************************)
(* Why no lock is needed to hand out subnets: the lowest free index is a   *)
(* claim that EC2's overlap check turns down when the caller's view of the *)
(* VPC was out of date.                                                    *)
(***************************************************************************)
EXTENDS ManagedNetworkProofs

(* The setting: the VPCs were made by this code and never without IPv6, and  *)
(* EC2 lists a block together with its CIDR.  Describe may be stale.         *)
Setting == "legacy" \notin StartRegions /\ ~LateCidr

(* A VPC has the one block it was created with, and no one knows of another. *)
OneBlock ==
  /\ \A v \in VpcIds, b \in Blocks : b # 1 => v6[v][b] = "none"
  /\ \A v \in vpcs : v6[v][1] \notin {"none", "opening"}
  /\ \A p \in Callers, b \in Blocks : b # 1 => mem[p].seenV6[b] = "none"
  /\ \A p \in Callers :
       /\ pc[p] = "VpcDns" => mem[p].seenV6[1] \notin {"none", "opening"}
       /\ pc[p] # "AssociateVpcV6"

(* The subnets of a VPC are numbered without gaps, each number used once, and *)
(* each holds the /64 of the one block.                                      *)
Numbered ==
  /\ \A s \in SubnetIds : Exists(s) => subnet[s].block = 1
  /\ \A s, t \in SubnetIds :
       Exists(s) /\ Exists(t) /\ subnet[s].vpc = subnet[t].vpc
         /\ subnet[s].index = subnet[t].index => s = t
  /\ \A s \in SubnetIds, j \in Indexes :
       Exists(s) /\ j < subnet[s].index =>
         \E t \in SubnetIds :
           Exists(t) /\ subnet[t].vpc = subnet[s].vpc /\ subnet[t].index = j

(* What a caller was shown exists in its VPC, and a caller about to create a *)
(* subnet saw none for its placement.                                        *)
ListedSubnets ==
  \A p \in Callers : \A s \in listed[p] :
    /\ pc[p] \notin {"FindVpc", "CreateVpc"}
    /\ Exists(s) /\ subnet[s].vpc = vpc[p]
    /\ pc[p] = "ChooseZone" => subnet[s].mode # req[p].mode
    /\ pc[p] = "CreateSubnet" =>
         ~(subnet[s].az = zone[p] /\ subnet[s].mode = req[p].mode)

(* A subnet is created in a zone that was asked for or chosen.               *)
HasZone == \A p \in Callers : pc[p] = "CreateSubnet" => zone[p] \in Zones

IInv == OneBlock /\ Numbered /\ ListedSubnets /\ HasZone /\ UniqueSubnetPerPlacement

-----------------------------------------------------------------------------
(* Updating another field keeps the blocks a caller has seen.                *)
LEMMA SeenKept ==
  ASSUME NEW f \in [Callers -> Locals], NEW p \in Callers, NEW q \in Callers
  PROVE
  /\ \A x : [f EXCEPT ![p].igw = x][q].seenV6 = f[q].seenV6
  /\ \A x : [f EXCEPT ![p].rt = x][q].seenV6 = f[q].seenV6
  /\ \A x : [f EXCEPT ![p].seenRoutes = x][q].seenV6 = f[q].seenV6
  /\ \A x : [f EXCEPT ![p].seenSubnets = x][q].seenV6 = f[q].seenV6
  /\ \A x : [f EXCEPT ![p].sub = x][q].seenV6 = f[q].seenV6
  /\ \A x : [f EXCEPT ![p].missing = x][q].seenV6 = f[q].seenV6
  /\ \A x : [f EXCEPT ![p].polls = x][q].seenV6 = f[q].seenV6
<1>1. \A x : [f EXCEPT ![p].igw = x][q].seenV6 = f[q].seenV6
  BY DEF Locals
<1>2. \A x : [f EXCEPT ![p].rt = x][q].seenV6 = f[q].seenV6
  BY DEF Locals
<1>3. \A x : [f EXCEPT ![p].seenRoutes = x][q].seenV6 = f[q].seenV6
  BY DEF Locals
<1>4. \A x : [f EXCEPT ![p].seenSubnets = x][q].seenV6 = f[q].seenV6
  BY DEF Locals
<1>5. \A x : [f EXCEPT ![p].sub = x][q].seenV6 = f[q].seenV6
  BY DEF Locals
<1>6. \A x : [f EXCEPT ![p].missing = x][q].seenV6 = f[q].seenV6
  BY DEF Locals
<1>7. \A x : [f EXCEPT ![p].polls = x][q].seenV6 = f[q].seenV6
  BY DEF Locals
<1>. QED
  BY <1>1, <1>2, <1>3, <1>4, <1>5, <1>6, <1>7

(* What a caller has seen of a VPC's blocks it read from the region.         *)
LEMMA SeenStep ==
  ASSUME TypeOK, HasVpc, NEW p \in Callers, Step(p), NEW q \in Callers
  PROVE  \/ mem'[q].seenV6 = mem[q].seenV6
         \/ mem'[q].seenV6 = NoMem.seenV6
         \/ \E v \in VpcIds : mem'[q].seenV6 = v6'[v]
<1>. DEFINE Goal == \/ mem'[q].seenV6 = mem[q].seenV6
                   \/ mem'[q].seenV6 = NoMem.seenV6
                   \/ \E v \in VpcIds : mem'[q].seenV6 = v6'[v]
<1>0. mem \in [Callers -> Locals]
  BY DEF TypeOK
<1>1. ASSUME NEW v \in VpcIds, mem' = [mem EXCEPT ![p].seenV6 = v6'[v]] PROVE Goal
  <2>1. [mem EXCEPT ![p].seenV6 = v6'[v]][q].seenV6 \in {mem[q].seenV6, v6'[v]}
    BY <1>0 DEF Locals
  <2>. QED
    BY <1>1, <2>1
<1>2. ASSUME NEW x, mem' = [mem EXCEPT ![p].igw = x] PROVE Goal
  BY <1>0, <1>2, SeenKept
<1>3. ASSUME NEW x, mem' = [mem EXCEPT ![p].rt = x] PROVE Goal
  BY <1>0, <1>3, SeenKept
<1>4. ASSUME NEW x, mem' = [mem EXCEPT ![p].seenRoutes = x] PROVE Goal
  BY <1>0, <1>4, SeenKept
<1>5. ASSUME NEW x, mem' = [mem EXCEPT ![p].seenSubnets = x] PROVE Goal
  BY <1>0, <1>5, SeenKept
<1>6. ASSUME NEW x, mem' = [mem EXCEPT ![p].sub = x] PROVE Goal
  BY <1>0, <1>6, SeenKept
<1>7. ASSUME NEW x, mem' = [mem EXCEPT ![p].missing = x] PROVE Goal
  BY <1>0, <1>7, SeenKept
<1>8. ASSUME NEW x, mem' = [mem EXCEPT ![p].polls = x] PROVE Goal
  BY <1>0, <1>8, SeenKept
<1>9. ASSUME mem' = [mem EXCEPT ![p] = [NoMem EXCEPT !.sub = mem[p].sub]] PROVE Goal
  BY <1>0, <1>9 DEF NoMem
<1>10. CASE FindVpc(p) \/ CreateVpc(p)
  <2>1. CASE mem' = mem
    BY <2>1
  <2>2. CASE \E v \in VpcIds : mem' = [mem EXCEPT ![p].seenV6 = v6'[v]]
    BY <1>1, <2>2
  <2>. QED
    BY <1>10, <2>1, <2>2 DEF FindVpc, CreateVpc, region
<1>11. CASE PollVpc(p)
  <2>1. CASE mem' = [mem EXCEPT ![p].seenV6 = v6[vpc[p]], ![p].polls = 0]
    <3>1. vpc[p] \in VpcIds /\ v6' = v6
      BY <1>11 DEF PollVpc, At, HasVpc, TypeOK, region
    <3>2. v6[vpc[p]] \in V6Blocks
      BY <3>1 DEF TypeOK
    <3>3. [mem EXCEPT ![p].seenV6 = v6[vpc[p]]] \in [Callers -> Locals]
      BY <1>0, <3>2, LocalsUpdate
    <3>4. mem'[q].seenV6 = [mem EXCEPT ![p].seenV6 = v6[vpc[p]]][q].seenV6
      BY <2>1, <3>3, SeenKept
    <3>5. [mem EXCEPT ![p].seenV6 = v6[vpc[p]]][q].seenV6 \in {mem[q].seenV6, v6[vpc[p]]}
      BY <1>0 DEF Locals
    <3>. QED
      BY <3>1, <3>4, <3>5
  <2>. QED
    BY <1>11, <1>8, <2>1 DEF PollVpc
<1>12. CASE FindRouteTable(p)
  <2>1. CASE mem' = mem
    BY <2>1
  <2>2. ASSUME NEW r, NEW has, NEW subs,
               mem' = [mem EXCEPT ![p].rt = r, ![p].seenRoutes = has, ![p].seenSubnets = subs]
        PROVE  Goal
    BY <1>0, <2>2 DEF Locals
  <2>. QED
    BY <1>12, <2>1, <2>2 DEF FindRouteTable
<1>13. CASE mem' = mem
  BY <1>13
<1>14. CASE VpcDns(p) \/ AssociateVpcV6(p) \/ AttachIgw(p) \/ RouteV4(p) \/ RouteV6(p)
            \/ ChooseZone(p) \/ AssociateSubnetV6(p) \/ SubnetAttributes(p)
            \/ AssociateRouteTable(p)
  BY <1>13, <1>14 DEF VpcDns, AssociateVpcV6, AttachIgw, RouteV4, RouteV6, ChooseZone,
       AssociateSubnetV6, SubnetAttributes, AssociateRouteTable
<1>15. CASE FindIgw(p) \/ CreateIgw(p) \/ CreateRouteTable(p)
  BY <1>2, <1>3, <1>13, <1>15 DEF FindIgw, CreateIgw, CreateRouteTable
<1>16. CASE ListSubnets(p) \/ CreateSubnet(p) \/ PollSubnet(p)
  BY <1>6, <1>8, <1>13, <1>16 DEF ListSubnets, CreateSubnet, PollSubnet
<1>17. CASE FindSg(p) \/ CreateSg(p) \/ RevokeIngress(p) \/ AuthorizeEgress(p)
  BY <1>7, <1>9, <1>13, <1>17 DEF FindSg, CreateSg, RevokeIngress, AuthorizeEgress,
       Authorize, Finish
<1>18. CASE GiveUp(p)
  BY <1>0, <1>18 DEF GiveUp, Abort
<1>. QED
  BY <1>10, <1>11, <1>12, <1>14, <1>15, <1>16, <1>17, <1>18 DEF Step

(* The blocks of a VPC change only where one is opened or settles.           *)
LEMMA BlockStep ==
  ASSUME TypeOK, HasVpc, OneBlock, Setting, [Next]_vars
  PROVE  /\ \A v \in VpcIds, b \in Blocks : b # 1 => v6'[v][b] = "none"
         /\ \A v \in vpcs' : v6'[v][1] \notin {"none", "opening"}
<1>. 1 \in Blocks
  BY BoundAssumption DEF Blocks
<1>. DEFINE Goal == /\ \A v \in VpcIds, b \in Blocks : b # 1 => v6'[v][b] = "none"
                   /\ \A v \in vpcs' : v6'[v][1] \notin {"none", "opening"}
<1>1. CASE v6' = v6 /\ vpcs' = vpcs
  BY <1>1 DEF OneBlock
<1>2. ASSUME NEW p \in Callers, CreateVpc(p) PROVE Goal
  <2>1. PICK v \in VpcIds \ vpcs : vpcs' = vpcs \cup {v} /\ v6' = [v6 EXCEPT ![v][1] = "associating"]
    BY <1>2 DEF CreateVpc, OpenStates, Setting
  <2>. QED
    BY <2>1 DEF OneBlock, TypeOK, V6Blocks
<1>3. ASSUME NEW v \in VpcIds, NEW b \in Blocks, SettleVpc(v, b) PROVE Goal
  <2>1. PICK state \in Outcomes(v6[v][b]) : v6' = [v6 EXCEPT ![v][b] = state] /\ vpcs' = vpcs
    BY <1>3 DEF SettleVpc
  <2>2. v6[v][b] # "none" /\ state \notin {"none", "opening"}
    BY <2>1 DEF Outcomes
  <2>3. b = 1
    BY <2>2 DEF OneBlock
  <2>. QED
    BY <2>1, <2>2, <2>3 DEF OneBlock, TypeOK, V6Blocks
<1>4. ASSUME NEW p \in Callers, Step(p), ~CreateVpc(p) PROVE v6' = v6 /\ vpcs' = vpcs
  <2>1. ~AssociateVpcV6(p)
    BY DEF OneBlock, AssociateVpcV6, At
  <2>2. CASE FindVpc(p) \/ VpcDns(p) \/ PollVpc(p) \/ FindIgw(p) \/ CreateIgw(p) \/ AttachIgw(p)
             \/ FindRouteTable(p) \/ CreateRouteTable(p) \/ RouteV4(p) \/ RouteV6(p)
    BY <2>2 DEF FindVpc, VpcDns, PollVpc, FindIgw, CreateIgw, AttachIgw, FindRouteTable,
         CreateRouteTable, RouteV4, RouteV6, region
  <2>3. CASE ListSubnets(p) \/ ChooseZone(p) \/ CreateSubnet(p) \/ AssociateSubnetV6(p)
             \/ PollSubnet(p) \/ SubnetAttributes(p) \/ AssociateRouteTable(p)
    BY <2>3 DEF ListSubnets, ChooseZone, CreateSubnet, AssociateSubnetV6, PollSubnet,
         SubnetAttributes, AssociateRouteTable, region
  <2>4. CASE FindSg(p) \/ CreateSg(p) \/ RevokeIngress(p) \/ AuthorizeEgress(p) \/ GiveUp(p)
    BY <2>4 DEF FindSg, CreateSg, RevokeIngress, AuthorizeEgress, GiveUp, Abort, region
  <2>. QED
    BY <1>4, <2>1, <2>2, <2>3, <2>4 DEF Step
<1>. QED
  BY <1>1, <1>2, <1>3, <1>4 DEF Next, Start, Fail, Abort, SettleSubnet, Exhausted, vars, region

(* Only FindVpc and CreateVpc lead to VpcDns, and with a block in view the   *)
(* code never asks for another.                                              *)
LEMMA NoSecondBlock ==
  ASSUME TypeOK, HasVpc, OneBlock, Setting, [Next]_vars, NEW q \in Callers
  PROVE  /\ pc'[q] = "VpcDns" => mem'[q].seenV6[1] \notin {"none", "opening"}
         /\ pc'[q] # "AssociateVpcV6"
<1>. 1 \in Blocks
  BY BoundAssumption DEF Blocks
<1>. DEFINE Goal == /\ pc'[q] = "VpcDns" => mem'[q].seenV6[1] \notin {"none", "opening"}
                   /\ pc'[q] # "AssociateVpcV6"
<1>1. CASE pc'[q] \notin {"VpcDns", "AssociateVpcV6"}
  BY <1>1
<1>2. CASE pc'[q] = pc[q] /\ mem'[q] = mem[q]
  BY <1>2 DEF OneBlock
<1>3. ASSUME NEW p \in Callers, FindVpc(p) PROVE Goal
  <2>1. CASE q = p
    <3>1. CASE pc'[q] = "CreateVpc"
      BY <3>1
    <3>2. ASSUME NEW v \in vpcs, pc'[q] = "VpcDns", mem' = [mem EXCEPT ![p].seenV6 = v6[v]]
          PROVE  Goal
      <4>1. mem'[q].seenV6 = v6[v]
        BY <2>1, <3>2 DEF TypeOK, Locals
      <4>. QED
        BY <3>2, <4>1 DEF OneBlock
    <3>3. pc'[q] = "CreateVpc" \/ \E v \in vpcs : pc'[q] = "VpcDns" /\ mem' = [mem EXCEPT ![p].seenV6 = v6[v]]
      BY <1>3, <2>1 DEF FindVpc, FoundVpcs, Views, IsLeast, Goto, TypeOK
    <3>. QED
      BY <3>1, <3>2, <3>3
  <2>2. CASE q # p
    BY <1>2, <1>3, <2>2 DEF FindVpc, Goto, TypeOK
  <2>. QED
    BY <2>1, <2>2
<1>4. ASSUME NEW p \in Callers, CreateVpc(p) PROVE Goal
  <2>1. PICK v \in VpcIds \ vpcs : /\ v6' = [v6 EXCEPT ![v][1] = "associating"]
                                  /\ mem' = [mem EXCEPT ![p].seenV6 = v6'[v]]
    BY <1>4 DEF CreateVpc, OpenStates, Setting
  <2>2. CASE q = p
    <3>1. mem'[q].seenV6 = v6'[v]
      BY <2>1, <2>2 DEF TypeOK, Locals
    <3>2. v6'[v][1] = "associating" /\ pc'[q] = "VpcDns"
      BY <1>4, <2>1, <2>2 DEF CreateVpc, Goto, TypeOK, V6Blocks
    <3>. QED
      BY <3>1, <3>2
  <2>3. CASE q # p
    BY <1>2, <1>4, <2>1, <2>3 DEF CreateVpc, Goto, TypeOK
  <2>. QED
    BY <2>2, <2>3
<1>5. ASSUME NEW p \in Callers, VpcDns(p) PROVE Goal
  <2>1. HasAnyCidr(mem[p].seenV6)
    BY <1>5 DEF OneBlock, HasAnyCidr, VpcDns, At
  <2>. QED
    BY <1>1, <1>2, <1>5, <2>1 DEF VpcDns, Goto, TypeOK
<1>6. ASSUME NEW p \in Callers, pc'[q] = pc[q] \/ pc'[q] \notin {"VpcDns", "AssociateVpcV6"},
             pc[p] # "VpcDns", q # p => mem'[q] = mem[q]
      PROVE  Goal
  <2>1. CASE q = p
    BY <1>6, <2>1 DEF OneBlock
  <2>2. CASE q # p
    BY <1>2, <1>1, <1>6, <2>2
  <2>. QED
    BY <2>1, <2>2
<1>7. ASSUME NEW p \in Callers, \/ PollVpc(p) \/ FindIgw(p) \/ CreateIgw(p) \/ AttachIgw(p)
                                \/ FindRouteTable(p) \/ CreateRouteTable(p)
                                \/ RouteV4(p) \/ RouteV6(p)
      PROVE  Goal
  BY <1>6, <1>7 DEF PollVpc, FindIgw, CreateIgw, AttachIgw, FindRouteTable,
       CreateRouteTable, RouteV4, RouteV6, RouteStep, At, Goto, TypeOK
<1>8. ASSUME NEW p \in Callers, \/ ListSubnets(p) \/ ChooseZone(p) \/ CreateSubnet(p)
                                \/ AssociateSubnetV6(p) \/ PollSubnet(p)
                                \/ SubnetAttributes(p) \/ AssociateRouteTable(p)
      PROVE  Goal
  BY <1>6, <1>8 DEF ListSubnets, ChooseZone, CreateSubnet, AssociateSubnetV6, PollSubnet,
       SubnetAttributes, AssociateRouteTable, ReadyStep, AfterV6, At, Goto, TypeOK
<1>9. ASSUME NEW p \in Callers, \/ FindSg(p) \/ CreateSg(p) \/ RevokeIngress(p)
                                \/ AuthorizeEgress(p)
      PROVE  Goal
  BY <1>6, <1>9 DEF FindSg, CreateSg, RevokeIngress, AuthorizeEgress, Authorize, Finish,
       At, Goto, TypeOK
<1>10. ASSUME NEW p \in Callers, Abort(p) \/ Start(p) PROVE Goal
  BY <1>1, <1>2, <1>10 DEF Abort, Start, Goto, TypeOK
<1>11. ASSUME NEW p \in Callers, Step(p) PROVE Goal
  <2>1. ~AssociateVpcV6(p)
    BY DEF OneBlock, AssociateVpcV6, At
  <2>. QED
    BY <1>3, <1>4, <1>5, <1>7, <1>8, <1>9, <1>10, <1>11, <2>1 DEF Step, GiveUp
<1>. QED
  BY <1>2, <1>10, <1>11 DEF Next, Fail, SettleVpc, SettleSubnet, Exhausted, vars, locals

(* Every step keeps the VPC at one IPv6 block.                               *)
LEMMA OneBlockKept == TypeOK /\ HasVpc /\ OneBlock /\ Setting /\ [Next]_vars => OneBlock'
<1>. SUFFICES ASSUME TypeOK, HasVpc, OneBlock, Setting, [Next]_vars PROVE OneBlock'
  OBVIOUS
<1>1. ASSUME NEW q \in Callers, NEW b \in Blocks, b # 1 PROVE mem'[q].seenV6[b] = "none"
  <2>1. \/ mem'[q].seenV6 = mem[q].seenV6
        \/ mem'[q].seenV6 = NoMem.seenV6
        \/ \E v \in VpcIds : mem'[q].seenV6 = v6'[v]
    BY SeenStep DEF Next, Start, Fail, Abort, SettleVpc, SettleSubnet, Exhausted, vars, locals, TypeOK
  <2>2. NoMem.seenV6[b] = "none"
    BY DEF NoMem
  <2>. QED
    BY <1>1, <2>1, <2>2, BlockStep DEF OneBlock
<1>. QED
  BY <1>1, BlockStep, NoSecondBlock DEF OneBlock

-----------------------------------------------------------------------------
(* What CreateSubnet adds, seen from the whole VPC and not from the caller's *)
(* list: a number just above those in use, for a placement without a subnet. *)
NewSubnet(p, i) ==
  [vpc |-> vpc[p], az |-> zone[p], mode |-> req[p].mode, index |-> i,
   block |-> 1, v6 |-> "associating", ready |-> FALSE, rt |-> None]
Claims(p, s, i) ==
  /\ ~Exists(s)
  /\ \A t \in SubnetsOf(vpc[p]) :
       /\ subnet[t].index # i
       /\ ~(subnet[t].az = zone[p] /\ subnet[t].mode = req[p].mode)
  /\ \A j \in Indexes : j < i => \E t \in SubnetsOf(vpc[p]) : subnet[t].index = j
  /\ subnet' = [subnet EXCEPT ![s] = NewSubnet(p, i)]

(* EC2's overlap check makes the claim good: were the placement taken, its    *)
(* subnet would be missing from the list, so its number would be above the   *)
(* one chosen, and the chosen one, being below it, would be in use.          *)
LEMMA CreateClaims ==
  ASSUME TypeOK, IInv, NEW p \in Callers, CreateSubnet(p)
  PROVE  \E s \in SubnetIds, i \in Indexes : Claims(p, s, i)
<1>1. PICK s \in SubnetIds, i \in Indexes, b \in Blocks :
        /\ ~Exists(s)
        /\ IsFreeIndex(listed[p], i)
        /\ IsUsableBlock(mem[p].seenV6, b)
        /\ ~Overlaps(vpc[p], req[p].mode, i, b)
        /\ subnet' = [subnet EXCEPT ![s] =
             [vpc |-> vpc[p], az |-> zone[p], mode |-> req[p].mode, index |-> i,
              block |-> b, v6 |-> "associating", ready |-> FALSE, rt |-> None]]
  BY DEF CreateSubnet
<1>2. b = 1
  BY <1>1 DEF IsUsableBlock, IInv, OneBlock
<1>3. \A t \in SubnetsOf(vpc[p]) : subnet[t].index # i
  BY <1>1, <1>2 DEF Overlaps, IInv, Numbered, SubnetsOf
<1>4. listed[p] \subseteq SubnetsOf(vpc[p])
  BY DEF IInv, ListedSubnets, SubnetsOf, TypeOK
<1>5. \A j \in Indexes : j < i => \E t \in SubnetsOf(vpc[p]) : subnet[t].index = j
  BY <1>1, <1>4 DEF IsFreeIndex
<1>6. ASSUME NEW t \in SubnetsOf(vpc[p]), subnet[t].az = zone[p], subnet[t].mode = req[p].mode
      PROVE  FALSE
  <2>1. t \notin listed[p]
    BY <1>6 DEF IInv, ListedSubnets, CreateSubnet, At
  <2>2. subnet[t].index \in Nat /\ i \in Nat /\ subnet[t].index \in Indexes
    BY BoundAssumption DEF Indexes, TypeOK, Subnets, SubnetsOf
  <2>3. CASE subnet[t].index < i
    <3>1. PICK u \in listed[p] : subnet[u].index = subnet[t].index
      BY <1>1, <2>2, <2>3 DEF IsFreeIndex
    <3>. QED
      BY <1>4, <2>1, <3>1 DEF IInv, Numbered, SubnetsOf
  <2>4. CASE i < subnet[t].index
    <3>1. PICK u \in SubnetIds : Exists(u) /\ subnet[u].vpc = vpc[p] /\ subnet[u].index = i
      BY <2>4 DEF IInv, Numbered, SubnetsOf
    <3>. QED
      BY <1>3, <3>1 DEF SubnetsOf
  <2>. QED
    BY <1>3, <2>2, <2>3, <2>4
<1>. QED
  BY <1>1, <1>2, <1>3, <1>5, <1>6 DEF Claims, NewSubnet

(* Every other step leaves the placement and the number of a subnet alone.   *)
SameEntries ==
  \A s \in SubnetIds :
    /\ subnet'[s].vpc = subnet[s].vpc /\ subnet'[s].az = subnet[s].az
    /\ subnet'[s].mode = subnet[s].mode /\ subnet'[s].index = subnet[s].index
    /\ subnet'[s].block \in {subnet[s].block, 1}

(* A step that creates no subnet leaves the VPC, zone, mode and index of all *)
(* as they are.                                                              *)
LEMMA EntriesKept ==
  ASSUME TypeOK, OneBlock, [Next]_vars, \A p \in Callers : ~CreateSubnet(p)
  PROVE  SameEntries
<1>1. CASE subnet' = subnet
  BY <1>1 DEF SameEntries
<1>2. ASSUME NEW p \in Callers, AssociateSubnetV6(p) PROVE SameEntries
  <2>1. PICK b \in Blocks :
          /\ IsUsableBlock(mem[p].seenV6, b)
          /\ subnet' = [subnet EXCEPT ![mem[p].sub].block = b, ![mem[p].sub].v6 = "associating"]
    BY <1>2 DEF AssociateSubnetV6
  <2>2. b = 1
    BY <2>1 DEF IsUsableBlock, OneBlock
  <2>. QED
    BY <2>1, <2>2 DEF SameEntries, TypeOK, Subnets
<1>3. ASSUME NEW p \in Callers, SubnetAttributes(p) \/ AssociateRouteTable(p) PROVE SameEntries
  <2>1. CASE SubnetAttributes(p)
    BY <2>1 DEF SubnetAttributes, SameEntries, TypeOK, Subnets
  <2>2. CASE AssociateRouteTable(p)
    BY <2>2 DEF AssociateRouteTable, SameEntries, TypeOK, Subnets
  <2>. QED
    BY <1>3, <2>1, <2>2
<1>4. ASSUME NEW s \in SubnetIds, SettleSubnet(s) PROVE SameEntries
  BY <1>4 DEF SettleSubnet, SameEntries, TypeOK, Subnets
<1>5. ASSUME NEW p \in Callers, Step(p) PROVE SameEntries
  <2>1. CASE FindVpc(p) \/ CreateVpc(p) \/ VpcDns(p) \/ AssociateVpcV6(p) \/ PollVpc(p)
             \/ FindIgw(p) \/ CreateIgw(p) \/ AttachIgw(p) \/ FindRouteTable(p)
             \/ CreateRouteTable(p) \/ RouteV4(p) \/ RouteV6(p)
    BY <1>1, <2>1 DEF FindVpc, CreateVpc, VpcDns, AssociateVpcV6, PollVpc, FindIgw, CreateIgw,
         AttachIgw, FindRouteTable, CreateRouteTable, RouteV4, RouteV6, region
  <2>2. CASE ListSubnets(p) \/ ChooseZone(p) \/ PollSubnet(p) \/ FindSg(p) \/ CreateSg(p)
             \/ RevokeIngress(p) \/ AuthorizeEgress(p) \/ GiveUp(p)
    BY <1>1, <2>2 DEF ListSubnets, ChooseZone, PollSubnet, FindSg, CreateSg, RevokeIngress,
         AuthorizeEgress, GiveUp, Abort, region
  <2>. QED
    BY <1>2, <1>3, <1>5, <2>1, <2>2 DEF Step
<1>. QED
  BY <1>1, <1>4, <1>5 DEF Next, Start, Fail, Abort, SettleVpc, Exhausted, vars, region

(* Hence the numbering and the placements survive every step.                *)
LEMMA NumberedKept ==
  ASSUME TypeOK, HasVpc, IInv, [Next]_vars
  PROVE  Numbered' /\ UniqueSubnetPerPlacement'
<1>1. CASE SameEntries
  <2>1. \A s \in SubnetIds : Exists(s)' <=> Exists(s)
    BY <1>1 DEF SameEntries, Exists
  <2>2. Numbered'
    BY <1>1, <2>1 DEF SameEntries, IInv, Numbered
  <2>3. UniqueSubnetPerPlacement'
    BY <1>1, <2>1 DEF SameEntries, IInv, UniqueSubnetPerPlacement
  <2>. QED
    BY <2>2, <2>3
<1>2. ASSUME NEW p \in Callers, CreateSubnet(p) PROVE Numbered' /\ UniqueSubnetPerPlacement'
  <2>1. PICK s \in SubnetIds, i \in Indexes : Claims(p, s, i)
    BY <1>2, CreateClaims
  <2>2. /\ subnet'[s] = NewSubnet(p, i)
        /\ \A t \in SubnetIds \ {s} : subnet'[t] = subnet[t]
    BY <2>1 DEF Claims, TypeOK
  <2>3. vpc[p] # None
    BY <1>2 DEF HasVpc, CreateSubnet, At
  <2>4. /\ Exists(s)'
        /\ \A t \in SubnetIds \ {s} : Exists(t)' <=> Exists(t)
    BY <2>2, <2>3 DEF Exists, NewSubnet
  <2>5. UniqueSubnetPerPlacement'
    BY <2>1, <2>2, <2>4 DEF IInv, UniqueSubnetPerPlacement, Claims, SubnetsOf, NewSubnet
  <2>6. \A t \in SubnetIds : Exists(t)' => subnet'[t].block = 1
    BY <2>2, <2>4 DEF IInv, Numbered, NewSubnet
  <2>7. \A t, u \in SubnetIds :
          Exists(t)' /\ Exists(u)' /\ subnet'[t].vpc = subnet'[u].vpc
            /\ subnet'[t].index = subnet'[u].index => t = u
    BY <2>1, <2>2, <2>4 DEF IInv, Numbered, Claims, SubnetsOf, NewSubnet
  <2>8. ASSUME NEW t \in SubnetIds, NEW j \in Indexes, Exists(t)', j < subnet'[t].index
        PROVE  \E u \in SubnetIds :
                 Exists(u)' /\ subnet'[u].vpc = subnet'[t].vpc /\ subnet'[u].index = j
    <3>1. CASE t = s
      <4>1. PICK u \in SubnetsOf(vpc[p]) : subnet[u].index = j
        BY <2>1, <2>2, <2>8, <3>1 DEF Claims, NewSubnet
      <4>. QED
        BY <2>1, <2>2, <2>4, <3>1, <4>1 DEF Claims, SubnetsOf, NewSubnet
    <3>2. CASE t # s
      <4>1. PICK u \in SubnetIds :
              Exists(u) /\ subnet[u].vpc = subnet[t].vpc /\ subnet[u].index = j
        BY <2>2, <2>4, <2>8, <3>2 DEF IInv, Numbered
      <4>. QED
        BY <2>1, <2>2, <2>4, <3>2, <4>1 DEF Claims
    <3>. QED
      BY <3>1, <3>2
  <2>. QED
    BY <2>5, <2>6, <2>7, <2>8 DEF Numbered
<1>. QED
  BY <1>1, <1>2, EntriesKept DEF IInv

(* Once shown, a subnet stays what it was.                                   *)
LEMMA ShownStays ==
  ASSUME TypeOK, IInv, [Next]_vars, NEW t \in SubnetIds, Exists(t)
  PROVE  /\ Exists(t)' /\ subnet'[t].vpc = subnet[t].vpc
         /\ subnet'[t].az = subnet[t].az /\ subnet'[t].mode = subnet[t].mode
<1>1. CASE SameEntries
  BY <1>1 DEF SameEntries, Exists
<1>2. ASSUME NEW p \in Callers, CreateSubnet(p)
      PROVE  subnet'[t] = subnet[t]
  BY <1>2, CreateClaims DEF Claims, TypeOK
<1>. QED
  BY <1>1, <1>2, EntriesKept DEF IInv, Exists

(* A caller's list is what ListSubnets saw, and it goes on to create a       *)
(* subnet only when none listed is of the placement.                         *)
ListStep(p, q) ==
  \/ listed'[q] = {}
  \/ pc[q] \in {"FindVpc", "CreateVpc"} /\ listed'[q] = listed[q]
  \/ /\ pc'[q] \notin {"FindVpc", "CreateVpc"} \/ pc'[q] = pc[q]
     /\ listed'[q] = listed[q] /\ vpc'[q] = vpc[q] /\ req'[q] = req[q]
     /\ pc'[q] # "ChooseZone" \/ pc'[q] = pc[q]
     /\ \/ pc'[q] # "CreateSubnet"
        \/ pc'[q] = pc[q] /\ zone'[q] = zone[q]
        \/ pc[q] = "ChooseZone"
  \/ ListSubnets(p) /\ q = p

(* What a step does to a caller's listing.                                   *)
LEMMA ListSteps ==
  ASSUME TypeOK, [Next]_vars, NEW q \in Callers
  PROVE  \E p \in Callers : ListStep(p, q)
<1>1. CASE UNCHANGED <<pc, req, vpc, listed, zone>>
  BY <1>1 DEF ListStep
<1>2. ASSUME NEW p \in Callers, Start(p) \/ Abort(p) PROVE ListStep(p, q)
  BY <1>2 DEF Start, Abort, ListStep, Goto, TypeOK
<1>3. ASSUME NEW p \in Callers, Step(p) PROVE ListStep(p, q)
  <2>1. CASE FindVpc(p) \/ CreateVpc(p)
    BY <2>1 DEF FindVpc, CreateVpc, ListStep, At, Goto, TypeOK
  <2>2. CASE VpcDns(p) \/ AssociateVpcV6(p) \/ PollVpc(p)
             \/ FindIgw(p) \/ CreateIgw(p) \/ AttachIgw(p) \/ FindRouteTable(p)
             \/ CreateRouteTable(p) \/ RouteV4(p) \/ RouteV6(p)
    BY <2>2 DEF VpcDns, AssociateVpcV6, PollVpc, FindIgw, CreateIgw,
         AttachIgw, FindRouteTable, CreateRouteTable, RouteV4, RouteV6, RouteStep,
         ListStep, At, Goto, TypeOK
  <2>3. CASE ListSubnets(p)
    BY <2>3 DEF ListSubnets, ListStep, Goto, TypeOK
  <2>4. CASE ChooseZone(p) \/ CreateSubnet(p) \/ AssociateSubnetV6(p) \/ PollSubnet(p)
             \/ SubnetAttributes(p) \/ AssociateRouteTable(p)
    BY <2>4 DEF ChooseZone, CreateSubnet, AssociateSubnetV6, PollSubnet, SubnetAttributes,
         AssociateRouteTable, AfterV6, ListStep, At, Goto, TypeOK
  <2>5. CASE FindSg(p) \/ CreateSg(p) \/ RevokeIngress(p) \/ AuthorizeEgress(p)
    BY <2>5 DEF FindSg, CreateSg, RevokeIngress, AuthorizeEgress, Authorize, Finish,
         ListStep, At, Goto, TypeOK
  <2>. QED
    BY <1>2, <1>3, <2>1, <2>2, <2>3, <2>4, <2>5 DEF Step, GiveUp
<1>. QED
  BY <1>1, <1>2, <1>3 DEF Next, Fail, SettleVpc, SettleSubnet, Exhausted, vars, locals

(* Every step keeps what is known of the subnets listed.                     *)
LEMMA ListedKept ==
  ASSUME TypeOK, IInv, [Next]_vars PROVE ListedSubnets'
<1>. SUFFICES ASSUME NEW q \in Callers, NEW t \in listed'[q]
              PROVE  /\ pc'[q] \notin {"FindVpc", "CreateVpc"}
                     /\ Exists(t)' /\ subnet'[t].vpc = vpc'[q]
                     /\ pc'[q] = "ChooseZone" => subnet'[t].mode # req'[q].mode
                     /\ pc'[q] = "CreateSubnet" =>
                          ~(subnet'[t].az = zone'[q] /\ subnet'[t].mode = req'[q].mode)
  BY DEF ListedSubnets, Exists
<1>1. PICK p \in Callers : ListStep(p, q)
  BY ListSteps
<1>2. CASE ListSubnets(p) /\ q = p
  <2>1. PICK seen \in Views(SubnetsOf(vpc[q])) :
          /\ listed' = [listed EXCEPT ![q] = seen]
          /\ \/ \E s \in SubnetIds : Goto(q, ReadyStep(q, s))
             \/ Candidates(seen, req[q]) = {} /\ Goto(q, "ChooseZone") /\ req[q].az = None
             \/ /\ Candidates(seen, req[q]) = {} /\ Goto(q, "CreateSubnet")
                /\ zone' = [zone EXCEPT ![q] = req[q].az]
    <3>1. ASSUME NEW seen, seen \in Views(SubnetsOf(vpc[q]))
          PROVE  Candidates(seen, req[q]) \subseteq SubnetIds
      BY <3>1 DEF Candidates, Views, SubnetsOf
    <3>. QED
      BY <1>2, <3>1 DEF ListSubnets
  <2>2. t \in seen /\ seen \subseteq SubnetsOf(vpc[q])
    BY <2>1 DEF Views, TypeOK
  <2>3. t \in SubnetIds /\ Exists(t) /\ subnet[t].vpc = vpc[q]
    BY <2>2 DEF SubnetsOf
  <2>4. /\ subnet' = subnet /\ vpc' = vpc /\ req' = req
    BY <1>2 DEF ListSubnets, region
  <2>5. CASE \E s \in SubnetIds : Goto(q, ReadyStep(q, s))
    BY <2>3, <2>4, <2>5 DEF Goto, ReadyStep, AfterV6, Exists, TypeOK
  <2>6. CASE Candidates(seen, req[q]) = {} /\ Goto(q, "ChooseZone") /\ req[q].az = None
    BY <2>2, <2>3, <2>4, <2>6 DEF Goto, Candidates, Exists, TypeOK
  <2>7. CASE /\ Candidates(seen, req[q]) = {} /\ Goto(q, "CreateSubnet")
             /\ zone' = [zone EXCEPT ![q] = req[q].az]
    BY <2>2, <2>3, <2>4, <2>7 DEF Goto, Candidates, Exists, TypeOK
  <2>. QED
    BY <2>1, <2>5, <2>6, <2>7
<1>3. CASE ~(ListSubnets(p) /\ q = p)
  <2>1. t \in listed[q] /\ t \in SubnetIds
    BY <1>1, <1>3 DEF ListStep, TypeOK
  <2>2. /\ Exists(t)' /\ subnet'[t].vpc = subnet[t].vpc
        /\ subnet'[t].az = subnet[t].az /\ subnet'[t].mode = subnet[t].mode
    BY <2>1, ShownStays DEF IInv, ListedSubnets
  <2>. QED
    BY <1>1, <1>3, <2>1, <2>2 DEF ListStep, IInv, ListedSubnets
<1>. QED
  BY <1>2, <1>3

(* Every step keeps what is known of the zone chosen.                        *)
LEMMA ZoneKept == ASSUME TypeOK, HasZone, [Next]_vars PROVE HasZone'
<1>1. CASE UNCHANGED <<pc, zone>>
  BY <1>1 DEF HasZone
<1>2. ASSUME NEW p \in Callers, Start(p) \/ Abort(p) PROVE HasZone'
  BY <1>2 DEF Start, Abort, HasZone, Goto, TypeOK
<1>3. ASSUME NEW p \in Callers, pc'[p] # "CreateSubnet",
             \A q \in Callers \ {p} : pc'[q] = pc[q] /\ zone'[q] = zone[q]
      PROVE  HasZone'
  BY <1>3 DEF HasZone
<1>4. ASSUME NEW p \in Callers, Step(p) PROVE HasZone'
  <2>1. CASE FindVpc(p) \/ CreateVpc(p) \/ VpcDns(p) \/ AssociateVpcV6(p) \/ PollVpc(p)
             \/ FindIgw(p) \/ CreateIgw(p) \/ AttachIgw(p) \/ FindRouteTable(p)
             \/ CreateRouteTable(p) \/ RouteV4(p) \/ RouteV6(p)
    BY <1>3, <2>1 DEF FindVpc, CreateVpc, VpcDns, AssociateVpcV6, PollVpc, FindIgw, CreateIgw,
         AttachIgw, FindRouteTable, CreateRouteTable, RouteV4, RouteV6, RouteStep,
         At, Goto, TypeOK
  <2>2. CASE ListSubnets(p)
    <3>1. CASE \E x : Goto(p, x) /\ x # "CreateSubnet" /\ (zone' = zone)
      BY <1>3, <3>1 DEF Goto, TypeOK
    <3>2. CASE zone' = [zone EXCEPT ![p] = req[p].az] /\ req[p].az # None /\ Goto(p, "CreateSubnet")
      <4>1. req[p].az \in Zones
        BY <3>2, RequestAssumption DEF TypeOK
      <4>. QED
        BY <3>2, <4>1 DEF HasZone, Goto, TypeOK
    <3>3. \A s : ReadyStep(p, s) # "CreateSubnet"
      BY DEF ReadyStep, AfterV6
    <3>. QED
      BY <2>2, <3>1, <3>2, <3>3 DEF ListSubnets
  <2>3. CASE ChooseZone(p)
    BY <2>3 DEF ChooseZone, HasZone, Goto, TypeOK
  <2>4. CASE CreateSubnet(p) \/ AssociateSubnetV6(p) \/ PollSubnet(p) \/ SubnetAttributes(p)
             \/ AssociateRouteTable(p)
    BY <1>3, <2>4 DEF CreateSubnet, AssociateSubnetV6, PollSubnet, SubnetAttributes,
         AssociateRouteTable, AfterV6, At, Goto, TypeOK
  <2>5. CASE FindSg(p) \/ CreateSg(p) \/ RevokeIngress(p) \/ AuthorizeEgress(p)
    BY <1>3, <2>5 DEF FindSg, CreateSg, RevokeIngress, AuthorizeEgress, Authorize, Finish,
         At, Goto, TypeOK
  <2>. QED
    BY <1>2, <1>4, <2>1, <2>2, <2>3, <2>4, <2>5 DEF Step, GiveUp
<1>. QED
  BY <1>1, <1>2, <1>4 DEF Next, Fail, SettleVpc, SettleSubnet, Exhausted, vars, locals

-----------------------------------------------------------------------------
(* The invariant holds at the start.                                         *)
LEMMA InitIInv == Init /\ Setting => IInv
<1>. SUFFICES ASSUME Init, Setting PROVE IInv
  OBVIOUS
<1>1. /\ \A p \in Callers : pc[p] = "idle" /\ listed[p] = {} /\ mem[p] = NoMem
      /\ \A s \in SubnetIds : ~Exists(s)
  BY DEF Init, Setting, EmptyRegion, PreparedRegion, NoSubnet, Exists
<1>2. OneBlock
  <2>1. CASE EmptyRegion
    BY <1>1, <2>1 DEF EmptyRegion, OneBlock, NoMem
  <2>2. CASE PreparedRegion
    BY <1>1, <2>2, BoundAssumption DEF PreparedRegion, OneBlock, NoMem, Blocks
  <2>. QED
    BY <2>1, <2>2 DEF Init, Setting
<1>. QED
  BY <1>1, <1>2 DEF IInv, Numbered, ListedSubnets, HasZone, UniqueSubnetPerPlacement

(* It holds from the start on.                                               *)
LEMMA IInvAlways == ASSUME Setting PROVE Spec => [](TypeOK /\ HasVpc /\ IInv)
<1>1. Init => TypeOK /\ HasVpc /\ IInv
  BY InitType, InitIInv DEF Init, HasVpc
<1>2. TypeOK /\ HasVpc /\ IInv /\ [Next]_vars => (TypeOK /\ HasVpc /\ IInv)'
  <2>. SUFFICES ASSUME TypeOK, HasVpc, IInv, [Next]_vars
                PROVE  (TypeOK /\ HasVpc /\ IInv)'
    OBVIOUS
  <2>1. TypeOK' /\ HasVpc'
    BY NextType, NextHasVpc
  <2>2. OneBlock'
    BY OneBlockKept DEF IInv
  <2>. QED
    BY <2>1, <2>2, NumberedKept, ListedKept, ZoneKept DEF IInv
<1>. QED
  BY <1>1, <1>2, PTL DEF Spec

(* However many callers race and however stale their lists are, a VPC never  *)
(* gets a second subnet for the same zone and mode.                          *)
THEOREM UniqueSubnet == ASSUME Setting PROVE Spec => []UniqueSubnetPerPlacement
<1>1. IInv => UniqueSubnetPerPlacement
  BY DEF IInv
<1>. QED
  BY <1>1, IInvAlways, PTL

(* Two calls that were asked for the same placement and returned a subnet of *)
(* the same VPC returned the same subnet.                                    *)
SameSubnet ==
  \A p, q \in Callers :
    /\ pc[p] = "done" /\ pc[q] = "done"
    /\ vpc[p] = vpc[q] /\ req[p] = req[q] /\ req[p].az # None
    => mem[p].sub = mem[q].sub

(* However calls for one zone and mode interleave, and whether each found    *)
(* its subnet, created it or was turned down and came again, they end up in  *)
(* one subnet, so that a retried launch asks for the placement of its first  *)
(* attempt (ensureManagedSubnet, firstManagedSubnet).                        *)
THEOREM PlacementsShareSubnet == ASSUME Setting PROVE Spec => []SameSubnet
<1>1. TypeOK /\ HasVpc /\ NetworkInv /\ UniqueSubnetPerPlacement => SameSubnet
  <2>. SUFFICES ASSUME TypeOK, HasVpc, NetworkInv, UniqueSubnetPerPlacement,
                       NEW p \in Callers, NEW q \in Callers,
                       pc[p] = "done", pc[q] = "done",
                       vpc[p] = vpc[q], req[p] = req[q], req[p].az # None
                PROVE  mem[p].sub = mem[q].sub
    BY DEF SameSubnet
  <2>1. ASSUME NEW c \in Callers, pc[c] = "done", req[c].az # None
        PROVE  /\ mem[c].sub \in SubnetIds /\ Exists(mem[c].sub)
               /\ subnet[mem[c].sub].vpc = vpc[c]
               /\ subnet[mem[c].sub].az = req[c].az
               /\ subnet[mem[c].sub].mode = req[c].mode
    <3>1. Fits(mem[c].sub, vpc[c], req[c])
      BY <2>1 DEF NetworkInv, SubnetInv, HasSubnet, HasBlock, HasAttributes, AtGroup
    <3>2. mem[c].sub \in SubnetIds
      BY <3>1 DEF Fits, TypeOK, Locals
    <3>3. vpc[c] # None
      BY <2>1 DEF HasVpc
    <3>. QED
      BY <2>1, <3>1, <3>2, <3>3 DEF Fits, Exists
  <2>. QED
    BY <2>1 DEF UniqueSubnetPerPlacement
<1>. QED
  BY <1>1, NetworkAlways, UniqueSubnet, PTL

(* The steps of the calls are, for the subnets, claims in one registry.      *)
THEOREM RegistryImplemented == ASSUME Setting PROVE Spec => ActsAsRegistry
<1>. DEFINE claimed == {Entry(s) : s \in {t \in SubnetIds : Exists(t)}}
<1>1. Init => Registry!Init
  <2>. SUFFICES ASSUME Init PROVE claimed = {}
    BY DEF Registry!Init
  <2>1. \A s \in SubnetIds : ~Exists(s)
    BY DEF Init, Setting, EmptyRegion, PreparedRegion, NoSubnet, Exists
  <2>. QED
    BY <2>1
<1>2. TypeOK /\ HasVpc /\ IInv /\ [Next]_vars => [Registry!Next]_claimed
  <2>. SUFFICES ASSUME TypeOK, HasVpc, IInv, [Next]_vars PROVE [Registry!Next]_claimed
    OBVIOUS
  <2>1. CASE SameEntries
    <3>1. \A s \in SubnetIds : (Exists(s)' <=> Exists(s)) /\ Entry(s)' = Entry(s)
      BY <2>1 DEF SameEntries, Exists, Entry
    <3>. QED
      BY <3>1
  <2>2. ASSUME NEW p \in Callers, CreateSubnet(p) PROVE Registry!Next
    <3>1. PICK s \in SubnetIds, i \in Indexes : Claims(p, s, i)
      BY <2>2, CreateClaims
    <3>2. vpc[p] \in VpcIds
      BY <2>2 DEF HasVpc, CreateSubnet, At, TypeOK
    <3>3. zone[p] \in Zones /\ req[p].mode \in Modes
      BY <2>2, RequestAssumption DEF IInv, HasZone, CreateSubnet, At, TypeOK
    <3>4. /\ subnet'[s] = NewSubnet(p, i)
          /\ \A t \in SubnetIds \ {s} : subnet'[t] = subnet[t]
      BY <3>1 DEF Claims, TypeOK
    <3>5. /\ Exists(s)' /\ ~Exists(s)
          /\ Entry(s)' = [vpc |-> vpc[p], az |-> zone[p], mode |-> req[p].mode, index |-> i]
          /\ \A t \in SubnetIds \ {s} : (Exists(t)' <=> Exists(t)) /\ Entry(t)' = Entry(t)
      <4>1. vpc[p] # None
        BY <3>2, IdAssumption
      <4>2. Exists(s)' /\ ~Exists(s)
        BY <3>1, <3>4, <4>1 DEF Claims, NewSubnet, Exists
      <4>3. Entry(s)' = [vpc |-> vpc[p], az |-> zone[p], mode |-> req[p].mode, index |-> i]
        BY <3>4 DEF NewSubnet, Entry
      <4>4. \A t \in SubnetIds \ {s} : (Exists(t)' <=> Exists(t)) /\ Entry(t)' = Entry(t)
        BY <3>4 DEF Exists, Entry
      <4>. QED
        BY <4>2, <4>3, <4>4
    <3>6. claimed' = claimed \cup
            {[vpc |-> vpc[p], az |-> zone[p], mode |-> req[p].mode, index |-> i]}
      BY <3>5
    <3>7. Registry!Claim(vpc[p], zone[p], req[p].mode, i)
      <4>1. \A e \in claimed : e.vpc = vpc[p] =>
              \E t \in SubnetsOf(vpc[p]) :
                e.az = subnet[t].az /\ e.mode = subnet[t].mode /\ e.index = subnet[t].index
        BY DEF Entry, SubnetsOf
      <4>2. \A j \in Indexes : j < i =>
              \E t \in SubnetsOf(vpc[p]) : Entry(t).vpc = vpc[p] /\ Entry(t).index = j
        BY <3>1 DEF Claims, SubnetsOf, Entry
      <4>3. \A t \in SubnetsOf(vpc[p]) : Entry(t) \in claimed
        BY DEF SubnetsOf
      <4>. QED
        BY <3>1, <3>6, <4>1, <4>2, <4>3 DEF Claims, Registry!Claim, Registry!Of
    <3>. QED
      BY <3>2, <3>3, <3>7 DEF Registry!Next
  <2>. QED
    BY <2>1, <2>2, EntriesKept DEF IInv
<1>. QED
  BY <1>1, <1>2, IInvAlways, PTL DEF Spec, ActsAsRegistry, Registry!Spec

(* A block that is listed is awaited: no call of this code asks for a second.*)
THEOREM BlockAwaited == ASSUME Setting PROVE Spec => AssociationAwaited
<1>1. OneBlock => \A p \in Callers : ~AssociateVpcV6(p)
  BY DEF OneBlock, AssociateVpcV6, At
<1>2. IInv => [\A p \in Callers, v \in VpcIds :
                 AssociateVpcV6(p) /\ vpc[p] = v => v6[v][1] = "none"]_vars
  BY <1>1 DEF IInv
<1>. QED
  BY <1>2, IInvAlways, PTL DEF AssociationAwaited
=============================================================================
