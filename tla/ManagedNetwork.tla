--------------------------- MODULE ManagedNetwork ---------------------------
(***************************************************************************)
(* The shared network that StartInstance builds in an EC2 region           *)
(* (src/internal/aws/network_manager.go): one VPC, an internet gateway, a  *)
(* route table, one subnet per availability zone and mode, a security      *)
(* group.  Nothing locks: every StartInstance of every provider process    *)
(* walks the same find-or-create sequence against the same region, and     *)
(* each walk can stop at any call and be started again.                    *)
(*                                                                         *)
(* One action is one EC2 call together with the decisions the code takes   *)
(* on its answer.  The EC2 side of a call is what the code relies on, and  *)
(* is external to the repository.                                          *)
(***************************************************************************)
EXTENDS Naturals

CONSTANTS
  Callers,           \* concurrent StartInstance calls, each with its retries
  VpcIds, IgwIds, RouteTableIds, SubnetIds,
                     \* the ids EC2 may hand out, in any order: its quotas
  Zones,             \* availability zones, numbered in the order of their names
  Requests,          \* the placements asked for: [az, mode], az = None for any
  MaxIndex,          \* last subnet index (255 in the code)
  MaxV6Blocks,       \* IPv6 blocks EC2 allows on one VPC
  MaxPolls,          \* polls that fit in managedNetworkWaitTimeout
  MaxCalls,          \* calls of ensureManagedNetwork per caller
  StartRegions,      \* what the region may hold at first, see Init
  Consistent,        \* FALSE: a Describe may miss resources just created
  LateCidr,          \* TRUE: an IPv6 block may be listed before its CIDR is known
  AssociationFails,  \* TRUE: an IPv6 association may end as failed
  MayFail            \* TRUE: any call may fail, be cancelled or lose its answer

None == 0
Modes == {"dualstack", "ipv6-native"}
Families == {"v4", "v6"}
Blocks == 1..MaxV6Blocks
Indexes == 0..MaxIndex

ASSUME IdAssumption ==
  /\ VpcIds \subseteq Nat \ {None}
  /\ IgwIds \subseteq Nat \ {None}
  /\ RouteTableIds \subseteq Nat \ {None}
  /\ SubnetIds \subseteq Nat \ {None}
ASSUME ZoneAssumption == Zones \subseteq Nat \ {None}
ASSUME RequestAssumption ==
  Requests # {} /\ Requests \subseteq [az: Zones \cup {None}, mode: Modes]
ASSUME BoundAssumption ==
  /\ MaxIndex \in Nat
  /\ MaxV6Blocks \in Nat \ {0}
  /\ MaxPolls \in Nat
  /\ MaxCalls \in Nat
ASSUME SwitchAssumption ==
  /\ StartRegions \subseteq {"empty", "prepared", "legacy"}
  /\ {Consistent, LateCidr, AssociationFails, MayFail} \subseteq BOOLEAN

VARIABLES
  vpcs,      \* managed VPCs of the region
  dns,       \* those with DNS support and hostnames enabled
  v6,        \* v6[v][b]: state of the b-th IPv6 block of VPC v
  igws,      \* internet gateways that exist
  attached,  \* attached[v]: the gateway attached to v, or None
  tables,    \* managed route tables: their VPC and the target of each default route
  subnet,    \* managed subnets
  sg,        \* sg[v]: the arco-security-group of v (names are unique in a VPC)
  pc, req,   \* a caller's next call and the placement it was asked for
  vpc,       \* the VPC it settled on
  listed,    \* the managed subnets its ListSubnets returned
  zone,      \* the zone it will create a subnet in
  mem,       \* its other locals
  calls,     \* how many calls it has started
  made       \* history: the VPCs it created over all its calls

region == <<vpcs, dns, v6, igws, attached, tables, subnet, sg>>
locals == <<pc, req, vpc, listed, zone, mem, calls, made>>
vars == <<region, locals>>

V6States == {"none", "opening", "associating", "associated", "failed"}
Steps == {"FindVpc", "CreateVpc", "VpcDns", "AssociateVpcV6", "PollVpc",
          "FindIgw", "CreateIgw", "AttachIgw", "FindRouteTable",
          "CreateRouteTable", "RouteV4", "RouteV6", "ListSubnets", "ChooseZone",
          "CreateSubnet", "AssociateSubnetV6", "PollSubnet", "SubnetAttributes",
          "AssociateRouteTable", "FindSg", "CreateSg", "RevokeIngress",
          "AuthorizeEgress"}
Resting == {"idle", "done"}

Routes == [Families -> IgwIds \cup {None}]
V6Blocks == [Blocks -> V6States]
Tables == [vpc: VpcIds \cup {None}, routes: Routes]
Subnets ==
  [vpc: VpcIds \cup {None}, az: Zones \cup {None}, mode: Modes, index: Indexes,
   block: Blocks \cup {None}, v6: V6States, ready: BOOLEAN,
   rt: RouteTableIds \cup {None}]
Groups == [exists: BOOLEAN, ingress: BOOLEAN, egress: SUBSET Families]
Locals ==
  [seenV6: V6Blocks, igw: IgwIds \cup {None}, rt: RouteTableIds \cup {None},
   seenRoutes: SUBSET Families, seenSubnets: SUBSET SubnetIds,
   sub: SubnetIds \cup {None}, missing: SUBSET Families, polls: 0..MaxPolls]

NoRoutes == [f \in Families |-> None]
NoTable == [vpc |-> None, routes |-> NoRoutes]
NoSubnet == [vpc |-> None, az |-> None, mode |-> "dualstack", index |-> 0,
             block |-> None, v6 |-> "none", ready |-> FALSE, rt |-> None]
NoSg == [exists |-> FALSE, ingress |-> FALSE, egress |-> {}]
NoMem == [seenV6 |-> [b \in Blocks |-> "none"], igw |-> None, rt |-> None,
          seenRoutes |-> {}, seenSubnets |-> {}, sub |-> None, missing |-> {},
          polls |-> 0]

(* Every variable has its type; a reference of a caller is to an id or None. *)
TypeOK ==
  /\ vpcs \subseteq VpcIds /\ dns \subseteq VpcIds /\ igws \subseteq IgwIds
  /\ v6 \in [VpcIds -> V6Blocks]
  /\ attached \in [VpcIds -> IgwIds \cup {None}]
  /\ tables \in [RouteTableIds -> Tables]
  /\ subnet \in [SubnetIds -> Subnets]
  /\ sg \in [VpcIds -> Groups]
  /\ pc \in [Callers -> Steps \cup Resting]
  /\ req \in [Callers -> Requests]
  /\ vpc \in [Callers -> VpcIds \cup {None}]
  /\ listed \in [Callers -> SUBSET SubnetIds]
  /\ zone \in [Callers -> Zones \cup {None}]
  /\ mem \in [Callers -> Locals]
  /\ calls \in [Callers -> 0..MaxCalls]
  /\ made \in [Callers -> SUBSET VpcIds]

-----------------------------------------------------------------------------
(* Reading the region.                                                       *)

Exists(s) == subnet[s].vpc # None
SubnetsOf(v) == {s \in SubnetIds : Exists(s) /\ subnet[s].vpc = v}
TablesOf(v) == {r \in RouteTableIds : tables[r].vpc = v}

(* What a Describe over S may return: all of S, or, when EC2 has not caught  *)
(* up with its own writes, any part of it.                                   *)
Views(S) == IF Consistent THEN {S} ELSE SUBSET S

(* The code sorts what it found by id, or zones by name, and takes the first. *)
IsLeast(x, S) == x \in S /\ \A y \in S : x <= y

(* managedVPCIPv6CIDR: the first block listed whose state is associated.     *)
IsUsableBlock(seen, b) ==
  /\ seen[b] = "associated"
  /\ \A c \in Blocks : c < b => seen[c] # "associated"
HasUsableBlock(seen) == \E b \in Blocks : seen[b] = "associated"

(* A variant of HasAnyCidr that overlooks a block still associating.         *)
HasAnyCidrAssociated(seen) == \E b \in Blocks : seen[b] \in {"associated", "failed"}

(* managedVPCHasAnyIPv6CIDR: any block, in any state, that lists its CIDR.   *)
HasAnyCidr(seen) == \E b \in Blocks : seen[b] \notin {"none", "opening"}

(* Variants of IsFreeIndex: any index no subnet uses; counting from 1.       *)
IsFreeIndexAny(S, i) == \A s \in S : subnet[s].index # i
IsFreeIndexFromOne(S, i) ==
  /\ i > 0 /\ \A s \in S : subnet[s].index # i
  /\ \A j \in Indexes \ {0} : j < i => \E s \in S : subnet[s].index = j

(* firstAvailableManagedSubnetIndex: the lowest index no subnet of S uses.   *)
IsFreeIndex(S, i) ==
  /\ \A s \in S : subnet[s].index # i
  /\ \A j \in Indexes : j < i => \E s \in S : subnet[s].index = j

(* listManagedSubnets sorts by zone, then id; firstManagedSubnet takes the   *)
(* first one of the wanted mode and, if a zone was named, of that zone.      *)
Candidates(S, r) ==
  {s \in S : subnet[s].mode = r.mode /\ (r.az = None \/ subnet[s].az = r.az)}
IsFirstSubnet(S, s) ==
  /\ s \in S
  /\ \A t \in S : \/ subnet[s].az < subnet[t].az
                  \/ subnet[s].az = subnet[t].az /\ s <= t

(* EC2 refuses a subnet whose IPv4 /24 or IPv6 /64 overlaps another's: both  *)
(* are derived from the index, the /64 also from the VPC's block.            *)
Overlaps(v, m, i, b) ==
  \E s \in SubnetsOf(v) :
    /\ subnet[s].index = i
    /\ \/ m = "dualstack" /\ subnet[s].mode = "dualstack"
       \/ subnet[s].block = b

-----------------------------------------------------------------------------
(* Moving a caller along.                                                    *)

At(p, step) == pc[p] = step
Goto(p, step) == pc' = [pc EXCEPT ![p] = step]

(* The call returns an error: its locals are gone, what EC2 did stays.       *)
Abort(p) ==
  /\ Goto(p, "idle")
  /\ vpc' = [vpc EXCEPT ![p] = None]
  /\ listed' = [listed EXCEPT ![p] = {}]
  /\ zone' = [zone EXCEPT ![p] = None]
  /\ mem' = [mem EXCEPT ![p] = NoMem]
  /\ UNCHANGED <<region, req, calls, made>>

(* ensureManagedNetwork is called, for the first time or again.              *)
Start(p) ==
  /\ pc[p] \in Resting /\ calls[p] < MaxCalls
  /\ calls' = [calls EXCEPT ![p] = @ + 1]
  /\ \E r \in Requests : req' = [req EXCEPT ![p] = r]
  /\ Goto(p, "FindVpc")
  /\ vpc' = [vpc EXCEPT ![p] = None]
  /\ listed' = [listed EXCEPT ![p] = {}]
  /\ zone' = [zone EXCEPT ![p] = None]
  /\ mem' = [mem EXCEPT ![p] = NoMem]
  /\ UNCHANGED <<region, made>>

(* An API error, a cancelled context, a lost answer or the provider dying.   *)
Fail(p) == MayFail /\ pc[p] \notin Resting /\ Abort(p)

-----------------------------------------------------------------------------
(* The VPC and its IPv6 block.                                               *)

(* A variant of FoundVpcs: a VPC gets its tags only after its attributes.     *)
FoundVpcsOnceTagged == vpcs \cap dns

(* The VPCs the tag filter finds; CreateVpc tags them as it creates them.    *)
FoundVpcs == vpcs

FindVpc(p) ==
  /\ At(p, "FindVpc")
  /\ \E seen \in Views(FoundVpcs) :
       \/ /\ seen = {}
          /\ Goto(p, "CreateVpc")
          /\ UNCHANGED <<vpc, mem>>
       \/ \E v \in VpcIds :
            /\ IsLeast(v, seen)
            /\ vpc' = [vpc EXCEPT ![p] = v]
            /\ mem' = [mem EXCEPT ![p].seenV6 = v6[v]]
            /\ Goto(p, "VpcDns")
  /\ UNCHANGED <<region, req, listed, zone, calls, made>>

(* EC2 opens a block; until it settles its CIDR may not be reported yet.     *)
OpenStates == {"associating"} \cup (IF LateCidr THEN {"opening"} ELSE {})

CreateVpc(p) ==
  /\ At(p, "CreateVpc")
  /\ \E v \in VpcIds \ vpcs, state \in OpenStates :
       /\ vpcs' = vpcs \cup {v}
       /\ made' = [made EXCEPT ![p] = @ \cup {v}]
       /\ v6' = [v6 EXCEPT ![v][1] = state]
       /\ mem' = [mem EXCEPT ![p].seenV6 = v6'[v]]
       /\ vpc' = [vpc EXCEPT ![p] = v]
  /\ Goto(p, "VpcDns")
  /\ UNCHANGED <<dns, igws, attached, tables, subnet, sg, req, listed, zone, calls>>

(* Both ModifyVpcAttribute calls, then ensureManagedVPCIPv6's decision on    *)
(* the VPC as it was found or created.                                       *)
VpcDns(p) ==
  /\ At(p, "VpcDns")
  /\ dns' = dns \cup {vpc[p]}
  /\ Goto(p, IF HasUsableBlock(mem[p].seenV6) THEN "FindIgw"
             ELSE IF HasAnyCidr(mem[p].seenV6) THEN "PollVpc"
             ELSE "AssociateVpcV6")
  /\ UNCHANGED <<vpcs, v6, igws, attached, tables, subnet, sg,
                 req, vpc, listed, zone, mem, calls, made>>

IsOpenSlot(v, b) == v6[v][b] = "none" /\ \A c \in Blocks : c < b => v6[v][c] # "none"

AssociateVpcV6(p) ==
  /\ At(p, "AssociateVpcV6")
  /\ \E b \in Blocks, state \in OpenStates :
       /\ IsOpenSlot(vpc[p], b)
       /\ v6' = [v6 EXCEPT ![vpc[p]][b] = state]
  /\ Goto(p, "PollVpc")
  /\ UNCHANGED <<vpcs, dns, igws, attached, tables, subnet, sg,
                 req, vpc, listed, zone, mem, calls, made>>

(* A variant of PollVpc without a deadline.                                  *)
PollVpcForever(p) ==
  /\ At(p, "PollVpc") /\ HasUsableBlock(v6[vpc[p]])
  /\ mem' = [mem EXCEPT ![p].seenV6 = v6[vpc[p]]]
  /\ Goto(p, "FindIgw")
  /\ UNCHANGED <<region, req, vpc, listed, zone, calls, made>>

(* One turn of waitForManagedVPCIPv6CIDR's loop that does not give up.       *)
PollVpc(p) ==
  /\ At(p, "PollVpc")
  /\ \/ /\ HasUsableBlock(v6[vpc[p]])
        /\ mem' = [mem EXCEPT ![p].seenV6 = v6[vpc[p]], ![p].polls = 0]
        /\ Goto(p, "FindIgw")
     \/ /\ ~HasUsableBlock(v6[vpc[p]]) /\ mem[p].polls < MaxPolls
        /\ mem' = [mem EXCEPT ![p].polls = @ + 1]
        /\ UNCHANGED pc
  /\ UNCHANGED <<region, req, vpc, listed, zone, calls, made>>

-----------------------------------------------------------------------------
(* The internet gateway and the route table.                                 *)

FindIgw(p) ==
  /\ At(p, "FindIgw")
  /\ \E seen \in Views({attached[vpc[p]]} \ {None}) :
       \/ seen = {} /\ Goto(p, "CreateIgw") /\ UNCHANGED mem
       \/ \E g \in seen :
            /\ mem' = [mem EXCEPT ![p].igw = g]
            /\ Goto(p, "FindRouteTable")
  /\ UNCHANGED <<region, req, vpc, listed, zone, calls, made>>

CreateIgw(p) ==
  /\ At(p, "CreateIgw")
  /\ \E g \in IgwIds \ igws :
       /\ igws' = igws \cup {g}
       /\ mem' = [mem EXCEPT ![p].igw = g]
  /\ Goto(p, "AttachIgw")
  /\ UNCHANGED <<vpcs, dns, v6, attached, tables, subnet, sg,
                 req, vpc, listed, zone, calls, made>>

(* EC2 attaches one gateway to a VPC.  To the caller that comes second it    *)
(* answers Resource.AlreadyAssociated, which the code takes for success and  *)
(* goes on with a gateway that is attached to nothing, or another error.     *)
AttachIgw(p) ==
  /\ At(p, "AttachIgw")
  /\ attached' = [attached EXCEPT ![vpc[p]] = IF @ = None THEN mem[p].igw ELSE @]
  /\ Goto(p, "FindRouteTable")
  /\ UNCHANGED <<vpcs, dns, v6, igws, tables, subnet, sg,
                 req, vpc, listed, zone, mem, calls, made>>

(* A variant of RouteStep that takes a table with one route for complete.    *)
RouteStepV4Only(has) == IF "v4" \notin has THEN "RouteV4" ELSE "ListSubnets"

(* The first of the two default routes the table was seen without.           *)
RouteStep(has) ==
  IF "v4" \notin has THEN "RouteV4"
  ELSE IF "v6" \notin has THEN "RouteV6" ELSE "ListSubnets"

FindRouteTable(p) ==
  /\ At(p, "FindRouteTable")
  /\ \E seen \in Views(TablesOf(vpc[p])) :
       \/ seen = {} /\ Goto(p, "CreateRouteTable") /\ UNCHANGED mem
       \/ \E r \in RouteTableIds :
            LET has == {f \in Families : tables[r].routes[f] # None} IN
            /\ IsLeast(r, seen)
            /\ mem' = [mem EXCEPT ![p].rt = r,
                         ![p].seenRoutes = has,
                         ![p].seenSubnets = {s \in SubnetIds : subnet[s].rt = r}]
            /\ Goto(p, RouteStep(has))
  /\ UNCHANGED <<region, req, vpc, listed, zone, calls, made>>

CreateRouteTable(p) ==
  /\ At(p, "CreateRouteTable")
  /\ \E r \in RouteTableIds :
       /\ tables[r].vpc = None
       /\ tables' = [tables EXCEPT ![r].vpc = vpc[p]]
       /\ mem' = [mem EXCEPT ![p].rt = r]
  /\ Goto(p, "RouteV4")
  /\ UNCHANGED <<vpcs, dns, v6, igws, attached, subnet, sg,
                 req, vpc, listed, zone, calls, made>>

(* ensureManagedRoute: RouteAlreadyExists is tolerated; EC2 takes no route   *)
(* to a gateway that is not attached to the table's VPC.                     *)
CreateRoute(p, f) ==
  LET r == mem[p].rt IN
  \/ tables[r].routes[f] # None /\ UNCHANGED tables
  \/ /\ tables[r].routes[f] = None /\ attached[vpc[p]] = mem[p].igw
     /\ tables' = [tables EXCEPT ![r].routes[f] = mem[p].igw]

RouteV4(p) ==
  /\ At(p, "RouteV4")
  /\ CreateRoute(p, "v4")
  /\ Goto(p, IF "v6" \in mem[p].seenRoutes THEN "ListSubnets" ELSE "RouteV6")
  /\ UNCHANGED <<vpcs, dns, v6, igws, attached, subnet, sg,
                 req, vpc, listed, zone, mem, calls, made>>

RouteV6(p) ==
  /\ At(p, "RouteV6")
  /\ CreateRoute(p, "v6")
  /\ Goto(p, "ListSubnets")
  /\ UNCHANGED <<vpcs, dns, v6, igws, attached, subnet, sg,
                 req, vpc, listed, zone, mem, calls, made>>

-----------------------------------------------------------------------------
(* The subnet.                                                               *)

(* ensureManagedSubnetReady once the subnet's IPv6 block is settled: the     *)
(* attributes that are not as wanted, then the route table association.      *)
AfterV6(p, s) ==
  IF ~subnet[s].ready THEN "SubnetAttributes"
  ELSE IF s \notin mem[p].seenSubnets THEN "AssociateRouteTable"
  ELSE "FindSg"

(* ensureManagedSubnetReady for a subnet that was listed.                    *)
ReadyStep(p, s) ==
  IF subnet[s].mode = "ipv6-native" \/ subnet[s].v6 = "associated"
  THEN AfterV6(p, s)
  ELSE IF subnet[s].v6 = "none" THEN "AssociateSubnetV6" ELSE "PollSubnet"

ListSubnets(p) ==
  /\ At(p, "ListSubnets")
  /\ \E seen \in Views(SubnetsOf(vpc[p])) :
       LET usable == Candidates(seen, req[p]) IN
       /\ listed' = [listed EXCEPT ![p] = seen]
       /\ \/ \E s \in usable :
               /\ IsFirstSubnet(usable, s)
               /\ mem' = [mem EXCEPT ![p].sub = s]
               /\ Goto(p, ReadyStep(p, s))
               /\ UNCHANGED zone
          \/ /\ usable = {} /\ req[p].az = None
             /\ Goto(p, "ChooseZone")
             /\ UNCHANGED <<mem, zone>>
          \/ /\ usable = {} /\ req[p].az # None
             /\ zone' = [zone EXCEPT ![p] = req[p].az]
             /\ Goto(p, "CreateSubnet")
             /\ UNCHANGED mem
  /\ UNCHANGED <<region, req, vpc, calls, made>>

(* chooseManagedSubnetAZ: the first by name of the zones now available.      *)
ChooseZone(p) ==
  /\ At(p, "ChooseZone")
  /\ \E available \in SUBSET Zones, z \in Zones :
       /\ IsLeast(z, available)
       /\ zone' = [zone EXCEPT ![p] = z]
  /\ Goto(p, "CreateSubnet")
  /\ UNCHANGED <<region, req, vpc, listed, mem, calls, made>>

CreateSubnet(p) ==
  /\ At(p, "CreateSubnet")
  /\ \E s \in SubnetIds, i \in Indexes, b \in Blocks :
       /\ ~Exists(s)
       /\ IsFreeIndex(listed[p], i)
       /\ IsUsableBlock(mem[p].seenV6, b)
       /\ ~Overlaps(vpc[p], req[p].mode, i, b)
       /\ subnet' = [subnet EXCEPT ![s] =
            [vpc |-> vpc[p], az |-> zone[p], mode |-> req[p].mode, index |-> i,
             block |-> b, v6 |-> "associating", ready |-> FALSE, rt |-> None]]
       /\ mem' = [mem EXCEPT ![p].sub = s]
  /\ Goto(p, IF req[p].mode = "ipv6-native" THEN "SubnetAttributes" ELSE "PollSubnet")
  /\ UNCHANGED <<vpcs, dns, v6, igws, attached, tables, sg,
                 req, vpc, listed, zone, calls, made>>

(* A dual-stack subnet without a block gets the /64 its index stands for.    *)
AssociateSubnetV6(p) ==
  LET s == mem[p].sub IN
  /\ At(p, "AssociateSubnetV6") /\ subnet[s].v6 = "none"
  /\ \E b \in Blocks :
       /\ IsUsableBlock(mem[p].seenV6, b)
       /\ \A t \in SubnetsOf(vpc[p]) \ {s} :
            ~(subnet[t].index = subnet[s].index /\ subnet[t].block = b)
       /\ subnet' = [subnet EXCEPT ![s].block = b, ![s].v6 = "associating"]
  /\ Goto(p, "PollSubnet")
  /\ UNCHANGED <<vpcs, dns, v6, igws, attached, tables, sg,
                 req, vpc, listed, zone, mem, calls, made>>

PollSubnet(p) ==
  LET s == mem[p].sub IN
  /\ At(p, "PollSubnet")
  /\ \/ /\ subnet[s].v6 = "associated"
        /\ mem' = [mem EXCEPT ![p].polls = 0]
        /\ Goto(p, AfterV6(p, s))
     \/ /\ subnet[s].v6 # "associated" /\ mem[p].polls < MaxPolls
        /\ mem' = [mem EXCEPT ![p].polls = @ + 1]
        /\ UNCHANGED pc
  /\ UNCHANGED <<region, req, vpc, listed, zone, calls, made>>

(* The ModifySubnetAttribute calls of either mode; each is idempotent and    *)
(* made again by the next call unless all of them went through.              *)
SubnetAttributes(p) ==
  /\ At(p, "SubnetAttributes")
  /\ subnet' = [subnet EXCEPT ![mem[p].sub].ready = TRUE]
  /\ Goto(p, IF mem[p].sub \in mem[p].seenSubnets THEN "FindSg"
             ELSE "AssociateRouteTable")
  /\ UNCHANGED <<vpcs, dns, v6, igws, attached, tables, sg,
                 req, vpc, listed, zone, mem, calls, made>>

(* Resource.AlreadyAssociated is tolerated, whichever table holds the subnet. *)
AssociateRouteTable(p) ==
  /\ At(p, "AssociateRouteTable")
  /\ subnet' = [subnet EXCEPT ![mem[p].sub].rt = IF @ = None THEN mem[p].rt ELSE @]
  /\ Goto(p, "FindSg")
  /\ UNCHANGED <<vpcs, dns, v6, igws, attached, tables, sg,
                 req, vpc, listed, zone, mem, calls, made>>

-----------------------------------------------------------------------------
(* The security group.                                                       *)

(* The call returns [vpc, sub, the group of vpc]; its other locals go.       *)
Finish(p) ==
  /\ Goto(p, "done")
  /\ listed' = [listed EXCEPT ![p] = {}]
  /\ zone' = [zone EXCEPT ![p] = None]
  /\ mem' = [mem EXCEPT ![p] = [NoMem EXCEPT !.sub = mem[p].sub]]

(* A variant of Authorize that is content with IPv4.                         *)
AuthorizeV4Only(p, missing) ==
  \/ "v4" \notin missing /\ Finish(p)
  \/ /\ "v4" \in missing
     /\ mem' = [mem EXCEPT ![p].missing = missing]
     /\ Goto(p, "AuthorizeEgress")
     /\ UNCHANGED <<listed, zone>>

(* ensureManagedSecurityGroupEgress with the permissions still to authorize. *)
Authorize(p, missing) ==
  \/ missing = {} /\ Finish(p)
  \/ /\ missing # {}
     /\ mem' = [mem EXCEPT ![p].missing = missing]
     /\ Goto(p, "AuthorizeEgress")
     /\ UNCHANGED <<listed, zone>>

FindSg(p) ==
  LET g == sg[vpc[p]] IN
  /\ At(p, "FindSg")
  /\ \E seen \in Views(IF g.exists THEN {vpc[p]} ELSE {}) :
       \/ seen = {} /\ Goto(p, "CreateSg") /\ UNCHANGED <<listed, zone, mem>>
       \/ /\ seen # {} /\ g.ingress
          /\ mem' = [mem EXCEPT ![p].missing = Families \ g.egress]
          /\ Goto(p, "RevokeIngress")
          /\ UNCHANGED <<listed, zone>>
       \/ seen # {} /\ ~g.ingress /\ Authorize(p, Families \ g.egress)
  /\ UNCHANGED <<region, req, vpc, calls, made>>

(* InvalidGroup.Duplicate starts ensureManagedSecurityGroup over.  The group *)
(* CreateSecurityGroup returns is taken to have no permission at all.        *)
CreateSg(p) ==
  /\ At(p, "CreateSg")
  /\ \/ /\ sg[vpc[p]].exists
        /\ Goto(p, "FindSg") /\ UNCHANGED <<sg, mem>>
     \/ /\ ~sg[vpc[p]].exists
        /\ sg' = [sg EXCEPT ![vpc[p]] =
                    [exists |-> TRUE, ingress |-> FALSE, egress |-> {"v4"}]]
        /\ mem' = [mem EXCEPT ![p].missing = Families]
        /\ Goto(p, "AuthorizeEgress")
  /\ UNCHANGED <<vpcs, dns, v6, igws, attached, tables, subnet,
                 req, vpc, listed, zone, calls, made>>

(* Revoking rules that are gone is an error to EC2 and to the code.          *)
RevokeIngress(p) ==
  /\ At(p, "RevokeIngress") /\ sg[vpc[p]].ingress
  /\ sg' = [sg EXCEPT ![vpc[p]].ingress = FALSE]
  /\ Authorize(p, mem[p].missing)
  /\ UNCHANGED <<vpcs, dns, v6, igws, attached, tables, subnet, req, vpc, calls, made>>

(* IPv4 first; InvalidPermission.Duplicate is tolerated.                     *)
AuthorizeEgress(p) ==
  LET f == IF "v4" \in mem[p].missing THEN "v4" ELSE "v6" IN
  /\ At(p, "AuthorizeEgress")
  /\ sg' = [sg EXCEPT ![vpc[p]].egress = @ \cup {f}]
  /\ Authorize(p, mem[p].missing \ {f})
  /\ UNCHANGED <<vpcs, dns, v6, igws, attached, tables, subnet, req, vpc, calls, made>>

-----------------------------------------------------------------------------
(* The calls EC2 turns down, the waits that time out, the lookups that find  *)
(* nothing where the code insists on something: the call returns the error.  *)

NoFreeIndex(p) == \A i \in Indexes : ~IsFreeIndex(listed[p], i)

Refused(p) ==
  \/ At(p, "CreateVpc") /\ vpcs = VpcIds
  \/ At(p, "CreateIgw") /\ igws = IgwIds
  \/ At(p, "CreateRouteTable") /\ \A r \in RouteTableIds : tables[r].vpc # None
  \/ At(p, "CreateSubnet") /\ \A s \in SubnetIds : Exists(s)
  \/ At(p, "AssociateVpcV6") /\ \A b \in Blocks : ~IsOpenSlot(vpc[p], b)
  \/ At(p, "AttachIgw") /\ attached[vpc[p]] # None
  \/ At(p, "RouteV4") /\ attached[vpc[p]] # mem[p].igw
  \/ At(p, "RouteV6") /\ attached[vpc[p]] # mem[p].igw
  \/ At(p, "CreateSubnet") /\ NoFreeIndex(p)
  \/ At(p, "CreateSubnet") /\ \E i \in Indexes, b \in Blocks :
       /\ IsFreeIndex(listed[p], i) /\ IsUsableBlock(mem[p].seenV6, b)
       /\ Overlaps(vpc[p], req[p].mode, i, b)
  \/ At(p, "AssociateSubnetV6") /\ subnet[mem[p].sub].v6 # "none"
  \/ At(p, "AssociateSubnetV6") /\ \E b \in Blocks :
       /\ IsUsableBlock(mem[p].seenV6, b)
       /\ \E t \in SubnetsOf(vpc[p]) \ {mem[p].sub} :
            subnet[t].index = subnet[mem[p].sub].index /\ subnet[t].block = b
  \/ At(p, "RevokeIngress") /\ ~sg[vpc[p]].ingress

Vanished(p) == ~Consistent /\ pc[p] \in {"PollVpc", "PollSubnet"}

TimedOut(p) ==
  /\ mem[p].polls = MaxPolls
  /\ \/ At(p, "PollVpc") /\ ~HasUsableBlock(v6[vpc[p]])
     \/ At(p, "PollSubnet") /\ subnet[mem[p].sub].v6 # "associated"

GiveUp(p) == (Refused(p) \/ Vanished(p) \/ TimedOut(p)) /\ Abort(p)

-----------------------------------------------------------------------------
(* EC2 settles the associations it has accepted.                             *)

Outcomes(state) ==
  IF state = "opening" THEN {"associating"}
  ELSE IF state = "associating"
  THEN {"associated"} \cup (IF AssociationFails THEN {"failed"} ELSE {})
  ELSE {}

SettleVpc(v, b) ==
  /\ \E state \in Outcomes(v6[v][b]) : v6' = [v6 EXCEPT ![v][b] = state]
  /\ UNCHANGED <<vpcs, dns, igws, attached, tables, subnet, sg, locals>>

SettleSubnet(s) ==
  /\ \E state \in Outcomes(subnet[s].v6) : subnet' = [subnet EXCEPT ![s].v6 = state]
  /\ UNCHANGED <<vpcs, dns, v6, igws, attached, tables, sg, locals>>

(* Every caller has used up its calls: the bound, not the code, stops here.  *)
Exhausted ==
  /\ \A p \in Callers : pc[p] \in Resting /\ calls[p] = MaxCalls
  /\ UNCHANGED vars

-----------------------------------------------------------------------------
(* The regions a call can meet: nothing managed in it; everything up to the  *)
(* route table, by a call that ended there; or what an earlier release left, *)
(* a VPC and a dual-stack subnet without IPv6 and a group someone opened.    *)

EmptyRegion ==
  /\ vpcs = {} /\ dns = {} /\ igws = {}
  /\ v6 = [v \in VpcIds |-> [b \in Blocks |-> "none"]]
  /\ attached = [v \in VpcIds |-> None]
  /\ tables = [r \in RouteTableIds |-> NoTable]
  /\ subnet = [s \in SubnetIds |-> NoSubnet]
  /\ sg = [v \in VpcIds |-> NoSg]

PreparedRegion ==
  \E v \in VpcIds, g \in IgwIds, r \in RouteTableIds :
    /\ vpcs = {v} /\ dns = {v} /\ igws = {g}
    /\ v6 = [w \in VpcIds |-> [b \in Blocks |->
               IF w = v /\ b = 1 THEN "associated" ELSE "none"]]
    /\ attached = [w \in VpcIds |-> IF w = v THEN g ELSE None]
    /\ tables = [q \in RouteTableIds |->
                   IF q = r THEN [vpc |-> v, routes |-> [f \in Families |-> g]]
                   ELSE NoTable]
    /\ subnet = [s \in SubnetIds |-> NoSubnet]
    /\ sg = [w \in VpcIds |-> NoSg]

LegacyRegion ==
  \E v \in VpcIds, s \in SubnetIds, z \in Zones :
    /\ vpcs = {v} /\ dns = {v} /\ igws = {}
    /\ v6 = [w \in VpcIds |-> [b \in Blocks |-> "none"]]
    /\ attached = [w \in VpcIds |-> None]
    /\ tables = [r \in RouteTableIds |-> NoTable]
    /\ subnet = [t \in SubnetIds |->
                   IF t = s THEN [NoSubnet EXCEPT !.vpc = v, !.az = z] ELSE NoSubnet]
    /\ sg = [w \in VpcIds |->
               IF w = v THEN [exists |-> TRUE, ingress |-> TRUE, egress |-> {"v4"}] ELSE NoSg]

Init ==
  /\ \/ "empty" \in StartRegions /\ EmptyRegion
     \/ "prepared" \in StartRegions /\ PreparedRegion
     \/ "legacy" \in StartRegions /\ LegacyRegion
  /\ pc = [p \in Callers |-> "idle"]
  /\ req = [p \in Callers |-> CHOOSE r \in Requests : TRUE]
  /\ vpc = [p \in Callers |-> None]
  /\ listed = [p \in Callers |-> {}]
  /\ zone = [p \in Callers |-> None]
  /\ mem = [p \in Callers |-> NoMem]
  /\ calls = [p \in Callers |-> 0]
  /\ made = [p \in Callers |-> {}]

(* What the code does next on its own.                                       *)
Step(p) ==
  \/ FindVpc(p) \/ CreateVpc(p) \/ VpcDns(p) \/ AssociateVpcV6(p) \/ PollVpc(p)
  \/ FindIgw(p) \/ CreateIgw(p) \/ AttachIgw(p)
  \/ FindRouteTable(p) \/ CreateRouteTable(p) \/ RouteV4(p) \/ RouteV6(p)
  \/ ListSubnets(p) \/ ChooseZone(p) \/ CreateSubnet(p) \/ AssociateSubnetV6(p)
  \/ PollSubnet(p) \/ SubnetAttributes(p) \/ AssociateRouteTable(p)
  \/ FindSg(p) \/ CreateSg(p) \/ RevokeIngress(p) \/ AuthorizeEgress(p)
  \/ GiveUp(p)

Next ==
  \/ \E p \in Callers : Start(p) \/ Step(p) \/ Fail(p)
  \/ \E v \in VpcIds, b \in Blocks : SettleVpc(v, b)
  \/ \E s \in SubnetIds : SettleSubnet(s)
  \/ Exhausted

Spec == Init /\ [][Next]_vars

(* A goroutine that can run runs; EC2 owes nothing.                          *)
FairSpec == Spec /\ \A p \in Callers : WF_vars(Step(p))

-----------------------------------------------------------------------------
(* Properties.                                                               *)

(* However the callers interleave, and whatever part of the subnets their    *)
(* Describe showed them, a VPC never gets two managed subnets for the same   *)
(* zone and mode: ensureManagedSubnet picks the lowest free index before it  *)
(* creates, so a caller that missed the other's subnet asks for an index     *)
(* that is taken and EC2's CIDR check stops it (network_manager.go:355-399). *)
UniqueSubnetPerPlacement ==
  \A s, t \in SubnetIds :
    /\ Exists(s) /\ Exists(t)
    /\ subnet[s].vpc = subnet[t].vpc
    /\ subnet[s].az = subnet[t].az
    /\ subnet[s].mode = subnet[t].mode
    => s = t

(* The subnets are handed out as by SubnetRegistry: per VPC in a gap-free    *)
(* order, each index and each placement once (network_manager.go:355-399,    *)
(* 873-923).                                                                 *)
Entry(s) == [vpc |-> subnet[s].vpc, az |-> subnet[s].az,
             mode |-> subnet[s].mode, index |-> subnet[s].index]
Registry == INSTANCE SubnetRegistry
              WITH Vpcs <- VpcIds, registry <- {Entry(s) : s \in {t \in SubnetIds : Exists(t)}}
ActsAsRegistry == Registry!Spec

(* The network a call returns carries traffic: its subnet is in the VPC, has *)
(* the mode, the zone and the attributes asked for, and the table it is      *)
(* associated with, which may be another caller's, sends both default routes *)
(* to a gateway attached to that VPC (network_manager.go:245-330, 480-560).  *)
Usable(v, s, r) ==
  /\ subnet[s].vpc = v /\ v \in dns
  /\ subnet[s].mode = r.mode /\ subnet[s].ready
  /\ r.az # None => subnet[s].az = r.az
  /\ r.mode = "dualstack" => subnet[s].v6 = "associated"
  /\ subnet[s].rt # None
  /\ tables[subnet[s].rt].vpc = v
  /\ attached[v] # None
  /\ \A f \in Families : tables[subnet[s].rt].routes[f] = attached[v]
UsableWhenDone ==
  \A p \in Callers : pc[p] = "done" => Usable(vpc[p], mem[p].sub, req[p])

(* The security group a call returns lets everything out and nothing in,     *)
(* also when the group was found open and two callers close it at once       *)
(* (network_manager.go:663-753).                                             *)
OutboundOnlyWhenDone ==
  \A p \in Callers : pc[p] = "done" =>
    sg[vpc[p]] = [exists |-> TRUE, ingress |-> FALSE, egress |-> Families]

(* A caller's retries do not pile up VPCs: wherever its calls broke off, it  *)
(* creates at most one over all of them (network_manager.go:95-151).         *)
OneVpcPerCaller == \A p \in Callers : \A v, w \in made[p] : v = w

(* Only an IPv6 block that does not exist is asked for: one that is still    *)
(* associating is awaited, not recreated.                                    *)
AssociationAwaited ==
  [][\A p \in Callers, v \in VpcIds :
       AssociateVpcV6(p) /\ vpc[p] = v => v6[v][1] = "none"]_vars

(* Every call ends: the waits are bounded and the restart after a duplicate  *)
(* security group finds the group (network_manager.go:692, 813-859).         *)
EveryCallEnds == \A p \in Callers : []<>(pc[p] \in Resting)
=============================================================================
