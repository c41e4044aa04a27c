------------------------ MODULE ManagedNetworkProofs ------------------------
(***************************************************************************)
(* What holds of ManagedNetwork for any number of callers, ids, zones,     *)
(* indexes and retries.                                                    *)
(***************************************************************************)
EXTENDS ManagedNetwork, TLAPS

(* The values the variables start from have the types of TypeOK.             *)
LEMMA BlankTypes ==
  /\ [b \in Blocks |-> "none"] \in V6Blocks
  /\ NoRoutes \in Routes /\ NoTable \in Tables
  /\ NoSubnet \in Subnets
  /\ NoSg \in Groups
  /\ NoMem \in Locals
  /\ (CHOOSE r \in Requests : TRUE) \in Requests
<1>1. [b \in Blocks |-> "none"] \in V6Blocks
  BY DEF V6Blocks, V6States
<1>2. NoRoutes \in Routes
  BY DEF NoRoutes, Routes
<1>3. NoTable \in Tables
  BY <1>2 DEF NoTable, Tables
<1>4. NoSubnet \in Subnets
  BY BoundAssumption DEF NoSubnet, Subnets, Modes, Indexes, V6States
<1>5. NoSg \in Groups
  BY DEF NoSg, Groups
<1>6. NoMem \in Locals
  BY <1>1, BoundAssumption DEF NoMem, Locals
<1>7. (CHOOSE r \in Requests : TRUE) \in Requests
  BY RequestAssumption
<1>. QED
  BY <1>1, <1>2, <1>3, <1>4, <1>5, <1>6, <1>7

(* The types hold in every region a call may find.                           *)
LEMMA InitType == Init => TypeOK
<1>. SUFFICES ASSUME Init PROVE TypeOK
  OBVIOUS
<1>1. /\ pc \in [Callers -> Steps \cup Resting] /\ req \in [Callers -> Requests]
      /\ vpc \in [Callers -> VpcIds \cup {None}]
      /\ listed \in [Callers -> SUBSET SubnetIds]
      /\ zone \in [Callers -> Zones \cup {None}]
      /\ mem \in [Callers -> Locals] /\ calls \in [Callers -> 0..MaxCalls]
      /\ made \in [Callers -> SUBSET VpcIds]
  BY BlankTypes, BoundAssumption DEF Init, Resting
<1>2. CASE EmptyRegion
  BY <1>1, <1>2, BlankTypes DEF EmptyRegion, TypeOK
<1>3. CASE PreparedRegion
  <2>1. PICK v \in VpcIds, g \in IgwIds, r \in RouteTableIds : PreparedRegion!(v, g, r)
    BY <1>3 DEF PreparedRegion
  <2>2. v6 \in [VpcIds -> V6Blocks]
    BY <2>1 DEF V6Blocks, V6States
  <2>3. tables \in [RouteTableIds -> Tables]
    BY <2>1, BlankTypes DEF Tables, Routes
  <2>. QED
    BY <1>1, <2>1, <2>2, <2>3, BlankTypes DEF TypeOK
<1>4. CASE LegacyRegion
  <2>1. PICK v \in VpcIds, s \in SubnetIds, z \in Zones : LegacyRegion!(v, s, z)
    BY <1>4 DEF LegacyRegion
  <2>2. subnet \in [SubnetIds -> Subnets]
    BY <2>1, BlankTypes DEF Subnets
  <2>3. sg \in [VpcIds -> Groups]
    BY <2>1, BlankTypes DEF Groups, Families
  <2>. QED
    BY <1>1, <2>1, <2>2, <2>3, BlankTypes DEF TypeOK
<1>. QED
  BY <1>2, <1>3, <1>4 DEF Init

(* Updating one field of one caller's locals, one subnet, table or group     *)
(* keeps the function in its type.                                           *)
LEMMA LocalsUpdate ==
  ASSUME NEW f \in [Callers -> Locals], NEW p \in Callers
  PROVE
  /\ \A x \in V6Blocks : [f EXCEPT ![p].seenV6 = x] \in [Callers -> Locals]
  /\ \A x \in IgwIds \cup {None} : [f EXCEPT ![p].igw = x] \in [Callers -> Locals]
  /\ \A x \in RouteTableIds \cup {None} : [f EXCEPT ![p].rt = x] \in [Callers -> Locals]
  /\ \A x \in SUBSET Families : [f EXCEPT ![p].seenRoutes = x] \in [Callers -> Locals]
  /\ \A x \in SUBSET SubnetIds : [f EXCEPT ![p].seenSubnets = x] \in [Callers -> Locals]
  /\ \A x \in SubnetIds \cup {None} : [f EXCEPT ![p].sub = x] \in [Callers -> Locals]
  /\ \A x \in SUBSET Families : [f EXCEPT ![p].missing = x] \in [Callers -> Locals]
  /\ \A x \in 0..MaxPolls : [f EXCEPT ![p].polls = x] \in [Callers -> Locals]
<1>1. \A x \in V6Blocks : [f EXCEPT ![p].seenV6 = x] \in [Callers -> Locals]
  BY DEF Locals
<1>2. \A x \in IgwIds \cup {None} : [f EXCEPT ![p].igw = x] \in [Callers -> Locals]
  BY DEF Locals
<1>3. \A x \in RouteTableIds \cup {None} : [f EXCEPT ![p].rt = x] \in [Callers -> Locals]
  BY DEF Locals
<1>4. \A x \in SUBSET Families : [f EXCEPT ![p].seenRoutes = x] \in [Callers -> Locals]
  BY DEF Locals
<1>5. \A x \in SUBSET SubnetIds : [f EXCEPT ![p].seenSubnets = x] \in [Callers -> Locals]
  BY DEF Locals
<1>6. \A x \in SubnetIds \cup {None} : [f EXCEPT ![p].sub = x] \in [Callers -> Locals]
  BY DEF Locals
<1>7. \A x \in SUBSET Families : [f EXCEPT ![p].missing = x] \in [Callers -> Locals]
  BY DEF Locals
<1>8. \A x \in 0..MaxPolls : [f EXCEPT ![p].polls = x] \in [Callers -> Locals]
  BY DEF Locals
<1>. QED
  BY <1>1, <1>2, <1>3, <1>4, <1>5, <1>6, <1>7, <1>8

(* The fields of a caller's locals have these types.                         *)
LEMMA LocalsFields ==
  ASSUME NEW m \in Locals
  PROVE  /\ m.seenV6 \in V6Blocks /\ m.igw \in IgwIds \cup {None}
         /\ m.rt \in RouteTableIds \cup {None} /\ m.sub \in SubnetIds \cup {None}
         /\ m.missing \in SUBSET Families /\ m.polls \in 0..MaxPolls
         /\ [NoMem EXCEPT !.sub = m.sub] \in Locals
  BY BlankTypes DEF Locals

(* A subnet with one attribute replaced is a subnet.                         *)
LEMMA SubnetUpdate ==
  ASSUME NEW f \in [SubnetIds -> Subnets], NEW s
  PROVE
  /\ \A x \in Blocks \cup {None} : [f EXCEPT ![s].block = x] \in [SubnetIds -> Subnets]
  /\ \A x \in V6States : [f EXCEPT ![s].v6 = x] \in [SubnetIds -> Subnets]
  /\ \A x \in BOOLEAN : [f EXCEPT ![s].ready = x] \in [SubnetIds -> Subnets]
  /\ \A x \in RouteTableIds \cup {None} : [f EXCEPT ![s].rt = x] \in [SubnetIds -> Subnets]
<1>1. \A x \in Blocks \cup {None} : [f EXCEPT ![s].block = x] \in [SubnetIds -> Subnets]
  BY DEF Subnets
<1>2. \A x \in V6States : [f EXCEPT ![s].v6 = x] \in [SubnetIds -> Subnets]
  BY DEF Subnets
<1>3. \A x \in BOOLEAN : [f EXCEPT ![s].ready = x] \in [SubnetIds -> Subnets]
  BY DEF Subnets
<1>4. \A x \in RouteTableIds \cup {None} : [f EXCEPT ![s].rt = x] \in [SubnetIds -> Subnets]
  BY DEF Subnets
<1>. QED
  BY <1>1, <1>2, <1>3, <1>4

(* A route table with one more default route is a route table.               *)
LEMMA TableUpdate ==
  ASSUME NEW f \in [RouteTableIds -> Tables], NEW r, NEW k \in Families,
         NEW g \in IgwIds \cup {None}
  PROVE  [f EXCEPT ![r].routes[k] = g] \in [RouteTableIds -> Tables]
  BY DEF Tables, Routes

(* A group with a rule revoked or granted is a group.                        *)
LEMMA GroupUpdate ==
  ASSUME NEW f \in [VpcIds -> Groups], NEW v
  PROVE  /\ [f EXCEPT ![v].ingress = FALSE] \in [VpcIds -> Groups]
         /\ \A k \in Families : [f EXCEPT ![v].egress = @ \cup {k}] \in [VpcIds -> Groups]
<1>1. [f EXCEPT ![v].ingress = FALSE] \in [VpcIds -> Groups]
  BY DEF Groups
<1>2. ASSUME NEW k \in Families
      PROVE  [f EXCEPT ![v].egress = @ \cup {k}] \in [VpcIds -> Groups]
  BY DEF Groups
<1>. QED
  BY <1>1, <1>2

(* An IPv6 block in another state is still one.                              *)
LEMMA BlockUpdate ==
  ASSUME NEW f \in [VpcIds -> V6Blocks], NEW v, NEW b, NEW state \in V6States
  PROVE  [f EXCEPT ![v][b] = state] \in [VpcIds -> V6Blocks]
  BY DEF V6Blocks

(* Past CreateVpc a caller works on a VPC; without this a call could enter    *)
(* None among the VPCs whose DNS it enabled.                                 *)
HasVpc ==
  \A p \in Callers :
    pc[p] \notin {"idle", "FindVpc", "CreateVpc"} => vpc[p] # None

(* A call that is given up leaves the region alone and its caller blank.     *)
LEMMA AbortType == ASSUME TypeOK, NEW p \in Callers, Abort(p) PROVE TypeOK'
<1>1. region' = region /\ UNCHANGED <<req, calls, made>>
  BY DEF Abort, region
<1>2. /\ pc' \in [Callers -> Steps \cup Resting]
      /\ vpc' \in [Callers -> VpcIds \cup {None}]
      /\ listed' \in [Callers -> SUBSET SubnetIds]
      /\ zone' \in [Callers -> Zones \cup {None}]
      /\ mem' \in [Callers -> Locals]
  BY BlankTypes DEF Abort, Goto, TypeOK, Resting
<1>. QED
  BY <1>1, <1>2 DEF TypeOK, region

(* Each step of a call keeps every variable in its type.                     *)
LEMMA StepType ==
  ASSUME TypeOK, HasVpc, NEW p \in Callers, Step(p) PROVE TypeOK'
<1>1. ASSUME FindVpc(p) PROVE TypeOK'
  <2>1. pc' \in [Callers -> Steps \cup Resting]
    BY <1>1 DEF FindVpc, Goto, TypeOK, Steps, Resting
  <2>2. vpc' \in [Callers -> VpcIds \cup {None}]
    BY <1>1 DEF FindVpc, TypeOK
  <2>3. mem' \in [Callers -> Locals]
    <3>1. CASE mem' = mem
      BY <3>1 DEF TypeOK
    <3>2. ASSUME NEW v \in VpcIds, mem' = [mem EXCEPT ![p].seenV6 = v6[v]] PROVE mem' \in [Callers -> Locals]
      <4>1. v6[v] \in V6Blocks
        BY DEF TypeOK
      <4>. QED
        BY <3>2, <4>1, LocalsUpdate DEF TypeOK
    <3>. QED
      BY <1>1, <3>1, <3>2 DEF FindVpc
  <2>. QED
    BY <1>1, <2>1, <2>2, <2>3 DEF FindVpc, TypeOK, region
<1>2. ASSUME CreateVpc(p) PROVE TypeOK'
  <2>1. pc' \in [Callers -> Steps \cup Resting]
    BY <1>2 DEF CreateVpc, Goto, TypeOK, Steps, Resting
  <2>2. vpc' \in [Callers -> VpcIds \cup {None}]
    BY <1>2 DEF CreateVpc, TypeOK
  <2>3. v6' \in [VpcIds -> V6Blocks]
    <3>1. PICK v \in VpcIds, state \in OpenStates : v6' = [v6 EXCEPT ![v][1] = state]
      BY <1>2 DEF CreateVpc
    <3>2. state \in V6States
      BY DEF OpenStates, V6States
    <3>. QED
      BY <3>1, <3>2, BlockUpdate DEF TypeOK
  <2>4. mem' \in [Callers -> Locals]
    <3>1. ASSUME NEW v \in VpcIds, mem' = [mem EXCEPT ![p].seenV6 = v6'[v]] PROVE mem' \in [Callers -> Locals]
      <4>1. v6'[v] \in V6Blocks
        BY <2>3
      <4>. QED
        BY <3>1, <4>1, LocalsUpdate DEF TypeOK
    <3>. QED
      BY <1>2, <3>1 DEF CreateVpc
  <2>5. vpcs' \subseteq VpcIds /\ made' \in [Callers -> SUBSET VpcIds]
    BY <1>2 DEF CreateVpc, TypeOK
  <2>. QED
    BY <1>2, <2>1, <2>2, <2>3, <2>4, <2>5 DEF CreateVpc, TypeOK, region
<1>3. ASSUME VpcDns(p) PROVE TypeOK'
  <2>1. pc' \in [Callers -> Steps \cup Resting]
    BY <1>3 DEF VpcDns, Goto, TypeOK, Steps, Resting
  <2>2. dns' \subseteq VpcIds
    BY <1>3 DEF VpcDns, At, HasVpc, TypeOK
  <2>. QED
    BY <1>3, <2>1, <2>2 DEF VpcDns, TypeOK, region
<1>4. ASSUME AssociateVpcV6(p) PROVE TypeOK'
  <2>1. pc' \in [Callers -> Steps \cup Resting]
    BY <1>4 DEF AssociateVpcV6, Goto, TypeOK, Steps, Resting
  <2>2. v6' \in [VpcIds -> V6Blocks]
    <3>1. PICK b \in Blocks, state \in OpenStates : v6' = [v6 EXCEPT ![vpc[p]][b] = state]
      BY <1>4 DEF AssociateVpcV6
    <3>2. state \in V6States
      BY DEF OpenStates, V6States
    <3>. QED
      BY <3>1, <3>2, BlockUpdate DEF TypeOK
  <2>. QED
    BY <1>4, <2>1, <2>2 DEF AssociateVpcV6, TypeOK, region
<1>5. ASSUME PollVpc(p) PROVE TypeOK'
  <2>1. pc' \in [Callers -> Steps \cup Resting]
    BY <1>5 DEF PollVpc, Goto, TypeOK, Steps, Resting
  <2>2. mem' \in [Callers -> Locals]
    <3>1. v6[vpc[p]] \in V6Blocks
      BY <1>5 DEF PollVpc, At, HasVpc, TypeOK
    <3>2. mem[p].polls \in 0..MaxPolls
      BY LocalsFields DEF TypeOK
    <3>5. 0 \in 0..MaxPolls
      BY BoundAssumption
    <3>3. CASE mem' = [mem EXCEPT ![p].seenV6 = v6[vpc[p]], ![p].polls = 0]
      <4>1. [mem EXCEPT ![p].seenV6 = v6[vpc[p]]] \in [Callers -> Locals]
        BY <3>1, LocalsUpdate DEF TypeOK
      <4>. QED
        BY <3>3, <4>1, <3>5, LocalsUpdate
    <3>4. CASE mem[p].polls < MaxPolls /\ mem' = [mem EXCEPT ![p].polls = @ + 1]
      <4>1. mem[p].polls + 1 \in 0..MaxPolls
        BY <3>2, <3>4, BoundAssumption
      <4>. QED
        BY <3>4, <4>1, LocalsUpdate DEF TypeOK
    <3>. QED
      BY <1>5, <3>3, <3>4 DEF PollVpc
  <2>. QED
    BY <1>5, <2>1, <2>2 DEF PollVpc, TypeOK, region
<1>6. ASSUME FindIgw(p) PROVE TypeOK'
  <2>1. pc' \in [Callers -> Steps \cup Resting]
    BY <1>6 DEF FindIgw, Goto, TypeOK, Steps, Resting
  <2>2. mem' \in [Callers -> Locals]
    <3>1. PICK seen \in Views({attached[vpc[p]]} \ {None}) :
            \/ mem' = mem
            \/ \E g \in seen : mem' = [mem EXCEPT ![p].igw = g]
      BY <1>6 DEF FindIgw
    <3>2. seen \subseteq IgwIds \cup {None}
      <4>1. attached[vpc[p]] \in IgwIds \cup {None}
        BY <1>6 DEF FindIgw, At, HasVpc, TypeOK
      <4>. QED
        BY <4>1 DEF Views
    <3>3. ASSUME NEW g \in seen, mem' = [mem EXCEPT ![p].igw = g] PROVE mem' \in [Callers -> Locals]
      BY <3>2, <3>3, LocalsUpdate DEF TypeOK
    <3>. QED
      BY <3>1, <3>3 DEF TypeOK
  <2>. QED
    BY <1>6, <2>1, <2>2 DEF FindIgw, TypeOK, region
<1>7. ASSUME CreateIgw(p) PROVE TypeOK'
  <2>1. pc' \in [Callers -> Steps \cup Resting]
    BY <1>7 DEF CreateIgw, Goto, TypeOK, Steps, Resting
  <2>2. mem' \in [Callers -> Locals]
    <3>1. ASSUME NEW g \in IgwIds, mem' = [mem EXCEPT ![p].igw = g] PROVE mem' \in [Callers -> Locals]
      BY <3>1, LocalsUpdate DEF TypeOK
    <3>. QED
      BY <1>7, <3>1 DEF CreateIgw
  <2>3. igws' \subseteq IgwIds
    BY <1>7 DEF CreateIgw, TypeOK
  <2>. QED
    BY <1>7, <2>1, <2>2, <2>3 DEF CreateIgw, TypeOK, region
<1>8. ASSUME AttachIgw(p) PROVE TypeOK'
  <2>1. pc' \in [Callers -> Steps \cup Resting]
    BY <1>8 DEF AttachIgw, Goto, TypeOK, Steps, Resting
  <2>2. attached' \in [VpcIds -> IgwIds \cup {None}]
    BY <1>8, LocalsFields DEF AttachIgw, TypeOK
  <2>. QED
    BY <1>8, <2>1, <2>2 DEF AttachIgw, TypeOK, region
<1>9. ASSUME FindRouteTable(p) PROVE TypeOK'
  <2>1. pc' \in [Callers -> Steps \cup Resting]
    BY <1>9 DEF FindRouteTable, RouteStep, Goto, TypeOK, Steps, Resting
  <2>2. mem' \in [Callers -> Locals]
    <3>1. CASE mem' = mem
      BY <3>1 DEF TypeOK
    <3>2. ASSUME NEW r \in RouteTableIds, NEW has \in SUBSET Families, NEW subs \in SUBSET SubnetIds,
                 mem' = [mem EXCEPT ![p].rt = r, ![p].seenRoutes = has,
                                    ![p].seenSubnets = subs]
          PROVE  mem' \in [Callers -> Locals]
      <4>1. [mem EXCEPT ![p].rt = r] \in [Callers -> Locals]
        BY LocalsUpdate DEF TypeOK
      <4>2. [mem EXCEPT ![p].rt = r, ![p].seenRoutes = has] \in [Callers -> Locals]
        BY <4>1, LocalsUpdate
      <4>. QED
        BY <3>2, <4>2, LocalsUpdate
    <3>3. CASE mem' # mem
      <4>1. PICK r \in RouteTableIds :
              mem' = [mem EXCEPT ![p].rt = r,
                        ![p].seenRoutes = {f \in Families : tables[r].routes[f] # None},
                        ![p].seenSubnets = {s \in SubnetIds : subnet[s].rt = r}]
        BY <1>9, <3>3 DEF FindRouteTable
      <4>2. /\ {f \in Families : tables[r].routes[f] # None} \in SUBSET Families
            /\ {s \in SubnetIds : subnet[s].rt = r} \in SUBSET SubnetIds
        OBVIOUS
      <4>. QED
        BY <3>2, <4>1, <4>2
    <3>. QED
      BY <3>1, <3>3
  <2>. QED
    BY <1>9, <2>1, <2>2 DEF FindRouteTable, TypeOK, region
<1>10. ASSUME CreateRouteTable(p) PROVE TypeOK'
  <2>1. pc' \in [Callers -> Steps \cup Resting]
    BY <1>10 DEF CreateRouteTable, Goto, TypeOK, Steps, Resting
  <2>2. mem' \in [Callers -> Locals]
    <3>1. ASSUME NEW r \in RouteTableIds, mem' = [mem EXCEPT ![p].rt = r] PROVE mem' \in [Callers -> Locals]
      BY <3>1, LocalsUpdate DEF TypeOK
    <3>. QED
      BY <1>10, <3>1 DEF CreateRouteTable
  <2>3. tables' \in [RouteTableIds -> Tables]
    BY <1>10 DEF CreateRouteTable, TypeOK, Tables
  <2>. QED
    BY <1>10, <2>1, <2>2, <2>3 DEF CreateRouteTable, TypeOK, region
<1>11. ASSUME RouteV4(p) PROVE TypeOK'
  <2>1. pc' \in [Callers -> Steps \cup Resting]
    BY <1>11 DEF RouteV4, Goto, TypeOK, Steps, Resting
  <2>2. tables' \in [RouteTableIds -> Tables]
    <3>1. mem[p].igw \in IgwIds \cup {None} /\ "v4" \in Families
      BY LocalsFields DEF TypeOK, Families
    <3>2. CASE tables' = tables
      BY <3>2 DEF TypeOK
    <3>3. CASE tables' = [tables EXCEPT ![mem[p].rt].routes["v4"] = mem[p].igw]
      BY <3>1, <3>3, TableUpdate DEF TypeOK
    <3>. QED
      BY <1>11, <3>2, <3>3 DEF RouteV4, CreateRoute
  <2>. QED
    BY <1>11, <2>1, <2>2 DEF RouteV4, TypeOK, region
<1>12. ASSUME RouteV6(p) PROVE TypeOK'
  <2>1. pc' \in [Callers -> Steps \cup Resting]
    BY <1>12 DEF RouteV6, Goto, TypeOK, Steps, Resting
  <2>2. tables' \in [RouteTableIds -> Tables]
    <3>1. mem[p].igw \in IgwIds \cup {None} /\ "v6" \in Families
      BY LocalsFields DEF TypeOK, Families
    <3>2. CASE tables' = tables
      BY <3>2 DEF TypeOK
    <3>3. CASE tables' = [tables EXCEPT ![mem[p].rt].routes["v6"] = mem[p].igw]
      BY <3>1, <3>3, TableUpdate DEF TypeOK
    <3>. QED
      BY <1>12, <3>2, <3>3 DEF RouteV6, CreateRoute
  <2>. QED
    BY <1>12, <2>1, <2>2 DEF RouteV6, TypeOK, region
<1>13. ASSUME ListSubnets(p) PROVE TypeOK'
  <2>1. pc' \in [Callers -> Steps \cup Resting]
    BY <1>13 DEF ListSubnets, ReadyStep, AfterV6, Goto, TypeOK, Steps, Resting
  <2>2. mem' \in [Callers -> Locals]
    <3>1. CASE mem' = mem
      BY <3>1 DEF TypeOK
    <3>2. ASSUME NEW s \in SubnetIds, mem' = [mem EXCEPT ![p].sub = s]
          PROVE  mem' \in [Callers -> Locals]
      BY <3>2, LocalsUpdate DEF TypeOK
    <3>3. CASE mem' # mem
      <4>1. PICK seen \in Views(SubnetsOf(vpc[p])) :
              \E s \in Candidates(seen, req[p]) : mem' = [mem EXCEPT ![p].sub = s]
        BY <1>13, <3>3 DEF ListSubnets
      <4>2. Candidates(seen, req[p]) \subseteq SubnetIds
        BY DEF Candidates, Views, SubnetsOf
      <4>. QED
        BY <3>2, <4>1, <4>2
    <3>. QED
      BY <3>1, <3>3
  <2>3. listed' \in [Callers -> SUBSET SubnetIds]
    BY <1>13 DEF ListSubnets, Views, SubnetsOf, TypeOK
  <2>4. zone' \in [Callers -> Zones \cup {None}]
    BY <1>13, RequestAssumption DEF ListSubnets, TypeOK
  <2>. QED
    BY <1>13, <2>1, <2>2, <2>3, <2>4 DEF ListSubnets, TypeOK, region
<1>14. ASSUME ChooseZone(p) PROVE TypeOK'
  <2>1. pc' \in [Callers -> Steps \cup Resting]
    BY <1>14 DEF ChooseZone, Goto, TypeOK, Steps, Resting
  <2>2. zone' \in [Callers -> Zones \cup {None}]
    BY <1>14 DEF ChooseZone, TypeOK
  <2>. QED
    BY <1>14, <2>1, <2>2 DEF ChooseZone, TypeOK, region
<1>15. ASSUME CreateSubnet(p) PROVE TypeOK'
  <2>1. pc' \in [Callers -> Steps \cup Resting]
    BY <1>15 DEF CreateSubnet, Goto, TypeOK, Steps, Resting
  <2>2. mem' \in [Callers -> Locals]
    <3>1. ASSUME NEW s \in SubnetIds, mem' = [mem EXCEPT ![p].sub = s] PROVE mem' \in [Callers -> Locals]
      BY <3>1, LocalsUpdate DEF TypeOK
    <3>. QED
      BY <1>15, <3>1 DEF CreateSubnet
  <2>3. subnet' \in [SubnetIds -> Subnets]
    <3>1. PICK s \in SubnetIds, i \in Indexes, b \in Blocks :
            subnet' = [subnet EXCEPT ![s] =
              [vpc |-> vpc[p], az |-> zone[p], mode |-> req[p].mode, index |-> i,
               block |-> b, v6 |-> "associating", ready |-> FALSE, rt |-> None]]
      BY <1>15 DEF CreateSubnet
    <3>2. [vpc |-> vpc[p], az |-> zone[p], mode |-> req[p].mode, index |-> i,
           block |-> b, v6 |-> "associating", ready |-> FALSE, rt |-> None] \in Subnets
      BY RequestAssumption DEF TypeOK, Subnets, V6States
    <3>. QED
      BY <3>1, <3>2 DEF TypeOK
  <2>. QED
    BY <1>15, <2>1, <2>2, <2>3 DEF CreateSubnet, TypeOK, region
<1>16. ASSUME AssociateSubnetV6(p) PROVE TypeOK'
  <2>1. pc' \in [Callers -> Steps \cup Resting]
    BY <1>16 DEF AssociateSubnetV6, Goto, TypeOK, Steps, Resting
  <2>2. subnet' \in [SubnetIds -> Subnets]
    <3>1. PICK b \in Blocks :
            subnet' = [subnet EXCEPT ![mem[p].sub].block = b, ![mem[p].sub].v6 = "associating"]
      BY <1>16 DEF AssociateSubnetV6
    <3>2. [subnet EXCEPT ![mem[p].sub].block = b] \in [SubnetIds -> Subnets]
      BY SubnetUpdate DEF TypeOK
    <3>3. "associating" \in V6States
      BY DEF V6States
    <3>. QED
      BY <3>1, <3>2, <3>3, SubnetUpdate
  <2>. QED
    BY <1>16, <2>1, <2>2 DEF AssociateSubnetV6, TypeOK, region
<1>17. ASSUME PollSubnet(p) PROVE TypeOK'
  <2>1. pc' \in [Callers -> Steps \cup Resting]
    BY <1>17 DEF PollSubnet, AfterV6, Goto, TypeOK, Steps, Resting
  <2>2. mem' \in [Callers -> Locals]
    <3>1. CASE mem' = [mem EXCEPT ![p].polls = 0]
      <4>1. 0 \in 0..MaxPolls
        BY BoundAssumption
      <4>. QED
        BY <3>1, <4>1, LocalsUpdate DEF TypeOK
    <3>2. CASE mem[p].polls < MaxPolls /\ mem' = [mem EXCEPT ![p].polls = @ + 1]
      <4>1. mem[p].polls + 1 \in 0..MaxPolls
        <5>1. mem[p].polls \in 0..MaxPolls
          BY LocalsFields DEF TypeOK
        <5>. QED
          BY <3>2, <5>1, BoundAssumption
      <4>. QED
        BY <3>2, <4>1, LocalsUpdate DEF TypeOK
    <3>. QED
      BY <1>17, <3>1, <3>2 DEF PollSubnet
  <2>. QED
    BY <1>17, <2>1, <2>2 DEF PollSubnet, TypeOK, region
<1>18. ASSUME SubnetAttributes(p) PROVE TypeOK'
  <2>1. pc' \in [Callers -> Steps \cup Resting]
    BY <1>18 DEF SubnetAttributes, Goto, TypeOK, Steps, Resting
  <2>2. subnet' \in [SubnetIds -> Subnets]
    BY <1>18, SubnetUpdate DEF SubnetAttributes, TypeOK
  <2>. QED
    BY <1>18, <2>1, <2>2 DEF SubnetAttributes, TypeOK, region
<1>19. ASSUME AssociateRouteTable(p) PROVE TypeOK'
  <2>1. pc' \in [Callers -> Steps \cup Resting]
    BY <1>19 DEF AssociateRouteTable, Goto, TypeOK, Steps, Resting
  <2>2. subnet' \in [SubnetIds -> Subnets]
    <3>1. CASE mem[p].sub \in SubnetIds
      <4>1. subnet[mem[p].sub].rt \in RouteTableIds \cup {None}
        BY <3>1 DEF TypeOK, Subnets
      <4>2. mem[p].rt \in RouteTableIds \cup {None}
        BY LocalsFields DEF TypeOK
      <4>3. PICK r \in RouteTableIds \cup {None} :
              subnet' = [subnet EXCEPT ![mem[p].sub].rt = r]
        BY <1>19, <4>1, <4>2 DEF AssociateRouteTable
      <4>. QED
        BY <4>3, SubnetUpdate DEF TypeOK
    <3>2. CASE mem[p].sub \notin SubnetIds
      <4>1. subnet' = subnet
        BY <1>19, <3>2 DEF AssociateRouteTable, TypeOK
      <4>. QED
        BY <4>1 DEF TypeOK
    <3>. QED
      BY <3>1, <3>2
  <2>. QED
    BY <1>19, <2>1, <2>2 DEF AssociateRouteTable, TypeOK, region
<1>20. ASSUME FindSg(p) PROVE TypeOK'
  <2>1. pc' \in [Callers -> Steps \cup Resting]
    BY <1>20 DEF FindSg, Authorize, Finish, Goto, TypeOK, Steps, Resting
  <2>2. mem' \in [Callers -> Locals]
    <3>1. CASE mem' = mem
      BY <3>1 DEF TypeOK
    <3>2. CASE mem' = [mem EXCEPT ![p] = [NoMem EXCEPT !.sub = mem[p].sub]]
      BY <3>2, LocalsFields DEF TypeOK
    <3>3. ASSUME NEW m \in SUBSET Families, mem' = [mem EXCEPT ![p].missing = m]
          PROVE  mem' \in [Callers -> Locals]
      BY <3>3, LocalsUpdate DEF TypeOK
    <3>4. Families \ sg[vpc[p]].egress \in SUBSET Families
      OBVIOUS
    <3>. QED
      BY <1>20, <3>1, <3>2, <3>3, <3>4 DEF FindSg, Authorize, Finish
  <2>3. listed' \in [Callers -> SUBSET SubnetIds]
    BY <1>20 DEF FindSg, Authorize, Finish, TypeOK
  <2>4. zone' \in [Callers -> Zones \cup {None}]
    BY <1>20 DEF FindSg, Authorize, Finish, TypeOK
  <2>. QED
    BY <1>20, <2>1, <2>2, <2>3, <2>4 DEF FindSg, TypeOK, region
<1>21. ASSUME CreateSg(p) PROVE TypeOK'
  <2>1. pc' \in [Callers -> Steps \cup Resting]
    BY <1>21 DEF CreateSg, Goto, TypeOK, Steps, Resting
  <2>2. mem' \in [Callers -> Locals]
    <3>1. CASE mem' = mem
      BY <3>1 DEF TypeOK
    <3>2. CASE mem' = [mem EXCEPT ![p].missing = Families]
      <4>1. Families \in SUBSET Families
        OBVIOUS
      <4>. QED
        BY <3>2, <4>1, LocalsUpdate DEF TypeOK
    <3>. QED
      BY <1>21, <3>1, <3>2 DEF CreateSg
  <2>3. sg' \in [VpcIds -> Groups]
    <3>1. [exists |-> TRUE, ingress |-> FALSE, egress |-> {"v4"}] \in Groups
      BY DEF Groups, Families
    <3>. QED
      BY <1>21, <3>1 DEF CreateSg, TypeOK
  <2>. QED
    BY <1>21, <2>1, <2>2, <2>3 DEF CreateSg, TypeOK, region
<1>22. ASSUME RevokeIngress(p) PROVE TypeOK'
  <2>1. pc' \in [Callers -> Steps \cup Resting]
    BY <1>22 DEF RevokeIngress, Authorize, Finish, Goto, TypeOK, Steps, Resting
  <2>2. mem' \in [Callers -> Locals]
    <3>1. CASE mem' = [mem EXCEPT ![p] = [NoMem EXCEPT !.sub = mem[p].sub]]
      BY <3>1, LocalsFields DEF TypeOK
    <3>2. ASSUME NEW m \in SUBSET Families, mem' = [mem EXCEPT ![p].missing = m]
          PROVE  mem' \in [Callers -> Locals]
      BY <3>2, LocalsUpdate DEF TypeOK
    <3>3. mem[p].missing \in SUBSET Families
      BY LocalsFields DEF TypeOK
    <3>. QED
      BY <1>22, <3>1, <3>2, <3>3 DEF RevokeIngress, Authorize, Finish
  <2>3. listed' \in [Callers -> SUBSET SubnetIds]
    BY <1>22 DEF RevokeIngress, Authorize, Finish, TypeOK
  <2>4. zone' \in [Callers -> Zones \cup {None}]
    BY <1>22 DEF RevokeIngress, Authorize, Finish, TypeOK
  <2>5. sg' \in [VpcIds -> Groups]
    BY <1>22, GroupUpdate DEF RevokeIngress, TypeOK
  <2>. QED
    BY <1>22, <2>1, <2>2, <2>3, <2>4, <2>5 DEF RevokeIngress, TypeOK, region
<1>23. ASSUME AuthorizeEgress(p) PROVE TypeOK'
  <2>1. pc' \in [Callers -> Steps \cup Resting]
    BY <1>23 DEF AuthorizeEgress, Authorize, Finish, Goto, TypeOK, Steps, Resting
  <2>2. mem' \in [Callers -> Locals]
    <3>1. CASE mem' = [mem EXCEPT ![p] = [NoMem EXCEPT !.sub = mem[p].sub]]
      BY <3>1, LocalsFields DEF TypeOK
    <3>2. ASSUME NEW m \in SUBSET Families, mem' = [mem EXCEPT ![p].missing = m]
          PROVE  mem' \in [Callers -> Locals]
      BY <3>2, LocalsUpdate DEF TypeOK
    <3>3. mem[p].missing \ {IF "v4" \in mem[p].missing THEN "v4" ELSE "v6"} \in SUBSET Families
      BY LocalsFields DEF TypeOK
    <3>. QED
      BY <1>23, <3>1, <3>2, <3>3 DEF AuthorizeEgress, Authorize, Finish
  <2>3. listed' \in [Callers -> SUBSET SubnetIds]
    BY <1>23 DEF AuthorizeEgress, Authorize, Finish, TypeOK
  <2>4. zone' \in [Callers -> Zones \cup {None}]
    BY <1>23 DEF AuthorizeEgress, Authorize, Finish, TypeOK
  <2>5. sg' \in [VpcIds -> Groups]
    BY <1>23, GroupUpdate DEF AuthorizeEgress, TypeOK, Families
  <2>. QED
    BY <1>23, <2>1, <2>2, <2>3, <2>4, <2>5 DEF AuthorizeEgress, TypeOK, region
<1>24. ASSUME GiveUp(p) PROVE TypeOK'
  BY <1>24, AbortType DEF GiveUp
<1>. QED
  BY <1>1, <1>2, <1>3, <1>4, <1>5, <1>6, <1>7, <1>8, <1>9, <1>10, <1>11, <1>12, <1>13, <1>14, <1>15, <1>16, <1>17, <1>18, <1>19, <1>20, <1>21, <1>22, <1>23, <1>24 DEF Step

(* So do the start of a call, its failure and what EC2 settles.              *)
LEMMA StartType == ASSUME TypeOK, NEW p \in Callers, Start(p) PROVE TypeOK'
<1>1. PICK r \in Requests : req' = [req EXCEPT ![p] = r]
  BY DEF Start
<1>2. calls' \in [Callers -> 0..MaxCalls]
  <2>1. calls[p] + 1 \in 0..MaxCalls
    BY BoundAssumption DEF Start, TypeOK
  <2>. QED
    BY <2>1 DEF Start, TypeOK
<1>3. /\ pc' \in [Callers -> Steps \cup Resting]
      /\ req' \in [Callers -> Requests]
      /\ vpc' \in [Callers -> VpcIds \cup {None}]
      /\ listed' \in [Callers -> SUBSET SubnetIds]
      /\ zone' \in [Callers -> Zones \cup {None}]
      /\ mem' \in [Callers -> Locals]
  BY <1>1, BlankTypes DEF Start, Goto, TypeOK, Steps
<1>. QED
  BY <1>2, <1>3 DEF Start, region, TypeOK

(* What an association becomes is a state of one.                            *)
LEMMA OutcomeType == ASSUME NEW old, NEW state \in Outcomes(old) PROVE state \in V6States
  BY DEF Outcomes, V6States

(* An association that settles keeps the types.                              *)
LEMMA SettleType ==
  ASSUME TypeOK,
         \/ \E v \in VpcIds, b \in Blocks : SettleVpc(v, b)
         \/ \E s \in SubnetIds : SettleSubnet(s)
  PROVE  TypeOK'
<1>1. ASSUME NEW v \in VpcIds, NEW b \in Blocks, SettleVpc(v, b) PROVE TypeOK'
  <2>1. PICK state \in Outcomes(v6[v][b]) : v6' = [v6 EXCEPT ![v][b] = state]
    BY <1>1 DEF SettleVpc
  <2>2. v6' \in [VpcIds -> V6Blocks]
    BY <2>1, OutcomeType, BlockUpdate DEF TypeOK
  <2>. QED
    BY <1>1, <2>2 DEF SettleVpc, TypeOK, locals
<1>2. ASSUME NEW s \in SubnetIds, SettleSubnet(s) PROVE TypeOK'
  <2>1. PICK state \in Outcomes(subnet[s].v6) : subnet' = [subnet EXCEPT ![s].v6 = state]
    BY <1>2 DEF SettleSubnet
  <2>2. subnet' \in [SubnetIds -> Subnets]
    BY <2>1, OutcomeType, SubnetUpdate DEF TypeOK
  <2>. QED
    BY <1>2, <2>2 DEF SettleSubnet, TypeOK, locals
<1>. QED
  BY <1>1, <1>2

(* Every step keeps the types.                                               *)
LEMMA NextType == TypeOK /\ HasVpc /\ [Next]_vars => TypeOK'
<1>. SUFFICES ASSUME TypeOK, HasVpc, [Next]_vars PROVE TypeOK'
  OBVIOUS
<1>1. ASSUME NEW p \in Callers, Start(p) \/ Step(p) \/ Fail(p) PROVE TypeOK'
  BY <1>1, StartType, StepType, AbortType DEF Fail
<1>2. CASE UNCHANGED vars
  BY <1>2 DEF vars, region, locals, TypeOK
<1>. QED
  BY <1>1, <1>2, SettleType DEF Next, Exhausted

(* The program counter leaves a call's early steps only with a VPC in hand.  *)
LEMMA StepHasVpc == ASSUME TypeOK, HasVpc, NEW p \in Callers, Step(p) PROVE HasVpc'
<1>1. CASE FindVpc(p) \/ CreateVpc(p)
  BY <1>1, IdAssumption DEF FindVpc, CreateVpc, HasVpc, At, Goto, TypeOK
<1>2. CASE GiveUp(p)
  BY <1>2 DEF GiveUp, Abort, HasVpc, Goto, TypeOK
<1>3. CASE vpc' = vpc /\ pc[p] \notin {"idle", "FindVpc", "CreateVpc"}
           /\ \A q \in Callers \ {p} : pc'[q] = pc[q]
  BY <1>3 DEF HasVpc
<1>4. CASE VpcDns(p) \/ AssociateVpcV6(p) \/ PollVpc(p) \/ FindIgw(p) \/ CreateIgw(p)
           \/ AttachIgw(p) \/ FindRouteTable(p) \/ CreateRouteTable(p)
  BY <1>3, <1>4 DEF VpcDns, AssociateVpcV6, PollVpc, FindIgw, CreateIgw, AttachIgw,
       FindRouteTable, CreateRouteTable, At, Goto, TypeOK
<1>5. CASE RouteV4(p) \/ RouteV6(p) \/ ListSubnets(p) \/ ChooseZone(p) \/ CreateSubnet(p)
           \/ AssociateSubnetV6(p) \/ PollSubnet(p)
  BY <1>3, <1>5 DEF RouteV4, RouteV6, ListSubnets, ChooseZone, CreateSubnet,
       AssociateSubnetV6, PollSubnet, At, Goto, TypeOK
<1>6. CASE SubnetAttributes(p) \/ AssociateRouteTable(p) \/ FindSg(p) \/ CreateSg(p)
           \/ RevokeIngress(p) \/ AuthorizeEgress(p)
  BY <1>3, <1>6 DEF SubnetAttributes, AssociateRouteTable, FindSg, CreateSg,
       RevokeIngress, AuthorizeEgress, Authorize, Finish, At, Goto, TypeOK
<1>. QED
  BY <1>1, <1>2, <1>4, <1>5, <1>6 DEF Step

(* Every step leaves each caller past its lookup with a VPC.                 *)
LEMMA NextHasVpc == TypeOK /\ HasVpc /\ [Next]_vars => HasVpc'
<1>. SUFFICES ASSUME TypeOK, HasVpc, [Next]_vars PROVE HasVpc'
  OBVIOUS
<1>1. ASSUME NEW p \in Callers, Start(p) \/ Fail(p) PROVE HasVpc'
  BY <1>1 DEF Start, Fail, Abort, HasVpc, Goto, TypeOK
<1>2. CASE UNCHANGED <<pc, vpc>>
  BY <1>2 DEF HasVpc
<1>. QED
  BY <1>1, <1>2, StepHasVpc DEF Next, SettleVpc, SettleSubnet, Exhausted, vars, locals

(* Both hold from the start on.                                              *)
LEMMA TypeAlways == Spec => [](TypeOK /\ HasVpc)
<1>1. Init => TypeOK /\ HasVpc
  BY InitType DEF Init, HasVpc
<1>2. TypeOK /\ HasVpc /\ [Next]_vars => (TypeOK /\ HasVpc)'
  BY NextType, NextHasVpc
<1>. QED
  BY <1>1, <1>2, PTL DEF Spec

(* Every variable keeps its type, and every reference of a caller is to an   *)
(* id of the region or to none (network_manager.go:38-93).                   *)
THEOREM TypeCorrect == Spec => []TypeOK
BY TypeAlways, PTL

-----------------------------------------------------------------------------
(* A caller that is about to create a VPC never created one: those it        *)
(* created would have been found.                                            *)
MadeInv ==
  \A p \in Callers :
    /\ made[p] \subseteq vpcs
    /\ pc[p] = "CreateVpc" => made[p] = {}
    /\ \A v, w \in made[p] : v = w

(* Every step keeps what is known of the VPCs a caller made.                 *)
LEMMA MadeKept == ASSUME Consistent, TypeOK, MadeInv, [Next]_vars PROVE MadeInv'
<1>1. ASSUME made' = made, vpcs' = vpcs, \A q \in Callers : pc'[q] = "CreateVpc" => made[q] = {}
      PROVE  MadeInv'
  BY <1>1 DEF MadeInv
<1>2. CASE UNCHANGED <<made, vpcs, pc>>
  BY <1>2 DEF MadeInv
<1>3. ASSUME NEW p \in Callers, FindVpc(p) PROVE MadeInv'
  <2>1. pc'[p] = "CreateVpc" => vpcs = {}
    BY <1>3 DEF FindVpc, Views, FoundVpcs, Goto, TypeOK
  <2>. QED
    BY <1>1, <1>3, <2>1 DEF FindVpc, Goto, TypeOK, region, MadeInv
<1>4. ASSUME NEW p \in Callers, CreateVpc(p) PROVE MadeInv'
  <2>1. PICK v \in VpcIds \ vpcs : vpcs' = vpcs \cup {v} /\ made' = [made EXCEPT ![p] = @ \cup {v}]
    BY <1>4 DEF CreateVpc
  <2>2. made[p] = {}
    BY <1>4 DEF CreateVpc, At, MadeInv
  <2>3. pc' = [pc EXCEPT ![p] = "VpcDns"]
    BY <1>4 DEF CreateVpc, Goto
  <2>. QED
    BY <2>1, <2>2, <2>3 DEF MadeInv, TypeOK
<1>5. ASSUME NEW p \in Callers, made' = made, vpcs' = vpcs, pc'[p] # "CreateVpc",
             \A q \in Callers \ {p} : pc'[q] = pc[q]
      PROVE  MadeInv'
  BY <1>1, <1>5 DEF MadeInv
<1>6. ASSUME NEW p \in Callers, \/ VpcDns(p) \/ AssociateVpcV6(p) \/ PollVpc(p)
                                \/ FindIgw(p) \/ CreateIgw(p) \/ AttachIgw(p)
                                \/ FindRouteTable(p) \/ CreateRouteTable(p)
                                \/ RouteV4(p) \/ RouteV6(p)
      PROVE  MadeInv'
  BY <1>5, <1>6 DEF VpcDns, AssociateVpcV6, PollVpc, FindIgw, CreateIgw, AttachIgw,
       FindRouteTable, CreateRouteTable, RouteV4, RouteV6, RouteStep, At, Goto, TypeOK, region
<1>7. ASSUME NEW p \in Callers, \/ ListSubnets(p) \/ ChooseZone(p) \/ CreateSubnet(p)
                                \/ AssociateSubnetV6(p) \/ PollSubnet(p)
                                \/ SubnetAttributes(p) \/ AssociateRouteTable(p)
      PROVE  MadeInv'
  BY <1>5, <1>7 DEF ListSubnets, ChooseZone, CreateSubnet, AssociateSubnetV6, PollSubnet,
       SubnetAttributes, AssociateRouteTable, ReadyStep, AfterV6, At, Goto, TypeOK, region
<1>8. ASSUME NEW p \in Callers, \/ FindSg(p) \/ CreateSg(p) \/ RevokeIngress(p)
                                \/ AuthorizeEgress(p)
      PROVE  MadeInv'
  BY <1>5, <1>8 DEF FindSg, CreateSg, RevokeIngress, AuthorizeEgress, Authorize, Finish,
       At, Goto, TypeOK, region
<1>9. ASSUME NEW p \in Callers, Abort(p) \/ Start(p) PROVE MadeInv'
  BY <1>5, <1>9 DEF Abort, Start, Goto, TypeOK, region
<1>10. ASSUME NEW p \in Callers, Step(p) PROVE MadeInv'
  BY <1>3, <1>4, <1>6, <1>7, <1>8, <1>9, <1>10 DEF Step, GiveUp
<1>. QED
  BY <1>2, <1>9, <1>10 DEF Next, Fail, SettleVpc, SettleSubnet, Exhausted, vars, locals, region

(* Where Describe shows what was created, a caller creates one VPC at most,  *)
(* however often its calls fail and are repeated (network_manager.go:95-151).*)
THEOREM RetriesMakeOneVpc == ASSUME Consistent PROVE Spec => []OneVpcPerCaller
<1>1. Init => MadeInv
  BY DEF Init, MadeInv
<1>2. TypeOK /\ MadeInv /\ [Next]_vars => MadeInv'
  BY MadeKept
<1>3. MadeInv => OneVpcPerCaller
  BY DEF MadeInv, OneVpcPerCaller
<1>. QED
  BY <1>1, <1>2, <1>3, TypeCorrect, PTL DEF Spec

(* The VPCs are settled once there is one and no call is about to make one.  *)
Settled == vpcs # {} /\ \A p \in Callers : pc[p] # "CreateVpc"

(* From then on no call makes a VPC, and each settles on the same one.       *)
OneVpcForAll ==
  Settled => /\ Settled' /\ vpcs' = vpcs
             /\ \A p \in Callers : FindVpc(p) => IsLeast(vpc'[p], vpcs)

(* A step that neither looks for a VPC nor makes one leaves them settled.    *)
LEMMA SettledOnwards ==
  ASSUME TypeOK, NEW p \in Callers, Start(p) \/ Step(p) \/ Fail(p), ~FindVpc(p), ~CreateVpc(p)
  PROVE  vpcs' = vpcs /\ \A q \in Callers : pc'[q] = "CreateVpc" => pc[q] = "CreateVpc"
<1>1. ASSUME vpcs' = vpcs, pc'[p] # "CreateVpc", \A q \in Callers \ {p} : pc'[q] = pc[q]
      PROVE  vpcs' = vpcs /\ \A q \in Callers : pc'[q] = "CreateVpc" => pc[q] = "CreateVpc"
  BY <1>1
<1>2. CASE \/ VpcDns(p) \/ AssociateVpcV6(p) \/ PollVpc(p) \/ FindIgw(p) \/ CreateIgw(p)
           \/ AttachIgw(p) \/ FindRouteTable(p) \/ CreateRouteTable(p) \/ RouteV4(p) \/ RouteV6(p)
  BY <1>1, <1>2 DEF VpcDns, AssociateVpcV6, PollVpc, FindIgw, CreateIgw, AttachIgw,
       FindRouteTable, CreateRouteTable, RouteV4, RouteV6, RouteStep, At, Goto, TypeOK, region
<1>3. CASE \/ ListSubnets(p) \/ ChooseZone(p) \/ CreateSubnet(p) \/ AssociateSubnetV6(p)
           \/ PollSubnet(p) \/ SubnetAttributes(p) \/ AssociateRouteTable(p)
  BY <1>1, <1>3 DEF ListSubnets, ChooseZone, CreateSubnet, AssociateSubnetV6, PollSubnet,
       SubnetAttributes, AssociateRouteTable, ReadyStep, AfterV6, At, Goto, TypeOK, region
<1>4. CASE FindSg(p) \/ CreateSg(p) \/ RevokeIngress(p) \/ AuthorizeEgress(p)
  BY <1>1, <1>4 DEF FindSg, CreateSg, RevokeIngress, AuthorizeEgress, Authorize, Finish,
       At, Goto, TypeOK, region
<1>5. CASE Start(p) \/ Fail(p) \/ GiveUp(p)
  BY <1>1, <1>5 DEF Start, Fail, GiveUp, Abort, Goto, TypeOK, region
<1>. QED
  BY <1>2, <1>3, <1>4, <1>5 DEF Step

(* Two first uses of a region at once may each make a VPC; but where         *)
(* Describe shows what was created, that comes to an end: when no call is    *)
(* about to create one any more, none ever is again, and all calls and       *)
(* retries from then on use the one of the least id                          *)
(* (ensureManagedVPC, network_manager.go:95-151).                            *)
THEOREM VpcsSettle == ASSUME Consistent PROVE Spec => [][OneVpcForAll]_vars
<1>1. TypeOK /\ [Next]_vars => [OneVpcForAll]_vars
  <2>. SUFFICES ASSUME TypeOK, Next, Settled
                PROVE  /\ Settled' /\ vpcs' = vpcs
                       /\ \A q \in Callers : FindVpc(q) => IsLeast(vpc'[q], vpcs)
    BY DEF OneVpcForAll
  <2>1. ASSUME NEW q \in Callers, FindVpc(q)
        PROVE  /\ vpcs' = vpcs /\ IsLeast(vpc'[q], vpcs)
               /\ \A r \in Callers : pc'[r] # "CreateVpc"
    <3>1. PICK v \in VpcIds : /\ IsLeast(v, vpcs)
                              /\ vpc' = [vpc EXCEPT ![q] = v]
                              /\ Goto(q, "VpcDns")
      BY <2>1 DEF FindVpc, Views, FoundVpcs, Settled
    <3>. QED
      BY <2>1, <3>1 DEF FindVpc, Goto, TypeOK, Settled, region
  <2>2. ASSUME NEW q \in Callers PROVE ~CreateVpc(q)
    BY DEF Settled, CreateVpc, At
  <2>3. vpcs' = vpcs /\ \A r \in Callers : pc'[r] # "CreateVpc"
    <3>1. ASSUME NEW q \in Callers, Start(q) \/ Step(q) \/ Fail(q), ~FindVpc(q)
          PROVE  vpcs' = vpcs /\ \A r \in Callers : pc'[r] # "CreateVpc"
      BY <2>2, <3>1, SettledOnwards DEF Settled
    <3>2. CASE UNCHANGED <<vpcs, pc>>
      BY <3>2 DEF Settled
    <3>. QED
      BY <2>1, <3>1, <3>2 DEF Next, SettleVpc, SettleSubnet, Exhausted, vars, locals, region
  <2>. QED
    BY <2>1, <2>3 DEF Settled
<1>. QED
  BY <1>1, TypeCorrect, PTL DEF Spec

-----------------------------------------------------------------------------
(* What a caller at work on the security group of its VPC knows of it, and   *)
(* what holds of the group it returns.                                       *)
GroupInv ==
  \A p \in Callers :
    /\ pc[p] \in {"RevokeIngress", "AuthorizeEgress"} =>
         /\ sg[vpc[p]].exists
         /\ Families \ mem[p].missing \subseteq sg[vpc[p]].egress
    /\ pc[p] = "AuthorizeEgress" => ~sg[vpc[p]].ingress
    /\ pc[p] = "done" =>
         sg[vpc[p]].exists /\ ~sg[vpc[p]].ingress /\ Families \subseteq sg[vpc[p]].egress

(* Nobody takes back what was granted to a group or opens it again.          *)
GroupKept(v) ==
  sg[v].exists =>
    /\ sg'[v].exists
    /\ sg[v].ingress \/ ~sg'[v].ingress
    /\ sg[v].egress \subseteq sg'[v].egress

(* A step of p is a step of no other caller.                                 *)
Untouched(q) ==
  /\ pc'[q] = pc[q] /\ req'[q] = req[q] /\ vpc'[q] = vpc[q]
  /\ zone'[q] = zone[q] /\ mem'[q] = mem[q]

(* What a caller knows is changed by its own calls alone.                    *)
LEMMA OthersUntouched ==
  ASSUME TypeOK, NEW p \in Callers, Start(p) \/ Step(p) \/ Fail(p), NEW q \in Callers \ {p}
  PROVE  Untouched(q)
<1>1. CASE \/ Start(p) \/ Fail(p) \/ GiveUp(p) \/ FindVpc(p) \/ CreateVpc(p) \/ VpcDns(p)
           \/ AssociateVpcV6(p) \/ PollVpc(p)
  BY <1>1 DEF Start, Fail, GiveUp, Abort, FindVpc, CreateVpc, VpcDns, AssociateVpcV6, PollVpc,
       Goto, TypeOK, Untouched
<1>2. CASE \/ FindIgw(p) \/ CreateIgw(p) \/ AttachIgw(p) \/ FindRouteTable(p)
           \/ CreateRouteTable(p) \/ RouteV4(p) \/ RouteV6(p) \/ ChooseZone(p)
  BY <1>2 DEF FindIgw, CreateIgw, AttachIgw, FindRouteTable, CreateRouteTable, RouteV4, RouteV6,
       ChooseZone, Goto, TypeOK, Untouched
<1>3. CASE \/ ListSubnets(p) \/ CreateSubnet(p) \/ AssociateSubnetV6(p) \/ PollSubnet(p)
           \/ SubnetAttributes(p) \/ AssociateRouteTable(p)
  BY <1>3 DEF ListSubnets, CreateSubnet, AssociateSubnetV6, PollSubnet,
       SubnetAttributes, AssociateRouteTable, Goto, TypeOK, Untouched
<1>4. CASE FindSg(p) \/ CreateSg(p) \/ RevokeIngress(p) \/ AuthorizeEgress(p)
  BY <1>4 DEF FindSg, CreateSg, RevokeIngress, AuthorizeEgress, Authorize, Finish, Goto,
       TypeOK, Untouched
<1>. QED
  BY <1>1, <1>2, <1>3, <1>4 DEF Step

(* Only CreateSg, RevokeIngress and AuthorizeEgress write a group.           *)
LEMMA GroupWriters ==
  ASSUME NEW p \in Callers, Start(p) \/ Step(p) \/ Fail(p),
         ~CreateSg(p), ~RevokeIngress(p), ~AuthorizeEgress(p)
  PROVE  sg' = sg
<1>1. CASE \/ Start(p) \/ Fail(p) \/ GiveUp(p) \/ FindVpc(p) \/ CreateVpc(p) \/ VpcDns(p)
           \/ AssociateVpcV6(p) \/ PollVpc(p) \/ FindSg(p)
  BY <1>1 DEF Start, Fail, GiveUp, Abort, FindVpc, CreateVpc, VpcDns, AssociateVpcV6, PollVpc,
       FindSg, region
<1>2. CASE \/ FindIgw(p) \/ CreateIgw(p) \/ AttachIgw(p) \/ FindRouteTable(p)
           \/ CreateRouteTable(p) \/ RouteV4(p) \/ RouteV6(p) \/ ChooseZone(p)
  BY <1>2 DEF FindIgw, CreateIgw, AttachIgw, FindRouteTable, CreateRouteTable, RouteV4, RouteV6,
       ChooseZone, region
<1>3. CASE \/ ListSubnets(p) \/ CreateSubnet(p) \/ AssociateSubnetV6(p) \/ PollSubnet(p)
           \/ SubnetAttributes(p) \/ AssociateRouteTable(p)
  BY <1>3 DEF ListSubnets, CreateSubnet, AssociateSubnetV6, PollSubnet,
       SubnetAttributes, AssociateRouteTable, region
<1>. QED
  BY <1>1, <1>2, <1>3 DEF Step

(* No call takes back what another granted to a group.                       *)
LEMMA GroupsKept ==
  ASSUME TypeOK, HasVpc, NEW p \in Callers, Start(p) \/ Step(p) \/ Fail(p), NEW v \in VpcIds
  PROVE  GroupKept(v)
<1>. sg \in [VpcIds -> Groups]
  BY DEF TypeOK
<1>1. CASE CreateSg(p)
  BY <1>1 DEF CreateSg, GroupKept, Groups
<1>2. CASE RevokeIngress(p)
  BY <1>2 DEF RevokeIngress, GroupKept, Groups
<1>3. CASE AuthorizeEgress(p)
  BY <1>3 DEF AuthorizeEgress, GroupKept, Groups
<1>. QED
  BY <1>1, <1>2, <1>3, GroupWriters DEF GroupKept

(* What the step of a caller on its group leaves behind.                     *)
LEMMA GroupStep ==
  ASSUME TypeOK, HasVpc, GroupInv, NEW p \in Callers,
         FindSg(p) \/ CreateSg(p) \/ RevokeIngress(p) \/ AuthorizeEgress(p)
  PROVE  /\ pc'[p] \in {"RevokeIngress", "AuthorizeEgress"} =>
              /\ sg'[vpc[p]].exists
              /\ Families \ mem'[p].missing \subseteq sg'[vpc[p]].egress
         /\ pc'[p] = "AuthorizeEgress" => ~sg'[vpc[p]].ingress
         /\ pc'[p] = "done" =>
              sg'[vpc[p]].exists /\ ~sg'[vpc[p]].ingress /\ Families \subseteq sg'[vpc[p]].egress
<1>. DEFINE v == vpc[p]
<1>1. v \in VpcIds /\ sg \in [VpcIds -> Groups] /\ sg[v] \in Groups
  BY DEF HasVpc, TypeOK, FindSg, CreateSg, RevokeIngress, AuthorizeEgress, At
<1>2. \A x : [mem EXCEPT ![p].missing = x][p].missing = x
  BY DEF TypeOK, Locals
<1>3. pc' = [pc EXCEPT ![p] = pc'[p]] /\ pc \in [Callers -> Steps \cup Resting]
  BY DEF FindSg, CreateSg, RevokeIngress, AuthorizeEgress, Authorize, Finish, Goto, TypeOK
<1>4. CASE FindSg(p)
  <2>1. sg' = sg /\ (pc'[p] \in {"RevokeIngress", "AuthorizeEgress", "done"} => sg[v].exists)
    BY <1>4, <1>3 DEF FindSg, Views, Goto, region, TypeOK
  <2>2. CASE pc'[p] = "done"
    BY <1>1, <1>4, <2>1, <2>2 DEF FindSg, Authorize, Finish, Goto, TypeOK, Groups
  <2>3. CASE pc'[p] = "RevokeIngress" \/ pc'[p] = "AuthorizeEgress"
    <3>1. mem' = [mem EXCEPT ![p].missing = Families \ sg[v].egress]
      BY <1>4, <2>3 DEF FindSg, Authorize, Finish, Goto, TypeOK
    <3>2. pc'[p] = "AuthorizeEgress" => ~sg[v].ingress
      BY <1>4, <2>3 DEF FindSg, Authorize, Finish, Goto, TypeOK
    <3>3. mem'[p].missing = Families \ sg[v].egress
      BY <1>2, <3>1
    <3>4. Families \ mem'[p].missing \subseteq sg[v].egress
      BY <3>3
    <3>. QED
      BY <2>1, <2>3, <3>2, <3>4
  <2>. QED
    BY <2>2, <2>3
<1>5. CASE CreateSg(p)
  <2>1. CASE pc'[p] = "FindSg"
    BY <2>1
  <2>2. CASE pc'[p] = "AuthorizeEgress"
    <3>1. /\ mem' = [mem EXCEPT ![p].missing = Families]
          /\ sg' = [sg EXCEPT ![v] = [exists |-> TRUE, ingress |-> FALSE, egress |-> {"v4"}]]
      BY <1>5, <2>2 DEF CreateSg, Goto, TypeOK
    <3>. QED
      BY <1>1, <1>2, <2>2, <3>1
  <2>. QED
    BY <1>5, <2>1, <2>2 DEF CreateSg, Goto, TypeOK
<1>6. CASE RevokeIngress(p)
  <2>1. sg'[v] = [sg[v] EXCEPT !.ingress = FALSE]
    BY <1>1, <1>6 DEF RevokeIngress
  <2>2. /\ sg'[v].exists /\ ~sg'[v].ingress
        /\ Families \ mem[p].missing \subseteq sg'[v].egress
    BY <1>1, <1>6, <2>1 DEF GroupInv, RevokeIngress, At, Groups
  <2>3. \/ pc'[p] = "done" /\ mem[p].missing = {}
        \/ pc'[p] = "AuthorizeEgress" /\ mem' = [mem EXCEPT ![p].missing = mem[p].missing]
    BY <1>6 DEF RevokeIngress, Authorize, Finish, Goto, TypeOK
  <2>. QED
    BY <1>2, <2>2, <2>3
<1>7. CASE AuthorizeEgress(p)
  <2>. DEFINE f == IF "v4" \in mem[p].missing THEN "v4" ELSE "v6"
  <2>1. sg'[v] = [sg[v] EXCEPT !.egress = @ \cup {f}]
    BY <1>1, <1>7 DEF AuthorizeEgress
  <2>2. /\ sg'[v].exists /\ ~sg'[v].ingress
        /\ Families \ (mem[p].missing \ {f}) \subseteq sg'[v].egress
    BY <1>1, <1>7, <2>1 DEF GroupInv, AuthorizeEgress, At, Groups
  <2>3. \/ pc'[p] = "done" /\ mem[p].missing \ {f} = {}
        \/ pc'[p] = "AuthorizeEgress" /\ mem' = [mem EXCEPT ![p].missing = mem[p].missing \ {f}]
    BY <1>7 DEF AuthorizeEgress, Authorize, Finish, Goto, TypeOK
  <2>. QED
    BY <1>2, <2>2, <2>3
<1>. QED
  BY <1>4, <1>5, <1>6, <1>7

(* Every step of every caller keeps what all know of their groups.           *)
LEMMA GroupInvKept == TypeOK /\ HasVpc /\ GroupInv /\ [Next]_vars => GroupInv'
<1>. SUFFICES ASSUME TypeOK, HasVpc, GroupInv, [Next]_vars PROVE GroupInv'
  OBVIOUS
<1>1. CASE UNCHANGED <<sg, locals>>
  BY <1>1 DEF GroupInv, locals
<1>2. ASSUME NEW p \in Callers, Start(p) \/ Step(p) \/ Fail(p) PROVE GroupInv'
  <2>1. ASSUME NEW q \in Callers \ {p}
        PROVE  GroupInv!(q)'
    <3>1. Untouched(q)
      BY <1>2, <2>1, OthersUntouched
    <3>2. CASE pc[q] \in {"RevokeIngress", "AuthorizeEgress", "done"}
      <4>1. vpc[q] \in VpcIds
        BY <3>2 DEF HasVpc, TypeOK
      <4>2. GroupKept(vpc[q])
        BY <1>2, <4>1, GroupsKept
      <4>. QED
        BY <3>1, <3>2, <4>2 DEF GroupInv, GroupKept, Untouched
    <3>3. CASE pc[q] \notin {"RevokeIngress", "AuthorizeEgress", "done"}
      BY <3>1, <3>3 DEF Untouched
    <3>. QED
      BY <3>2, <3>3
  <2>2. GroupInv!(p)'
    <3>1. CASE pc'[p] \notin {"RevokeIngress", "AuthorizeEgress", "done"}
      BY <3>1
    <3>2. CASE FindSg(p) \/ CreateSg(p) \/ RevokeIngress(p) \/ AuthorizeEgress(p)
      <4>1. vpc' = vpc
        BY <3>2 DEF FindSg, CreateSg, RevokeIngress, AuthorizeEgress
      <4>. QED
        BY <3>2, <4>1, GroupStep
    <3>3. CASE \/ Start(p) \/ Fail(p) \/ GiveUp(p) \/ FindVpc(p) \/ CreateVpc(p) \/ VpcDns(p)
               \/ AssociateVpcV6(p) \/ PollVpc(p) \/ FindIgw(p) \/ CreateIgw(p)
      BY <3>1, <3>3 DEF Start, Fail, GiveUp, Abort, FindVpc, CreateVpc, VpcDns, AssociateVpcV6,
           PollVpc, FindIgw, CreateIgw, At, Goto, TypeOK
    <3>4. CASE \/ AttachIgw(p) \/ FindRouteTable(p) \/ CreateRouteTable(p) \/ RouteV4(p)
               \/ RouteV6(p) \/ ChooseZone(p)
      BY <3>1, <3>4 DEF AttachIgw, FindRouteTable, CreateRouteTable, RouteV4, RouteV6,
           RouteStep, ChooseZone, Goto, TypeOK
    <3>5. CASE \/ ListSubnets(p) \/ CreateSubnet(p) \/ AssociateSubnetV6(p) \/ PollSubnet(p)
               \/ SubnetAttributes(p) \/ AssociateRouteTable(p)
      BY <3>1, <3>5 DEF ListSubnets, CreateSubnet, AssociateSubnetV6, PollSubnet,
           SubnetAttributes, AssociateRouteTable, ReadyStep, AfterV6, At, Goto, TypeOK
    <3>. QED
      BY <1>2, <3>2, <3>3, <3>4, <3>5 DEF Step
  <2>. QED
    BY <2>1, <2>2 DEF GroupInv
<1>. QED
  BY <1>1, <1>2 DEF Next, SettleVpc, SettleSubnet, Exhausted, vars, region

(* However many callers work on the group of a VPC, and whether it was found *)
(* open, found closed or created, the group of a call that returned lets     *)
(* everything out and nothing in, then and later                             *)
(* (network_manager.go:663-753).                                             *)
THEOREM GroupOutboundOnly == Spec => []OutboundOnlyWhenDone
<1>1. Init => GroupInv
  BY DEF Init, GroupInv
<1>2. TypeOK /\ HasVpc /\ GroupInv => OutboundOnlyWhenDone
  <2>. SUFFICES ASSUME TypeOK, HasVpc, GroupInv, NEW p \in Callers, pc[p] = "done"
                PROVE  sg[vpc[p]] = [exists |-> TRUE, ingress |-> FALSE, egress |-> Families]
    BY DEF OutboundOnlyWhenDone
  <2>1. sg[vpc[p]] \in Groups
    BY DEF HasVpc, TypeOK
  <2>. QED
    BY <2>1 DEF GroupInv, Groups
<1>. QED
  BY <1>1, <1>2, GroupInvKept, TypeAlways, PTL DEF Spec

-----------------------------------------------------------------------------
(* A default route always leads to the gateway that is attached to the VPC   *)
(* of its table, and the table r of v has both.                              *)
RoutesSound ==
  \A r \in RouteTableIds, f \in Families :
    tables[r].routes[f] # None =>
      tables[r].vpc # None /\ tables[r].routes[f] = attached[tables[r].vpc]
Routed(r, v) ==
  /\ r # None /\ tables[r].vpc = v
  /\ \A f \in Families : tables[r].routes[f] # None

(* A subnet is only ever associated with a complete table of its own VPC.    *)
SubnetsRouted ==
  \A s \in SubnetIds :
    subnet[s].rt # None => Exists(s) /\ Routed(subnet[s].rt, subnet[s].vpc)

(* The steps of a call after ensureManagedSubnet has given the subnet its    *)
(* route table, its attributes, its IPv6 block, and after it chose it.       *)
AtGroup == {"FindSg", "CreateSg", "RevokeIngress", "AuthorizeEgress", "done"}
HasAttributes == AtGroup \cup {"AssociateRouteTable"}
HasBlock == HasAttributes \cup {"SubnetAttributes"}
HasSubnet == HasBlock \cup {"AssociateSubnetV6", "PollSubnet"}
HasTable == (HasSubnet \ AtGroup) \cup {"ListSubnets", "ChooseZone", "CreateSubnet"}
HasGateway == {"AttachIgw", "FindRouteTable", "CreateRouteTable", "RouteV4", "RouteV6"}
NoTableYet == {"FindVpc", "CreateVpc", "VpcDns", "AssociateVpcV6", "PollVpc", "FindIgw",
               "CreateIgw", "AttachIgw", "FindRouteTable", "CreateRouteTable"}

(* What a caller knows of the route table it found or made ...               *)
TableInv(p) ==
  /\ pc[p] \in NoTableYet => mem[p].seenRoutes = {} /\ mem[p].seenSubnets = {}
  /\ pc[p] \in HasGateway => mem[p].igw # None
  /\ pc[p] \in {"RouteV4", "RouteV6"} =>
       /\ mem[p].rt # None /\ tables[mem[p].rt].vpc = vpc[p]
       /\ \A f \in mem[p].seenRoutes : tables[mem[p].rt].routes[f] # None
  /\ pc[p] = "RouteV6" => tables[mem[p].rt].routes["v4"] # None
  /\ pc[p] \in HasTable => Routed(mem[p].rt, vpc[p])
  /\ \A s \in mem[p].seenSubnets : subnet[s].rt # None

(* ... of the VPC and the placement ...                                      *)
PlaceInv(p) ==
  /\ pc[p] \notin {"idle", "FindVpc", "CreateVpc", "VpcDns"} => vpc[p] \in dns
  /\ pc[p] = "ChooseZone" => req[p].az = None
  /\ pc[p] = "CreateSubnet" => req[p].az \in {None, zone[p]}

(* ... and of the subnet it chose or created.                                *)
Fits(s, v, r) ==
  s # None /\ subnet[s].vpc = v /\ subnet[s].mode = r.mode /\ r.az \in {None, subnet[s].az}
SubnetInv(p) ==
  /\ pc[p] \in HasSubnet => Fits(mem[p].sub, vpc[p], req[p])
  /\ pc[p] \in HasBlock /\ req[p].mode = "dualstack" => subnet[mem[p].sub].v6 = "associated"
  /\ pc[p] \in HasAttributes => subnet[mem[p].sub].ready
  /\ pc[p] \in AtGroup => subnet[mem[p].sub].rt # None

NetworkInv ==
  /\ RoutesSound /\ SubnetsRouted
  /\ \A p \in Callers : TableInv(p) /\ PlaceInv(p) /\ SubnetInv(p)

-----------------------------------------------------------------------------
(* Nobody takes back what was built: attributes, routes and associations     *)
(* are only ever added.                                                      *)
VpcsKept ==
  /\ dns \subseteq dns'
  /\ \A v \in VpcIds : attached[v] # None => attached'[v] = attached[v]
TablesKept ==
  \A r \in RouteTableIds :
    /\ tables[r].vpc # None => tables'[r].vpc = tables[r].vpc
    /\ \A f \in Families :
         tables[r].routes[f] # None => tables'[r].routes[f] = tables[r].routes[f]
SubnetKept(s) ==
  /\ subnet'[s].vpc = subnet[s].vpc /\ subnet'[s].az = subnet[s].az
  /\ subnet'[s].mode = subnet[s].mode
  /\ subnet[s].ready => subnet'[s].ready
  /\ subnet[s].v6 = "associated" => subnet'[s].v6 = "associated"
  /\ subnet[s].rt # None => subnet'[s].rt = subnet[s].rt
SubnetsKept == \A s \in SubnetIds : Exists(s) => SubnetKept(s)
Kept == VpcsKept /\ TablesKept /\ SubnetsKept

(* Who writes the route tables, and who the subnets.                         *)
LEMMA Writers ==
  ASSUME NEW p \in Callers, Start(p) \/ Step(p) \/ Fail(p)
  PROVE  /\ tables' = tables \/ CreateRouteTable(p) \/ RouteV4(p) \/ RouteV6(p)
         /\ \/ subnet' = subnet \/ CreateSubnet(p) \/ AssociateSubnetV6(p)
            \/ SubnetAttributes(p) \/ AssociateRouteTable(p)
         /\ attached' = attached \/ AttachIgw(p)
         /\ dns' = dns \/ VpcDns(p)
<1>1. CASE \/ Start(p) \/ Fail(p) \/ GiveUp(p) \/ FindVpc(p) \/ CreateVpc(p) \/ VpcDns(p)
           \/ AssociateVpcV6(p) \/ PollVpc(p)
  BY <1>1 DEF Start, Fail, GiveUp, Abort, FindVpc, CreateVpc, VpcDns, AssociateVpcV6, PollVpc,
       region
<1>2. CASE \/ FindIgw(p) \/ CreateIgw(p) \/ AttachIgw(p) \/ FindRouteTable(p)
           \/ CreateRouteTable(p) \/ RouteV4(p) \/ RouteV6(p) \/ ChooseZone(p)
  BY <1>2 DEF FindIgw, CreateIgw, AttachIgw, FindRouteTable, CreateRouteTable, RouteV4, RouteV6,
       ChooseZone, region
<1>3. CASE \/ ListSubnets(p) \/ CreateSubnet(p) \/ AssociateSubnetV6(p) \/ PollSubnet(p)
           \/ SubnetAttributes(p) \/ AssociateRouteTable(p)
  BY <1>3 DEF ListSubnets, CreateSubnet, AssociateSubnetV6, PollSubnet,
       SubnetAttributes, AssociateRouteTable, region
<1>4. CASE FindSg(p) \/ CreateSg(p) \/ RevokeIngress(p) \/ AuthorizeEgress(p)
  BY <1>4 DEF FindSg, CreateSg, RevokeIngress, AuthorizeEgress, region
<1>. QED
  BY <1>1, <1>2, <1>3, <1>4 DEF Step

(* DNS support and the gateway of a VPC stay.                                *)
LEMMA VpcsStay ==
  ASSUME TypeOK, HasVpc, NEW p \in Callers, Start(p) \/ Step(p) \/ Fail(p) PROVE VpcsKept
<1>1. dns \subseteq dns'
  BY Writers DEF VpcDns
<1>2. ASSUME AttachIgw(p) PROVE \A v \in VpcIds : attached[v] # None => attached'[v] = attached[v]
  BY <1>2 DEF AttachIgw, TypeOK
<1>. QED
  BY <1>1, <1>2, Writers DEF VpcsKept

(* A route table keeps its VPC and every default route it has.               *)
LEMMA TablesStay ==
  ASSUME TypeOK, NEW p \in Callers, Start(p) \/ Step(p) \/ Fail(p) PROVE TablesKept
<1>. tables \in [RouteTableIds -> Tables]
  BY DEF TypeOK
<1>1. CASE CreateRouteTable(p)
  BY <1>1 DEF CreateRouteTable, TablesKept, Tables
<1>2. ASSUME NEW f \in Families, CreateRoute(p, f) PROVE TablesKept
  <2>. DEFINE t == mem[p].rt
  <2>1. CASE tables' = tables
    BY <2>1 DEF TablesKept
  <2>2. CASE tables[t].routes[f] = None /\ tables' = [tables EXCEPT ![t].routes[f] = mem[p].igw]
    <3>1. ASSUME NEW r \in RouteTableIds, r # t PROVE tables'[r] = tables[r]
      BY <2>2, <3>1
    <3>2. ASSUME t \in RouteTableIds
          PROVE  /\ tables'[t].vpc = tables[t].vpc
                 /\ \A k \in Families \ {f} : tables'[t].routes[k] = tables[t].routes[k]
      BY <2>2, <3>2 DEF Tables, Routes
    <3>. QED
      BY <2>2, <3>1, <3>2 DEF TablesKept
  <2>. QED
    BY <1>2, <2>1, <2>2 DEF CreateRoute
<1>3. CASE RouteV4(p) \/ RouteV6(p)
  BY <1>2, <1>3 DEF RouteV4, RouteV6, Families
<1>. QED
  BY <1>1, <1>3, Writers DEF TablesKept

(* A subnet keeps its VPC, its zone, its attributes, its IPv6 block and its  *)
(* table.                                                                    *)
LEMMA SubnetsStay ==
  ASSUME TypeOK, NEW p \in Callers, Start(p) \/ Step(p) \/ Fail(p) PROVE SubnetsKept
<1>. subnet \in [SubnetIds -> Subnets]
  BY DEF TypeOK
<1>1. CASE CreateSubnet(p)
  BY <1>1 DEF CreateSubnet, SubnetsKept, SubnetKept, Exists, Subnets
<1>2. CASE AssociateSubnetV6(p)
  BY <1>2 DEF AssociateSubnetV6, SubnetsKept, SubnetKept, Exists, Subnets
<1>3. CASE SubnetAttributes(p)
  BY <1>3 DEF SubnetAttributes, SubnetsKept, SubnetKept, Exists, Subnets
<1>4. CASE AssociateRouteTable(p)
  BY <1>4 DEF AssociateRouteTable, SubnetsKept, SubnetKept, Exists, Subnets
<1>. QED
  BY <1>1, <1>2, <1>3, <1>4, Writers DEF SubnetsKept, SubnetKept

(* The answer to a pending IPv6 association takes nothing back either.       *)
LEMMA SettlingKeeps ==
  ASSUME TypeOK, NEW s \in SubnetIds, SettleSubnet(s) PROVE Kept
<1>1. PICK state \in Outcomes(subnet[s].v6) : subnet' = [subnet EXCEPT ![s].v6 = state]
  BY DEF SettleSubnet
<1>2. subnet[s].v6 # "associated"
  BY <1>1 DEF Outcomes
<1>3. SubnetsKept
  BY <1>1, <1>2 DEF SubnetsKept, SubnetKept, Exists, Subnets, TypeOK
<1>. QED
  BY <1>3 DEF SettleSubnet, Kept, VpcsKept, TablesKept

(* No step of anyone takes anything of a network away.                       *)
LEMMA NothingTakenBack == ASSUME TypeOK, HasVpc, [Next]_vars PROVE Kept
<1>1. ASSUME NEW p \in Callers, Start(p) \/ Step(p) \/ Fail(p) PROVE Kept
  BY <1>1, VpcsStay, TablesStay, SubnetsStay DEF Kept
<1>2. CASE UNCHANGED <<dns, attached, tables, subnet>>
  BY <1>2 DEF Kept, VpcsKept, TablesKept, SubnetsKept, SubnetKept
<1>3. ASSUME NEW s \in SubnetIds, SettleSubnet(s) PROVE Kept
  BY <1>3, SettlingKeeps
<1>. QED
  BY <1>1, <1>2, <1>3 DEF Next, SettleVpc, Exhausted, vars, region

-----------------------------------------------------------------------------
(* What a step does to what its caller remembers of the network.             *)
SameTable(m, n) ==
  n.rt = m.rt /\ n.seenRoutes = m.seenRoutes /\ n.seenSubnets = m.seenSubnets

SameRefs(m, n) == SameTable(m, n) /\ n.igw = m.igw /\ n.sub = m.sub

(* Writing one local of a caller leaves those that name resources as they    *)
(* are.                                                                      *)
LEMMA FieldUpdate ==
  ASSUME NEW f \in [Callers -> Locals], NEW p \in Callers
  PROVE
  /\ \A x : SameRefs(f[p], [f EXCEPT ![p].seenV6 = x][p])
  /\ \A x : SameRefs(f[p], [f EXCEPT ![p].polls = x][p])
  /\ \A x, y : SameRefs(f[p], [f EXCEPT ![p].seenV6 = x, ![p].polls = y][p])
  /\ \A x : SameRefs(f[p], [f EXCEPT ![p].missing = x][p])
  /\ \A x : /\ SameTable(f[p], [f EXCEPT ![p].igw = x][p])
            /\ [f EXCEPT ![p].igw = x][p].igw = x
  /\ \A x : /\ SameTable(f[p], [f EXCEPT ![p].sub = x][p])
            /\ [f EXCEPT ![p].sub = x][p].sub = x
<1>1. \A x : SameRefs(f[p], [f EXCEPT ![p].seenV6 = x][p])
  BY DEF Locals, SameTable, SameRefs
<1>2. \A x : SameRefs(f[p], [f EXCEPT ![p].polls = x][p])
  BY DEF Locals, SameTable, SameRefs
<1>3. \A x, y : SameRefs(f[p], [f EXCEPT ![p].seenV6 = x, ![p].polls = y][p])
  BY DEF Locals, SameTable, SameRefs
<1>4. \A x : SameRefs(f[p], [f EXCEPT ![p].missing = x][p])
  BY DEF Locals, SameTable, SameRefs
<1>5. \A x : /\ SameTable(f[p], [f EXCEPT ![p].igw = x][p])
             /\ [f EXCEPT ![p].igw = x][p].igw = x
  BY DEF Locals, SameTable
<1>6. \A x : /\ SameTable(f[p], [f EXCEPT ![p].sub = x][p])
             /\ [f EXCEPT ![p].sub = x][p].sub = x
  BY DEF Locals, SameTable
<1>. QED
  BY <1>1, <1>2, <1>3, <1>4, <1>5, <1>6

(* What writing the locals about the route table leaves of the others.       *)
LEMMA TableFields ==
  ASSUME NEW f \in [Callers -> Locals], NEW p \in Callers
  PROVE
  /\ \A x : /\ [f EXCEPT ![p].rt = x][p].rt = x
            /\ [f EXCEPT ![p].rt = x][p].igw = f[p].igw
            /\ [f EXCEPT ![p].rt = x][p].seenRoutes = f[p].seenRoutes
            /\ [f EXCEPT ![p].rt = x][p].seenSubnets = f[p].seenSubnets
  /\ \A x, y, z :
       /\ [f EXCEPT ![p].rt = x, ![p].seenRoutes = y, ![p].seenSubnets = z][p].rt = x
       /\ [f EXCEPT ![p].rt = x, ![p].seenRoutes = y, ![p].seenSubnets = z][p].igw = f[p].igw
       /\ [f EXCEPT ![p].rt = x, ![p].seenRoutes = y, ![p].seenSubnets = z][p].seenRoutes = y
       /\ [f EXCEPT ![p].rt = x, ![p].seenRoutes = y, ![p].seenSubnets = z][p].seenSubnets = z
  BY DEF Locals

(* What each step leaves of the references to resources its caller holds.    *)
LEMMA MemStep ==
  ASSUME TypeOK, HasVpc, NEW p \in Callers
  PROVE
  /\ \/ FindVpc(p) \/ CreateVpc(p) \/ VpcDns(p) \/ AssociateVpcV6(p) \/ PollVpc(p)
     \/ AttachIgw(p) \/ RouteV4(p) \/ RouteV6(p) \/ ChooseZone(p) \/ AssociateSubnetV6(p)
     \/ PollSubnet(p) \/ SubnetAttributes(p) \/ AssociateRouteTable(p)
     => SameRefs(mem[p], mem'[p])
  /\ FindIgw(p) \/ CreateIgw(p) =>
       SameTable(mem[p], mem'[p]) /\ (pc'[p] # "CreateIgw" => mem'[p].igw # None)
  /\ ListSubnets(p) \/ CreateSubnet(p) => SameTable(mem[p], mem'[p])
  /\ FindSg(p) \/ CreateSg(p) \/ RevokeIngress(p) \/ AuthorizeEgress(p) =>
       mem'[p].sub = mem[p].sub /\ mem'[p].seenSubnets \in {mem[p].seenSubnets, {}}
<1>. mem \in [Callers -> Locals]
  BY DEF TypeOK
<1>0. SameTable(mem[p], mem[p]) /\ SameRefs(mem[p], mem[p])
  BY DEF SameTable, SameRefs
<1>a. ASSUME NEW x, mem' = [mem EXCEPT ![p].seenV6 = x] PROVE SameRefs(mem[p], mem'[p])
  BY <1>a, FieldUpdate
<1>b. ASSUME NEW x, mem' = [mem EXCEPT ![p].polls = x] PROVE SameRefs(mem[p], mem'[p])
  BY <1>b, FieldUpdate
<1>c. ASSUME NEW x, NEW y, mem' = [mem EXCEPT ![p].seenV6 = x, ![p].polls = y]
      PROVE  SameRefs(mem[p], mem'[p])
  BY <1>c, FieldUpdate
<1>d. ASSUME NEW x, mem' = [mem EXCEPT ![p].missing = x] PROVE SameRefs(mem[p], mem'[p])
  BY <1>d, FieldUpdate
<1>e. ASSUME NEW x, mem' = [mem EXCEPT ![p].igw = x]
      PROVE  SameTable(mem[p], mem'[p]) /\ mem'[p].igw = x
  BY <1>e, FieldUpdate
<1>f. ASSUME NEW x, mem' = [mem EXCEPT ![p].sub = x]
      PROVE  SameTable(mem[p], mem'[p])
  BY <1>f, FieldUpdate
<1>1. ASSUME FindVpc(p) \/ CreateVpc(p) PROVE SameRefs(mem[p], mem'[p])
  BY <1>0, <1>1, <1>a DEF FindVpc, CreateVpc
<1>2. ASSUME PollVpc(p) \/ PollSubnet(p) PROVE SameRefs(mem[p], mem'[p])
  BY <1>2, <1>b, <1>c DEF PollVpc, PollSubnet
<1>3. ASSUME \/ VpcDns(p) \/ AssociateVpcV6(p) \/ AttachIgw(p) \/ RouteV4(p) \/ RouteV6(p)
             \/ ChooseZone(p) \/ AssociateSubnetV6(p) \/ SubnetAttributes(p)
             \/ AssociateRouteTable(p)
      PROVE  mem' = mem
  BY <1>3 DEF VpcDns, AssociateVpcV6, AttachIgw, RouteV4, RouteV6, ChooseZone,
       AssociateSubnetV6, SubnetAttributes, AssociateRouteTable
<1>4. ASSUME FindIgw(p) \/ CreateIgw(p)
      PROVE  SameTable(mem[p], mem'[p]) /\ (pc'[p] # "CreateIgw" => mem'[p].igw # None)
  <2>1. \/ mem' = mem /\ pc'[p] = "CreateIgw"
        \/ \E x : x # None /\ mem' = [mem EXCEPT ![p].igw = x]
    <3>1. CASE FindIgw(p)
      <4>1. PICK seen \in Views({attached[vpc[p]]} \ {None}) : FindIgw(p)!2!(seen)
        BY <3>1 DEF FindIgw
      <4>2. \A g \in seen : g # None
        BY DEF Views
      <4>. QED
        BY <4>1, <4>2 DEF Goto, TypeOK
    <3>2. CASE CreateIgw(p)
      BY <3>2, IdAssumption DEF CreateIgw
    <3>. QED
      BY <1>4, <3>1, <3>2
  <2>. QED
    BY <1>0, <2>1, <1>e
<1>5. ASSUME ListSubnets(p) \/ CreateSubnet(p) PROVE SameTable(mem[p], mem'[p])
  BY <1>0, <1>5, <1>f DEF ListSubnets, CreateSubnet
<1>6. ASSUME FindSg(p) \/ CreateSg(p) \/ RevokeIngress(p) \/ AuthorizeEgress(p)
      PROVE  mem'[p].sub = mem[p].sub /\ mem'[p].seenSubnets \in {mem[p].seenSubnets, {}}
  <2>1. CASE mem' = [mem EXCEPT ![p] = [NoMem EXCEPT !.sub = mem[p].sub]]
    <3>1. mem'[p] = [NoMem EXCEPT !.sub = mem[p].sub]
      BY <2>1
    <3>. QED
      BY <3>1 DEF NoMem
  <2>2. SameRefs(mem[p], mem'[p]) =>
          mem'[p].sub = mem[p].sub /\ mem'[p].seenSubnets = mem[p].seenSubnets
    BY DEF SameRefs, SameTable
  <2>. QED
    BY <1>0, <1>6, <1>d, <2>1, <2>2
      DEF FindSg, CreateSg, RevokeIngress, AuthorizeEgress, Authorize, Finish
<1>. QED
  BY <1>0, <1>1, <1>2, <1>3, <1>4, <1>5, <1>6

-----------------------------------------------------------------------------
(* What a caller knows stays true whatever another one does.                 *)
LEMMA OthersKnow ==
  ASSUME TypeOK, HasVpc, NetworkInv, Kept, NEW q \in Callers, Untouched(q)
  PROVE  TableInv(q)' /\ PlaceInv(q)' /\ SubnetInv(q)'
<1>. mem[q] \in Locals /\ vpc[q] \in VpcIds \cup {None}
  BY DEF TypeOK
<1>1. TableInv(q)'
  <2>1. ASSUME mem[q].rt # None, tables[mem[q].rt].vpc # None
        PROVE  /\ mem[q].rt \in RouteTableIds
               /\ tables'[mem[q].rt].vpc = tables[mem[q].rt].vpc
               /\ \A f \in Families : tables[mem[q].rt].routes[f] # None =>
                                        tables'[mem[q].rt].routes[f] # None
    BY <2>1 DEF Kept, TablesKept, Locals
  <2>2. \A s \in mem[q].seenSubnets : subnet[s].rt # None => subnet'[s].rt # None
    BY DEF Kept, SubnetsKept, SubnetKept, NetworkInv, SubnetsRouted, Locals
  <2>3. mem[q].seenRoutes \subseteq Families /\ "v4" \in Families
    BY DEF Locals, Families
  <2>4. pc[q] \in HasTable \cup {"RouteV4", "RouteV6"} => vpc[q] # None
    BY DEF HasVpc, HasTable, HasSubnet, HasBlock, HasAttributes, AtGroup
  <2>5. TableInv(q)
    BY DEF NetworkInv
  <2>6. pc[q] = "RouteV6" => tables'[mem[q].rt].routes["v4"] # None
    BY <2>1, <2>3, <2>4, <2>5 DEF TableInv
  <2>7. pc[q] \in HasTable => Routed(mem[q].rt, vpc[q])'
    BY <2>1, <2>4, <2>5 DEF TableInv, Routed, Untouched
  <2>8. pc[q] \in {"RouteV4", "RouteV6"} =>
          /\ mem[q].rt # None /\ tables'[mem[q].rt].vpc = vpc[q]
          /\ \A f \in mem[q].seenRoutes : tables'[mem[q].rt].routes[f] # None
    BY <2>1, <2>3, <2>4, <2>5 DEF TableInv
  <2>. QED
    BY <2>2, <2>5, <2>6, <2>7, <2>8 DEF TableInv, Untouched
<1>2. PlaceInv(q)'
  BY DEF NetworkInv, PlaceInv, Untouched, Kept, VpcsKept
<1>3. SubnetInv(q)'
  <2>1. CASE pc[q] \notin HasSubnet
    BY <2>1 DEF SubnetInv, HasSubnet, HasBlock, HasAttributes, AtGroup, Untouched
  <2>2. CASE pc[q] \in HasSubnet
    <3>1. vpc[q] # None
      BY <2>2 DEF HasVpc, HasSubnet, HasBlock, HasAttributes, AtGroup
    <3>2. SubnetInv(q) /\ Fits(mem[q].sub, vpc[q], req[q])
      BY <2>2 DEF NetworkInv, SubnetInv
    <3>3. SubnetKept(mem[q].sub)
      BY <3>1, <3>2 DEF Fits, Kept, SubnetsKept, Exists, Locals
    <3>. QED
      BY <3>2, <3>3 DEF SubnetInv, Fits, SubnetKept, Untouched
  <2>. QED
    BY <2>1, <2>2
<1>. QED
  BY <1>1, <1>2, <1>3

(* A table once found in or made for a VPC stays there with its routes, and  *)
(* a subnet seen associated stays so.                                        *)
LEMMA RoutesStay ==
  ASSUME TypeOK, Kept, NEW r, NEW v \in VpcIds, r \in RouteTableIds, tables[r].vpc = v
  PROVE  /\ tables'[r].vpc = v
         /\ \A f \in Families : tables[r].routes[f] # None => tables'[r].routes[f] # None
         /\ Routed(r, v) => Routed(r, v)'
  BY IdAssumption DEF Kept, TablesKept, Routed

(* The subnets a caller saw associated stay associated.                      *)
LEMMA SeenStay ==
  ASSUME TypeOK, NetworkInv, Kept, NEW p \in Callers, NEW s \in mem[p].seenSubnets
  PROVE  subnet'[s].rt # None
<1>1. s \in SubnetIds
  BY DEF TypeOK, Locals
<1>2. subnet[s].rt # None
  BY DEF NetworkInv, TableInv
<1>. QED
  BY <1>1, <1>2 DEF NetworkInv, SubnetsRouted, Kept, SubnetsKept, SubnetKept

(* The step of a caller keeps what it knows of its route table.              *)
LEMMA TableStep ==
  ASSUME TypeOK, HasVpc, NetworkInv, Kept, NEW p \in Callers, Start(p) \/ Step(p) \/ Fail(p)
  PROVE  TableInv(p)'
<1>. mem[p] \in Locals /\ vpc[p] \in VpcIds \cup {None} /\ mem \in [Callers -> Locals]
  BY DEF TypeOK
<1>. pc \in [Callers -> Steps \cup Resting]
  BY DEF TypeOK
<1>0. TableInv(p)
  BY DEF NetworkInv
<1>1. CASE Start(p) \/ Fail(p) \/ GiveUp(p)
  <2>1. mem'[p] = NoMem /\ pc'[p] \in {"FindVpc", "idle"}
    BY <1>1 DEF Start, Fail, GiveUp, Abort, Goto, TypeOK
  <2>. QED
    BY <2>1 DEF TableInv, NoMem, HasGateway, HasTable, HasSubnet, HasBlock, HasAttributes, AtGroup
<1>2. CASE \/ FindVpc(p) \/ CreateVpc(p) \/ VpcDns(p) \/ AssociateVpcV6(p) \/ PollVpc(p)
           \/ FindIgw(p) \/ CreateIgw(p) \/ AttachIgw(p)
  <2>1. pc[p] \in NoTableYet
    BY <1>2 DEF FindVpc, CreateVpc, VpcDns, AssociateVpcV6, PollVpc, FindIgw, CreateIgw,
         AttachIgw, At, NoTableYet
  <2>2. SameTable(mem[p], mem'[p])
    BY <1>2, MemStep DEF SameRefs
  <2>3. mem'[p].seenRoutes = {} /\ mem'[p].seenSubnets = {}
    BY <1>0, <2>1, <2>2 DEF TableInv, SameTable
  <2>4. pc'[p] \in {"CreateVpc", "VpcDns", "FindIgw", "PollVpc", "AssociateVpcV6", "CreateIgw",
                    "FindRouteTable", "AttachIgw"}
    BY <1>2 DEF FindVpc, CreateVpc, VpcDns, AssociateVpcV6, PollVpc, FindIgw, CreateIgw,
         AttachIgw, At, Goto
  <2>5. pc'[p] \in HasGateway => mem'[p].igw # None
    <3>1. CASE FindIgw(p) \/ CreateIgw(p)
      BY <3>1, MemStep DEF HasGateway
    <3>2. CASE AttachIgw(p)
      BY <1>0, <3>2, MemStep DEF AttachIgw, At, TableInv, HasGateway, SameRefs
    <3>3. CASE FindVpc(p) \/ CreateVpc(p) \/ VpcDns(p) \/ AssociateVpcV6(p) \/ PollVpc(p)
      BY <3>3 DEF FindVpc, CreateVpc, VpcDns, AssociateVpcV6, PollVpc, At, Goto, HasGateway
    <3>. QED
      BY <1>2, <3>1, <3>2, <3>3
  <2>6. pc'[p] \notin HasTable \cup {"RouteV4", "RouteV6"}
    BY <2>4 DEF HasTable, HasSubnet, HasBlock, HasAttributes, AtGroup
  <2>. QED
    BY <2>3, <2>5, <2>6 DEF TableInv
<1>3. CASE FindRouteTable(p)
  <2>1. vpc[p] \in VpcIds /\ UNCHANGED <<region, vpc>> /\ vpc[p] # None
    BY <1>3 DEF FindRouteTable, HasVpc, At
  <2>2. mem[p].igw # None
    BY <1>0, <1>3 DEF TableInv, FindRouteTable, At, HasGateway
  <2>3. CASE pc' = [pc EXCEPT ![p] = "CreateRouteTable"] /\ mem' = mem
    BY <1>0, <1>3, <2>2, <2>3 DEF TableInv, FindRouteTable, At, NoTableYet, HasTable, HasSubnet,
      HasBlock, HasAttributes, AtGroup
  <2>. DEFINE has(r) == {f \in Families : tables[r].routes[f] # None}
              subs(r) == {s \in SubnetIds : subnet[s].rt = r}
              Takes(r) == /\ pc' = [pc EXCEPT ![p] = RouteStep(has(r))]
                          /\ mem' = [mem EXCEPT ![p].rt = r, ![p].seenRoutes = has(r),
                                                ![p].seenSubnets = subs(r)]
  <2>4. ASSUME NEW r \in TablesOf(vpc[p]), Takes(r) PROVE TableInv(p)'
    <3>1. r \in RouteTableIds /\ r # None /\ tables[r].vpc = vpc[p]
      BY IdAssumption DEF TablesOf
    <3>2. /\ mem'[p].rt = r /\ mem'[p].igw = mem[p].igw
          /\ mem'[p].seenRoutes = has(r) /\ mem'[p].seenSubnets = subs(r)
      <4>. HIDE DEF has, subs
      <4>. QED
        BY <2>4, TableFields
    <3>3. tables' = tables /\ subnet' = subnet /\ vpc' = vpc
      BY <2>1 DEF region
    <3>4. pc'[p] = "ListSubnets" => Routed(r, vpc[p])
      BY <2>4, <3>1 DEF RouteStep, Routed, Families
    <3>5. pc'[p] = "RouteV6" => tables[r].routes["v4"] # None
      BY <2>4 DEF RouteStep
    <3>6. pc'[p] \in {"RouteV4", "RouteV6", "ListSubnets"}
      BY <2>4 DEF RouteStep
    <3>7. \A s \in subs(r) : subnet[s].rt # None
      BY <3>1
    <3>8. \A f \in has(r) : tables[r].routes[f] # None
      OBVIOUS
    <3>. HIDE DEF has, subs
    <3>. QED
      BY <2>2, <3>1, <3>2, <3>3, <3>4, <3>5, <3>6, <3>7, <3>8 DEF TableInv, NoTableYet, HasTable,
        HasSubnet, HasBlock, HasAttributes, AtGroup, Routed
  <2>5. PICK seen \in Views(TablesOf(vpc[p])) : FindRouteTable(p)!2!(seen)
    BY <1>3 DEF FindRouteTable
  <2>6. seen \subseteq TablesOf(vpc[p])
    BY DEF Views
  <2>7. \/ Goto(p, "CreateRouteTable") /\ mem' = mem
        \/ \E r \in seen : Takes(r)
    BY <2>5 DEF IsLeast, Goto
  <2>. QED
    BY <2>3, <2>4, <2>6, <2>7 DEF Goto
<1>4. CASE CreateRouteTable(p)
  <2>1. PICK r \in RouteTableIds : /\ tables' = [tables EXCEPT ![r].vpc = vpc[p]]
                                  /\ mem' = [mem EXCEPT ![p].rt = r]
    BY <1>4 DEF CreateRouteTable
  <2>2. pc'[p] = "RouteV4" /\ vpc' = vpc /\ subnet' = subnet
    BY <1>4 DEF CreateRouteTable, Goto
  <2>3. /\ mem'[p].rt = r /\ mem'[p].igw = mem[p].igw
        /\ mem'[p].seenRoutes = mem[p].seenRoutes /\ mem'[p].seenSubnets = mem[p].seenSubnets
    BY <2>1, TableFields
  <2>4. mem[p].seenRoutes = {} /\ mem[p].seenSubnets = {} /\ mem[p].igw # None
    BY <1>0, <1>4 DEF CreateRouteTable, At, TableInv, NoTableYet, HasGateway
  <2>5. tables'[r].vpc = vpc[p] /\ r # None
    BY <2>1, IdAssumption DEF TypeOK, Tables
  <2>. QED
    BY <2>2, <2>3, <2>4, <2>5 DEF TableInv, NoTableYet, HasTable, HasSubnet, HasBlock,
      HasAttributes, AtGroup
<1>5. CASE RouteV4(p) \/ RouteV6(p)
  <2>1. /\ vpc' = vpc /\ vpc[p] \in VpcIds /\ mem' = mem
        /\ pc[p] \in {"RouteV4", "RouteV6"} /\ pc'[p] \in {"RouteV6", "ListSubnets"}
    BY <1>5 DEF RouteV4, RouteV6, HasVpc, At, Goto
  <2>2. mem[p].rt \in RouteTableIds /\ mem[p].rt # None /\ tables[mem[p].rt].vpc = vpc[p]
        /\ \A f \in mem[p].seenRoutes : tables[mem[p].rt].routes[f] # None
    BY <1>0, <2>1 DEF TableInv, Locals
  <2>3. /\ tables'[mem[p].rt].vpc = vpc[p]
        /\ \A f \in Families : tables[mem[p].rt].routes[f] # None =>
                                 tables'[mem[p].rt].routes[f] # None
    BY <2>1, <2>2, RoutesStay
  <2>4. ASSUME NEW f \in Families, CreateRoute(p, f), mem[p].igw # None
        PROVE  tables'[mem[p].rt].routes[f] # None
    BY <2>2, <2>4 DEF CreateRoute, TypeOK, Tables, Routes
  <2>5. mem[p].igw # None /\ "v4" \in Families /\ "v6" \in Families
    BY <1>0, <2>1 DEF TableInv, HasGateway, Families
  <2>6. RouteV4(p) => tables'[mem[p].rt].routes["v4"] # None
    BY <2>4, <2>5 DEF RouteV4
  <2>7. pc'[p] = "ListSubnets" => \A f \in Families : tables'[mem[p].rt].routes[f] # None
    <3>1. CASE RouteV4(p)
      BY <2>2, <2>3, <2>5, <2>6, <3>1 DEF RouteV4, Goto, Families
    <3>2. CASE RouteV6(p)
      BY <1>0, <2>3, <2>4, <2>5, <3>2 DEF RouteV6, At, TableInv, Families
    <3>. QED
      BY <1>5, <3>1, <3>2
  <2>8. pc'[p] = "RouteV6" => tables'[mem[p].rt].routes["v4"] # None
    BY <1>5, <2>6 DEF RouteV6, Goto
  <2>9. \A f \in mem[p].seenRoutes : tables'[mem[p].rt].routes[f] # None
    BY <2>2, <2>3 DEF Locals
  <2>10. \A s \in mem'[p].seenSubnets : subnet'[s].rt # None
    BY <2>1, SeenStay
  <2>. QED
    BY <2>1, <2>2, <2>3, <2>5, <2>7, <2>8, <2>9, <2>10 DEF TableInv, NoTableYet, HasTable,
      HasSubnet, HasBlock, HasAttributes, AtGroup, Routed
<1>6. CASE \/ ListSubnets(p) \/ ChooseZone(p) \/ CreateSubnet(p) \/ AssociateSubnetV6(p)
           \/ PollSubnet(p) \/ SubnetAttributes(p) \/ AssociateRouteTable(p)
  <2>1. vpc' = vpc /\ SameTable(mem[p], mem'[p])
    BY <1>6, MemStep DEF ListSubnets, ChooseZone, CreateSubnet, AssociateSubnetV6, PollSubnet,
         SubnetAttributes, AssociateRouteTable, SameRefs
  <2>2. pc[p] \in HasTable /\ vpc[p] \in VpcIds
    BY <1>6 DEF ListSubnets, ChooseZone, CreateSubnet, AssociateSubnetV6, PollSubnet,
         SubnetAttributes, AssociateRouteTable, At, HasVpc, HasTable, HasSubnet, HasBlock,
         HasAttributes, AtGroup
  <2>3. pc'[p] \in HasTable \cup AtGroup
    BY <1>6 DEF ListSubnets, ChooseZone, CreateSubnet, AssociateSubnetV6, PollSubnet,
         SubnetAttributes, AssociateRouteTable, ReadyStep, AfterV6, At, Goto, HasTable,
         HasSubnet, HasBlock, HasAttributes, AtGroup
  <2>4. Routed(mem[p].rt, vpc[p])
    BY <1>0, <2>2 DEF TableInv
  <2>5. Routed(mem[p].rt, vpc[p])'
    BY <2>1, <2>2, <2>4, RoutesStay DEF Routed, Locals, SameTable
  <2>6. \A s \in mem'[p].seenSubnets : subnet'[s].rt # None
    BY <2>1, SeenStay DEF SameTable
  <2>. QED
    BY <2>3, <2>5, <2>6 DEF TableInv, NoTableYet, HasGateway, HasTable, HasSubnet, HasBlock,
      HasAttributes, AtGroup
<1>7. CASE FindSg(p) \/ CreateSg(p) \/ RevokeIngress(p) \/ AuthorizeEgress(p)
  <2>1. pc'[p] \in AtGroup
    BY <1>7 DEF FindSg, CreateSg, RevokeIngress, AuthorizeEgress, Authorize, Finish, Goto, AtGroup
  <2>2. \A s \in mem'[p].seenSubnets : subnet'[s].rt # None
    BY <1>7, MemStep, SeenStay
  <2>. QED
    BY <2>1, <2>2 DEF TableInv, NoTableYet, HasGateway, HasTable, HasSubnet, HasBlock,
      HasAttributes, AtGroup
<1>. QED
  BY <1>1, <1>2, <1>3, <1>4, <1>5, <1>6, <1>7 DEF Step

(* So does it keep what it knows of the VPC and of the placement ...         *)
LEMMA PlaceStep ==
  ASSUME TypeOK, HasVpc, NetworkInv, Kept, NEW p \in Callers, Start(p) \/ Step(p) \/ Fail(p)
  PROVE  PlaceInv(p)'
<1>. pc \in [Callers -> Steps \cup Resting] /\ zone \in [Callers -> Zones \cup {None}]
  BY DEF TypeOK
<1>0. PlaceInv(p) /\ dns \subseteq dns'
  BY DEF NetworkInv, Kept, VpcsKept
<1>1. CASE Start(p) \/ Fail(p) \/ GiveUp(p) \/ FindVpc(p) \/ CreateVpc(p)
  BY <1>1 DEF Start, Fail, GiveUp, Abort, FindVpc, CreateVpc, Goto, PlaceInv
<1>2. CASE VpcDns(p)
  BY <1>2 DEF VpcDns, Goto, PlaceInv
<1>3. CASE \/ AssociateVpcV6(p) \/ PollVpc(p) \/ FindIgw(p) \/ CreateIgw(p) \/ AttachIgw(p)
           \/ FindRouteTable(p) \/ CreateRouteTable(p) \/ RouteV4(p) \/ RouteV6(p)
  BY <1>0, <1>3 DEF AssociateVpcV6, PollVpc, FindIgw, CreateIgw, AttachIgw, FindRouteTable,
       CreateRouteTable, RouteV4, RouteV6, RouteStep, At, Goto, PlaceInv
<1>4. CASE ListSubnets(p)
  BY <1>0, <1>4 DEF ListSubnets, ReadyStep, AfterV6, At, Goto, PlaceInv
<1>5. CASE ChooseZone(p)
  BY <1>0, <1>5 DEF ChooseZone, At, Goto, PlaceInv
<1>6. CASE \/ CreateSubnet(p) \/ AssociateSubnetV6(p) \/ PollSubnet(p) \/ SubnetAttributes(p)
           \/ AssociateRouteTable(p)
  BY <1>0, <1>6 DEF CreateSubnet, AssociateSubnetV6, PollSubnet, SubnetAttributes,
       AssociateRouteTable, AfterV6, At, Goto, PlaceInv
<1>7. CASE FindSg(p) \/ CreateSg(p) \/ RevokeIngress(p) \/ AuthorizeEgress(p)
  BY <1>0, <1>7 DEF FindSg, CreateSg, RevokeIngress, AuthorizeEgress, Authorize, Finish,
       At, Goto, PlaceInv
<1>. QED
  BY <1>1, <1>2, <1>3, <1>4, <1>5, <1>6, <1>7 DEF Step

(* ... and of its subnet.  Once the subnet has its IPv6 block, the call goes *)
(* on with the first thing the subnet lacks.                                 *)
LEMMA AfterV6Step ==
  ASSUME TypeOK, NetworkInv, NEW p \in Callers, NEW s \in SubnetIds,
         Fits(s, vpc[p], req[p]), req[p].mode = "dualstack" => subnet[s].v6 = "associated",
         pc'[p] = AfterV6(p, s), mem'[p].sub = s, UNCHANGED <<subnet, vpc, req>>
  PROVE  SubnetInv(p)'
<1>1. s \in mem[p].seenSubnets => subnet[s].rt # None
  BY DEF NetworkInv, TableInv
<1>2. pc'[p] \in HasAttributes => subnet[s].ready
  BY DEF AfterV6, HasAttributes, AtGroup
<1>3. pc'[p] \in AtGroup => subnet[s].rt # None
  BY <1>1 DEF AfterV6, AtGroup
<1>. QED
  BY <1>2, <1>3 DEF SubnetInv, Fits

(* A caller's own step keeps what it knows of the subnet it settled on.      *)
LEMMA SubnetStep ==
  ASSUME TypeOK, HasVpc, NetworkInv, Kept, NEW p \in Callers, Start(p) \/ Step(p) \/ Fail(p)
  PROVE  SubnetInv(p)'
<1>. /\ pc \in [Callers -> Steps \cup Resting] /\ mem \in [Callers -> Locals]
     /\ mem[p] \in Locals /\ subnet \in [SubnetIds -> Subnets]
  BY DEF TypeOK
<1>0. SubnetInv(p) /\ PlaceInv(p) /\ TableInv(p)
  BY DEF NetworkInv
<1>1. CASE pc'[p] \notin HasSubnet
  BY <1>1 DEF SubnetInv, HasSubnet, HasBlock, HasAttributes
<1>2. CASE \/ Start(p) \/ Fail(p) \/ GiveUp(p) \/ FindVpc(p) \/ CreateVpc(p) \/ VpcDns(p)
           \/ AssociateVpcV6(p) \/ PollVpc(p) \/ FindIgw(p) \/ CreateIgw(p) \/ AttachIgw(p)
  <2>1. pc'[p] \in {"idle", "FindVpc", "CreateVpc", "VpcDns", "FindIgw", "PollVpc", "AssociateVpcV6",
                    "CreateIgw", "FindRouteTable", "AttachIgw"}
    BY <1>2 DEF Start, Fail, GiveUp, Abort, FindVpc, CreateVpc, VpcDns, AssociateVpcV6, PollVpc,
         FindIgw, CreateIgw, AttachIgw, At, Goto
  <2>. QED
    BY <1>1, <2>1 DEF HasSubnet, HasBlock, HasAttributes, AtGroup
<1>3. CASE FindRouteTable(p) \/ CreateRouteTable(p) \/ RouteV4(p) \/ RouteV6(p) \/ ChooseZone(p)
  <2>1. pc'[p] \in {"CreateRouteTable", "RouteV4", "RouteV6", "ListSubnets", "CreateSubnet"}
    BY <1>3 DEF FindRouteTable, CreateRouteTable, RouteV4, RouteV6, RouteStep, ChooseZone, Goto
  <2>. QED
    BY <1>1, <2>1 DEF HasSubnet, HasBlock, HasAttributes, AtGroup
<1>4. CASE ListSubnets(p)
  <2>1. UNCHANGED <<subnet, vpc, req>> /\ vpc[p] \in VpcIds /\ vpc[p] # None
    BY <1>4 DEF ListSubnets, region, HasVpc, At, TypeOK
  <2>2. CASE pc'[p] \in {"ChooseZone", "CreateSubnet"}
    BY <1>1, <2>2 DEF HasSubnet, HasBlock, HasAttributes, AtGroup
  <2>3. ASSUME NEW s \in Candidates(SubnetsOf(vpc[p]), req[p]), pc'[p] = ReadyStep(p, s),
               mem' = [mem EXCEPT ![p].sub = s]
        PROVE  SubnetInv(p)'
    <3>1. s \in SubnetIds /\ Fits(s, vpc[p], req[p]) /\ s # None
      BY IdAssumption DEF Candidates, SubnetsOf, Fits
    <3>2. mem'[p].sub = s
      BY <2>3, FieldUpdate
    <3>3. CASE pc'[p] = AfterV6(p, s) /\ (subnet[s].mode = "ipv6-native" \/ subnet[s].v6 = "associated")
      <4>1. req[p].mode = "dualstack" => subnet[s].v6 = "associated"
        BY <3>1, <3>3 DEF Fits
      <4>. QED
        BY <2>1, <3>1, <3>2, <3>3, <4>1, AfterV6Step
    <3>4. CASE pc'[p] \in {"AssociateSubnetV6", "PollSubnet"}
      BY <2>1, <3>1, <3>2, <3>4 DEF SubnetInv, Fits, HasBlock, HasAttributes, AtGroup
    <3>. QED
      BY <2>3, <3>3, <3>4 DEF ReadyStep
  <2>4. PICK seen \in Views(SubnetsOf(vpc[p])) : ListSubnets(p)!2!(seen)
    BY <1>4 DEF ListSubnets
  <2>5. Candidates(seen, req[p]) \subseteq Candidates(SubnetsOf(vpc[p]), req[p])
    BY DEF Views, Candidates
  <2>. QED
    BY <2>2, <2>3, <2>4, <2>5 DEF Goto
<1>5. CASE CreateSubnet(p)
  <2>1. PICK s \in SubnetIds, i \in Indexes, b \in Blocks :
          /\ subnet' = [subnet EXCEPT ![s] =
               [vpc |-> vpc[p], az |-> zone[p], mode |-> req[p].mode, index |-> i,
                block |-> b, v6 |-> "associating", ready |-> FALSE, rt |-> None]]
          /\ mem' = [mem EXCEPT ![p].sub = s]
    BY <1>5 DEF CreateSubnet
  <2>2. /\ UNCHANGED <<vpc, req>> /\ req[p].az \in {None, zone[p]}
        /\ pc'[p] = IF req[p].mode = "ipv6-native" THEN "SubnetAttributes" ELSE "PollSubnet"
    BY <1>0, <1>5 DEF CreateSubnet, Goto, At, PlaceInv
  <2>3. mem'[p].sub = s
    BY <2>1, FieldUpdate
  <2>4. Fits(s, vpc[p], req[p])'
    BY <2>1, <2>2, IdAssumption DEF Fits
  <2>. QED
    BY <2>2, <2>3, <2>4 DEF SubnetInv, HasBlock, HasAttributes, AtGroup
<1>6. CASE \/ AssociateSubnetV6(p) \/ PollSubnet(p) \/ SubnetAttributes(p)
           \/ AssociateRouteTable(p) \/ FindSg(p) \/ CreateSg(p) \/ RevokeIngress(p)
           \/ AuthorizeEgress(p)
  <2>. DEFINE s == mem[p].sub
  <2>1. /\ pc[p] \in HasSubnet /\ vpc[p] \in VpcIds /\ vpc[p] # None
        /\ UNCHANGED <<vpc, req>>
    BY <1>6 DEF AssociateSubnetV6, PollSubnet, SubnetAttributes, AssociateRouteTable, FindSg,
         CreateSg, RevokeIngress, AuthorizeEgress, At, HasVpc, HasSubnet, HasBlock, HasAttributes,
         AtGroup, TypeOK
  <2>2. Fits(s, vpc[p], req[p]) /\ s \in SubnetIds
    BY <1>0, <2>1 DEF SubnetInv, Fits, Locals
  <2>3. SubnetKept(s)
    BY <2>1, <2>2 DEF Fits, Kept, SubnetsKept, Exists
  <2>4. mem'[p].sub = s
    BY <1>6, MemStep DEF SameRefs
  <2>5. Fits(s, vpc[p], req[p])'
    BY <2>1, <2>2, <2>3, <2>4 DEF Fits, SubnetKept
  <2>6. CASE AssociateSubnetV6(p)
    <3>1. pc'[p] = "PollSubnet"
      BY <2>6 DEF AssociateSubnetV6, Goto
    <3>. QED
      BY <2>1, <2>4, <2>5, <3>1 DEF SubnetInv, Fits, HasBlock, HasAttributes, AtGroup
  <2>7. CASE PollSubnet(p)
    <3>1. subnet' = subnet
      BY <2>7 DEF PollSubnet, region
    <3>2. CASE subnet[s].v6 = "associated" /\ pc'[p] = AfterV6(p, s)
      BY <2>1, <2>2, <2>4, <3>1, <3>2, AfterV6Step
    <3>3. CASE pc'[p] = "PollSubnet"
      BY <2>1, <2>4, <2>5, <3>3 DEF SubnetInv, Fits, HasBlock, HasAttributes, AtGroup
    <3>. QED
      BY <2>7, <3>2, <3>3 DEF PollSubnet, At, Goto
  <2>8. CASE SubnetAttributes(p)
    <3>1. /\ subnet'[s].ready
          /\ pc'[p] = IF s \in mem[p].seenSubnets THEN "FindSg" ELSE "AssociateRouteTable"
      BY <2>2, <2>8 DEF SubnetAttributes, Goto, Subnets
    <3>2. s \in mem[p].seenSubnets => subnet'[s].rt # None
      BY SeenStay
    <3>3. req[p].mode = "dualstack" => subnet'[s].v6 = "associated"
      BY <1>0, <2>3, <2>8 DEF SubnetAttributes, At, SubnetInv, HasBlock, SubnetKept
    <3>4. pc'[p] \in AtGroup => subnet'[s].rt # None
      BY <3>1, <3>2 DEF AtGroup
    <3>. QED
      BY <2>1, <2>4, <2>5, <3>1, <3>3, <3>4 DEF SubnetInv, Fits
  <2>9. CASE AssociateRouteTable(p)
    <3>1. mem[p].rt # None
      BY <1>0, <2>9 DEF AssociateRouteTable, At, TableInv, Routed, HasTable, HasSubnet, HasBlock,
        HasAttributes, AtGroup
    <3>2. subnet'[s].rt # None
      BY <2>2, <2>9, <3>1 DEF AssociateRouteTable, Subnets
    <3>3. /\ req[p].mode = "dualstack" => subnet'[s].v6 = "associated"
          /\ subnet'[s].ready
      BY <1>0, <2>3, <2>9 DEF AssociateRouteTable, At, SubnetInv, HasBlock, HasAttributes, SubnetKept
    <3>. QED
      BY <2>1, <2>4, <2>5, <3>2, <3>3 DEF SubnetInv, Fits
  <2>10. CASE FindSg(p) \/ CreateSg(p) \/ RevokeIngress(p) \/ AuthorizeEgress(p)
    <3>1. pc[p] \in AtGroup
      BY <2>10 DEF FindSg, CreateSg, RevokeIngress, AuthorizeEgress, At, AtGroup
    <3>2. /\ req[p].mode = "dualstack" => subnet'[s].v6 = "associated"
          /\ subnet'[s].ready /\ subnet'[s].rt # None
      BY <1>0, <2>3, <3>1 DEF SubnetInv, HasBlock, HasAttributes, SubnetKept
    <3>. QED
      BY <2>1, <2>4, <2>5, <3>2 DEF SubnetInv, Fits
  <2>. QED
    BY <1>6, <2>6, <2>7, <2>8, <2>9, <2>10
<1>. QED
  BY <1>2, <1>3, <1>4, <1>5, <1>6 DEF Step

-----------------------------------------------------------------------------
(* The routes and the associations of the region stay sound: EC2 takes a     *)
(* route only to the gateway of the VPC, and a VPC keeps its gateway.        *)
LEMMA RouteMade ==
  ASSUME TypeOK, NetworkInv, Kept, NEW p \in Callers, NEW k \in Families, CreateRoute(p, k),
         attached' = attached, pc[p] \in {"RouteV4", "RouteV6"}, vpc[p] \in VpcIds
  PROVE  RoutesSound'
<1>. DEFINE t == mem[p].rt
<1>0. tables \in [RouteTableIds -> Tables] /\ RoutesSound
  BY DEF TypeOK, NetworkInv
<1>1. t \in RouteTableIds /\ tables[t].vpc = vpc[p]
  BY DEF TypeOK, Locals, NetworkInv, TableInv
<1>2. CASE tables' = tables
  BY <1>0, <1>2 DEF RoutesSound
<1>3. CASE attached[vpc[p]] = mem[p].igw /\ tables' = [tables EXCEPT ![t].routes[k] = mem[p].igw]
  <2>1. ASSUME NEW r \in RouteTableIds, NEW f \in Families, r # t \/ f # k
        PROVE  tables'[r].vpc = tables[r].vpc /\ tables'[r].routes[f] = tables[r].routes[f]
    BY <1>0, <1>1, <1>3, <2>1 DEF Tables, Routes
  <2>2. tables'[t].vpc = vpc[p] /\ tables'[t].routes[k] = attached[vpc[p]]
    BY <1>0, <1>1, <1>3 DEF Tables, Routes
  <2>3. vpc[p] # None
    BY IdAssumption
  <2>. QED
    BY <1>0, <2>1, <2>2, <2>3 DEF RoutesSound
<1>. QED
  BY <1>2, <1>3 DEF CreateRoute

(* No step gives a table a default route to a gateway its VPC does not       *)
(* have.                                                                     *)
LEMMA RoutesStaySound == ASSUME TypeOK, HasVpc, NetworkInv, Kept, [Next]_vars PROVE RoutesSound'
<1>0. tables \in [RouteTableIds -> Tables] /\ RoutesSound
  BY DEF TypeOK, NetworkInv
<1>1. CASE UNCHANGED <<tables, attached>>
  BY <1>0, <1>1 DEF RoutesSound
<1>2. ASSUME NEW p \in Callers, CreateRouteTable(p) PROVE RoutesSound'
  <2>1. PICK r \in RouteTableIds : tables[r].vpc = None /\ tables' = [tables EXCEPT ![r].vpc = vpc[p]]
    BY <1>2 DEF CreateRouteTable
  <2>2. /\ \A q \in RouteTableIds : tables'[q].routes = tables[q].routes
        /\ \A q \in RouteTableIds \ {r} : tables'[q].vpc = tables[q].vpc
        /\ attached' = attached
    BY <1>0, <1>2, <2>1 DEF CreateRouteTable, Tables
  <2>3. \A f \in Families : tables[r].routes[f] = None
    BY <1>0, <2>1 DEF RoutesSound
  <2>. QED
    BY <1>0, <2>2, <2>3 DEF RoutesSound
<1>3. ASSUME NEW p \in Callers, RouteV4(p) \/ RouteV6(p) PROVE RoutesSound'
  <2>1. attached' = attached /\ pc[p] \in {"RouteV4", "RouteV6"} /\ vpc[p] \in VpcIds
    BY <1>3 DEF RouteV4, RouteV6, At, HasVpc, TypeOK
  <2>2. PICK k \in Families : CreateRoute(p, k)
    BY <1>3 DEF RouteV4, RouteV6, Families
  <2>. QED
    BY <2>1, <2>2, RouteMade
<1>4. ASSUME NEW p \in Callers, AttachIgw(p) PROVE RoutesSound'
  <2>1. tables' = tables
    BY <1>4 DEF AttachIgw
  <2>2. ASSUME NEW r \in RouteTableIds, NEW f \in Families, tables[r].routes[f] # None
        PROVE  tables[r].vpc # None /\ tables[r].routes[f] = attached'[tables[r].vpc]
    <3>1. /\ tables[r].vpc \in VpcIds /\ tables[r].vpc # None
          /\ attached[tables[r].vpc] = tables[r].routes[f]
      BY <1>0, <2>2 DEF RoutesSound, Tables
    <3>2. attached'[tables[r].vpc] = attached[tables[r].vpc]
      BY <2>2, <3>1 DEF Kept, VpcsKept
    <3>. QED
      BY <3>1, <3>2
  <2>. QED
    BY <2>1, <2>2 DEF RoutesSound
<1>5. ASSUME NEW p \in Callers, Start(p) \/ Step(p) \/ Fail(p) PROVE RoutesSound'
  BY <1>1, <1>2, <1>3, <1>4, <1>5, Writers
<1>. QED
  BY <1>1, <1>5 DEF Next, SettleVpc, SettleSubnet, Exhausted, vars, region

(* No step associates a subnet with a table of another VPC, or an            *)
(* incomplete one.                                                           *)
LEMMA SubnetsStayRouted ==
  ASSUME TypeOK, HasVpc, NetworkInv, Kept, [Next]_vars PROVE SubnetsRouted'
<1>0. subnet \in [SubnetIds -> Subnets] /\ SubnetsRouted /\ tables \in [RouteTableIds -> Tables]
  BY DEF TypeOK, NetworkInv
<1>1. ASSUME NEW s \in SubnetIds, subnet'[s].rt = subnet[s].rt,
             Exists(s) => subnet'[s].vpc = subnet[s].vpc, subnet[s].rt # None
      PROVE  Exists(s)' /\ Routed(subnet[s].rt, subnet[s].vpc)'
  <2>1. /\ Exists(s) /\ Routed(subnet[s].rt, subnet[s].vpc)
        /\ subnet[s].rt \in RouteTableIds /\ subnet[s].vpc \in VpcIds
    BY <1>0, <1>1 DEF SubnetsRouted, Subnets, Exists
  <2>2. Routed(subnet[s].rt, subnet[s].vpc) => tables[subnet[s].rt].vpc = subnet[s].vpc
    BY DEF Routed
  <2>3. /\ tables'[subnet[s].rt].vpc = subnet[s].vpc
        /\ \A f \in Families : tables[subnet[s].rt].routes[f] # None =>
                                 tables'[subnet[s].rt].routes[f] # None
    BY <2>1, <2>2, RoutesStay
  <2>. QED
    BY <1>1, <2>1, <2>3 DEF Exists, Routed
<1>2. ASSUME \A s \in SubnetIds : /\ subnet'[s].rt \in {subnet[s].rt, None}
                                  /\ Exists(s) => subnet'[s].vpc = subnet[s].vpc
      PROVE  SubnetsRouted'
  BY <1>1, <1>2 DEF SubnetsRouted, Routed, Exists
<1>3. ASSUME NEW p \in Callers, CreateSubnet(p) \/ AssociateSubnetV6(p) \/ SubnetAttributes(p)
      PROVE  \A s \in SubnetIds : /\ subnet'[s].rt \in {subnet[s].rt, None}
                                  /\ Exists(s) => subnet'[s].vpc = subnet[s].vpc
  <2>1. CASE CreateSubnet(p)
    BY <1>0, <2>1 DEF CreateSubnet, Exists
  <2>2. CASE AssociateSubnetV6(p)
    BY <1>0, <2>2 DEF AssociateSubnetV6, Subnets
  <2>3. CASE SubnetAttributes(p)
    BY <1>0, <2>3 DEF SubnetAttributes, Subnets
  <2>. QED
    BY <1>3, <2>1, <2>2, <2>3
<1>4. ASSUME NEW p \in Callers, AssociateRouteTable(p) PROVE SubnetsRouted'
  <2>. DEFINE s == mem[p].sub
  <2>1. /\ pc[p] \in HasSubnet /\ pc[p] \in HasTable /\ vpc[p] \in VpcIds /\ mem[p] \in Locals
        /\ tables' = tables
    BY <1>4 DEF AssociateRouteTable, At, HasTable, HasSubnet, HasBlock, HasAttributes, AtGroup,
      HasVpc, TypeOK
  <2>2. Routed(mem[p].rt, vpc[p]) /\ subnet[s].vpc = vpc[p] /\ s \in SubnetIds
    BY <2>1 DEF NetworkInv, TableInv, SubnetInv, Fits, Locals
  <2>3. \A t \in SubnetIds : /\ subnet'[t].vpc = subnet[t].vpc
                             /\ t # s \/ subnet[t].rt # None => subnet'[t].rt = subnet[t].rt
    BY <1>0, <1>4 DEF AssociateRouteTable, Subnets
  <2>4. subnet[s].rt = None => subnet'[s].rt = mem[p].rt
    BY <1>0, <1>4, <2>2 DEF AssociateRouteTable, Subnets
  <2>5. vpc[p] # None
    BY <2>1, IdAssumption
  <2>6. Routed(mem[p].rt, vpc[p])'
    BY <1>4, <2>1, <2>2 DEF AssociateRouteTable, Routed
  <2>7. ASSUME NEW t \in SubnetIds, subnet'[t].rt # None
        PROVE  Exists(t)' /\ Routed(subnet[t].rt, subnet[t].vpc)'
    <3>1. CASE t = s /\ subnet[s].rt = None
      BY <1>4, <2>1, <2>2, <2>3, <2>4, <2>5, <3>1 DEF Exists, Routed
    <3>2. CASE t # s \/ subnet[s].rt # None
      BY <1>1, <2>3, <2>7, <3>2
    <3>. QED
      BY <3>1, <3>2
  <2>. QED
    BY <2>7 DEF SubnetsRouted
<1>5. ASSUME NEW p \in Callers, Start(p) \/ Step(p) \/ Fail(p) PROVE SubnetsRouted'
  BY <1>2, <1>3, <1>4, <1>5, Writers
<1>6. ASSUME NEW s \in SubnetIds, SettleSubnet(s) PROVE SubnetsRouted'
  BY <1>0, <1>2, <1>6 DEF SettleSubnet, Subnets
<1>. QED
  BY <1>2, <1>5, <1>6 DEF Next, SettleVpc, Exhausted, vars, region

(* Every step of every caller keeps the invariant.                           *)
LEMMA NetworkInvKept == TypeOK /\ HasVpc /\ NetworkInv /\ [Next]_vars => NetworkInv'
<1>. SUFFICES ASSUME TypeOK, HasVpc, NetworkInv, [Next]_vars PROVE NetworkInv'
  OBVIOUS
<1>0. Kept
  BY NothingTakenBack
<1>1. RoutesSound' /\ SubnetsRouted'
  BY <1>0, RoutesStaySound, SubnetsStayRouted
<1>2. ASSUME NEW q \in Callers PROVE TableInv(q)' /\ PlaceInv(q)' /\ SubnetInv(q)'
  <2>1. CASE Untouched(q)
    BY <1>0, <2>1, OthersKnow
  <2>2. CASE Start(q) \/ Step(q) \/ Fail(q)
    BY <1>0, <2>2, TableStep, PlaceStep, SubnetStep
  <2>3. ASSUME NEW p \in Callers, Start(p) \/ Step(p) \/ Fail(p), p # q PROVE Untouched(q)
    BY <2>3, OthersUntouched
  <2>4. UNCHANGED locals => Untouched(q)
    BY DEF locals, Untouched
  <2>. QED
    BY <2>1, <2>2, <2>3, <2>4 DEF Next, SettleVpc, SettleSubnet, Exhausted, vars
<1>. QED
  BY <1>1, <1>2 DEF NetworkInv

(* The regions a call can meet at first are sound.                           *)
LEMMA InitNetworkInv == Init => NetworkInv
<1>. SUFFICES ASSUME Init PROVE NetworkInv
  OBVIOUS
<1>1. \A p \in Callers : TableInv(p) /\ PlaceInv(p) /\ SubnetInv(p)
  BY DEF Init, TableInv, PlaceInv, SubnetInv, NoMem, NoTableYet, HasGateway, HasTable, HasSubnet,
    HasBlock, HasAttributes, AtGroup
<1>2. ASSUME EmptyRegion PROVE RoutesSound /\ SubnetsRouted
  BY <1>2 DEF EmptyRegion, RoutesSound, SubnetsRouted, NoTable, NoRoutes, NoSubnet
<1>3. ASSUME PreparedRegion PROVE RoutesSound /\ SubnetsRouted
  <2>1. PICK v \in VpcIds, g \in IgwIds, r \in RouteTableIds : PreparedRegion!(v, g, r)
    BY <1>3 DEF PreparedRegion
  <2>2. RoutesSound
    BY <2>1, IdAssumption DEF RoutesSound, NoTable, NoRoutes
  <2>3. SubnetsRouted
    BY <2>1 DEF SubnetsRouted, NoSubnet
  <2>. QED
    BY <2>2, <2>3
<1>4. ASSUME LegacyRegion PROVE RoutesSound /\ SubnetsRouted
  <2>1. PICK v \in VpcIds, s \in SubnetIds, z \in Zones : LegacyRegion!(v, s, z)
    BY <1>4 DEF LegacyRegion
  <2>2. RoutesSound
    BY <2>1 DEF RoutesSound, NoTable, NoRoutes
  <2>3. SubnetsRouted
    BY <2>1 DEF SubnetsRouted, NoSubnet
  <2>. QED
    BY <2>2, <2>3
<1>5. RoutesSound /\ SubnetsRouted
  BY <1>2, <1>3, <1>4 DEF Init
<1>. QED
  BY <1>1, <1>5 DEF NetworkInv

(* The invariant holds from the start on.                                    *)
LEMMA NetworkAlways == Spec => [](TypeOK /\ HasVpc /\ NetworkInv)
<1>. QED
  BY InitNetworkInv, NetworkInvKept, TypeAlways, PTL DEF Spec

(* Whatever the region held, however many calls build in it at once and      *)
(* wherever others broke off, the network a call returned carries traffic,   *)
(* and goes on doing so: nothing that was built is taken back                *)
(* (network_manager.go:245-330, 480-560).                                    *)
THEOREM ReturnedNetworkUsable == Spec => []UsableWhenDone
<1>1. TypeOK /\ HasVpc /\ NetworkInv => UsableWhenDone
  <2>. SUFFICES ASSUME TypeOK, HasVpc, NetworkInv, NEW p \in Callers, pc[p] = "done"
                PROVE  Usable(vpc[p], mem[p].sub, req[p])
    BY DEF UsableWhenDone
  <2>. DEFINE s == mem[p].sub
              v == vpc[p]
  <2>1. v \in VpcIds /\ v # None /\ v \in dns
    BY DEF HasVpc, TypeOK, NetworkInv, PlaceInv
  <2>2. /\ Fits(s, v, req[p]) /\ subnet[s].ready /\ subnet[s].rt # None
        /\ req[p].mode = "dualstack" => subnet[s].v6 = "associated"
    BY DEF NetworkInv, SubnetInv, HasSubnet, HasBlock, HasAttributes, AtGroup
  <2>3. s \in SubnetIds
    BY <2>2 DEF Fits, TypeOK, Locals
  <2>4. subnet[s].vpc = v /\ Routed(subnet[s].rt, v) /\ subnet[s].rt \in RouteTableIds
    BY <2>2, <2>3 DEF Fits, NetworkInv, SubnetsRouted, TypeOK, Subnets
  <2>5. \A f \in Families : /\ tables[subnet[s].rt].routes[f] # None
                            /\ tables[subnet[s].rt].routes[f] = attached[v]
    BY <2>4 DEF Routed, NetworkInv, RoutesSound
  <2>6. attached[v] # None
    BY <2>5 DEF Families
  <2>. QED
    BY <2>1, <2>2, <2>4, <2>5, <2>6 DEF Usable, Fits, Routed
<1>. QED
  BY <1>1, NetworkAlways, PTL

(* Nothing that a call built, and nothing the region held, is taken back by  *)
(* another: whoever runs, in whatever order, the gateway, the routes, the    *)
(* attributes, the associations and the grants stay (network_manager.go has  *)
(* no undo).                                                                 *)
THEOREM NetworksOnlyGrow == Spec => [][Kept /\ \A v \in VpcIds : GroupKept(v)]_vars
<1>1. TypeOK /\ HasVpc /\ [Next]_vars => Kept /\ \A v \in VpcIds : GroupKept(v)
  <2>. SUFFICES ASSUME TypeOK, HasVpc, [Next]_vars
                PROVE  Kept /\ \A v \in VpcIds : GroupKept(v)
    OBVIOUS
  <2>1. Kept
    BY NothingTakenBack
  <2>2. ASSUME NEW v \in VpcIds PROVE GroupKept(v)
    <3>1. CASE UNCHANGED sg
      BY <3>1 DEF GroupKept
    <3>2. ASSUME NEW p \in Callers, Start(p) \/ Step(p) \/ Fail(p) PROVE GroupKept(v)
      BY <3>2, GroupsKept
    <3>. QED
      BY <3>1, <3>2 DEF Next, SettleVpc, SettleSubnet, Exhausted, vars, region
  <2>. QED
    BY <2>1, <2>2
<1>. QED
  BY <1>1, TypeAlways, PTL DEF Spec

-----------------------------------------------------------------------------
(* Going on.                                                                 *)

(* How far a call has come.  A caller that starts over at FindSg since       *)
(* another made the group first is past CreateSg: it finds the group there.  *)
Position(step) ==
  CASE step = "FindVpc" -> 1 [] step = "CreateVpc" -> 2 [] step = "VpcDns" -> 3
    [] step = "AssociateVpcV6" -> 4 [] step = "PollVpc" -> 5
    [] step = "FindIgw" -> 6 [] step = "CreateIgw" -> 7 [] step = "AttachIgw" -> 8
    [] step = "FindRouteTable" -> 9 [] step = "CreateRouteTable" -> 10
    [] step = "RouteV4" -> 11 [] step = "RouteV6" -> 12
    [] step = "ListSubnets" -> 13 [] step = "ChooseZone" -> 14
    [] step = "CreateSubnet" -> 15 [] step = "AssociateSubnetV6" -> 16
    [] step = "PollSubnet" -> 17 [] step = "SubnetAttributes" -> 18
    [] step = "AssociateRouteTable" -> 19 [] step = "FindSg" -> 20
    [] step = "CreateSg" -> 21 [] step = "RevokeIngress" -> 23
    [] step = "AuthorizeEgress" -> 24 [] OTHER -> 0
Place(p) ==
  IF At(p, "FindSg") /\ sg[vpc[p]].exists THEN 22
  ELSE IF At(p, "AuthorizeEgress") /\ "v4" \notin mem[p].missing THEN 25
  ELSE Position(pc[p])

(* Between two positions there are at most MaxPolls turns of a wait.         *)
Closer(p) ==
  Place(p)' > Place(p) \/ (Place(p)' = Place(p) /\ mem'[p].polls > mem[p].polls)
StaysPut(p) == Place(p)' >= Place(p) /\ mem'[p].polls = mem[p].polls

(* A call ends or comes closer to its end with each of its steps, and is set *)
(* back by nobody else's.                                                    *)
GoesForward ==
  \A p \in Callers :
    /\ Step(p) => pc'[p] \in Resting \/ Closer(p)
    /\ pc[p] \notin Resting => pc'[p] \in Resting \/ Closer(p) \/ StaysPut(p)

(* Where a call stands, step by step.                                        *)
LEMMA PlaceIs ==
  ASSUME NEW p \in Callers
  PROVE  /\ Place(p) \in 0..25
         /\ ~At(p, "FindSg") /\ ~At(p, "AuthorizeEgress") => Place(p) = Position(pc[p])
         /\ At(p, "FindSg") => Place(p) = IF sg[vpc[p]].exists THEN 22 ELSE 20
         /\ At(p, "AuthorizeEgress") =>
              Place(p) = IF "v4" \in mem[p].missing THEN 24 ELSE 25
  BY DEF Place, Position, At

(* A step that is neither to nor from the security group counts by position. *)
LEMMA FurtherOn ==
  ASSUME NEW p \in Callers, ~At(p, "FindSg"), ~At(p, "AuthorizeEgress"),
         Position(pc[p]) < 20,
         pc'[p] \in {"FindSg"} \/ Position(pc'[p]) \in Position(pc[p]) + 1..19
  PROVE  Closer(p)
<1>1. Place(p) = Position(pc[p])
  BY DEF Place
<1>2. pc'[p] # "FindSg" => Place(p)' = Position(pc'[p])
  BY DEF Place, At, Position
<1>3. pc'[p] = "FindSg" => Place(p)' \in {20, 22}
  BY DEF Place, At, Position
<1>4. Position(pc[p]) \in Nat
  BY DEF Position
<1>. QED
  BY <1>1, <1>2, <1>3, <1>4 DEF Closer

(* From the VPC to the gateway.                                              *)
LEMMA NetworkOnward ==
  ASSUME TypeOK, NEW p \in Callers,
         \/ FindVpc(p) \/ CreateVpc(p) \/ VpcDns(p) \/ AssociateVpcV6(p) \/ PollVpc(p)
         \/ FindIgw(p) \/ CreateIgw(p) \/ AttachIgw(p)
         \/ FindRouteTable(p) \/ CreateRouteTable(p) \/ RouteV4(p) \/ RouteV6(p)
  PROVE  Closer(p)
<1>. pc \in [Callers -> Steps \cup Resting] /\ mem \in [Callers -> Locals]
  BY DEF TypeOK
<1>1. CASE FindVpc(p)
  BY <1>1, FurtherOn DEF FindVpc, At, Goto, Position
<1>2. CASE CreateVpc(p)
  BY <1>2, FurtherOn DEF CreateVpc, At, Goto, Position
<1>3. CASE VpcDns(p)
  BY <1>3, FurtherOn DEF VpcDns, At, Goto, Position
<1>4. CASE AssociateVpcV6(p)
  BY <1>4, FurtherOn DEF AssociateVpcV6, At, Goto, Position
<1>5. CASE PollVpc(p) /\ pc'[p] # pc[p]
  BY <1>5, FurtherOn DEF PollVpc, At, Goto, Position
<1>6. CASE PollVpc(p) /\ pc'[p] = pc[p]
  <2>1. mem' = [mem EXCEPT ![p].polls = @ + 1] /\ pc[p] = "PollVpc"
    BY <1>6 DEF PollVpc, At, Goto
  <2>2. mem[p].polls \in Nat /\ mem'[p].polls = mem[p].polls + 1
    BY <2>1, BoundAssumption DEF Locals
  <2>. QED
    BY <1>6, <2>1, <2>2 DEF Closer, Place, At
<1>7. CASE FindIgw(p)
  BY <1>7, FurtherOn DEF FindIgw, At, Goto, Position
<1>8. CASE CreateIgw(p) \/ AttachIgw(p)
  BY <1>8, FurtherOn DEF CreateIgw, AttachIgw, At, Goto, Position
<1>9. CASE FindRouteTable(p)
  <2>1. pc[p] = "FindRouteTable"
    BY <1>9 DEF FindRouteTable, At
  <2>2. pc'[p] \in {"CreateRouteTable", "RouteV4", "RouteV6", "ListSubnets"}
    BY <1>9 DEF FindRouteTable, RouteStep, Goto
  <2>. QED
    BY <2>1, <2>2, FurtherOn DEF At, Position
<1>10. CASE CreateRouteTable(p) \/ RouteV4(p) \/ RouteV6(p)
  BY <1>10, FurtherOn DEF CreateRouteTable, RouteV4, RouteV6, At, Goto, Position
<1>. QED
  BY <1>1, <1>2, <1>3, <1>4, <1>5, <1>6, <1>7, <1>8, <1>9, <1>10

(* From the list of subnets to the security group.                           *)
LEMMA SubnetOnward ==
  ASSUME TypeOK, NEW p \in Callers,
         \/ ListSubnets(p) \/ ChooseZone(p) \/ CreateSubnet(p) \/ AssociateSubnetV6(p)
         \/ PollSubnet(p) \/ SubnetAttributes(p) \/ AssociateRouteTable(p)
  PROVE  Closer(p)
<1>. pc \in [Callers -> Steps \cup Resting] /\ mem \in [Callers -> Locals]
  BY DEF TypeOK
<1>1. CASE ListSubnets(p)
  <2>1. pc[p] = "ListSubnets"
    BY <1>1 DEF ListSubnets, At
  <2>2. pc'[p] \in {"ChooseZone", "CreateSubnet", "AssociateSubnetV6", "PollSubnet",
                    "SubnetAttributes", "AssociateRouteTable", "FindSg"}
    BY <1>1 DEF ListSubnets, Goto, ReadyStep, AfterV6
  <2>. QED
    BY <2>1, <2>2, FurtherOn DEF At, Position
<1>2. CASE ChooseZone(p) \/ CreateSubnet(p) \/ AssociateSubnetV6(p)
  <2>1. \/ pc[p] = "ChooseZone" /\ pc'[p] = "CreateSubnet"
        \/ pc[p] = "CreateSubnet" /\ pc'[p] \in {"SubnetAttributes", "PollSubnet"}
        \/ pc[p] = "AssociateSubnetV6" /\ pc'[p] = "PollSubnet"
    BY <1>2 DEF ChooseZone, CreateSubnet, AssociateSubnetV6, At, Goto
  <2>. QED
    BY <2>1, FurtherOn DEF At, Position
<1>3. CASE PollSubnet(p) /\ pc'[p] # pc[p]
  <2>1. pc[p] = "PollSubnet"
    BY <1>3 DEF PollSubnet, At
  <2>2. pc'[p] \in {"SubnetAttributes", "AssociateRouteTable", "FindSg"}
    BY <1>3 DEF PollSubnet, Goto, AfterV6
  <2>. QED
    BY <2>1, <2>2, FurtherOn DEF At, Position
<1>4. CASE PollSubnet(p) /\ pc'[p] = pc[p]
  <2>1. mem' = [mem EXCEPT ![p].polls = @ + 1] /\ pc[p] = "PollSubnet"
    BY <1>4 DEF PollSubnet, At, Goto, AfterV6
  <2>2. mem[p].polls \in Nat /\ mem'[p].polls = mem[p].polls + 1
    BY <2>1, BoundAssumption DEF Locals
  <2>. QED
    BY <1>4, <2>1, <2>2 DEF Closer, Place, At
<1>5. CASE SubnetAttributes(p) \/ AssociateRouteTable(p)
  <2>1. \/ pc[p] = "SubnetAttributes" /\ pc'[p] \in {"AssociateRouteTable", "FindSg"}
        \/ pc[p] = "AssociateRouteTable" /\ pc'[p] = "FindSg"
    BY <1>5 DEF SubnetAttributes, AssociateRouteTable, At, Goto
  <2>. QED
    BY <2>1, FurtherOn DEF At, Position
<1>. QED
  BY <1>1, <1>2, <1>3, <1>4, <1>5

(* What is left to authorize after v4 is v6, and nothing after that.         *)
LEMMA AuthorizeOnward ==
  ASSUME TypeOK, NEW p \in Callers, NEW missing \in SUBSET Families, Authorize(p, missing)
  PROVE  \/ pc'[p] \in Resting
         \/ missing # {} /\ Place(p)' = IF "v4" \in missing THEN 24 ELSE 25
<1>1. CASE Finish(p)
  BY <1>1 DEF Finish, Goto, TypeOK, Resting
<1>2. CASE missing # {} /\ mem' = [mem EXCEPT ![p].missing = missing] /\ Goto(p, "AuthorizeEgress")
  <2>1. pc'[p] = "AuthorizeEgress"
    BY <1>2 DEF Goto, TypeOK
  <2>2. mem'[p].missing = missing
    BY <1>2 DEF TypeOK, Locals
  <2>. QED
    BY <1>2, <2>1, <2>2, PlaceIs DEF Place, At, Position
<1>. QED
  BY <1>1, <1>2 DEF Authorize

(* The security group: a call that has to start over finds the group.        *)
LEMMA GroupOnward ==
  ASSUME Consistent, TypeOK, HasVpc, NEW p \in Callers,
         FindSg(p) \/ CreateSg(p) \/ RevokeIngress(p) \/ AuthorizeEgress(p)
  PROVE  pc'[p] \in Resting \/ Closer(p)
<1>. /\ pc \in [Callers -> Steps \cup Resting] /\ mem \in [Callers -> Locals]
     /\ sg \in [VpcIds -> Groups]
  BY DEF TypeOK
<1>0. mem[p].missing \in SUBSET Families
  BY DEF Locals
<1>1. CASE FindSg(p)
  <2>1. Place(p) = IF sg[vpc[p]].exists THEN 22 ELSE 20
    BY <1>1, PlaceIs DEF FindSg
  <2>2. CASE ~sg[vpc[p]].exists
    <3>1. pc'[p] = "CreateSg"
      BY <1>1, <2>2 DEF FindSg, Views, Goto
    <3>. QED
      BY <2>1, <2>2, <3>1 DEF Closer, Place, At, Position
  <2>3. CASE sg[vpc[p]].exists /\ sg[vpc[p]].ingress
    <3>1. pc'[p] = "RevokeIngress"
      BY <1>1, <2>3 DEF FindSg, Views, Goto
    <3>. QED
      BY <2>1, <2>3, <3>1 DEF Closer, Place, At, Position
  <2>4. CASE sg[vpc[p]].exists /\ ~sg[vpc[p]].ingress
    <3>1. Authorize(p, Families \ sg[vpc[p]].egress)
      BY <1>1, <2>4 DEF FindSg, Views
    <3>. QED
      BY <2>1, <2>4, <3>1, AuthorizeOnward DEF Closer
  <2>. QED
    BY <2>2, <2>3, <2>4
<1>2. CASE CreateSg(p)
  <2>1. Place(p) = 21 /\ UNCHANGED vpc
    BY <1>2 DEF CreateSg, Place, At, Position
  <2>2. CASE sg[vpc[p]].exists
    <3>1. pc'[p] = "FindSg" /\ UNCHANGED sg
      BY <1>2, <2>2 DEF CreateSg, Goto
    <3>. QED
      BY <2>1, <2>2, <3>1 DEF Closer, Place, At
  <2>3. CASE ~sg[vpc[p]].exists
    <3>1. pc'[p] = "AuthorizeEgress"
      BY <1>2, <2>3 DEF CreateSg, Goto
    <3>2. Place(p)' \in {24, 25}
      BY <3>1 DEF Place, At, Position
    <3>. QED
      BY <2>1, <3>2 DEF Closer
  <2>. QED
    BY <2>2, <2>3
<1>3. CASE RevokeIngress(p)
  <2>1. Place(p) = 23 /\ Authorize(p, mem[p].missing)
    BY <1>3 DEF RevokeIngress, Place, At, Position
  <2>. QED
    BY <1>0, <2>1, AuthorizeOnward DEF Closer
<1>4. CASE AuthorizeEgress(p)
  <2>1. Place(p) = IF "v4" \in mem[p].missing THEN 24 ELSE 25
    BY <1>4, PlaceIs DEF AuthorizeEgress
  <2>2. CASE "v4" \in mem[p].missing
    <3>1. Authorize(p, mem[p].missing \ {"v4"})
      BY <1>4, <2>2 DEF AuthorizeEgress
    <3>. QED
      BY <1>0, <2>1, <2>2, <3>1, AuthorizeOnward DEF Closer
  <2>3. CASE "v4" \notin mem[p].missing
    <3>1. Authorize(p, mem[p].missing \ {"v6"}) /\ mem[p].missing \ {"v6"} = {}
      BY <1>0, <1>4, <2>3 DEF AuthorizeEgress, Families
    <3>. QED
      BY <3>1, AuthorizeOnward
  <2>. QED
    BY <2>2, <2>3
<1>. QED
  BY <1>1, <1>2, <1>3, <1>4

(* While a caller waits for its turn others may at most make its group.      *)
LEMMA OthersLeavePlace ==
  ASSUME TypeOK, HasVpc, NEW q \in Callers, pc[q] \notin Resting,
         UNCHANGED <<pc[q], vpc[q], mem[q]>>, \A v \in VpcIds : GroupKept(v)
  PROVE  StaysPut(q)
<1>1. At(q, "FindSg") => vpc[q] \in VpcIds
  BY DEF HasVpc, At, TypeOK
<1>2. Place(q)' \in Nat /\ Place(q) \in Nat
  BY DEF Place, Position
<1>3. CASE At(q, "FindSg")
  BY <1>1, <1>3 DEF StaysPut, Place, At, GroupKept, Position
<1>4. CASE ~At(q, "FindSg")
  BY <1>2, <1>4 DEF StaysPut, Place, At
<1>. QED
  BY <1>3, <1>4

(* Where Describe shows what was created, a call ends or comes closer to its *)
(* end with each of its steps and is set back by no other: it takes at most  *)
(* 25 * (MaxPolls + 1) of them, whatever it finds and however many others    *)
(* build beside it (the safety half of EveryCallEnds,                        *)
(* network_manager.go:38-93).                                                *)
THEOREM CallsGoForward == ASSUME Consistent PROVE Spec => [][GoesForward]_vars
<1>1. TypeOK /\ HasVpc /\ [Next]_vars => [GoesForward]_vars
  <2>. SUFFICES ASSUME TypeOK, HasVpc, Next, NEW p \in Callers
                PROVE  /\ Step(p) => pc'[p] \in Resting \/ Closer(p)
                       /\ pc[p] \notin Resting =>
                            pc'[p] \in Resting \/ Closer(p) \/ StaysPut(p)
    BY DEF GoesForward
  <2>1. ASSUME Step(p) PROVE pc'[p] \in Resting \/ Closer(p)
    <3>1. CASE GiveUp(p)
      BY <3>1 DEF GiveUp, Abort, Goto, TypeOK, Resting
    <3>. QED
      BY <2>1, <3>1, NetworkOnward, SubnetOnward, GroupOnward DEF Step
  <2>2. ASSUME Start(p) \/ Fail(p), pc[p] \notin Resting PROVE pc'[p] \in Resting
    BY <2>2 DEF Start, Fail, Abort, Goto, TypeOK, Resting
  <2>3. ASSUME NEW q \in Callers \ {p}, Start(q) \/ Step(q) \/ Fail(q), pc[p] \notin Resting
        PROVE  StaysPut(p)
    <3>1. Untouched(p)
      BY <2>3, OthersUntouched
    <3>2. \A v \in VpcIds : GroupKept(v)
      BY <2>3, GroupsKept
    <3>. QED
      BY <2>3, <3>1, <3>2, OthersLeavePlace DEF Untouched
  <2>4. ASSUME \/ \E v \in VpcIds, b \in Blocks : SettleVpc(v, b)
               \/ \E s \in SubnetIds : SettleSubnet(s)
               \/ Exhausted,
               pc[p] \notin Resting
        PROVE  StaysPut(p)
    <3>1. UNCHANGED <<pc, vpc, mem, sg>>
      BY <2>4 DEF SettleVpc, SettleSubnet, Exhausted, vars, locals, region
    <3>. QED
      BY <2>4, <3>1, OthersLeavePlace DEF GroupKept
  <2>. QED
    BY <2>1, <2>2, <2>3, <2>4 DEF Next
<1>. QED
  BY <1>1, TypeAlways, PTL DEF Spec

=============================================================================
