---------------------------- MODULE InventoryList ----------------------------
(***************************************************************************)
(* ListActiveInstances over all its targets                                *)
(* (src/internal/aws/instance_list.go): every region asked for, or every   *)
(* one an account sees, is read page by page, for every account, while the *)
(* instances in it come, go, stop and get other tags.  The rounds of       *)
(* incremental_inventory, which take one target a call, are InventoryScan. *)
(* The request stands here as normalizeListActiveInstancesRequest leaves   *)
(* it: trimmed, and of entries that differ by case only the first.         *)
(***************************************************************************)
EXTENDS ZoneFilter, Naturals

CONSTANTS
  Machines,         \* EC2: the instances there are, were or will be
  HomeOf,           \* HomeOf[m]: its <<account, region>>
  KindOf, ZoneOf,   \* its type and its zone
  ScopeIdOf,        \* ScopeIdOf[a]: the scope id of a configured account
  Sees,             \* Sees[a]: the regions listAccountRegions gives of it
  Selections,       \* the requests considered
  TagKeys, TagValues, NoValue,
  MaxEvents         \* bound: changes of instances during a call

Holders == DOMAIN ScopeIdOf
AllRegions == UNION {Sees[a] : a \in Holders}
TagSets == UNION {[K -> TagValues] : K \in SUBSET TagKeys}
States == {"none", "running", "stopped", "terminated"}
Active == {"running", "stopped"}     \* activeInstanceStates
Everywhere == {}                     \* no region named, or "all" among them

ASSUME HolderAssumption == Holders # {}
ASSUME HomeAssumption == HomeOf \in [Machines -> Holders \X AllRegions]
ASSUME ZoneAssumption ==
  ZoneOf \in [Machines -> Zones] /\ \A m \in Machines : RegionOf[ZoneOf[m]] = HomeOf[m][2]
ASSUME SelectionAssumption ==     \* they are trimmed
  \A s \in Selections : s.zones \subseteq {t \in Tokens : t.form # "padded"}
ASSUME EventAssumption == MaxEvents \in Nat

VARIABLES
  selection,   \* the request: its regions, zones, types and tags
  machines,    \* EC2: state and tags of every instance
  step,
  plan,        \* the targets of the call
  remaining,   \* those not yet read to the end
  target,      \* the one being read, if any
  unread,      \* its instances on pages still to come
  listing,     \* what was listed so far: instance, scope id and region
  always,      \* history: those that answered to the request all the time
  ever,        \* history: those that did at some time
  events       \* changes so far
listVars == <<selection, machines, step, plan, remaining, target, unread, listing,
              always, ever, events>>
history == <<always, ever, events>>

(* The regions of a request: those it names, whether or not an account sees  *)
(* them, or all there are.                                                   *)
Covered == IF selection.regions = Everywhere THEN AllRegions ELSE selection.regions

InventoryTypeOK ==
  /\ selection \in Selections
  /\ machines \in [Machines -> [state: States, tags: TagSets]]
  /\ step \in {"targets", "scan", "done", "failed"}
  /\ remaining \subseteq plan /\ plan \subseteq Holders \X Covered
  /\ target \subseteq remaining /\ \A t, u \in target : t = u
  /\ unread \subseteq Machines /\ \A m \in unread : target = {HomeOf[m]}
  /\ listing \subseteq [machine: Machines, scope: {ScopeIdOf[a] : a \in Holders},
                        region: AllRegions]
  /\ always \subseteq ever /\ ever \subseteq Machines

-----------------------------------------------------------------------------
(* The filters that EC2 applies; those on tags only where they have a value. *)
PassesEC2(m, is) ==
  /\ is.state \in Active
  /\ selection.kinds = {} \/ KindOf[m] \in selection.kinds
  /\ \A f \in selection.tags :
       f.value # NoValue => f.key \in DOMAIN is.tags /\ is.tags[f.key] = f.value

(* matchesActiveInstanceFilters: they are all applied again, and those EC2   *)
(* was not given: zones by either name, but for those taken for a zone of    *)
(* another region, and tags that may have any value.                         *)
MatchesFilters(m, is) ==
  /\ is.state \in Active
  /\ selection.kinds = {} \/ KindOf[m] \in selection.kinds
  /\ \/ selection.zones = {}
     \/ \E t \in selection.zones : t.zone = ZoneOf[m] /\ ~PassedOver(t, HomeOf[m][2])
  /\ \A f \in selection.tags :
       f.key \in DOMAIN is.tags /\ (f.value = NoValue \/ is.tags[f.key] = f.value)

(* What a request means, as far as it can be understood: the code never      *)
(* finds an instance by the id of a local zone or by the name of its zone in *)
(* upper case (instance_list.go:421).                                        *)
Answers(m, is) ==
  /\ is.state \in Active
  /\ selection.kinds = {} \/ KindOf[m] \in selection.kinds
  /\ \/ selection.zones = {}
     \/ ZoneOf[m] \in {t.zone : t \in {u \in selection.zones : Understood(u)}}
  /\ \A f \in selection.tags :
       \E k \in DOMAIN is.tags : k = f.key /\ f.value \in {NoValue, is.tags[k]}

-----------------------------------------------------------------------------
(* listActiveInstanceTargets: for every account the regions named, or those  *)
(* it sees.                                                                  *)
ListTargets ==
  /\ step = "targets" /\ step' = "scan"
  /\ plan' = {t \in Holders \X Covered :
               selection.regions = Everywhere => t[2] \in Sees[t[1]]}
  /\ remaining' = plan'
  /\ UNCHANGED <<selection, machines, target, unread, listing, history>>

(* The next region; one that the account does not see fails the call.        *)
OpenRegion(t) ==
  /\ step = "scan" /\ target = {} /\ t \in remaining /\ t[2] \in Sees[t[1]]
  /\ target' = {t} /\ unread' = {m \in Machines : HomeOf[m] = t}
  /\ UNCHANGED <<selection, machines, step, plan, remaining, listing, history>>

(* A page of DescribeInstances, with the instances as they are now.          *)
ReadPage(t) ==
  /\ step = "scan" /\ target = {t}
  /\ \E page \in (SUBSET unread) \ {{}} :
       /\ unread' = unread \ page
       /\ listing' = listing \cup
            {[machine |-> m, scope |-> ScopeIdOf[t[1]], region |-> t[2]] :
               m \in {p \in page : /\ PassesEC2(p, machines[p])
                                   /\ MatchesFilters(p, machines[p])}}
  /\ UNCHANGED <<selection, machines, step, plan, remaining, target, history>>

(* A variant of CloseRegion that does not ask for the page after the first.  *)
CloseRegionEarly ==
  /\ step = "scan" /\ target # {}
  /\ \E m \in Machines : HomeOf[m] \in target /\ m \notin unread
  /\ remaining' = remaining \ target /\ target' = {} /\ unread' = {}
  /\ UNCHANGED <<selection, machines, step, plan, listing, history>>

(* No page is left.                                                          *)
CloseRegion ==
  /\ step = "scan" /\ target # {} /\ unread = {}
  /\ remaining' = remaining \ target /\ target' = {}
  /\ UNCHANGED <<selection, machines, step, plan, unread, listing, history>>

ReturnList ==
  /\ step = "scan" /\ remaining = {} /\ step' = "done"
  /\ UNCHANGED <<selection, machines, plan, remaining, target, unread, listing, history>>

(* Any call fails, and with it the whole list.                               *)
ListFails ==
  /\ step \in {"targets", "scan"} /\ step' = "failed" /\ listing' = {}
  /\ UNCHANGED <<selection, machines, plan, remaining, target, unread, history>>

(* EC2: an instance starts, stops, ends or is tagged.                        *)
ChangeMachine(m) ==
  /\ step = "scan" /\ events < MaxEvents /\ events' = events + 1
  /\ \E state \in States \ {"none"}, tags \in TagSets :
       /\ machines[m].state = "terminated" => state = "terminated"
       /\ LET now == [state |-> state, tags |-> tags] IN
            /\ machines' = [machines EXCEPT ![m] = now]
            /\ always' = IF Answers(m, now) THEN always ELSE always \ {m}
            /\ ever' = IF Answers(m, now) THEN ever \cup {m} ELSE ever
  /\ UNCHANGED <<selection, step, plan, remaining, target, unread, listing>>

ListInit ==
  /\ selection \in Selections
  /\ machines \in [Machines -> [state: States, tags: TagSets]]
  /\ \A m \in Machines : machines[m].state = "none" => machines[m].tags = << >>
  /\ step = "targets"
  /\ plan = {} /\ remaining = {} /\ target = {} /\ unread = {} /\ listing = {}
  /\ always = {m \in Machines : Answers(m, machines[m])} /\ ever = always
  /\ events = 0

ListNext ==
  \/ ListTargets \/ CloseRegion \/ ReturnList \/ ListFails
  \/ \E t \in remaining : OpenRegion(t) \/ ReadPage(t)
  \/ \E m \in Machines : ChangeMachine(m)
ListSpec == ListInit /\ [][ListNext]_listVars

-----------------------------------------------------------------------------
(* An inventory that succeeds lists every instance that was active and       *)
(* answered to the request while it was read, in every region it covers,     *)
(* under the scope id of its account, so that a StopInstance finds it there; *)
(* and nothing that never did, though EC2 filters by less than the request   *)
(* and instances change between two pages.  An entry for a zone that cannot  *)
(* be understood is one no instance answers to (ListActiveInstances,         *)
(* listActiveInstancesInRegion, instance_list.go:421).                       *)
ActiveAreListed ==
  step = "done" =>
    /\ \A m \in always :
         HomeOf[m] \in plan =>
           [machine |-> m, scope |-> ScopeIdOf[HomeOf[m][1]], region |-> HomeOf[m][2]]
             \in listing
    /\ \A i \in listing : i.machine \in ever
    /\ \A r \in Covered : \E a \in Holders : <<a, r>> \in plan
=============================================================================
