---------------------------- MODULE InventoryScan ----------------------------
(***************************************************************************)
(* ListActiveInstances with incremental_inventory                          *)
(* (src/internal/aws/instance_list.go).  Each call lists the targets, that *)
(* is the regions of every configured account, afresh, scans one of them   *)
(* and returns a cursor that names the next one; the host goes round by    *)
(* passing it back until it comes back empty.  Nothing is kept between two *)
(* calls, and the accounts and their regions may change.                   *)
(***************************************************************************)
EXTENDS Naturals

CONSTANTS
  Accounts,     \* accounts that may be configured
  ScopeOf,      \* ScopeOf[a]: the scope id of account a, as a number that
                \* sorts like it
  Regions,      \* numbered in the order of their names
  MaxChanges    \* changes of the accounts and their regions considered

Targets == Accounts \X Regions
None == 0       \* no scope in a cursor
NoCursor == <<None, None>>

ASSUME ScopeAssumption == ScopeOf \in [Accounts -> Nat \ {None}]
ASSUME RegionAssumption ==
  Accounts \subseteq Nat \ {None} /\ Regions \subseteq Nat \ {None}
ASSUME ChangeAssumption == MaxChanges \in Nat

VARIABLES
  accounts,    \* the accounts configured now
  regions,     \* regions[a]: the regions account a sees now
  cursor,      \* the host's cursor: scope and region, a region, or nothing
  scanned,     \* history: the targets scanned in this round
  steady,      \* history: those that every call of this round listed
  changed,     \* history: what changed since this round began
  changes      \* changes so far
vars == <<accounts, regions, cursor, scanned, steady, changed, changes>>

Cursors == (({ScopeOf[a] : a \in Accounts} \cup {None}) \X Regions) \cup {NoCursor}

(* Every variable has its type.                                              *)
TypeOK ==
  /\ accounts \subseteq Accounts
  /\ regions \in [Accounts -> SUBSET Regions]
  /\ cursor \in Cursors
  /\ scanned \subseteq Targets /\ steady \subseteq Targets
  /\ changed \subseteq {"accounts", "regions"}
  /\ changes \in 0..MaxChanges

(* listActiveInstanceTargets.                                                *)
Listed == {t \in Targets : t[1] \in accounts /\ t[2] \in regions[t[1]]}

(* sortActiveInstanceScanTargets: by scope, then region.                     *)
Before(t, u) ==
  \/ ScopeOf[t[1]] < ScopeOf[u[1]]
  \/ ScopeOf[t[1]] = ScopeOf[u[1]] /\ t[2] < u[2]
  \/ ScopeOf[t[1]] = ScopeOf[u[1]] /\ t[2] = u[2] /\ t[1] < u[1]

IsFirst(t, S) == t \in S /\ \A u \in S : u = t \/ Before(t, u)

(* hasMultipleActiveInstanceAccounts.                                        *)
MultiAccount == \E t, u \in Listed : ScopeOf[t[1]] # ScopeOf[u[1]]

(* encodeActiveInstanceCursor.                                               *)
Encode(t, multi) == <<IF multi THEN ScopeOf[t[1]] ELSE None, t[2]>>

(* The targets a cursor fits: a plain region fits that region of anybody.    *)
Matching(c) == {t \in Listed : c \in {Encode(t, TRUE), Encode(t, FALSE)}}

(* A variant of IsTarget that takes the cursor for the last target scanned.  *)
IsTargetAfter(t) ==
  LET rest == {u \in Listed : \E m \in Matching(cursor) : Before(m, u)} IN
    IF rest # {} THEN IsFirst(t, rest) ELSE IsFirst(t, Listed)

(* nextActiveInstanceScanTargetIndex: the first target the cursor fits, and  *)
(* the first of all if there is none.                                        *)
IsTarget(t) ==
  IF Matching(cursor) # {} THEN IsFirst(t, Matching(cursor)) ELSE IsFirst(t, Listed)

(* A variant of Later that takes the index for the index of the next one.    *)
NotBefore(t) == Listed \ {u \in Listed : Before(u, t)}

(* The targets a round still has to come to after t.                         *)
Later(t) == {u \in Listed : Before(t, u)}

-----------------------------------------------------------------------------
(* resolveListActiveInstancesScan and the scan itself: one call that         *)
(* succeeds.  One that fails, or whose answer is lost, leaves the host's     *)
(* cursor where it is.                                                       *)
Scan ==
  /\ \/ Listed = {} /\ cursor' = NoCursor /\ UNCHANGED scanned
     \/ \E t \in Listed :
          /\ IsTarget(t)
          /\ scanned' = (IF cursor = NoCursor THEN {} ELSE scanned) \cup {t}
          /\ \/ Later(t) = {} /\ cursor' = NoCursor
             \/ \E u \in Later(t) :
                  IsFirst(u, Later(t)) /\ cursor' = Encode(u, MultiAccount)
  /\ steady' = IF cursor = NoCursor THEN Listed ELSE steady \cap Listed
  /\ changed' = IF cursor = NoCursor THEN {} ELSE changed
  /\ UNCHANGED <<accounts, regions, changes>>

Change(what) ==
  /\ changes < MaxChanges /\ changes' = changes + 1
  /\ changed' = changed \cup {what}

(* The provider is given other accounts.                                     *)
ChangeAccounts ==
  /\ Change("accounts")
  /\ accounts' \in (SUBSET Accounts) \ {{}, accounts}
  /\ UNCHANGED <<regions, cursor, scanned, steady>>

(* An account opts in to a region or out of one; it keeps one at least.      *)
ChangeRegions ==
  /\ Change("regions")
  /\ \E a \in Accounts : \E S \in (SUBSET Regions) \ {{}, regions[a]} :
       regions' = [regions EXCEPT ![a] = S]
  /\ UNCHANGED <<accounts, cursor, scanned, steady>>

Init ==
  /\ accounts \in (SUBSET Accounts) \ {{}}
  /\ regions \in [Accounts -> (SUBSET Regions) \ {{}}]
  /\ cursor = NoCursor
  /\ scanned = {} /\ steady = {}
  /\ changed = {} /\ changes = 0

Next == Scan \/ ChangeAccounts \/ ChangeRegions
Spec == Init /\ [][Next]_vars

(* The host keeps asking, and its calls succeed in the end.  A region that   *)
(* fails for ever fails its call each time and holds the round up.           *)
FairSpec == Spec /\ WF_vars(Scan)

-----------------------------------------------------------------------------
(* A round that comes to its end has scanned every target that every one of  *)
(* its calls listed, if only accounts, or only their regions, came and went  *)
(* beside it (nextActiveInstanceScanTargetIndex, encodeActiveInstanceCursor; *)
(* the README tells what both at once can do).                               *)
RoundIsComplete ==
  cursor = NoCursor /\ changed # {"accounts", "regions"} => steady \subseteq scanned

(* Once the accounts and regions stop changing, every round ends: the cursor *)
(* moves on and never falls into a loop (resolveListActiveInstancesScan;     *)
(* given accounts whose scope ids differ).                                   *)
RoundsEnd == []<>(cursor = NoCursor)
=============================================================================
