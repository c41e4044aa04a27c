--------------------------- MODULE InventoryProofs ---------------------------
(***************************************************************************)
(* Theorems about InventoryScan, for any accounts, regions and changes.    *)
(* That a round is complete rests on what the cursor stands for between    *)
(* two calls: everything before it that every call listed has been         *)
(* scanned.  A cursor without a scope says less, so that the invariant     *)
(* also tells whose it can be.  About InventoryList, for any instances and *)
(* requests: ListActiveInstances over all its targets.                     *)
(***************************************************************************)
EXTENDS InventoryScan, InventoryList, TLAPS

DistinctScopes == \A a, b \in Accounts : ScopeOf[a] = ScopeOf[b] => a = b

(* The targets the cursor has passed.                                        *)
Behind(t) ==
  \/ cursor[1] = None /\ t[2] < cursor[2]
  \/ cursor[1] # None /\ ScopeOf[t[1]] < cursor[1]
  \/ cursor[1] # None /\ ScopeOf[t[1]] = cursor[1] /\ t[2] < cursor[2]

(* A cursor without a scope comes from a call that listed one account.       *)
OneAccount ==
  cursor[1] = None =>
    /\ \A t, u \in steady : t[1] = u[1]
    /\ "regions" \notin changed => \A t \in steady : cursor[2] \in regions[t[1]]
    /\ "accounts" \notin changed => \A a, b \in accounts : a = b

Bounded == changed # {"accounts", "regions"}
PassedIsScanned == \A t \in steady : Behind(t) => t \in scanned

ScanInv ==
  /\ TypeOK
  /\ \A a \in Accounts : regions[a] # {}
  /\ RoundIsComplete
  /\ cursor # NoCursor /\ Bounded => PassedIsScanned /\ OneAccount

-----------------------------------------------------------------------------
(* A target is an account with a region, both ordered as numbers.            *)
LEMMA TargetParts ==
  ASSUME NEW t \in Targets
  PROVE  /\ t = <<t[1], t[2]>> /\ t[1] \in Accounts
         /\ t[1] \in Nat /\ t[2] \in Nat \ {None} /\ t[2] \in Regions
         /\ ScopeOf[t[1]] \in Nat \ {None}
<1>1. t = <<t[1], t[2]>> /\ t[1] \in Accounts /\ t[2] \in Regions
  BY DEF Targets
<1>2. ScopeOf[t[1]] \in Nat \ {None}
  BY <1>1, ScopeAssumption
<1> QED BY <1>1, <1>2, RegionAssumption

(* The targets are in a total order.                                         *)
LEMMA BeforeIsTotal ==
  ASSUME NEW t \in Targets, NEW u \in Targets
  PROVE  /\ t = u \/ Before(t, u) \/ Before(u, t)
         /\ ~(Before(t, u) /\ Before(u, t)) /\ ~Before(t, t)
<1>1. /\ t = <<t[1], t[2]>> /\ u = <<u[1], u[2]>>
      /\ t[1] \in Nat /\ t[2] \in Nat /\ u[1] \in Nat /\ u[2] \in Nat
      /\ ScopeOf[t[1]] \in Nat /\ ScopeOf[u[1]] \in Nat
  BY TargetParts
<1> DEFINE st == ScopeOf[t[1]]
           su == ScopeOf[u[1]]
<1>2. st \in Nat /\ su \in Nat
  BY <1>1
<1>3. Before(t, u) <=>
        st < su \/ (st = su /\ t[2] < u[2]) \/ (st = su /\ t[2] = u[2] /\ t[1] < u[1])
  BY DEF Before
<1>4. Before(u, t) <=>
        su < st \/ (su = st /\ u[2] < t[2]) \/ (su = st /\ u[2] = t[2] /\ u[1] < t[1])
  BY DEF Before
<1>5. ~Before(t, t)
  BY <1>1 DEF Before
<1> HIDE DEF st, su
<1> QED BY <1>1, <1>2, <1>3, <1>4, <1>5

(* Distinct accounts are never told apart by their numbers.                  *)
LEMMA BeforeByScope ==
  ASSUME DistinctScopes, NEW t \in Targets, NEW u \in Targets
  PROVE  /\ Before(t, u) <=> (\/ ScopeOf[t[1]] < ScopeOf[u[1]]
                              \/ ScopeOf[t[1]] = ScopeOf[u[1]] /\ t[2] < u[2])
         /\ t[1] = u[1] <=> ScopeOf[t[1]] = ScopeOf[u[1]]
<1>1. /\ t[1] \in Accounts /\ u[1] \in Accounts /\ t[1] \in Nat
      /\ ScopeOf[t[1]] \in Nat /\ ScopeOf[u[1]] \in Nat
  BY TargetParts
<1>2. t[1] = u[1] <=> ScopeOf[t[1]] = ScopeOf[u[1]]
  BY <1>1 DEF DistinctScopes
<1>3. ScopeOf[t[1]] = ScopeOf[u[1]] => ~(t[1] < u[1])
  BY <1>1, <1>2
<1>4. Before(t, u) <=> (\/ ScopeOf[t[1]] < ScopeOf[u[1]]
                        \/ ScopeOf[t[1]] = ScopeOf[u[1]] /\ t[2] < u[2])
  BY <1>3 DEF Before
<1> QED BY <1>2, <1>4

(* What comes before the target of a call and is listed again has been       *)
(* scanned by an earlier call of the round.                                  *)
LEMMA TargetIsNext ==
  ASSUME DistinctScopes, TypeOK, cursor # NoCursor, Bounded,
         PassedIsScanned, OneAccount,
         NEW t \in Listed, IsTarget(t),
         NEW x \in steady, x \in Listed, Before(x, t)
  PROVE  x \in scanned
<1>1. t \in Targets /\ x \in Targets
  BY DEF Listed
<1>2. Matching(cursor) \subseteq Listed /\ Matching(cursor) \subseteq Targets
  BY DEF Matching, Listed
<1>3. ~Before(t, x) /\ x # t
  BY <1>1, BeforeIsTotal
<1>4. Matching(cursor) # {} /\ IsFirst(t, Matching(cursor))
  BY <1>3 DEF IsTarget, IsFirst
<1>5. t \in Matching(cursor)
  BY <1>4 DEF IsFirst
<1>6. /\ ScopeOf[t[1]] \in Nat \ {None} /\ ScopeOf[x[1]] \in Nat \ {None}
      /\ t[2] \in Nat /\ x[2] \in Nat
  BY <1>1, TargetParts
<1>7. t[2] = cursor[2]
  BY <1>5 DEF Matching, Encode
<1>8. CASE cursor[1] # None
  <2>1. ScopeOf[t[1]] = cursor[1]
    BY <1>5, <1>8 DEF Matching, Encode
  <2>2. Behind(x)
    BY <1>1, <1>7, <1>8, <2>1, BeforeByScope DEF Behind
  <2> QED BY <2>2 DEF PassedIsScanned
<1>9. CASE cursor[1] = None
  <2>1. x[2] < t[2] => x \in scanned
    BY <1>7, <1>9 DEF Behind, PassedIsScanned
  <2>2. CASE "accounts" \notin changed
    <3>1. x[1] = t[1]
      BY <1>9, <2>2 DEF OneAccount, Listed
    <3> QED BY <1>1, <1>6, <3>1, <2>1, BeforeByScope
  <2>3. CASE "regions" \notin changed
    <3> DEFINE y == <<x[1], t[2]>>
    <3>1. t[2] \in regions[x[1]]
      BY <1>7, <1>9, <2>3 DEF OneAccount
    <3>2. t[2] \in Regions /\ x[1] \in Accounts
      BY <1>1, TargetParts
    <3>3. y \in Listed /\ y[1] = x[1] /\ y[2] = t[2]
      BY <3>1, <3>2 DEF Listed, Targets
    <3>4. cursor = <<None, t[2]>>
      BY <1>5, <1>7, <1>9, <1>6 DEF Matching, Encode
    <3>5. y \in Matching(cursor)
      BY <3>3, <3>4 DEF Matching, Encode
    <3>6. y = t \/ Before(t, y)
      BY <1>4, <3>5 DEF IsFirst
    <3>7. y \in Targets
      BY <3>3 DEF Listed
    <3>8. Before(x, y)
      <4>1. CASE y = t
        BY <4>1
      <4>2. CASE Before(t, y)
        <5>1. ScopeOf[x[1]] <= ScopeOf[t[1]]
          BY <1>1, <1>6, BeforeByScope
        <5>2. ScopeOf[t[1]] <= ScopeOf[y[1]]
          BY <1>1, <1>6, <3>7, <4>2, BeforeByScope, <3>3
        <5>3. ScopeOf[x[1]] = ScopeOf[t[1]]
          BY <5>1, <5>2, <1>6, <3>3
        <5> QED BY <1>1, <1>6, <5>3, <3>7, <3>3, BeforeByScope
      <4> QED BY <3>6, <4>1, <4>2
    <3>9. x[2] < t[2]
      BY <1>1, <1>6, <3>3, <3>7, <3>8, BeforeByScope
    <3> QED BY <3>9, <2>1
  <2> QED BY <2>2, <2>3 DEF Bounded, TypeOK
<1> QED BY <1>8, <1>9

-----------------------------------------------------------------------------
(* Every variable keeps its type: what the next call is asked for is a       *)
(* target there may be.                                                      *)
LEMMA CursorOfTarget ==
  ASSUME NEW u \in Listed
  PROVE  /\ Encode(u, MultiAccount) \in Cursors
         /\ Encode(u, MultiAccount) # NoCursor
<1>1. u \in Targets
  BY DEF Listed
<1>2. u[1] \in Accounts /\ u[2] \in Regions /\ u[2] # None
  BY <1>1, TargetParts
<1>3. (IF MultiAccount THEN ScopeOf[u[1]] ELSE None)
        \in {ScopeOf[a] : a \in Accounts} \cup {None}
  BY <1>2
<1>4. Encode(u, MultiAccount) \in
        ({ScopeOf[a] : a \in Accounts} \cup {None}) \X Regions
  BY <1>2, <1>3 DEF Encode
<1>5. Encode(u, MultiAccount)[2] = u[2] /\ NoCursor[2] = None
  BY DEF Encode, NoCursor
<1>6. Encode(u, MultiAccount) # NoCursor
  BY <1>2, <1>5
<1> QED BY <1>4, <1>6 DEF Cursors

(* A scan moves the cursors to targets or to none.                           *)
LEMMA ScanTypes ==
  ASSUME TypeOK, Scan
  PROVE  TypeOK'
<1>1. Listed \subseteq Targets
  BY DEF Listed
<1>2. steady' \subseteq Targets
  BY <1>1 DEF Scan, TypeOK
<1>3. changed' \subseteq {"accounts", "regions"}
  BY DEF Scan, TypeOK
<1>4. scanned' \subseteq Targets
  BY <1>1 DEF Scan, TypeOK
<1>5. cursor' \in Cursors
  <2>1. NoCursor \in Cursors
    BY DEF Cursors
  <2>2. ASSUME NEW t \in Listed, NEW u \in Later(t)
        PROVE  Encode(u, MultiAccount) \in Cursors
    BY <2>2, CursorOfTarget DEF Later
  <2> QED BY <2>1, <2>2 DEF Scan
<1> QED BY <1>2, <1>3, <1>4, <1>5 DEF Scan, TypeOK

(* The accounts and regions that change are still accounts and regions.      *)
LEMMA ChangeTypes ==
  ASSUME TypeOK, ChangeAccounts \/ ChangeRegions
  PROVE  TypeOK'
<1>1. changes' \in 0..MaxChanges
  BY ChangeAssumption DEF ChangeAccounts, ChangeRegions, Change, TypeOK
<1>2. changed' \subseteq {"accounts", "regions"}
  BY DEF ChangeAccounts, ChangeRegions, Change, TypeOK
<1>3. accounts' \subseteq Accounts /\ regions' \in [Accounts -> SUBSET Regions]
  BY DEF ChangeAccounts, ChangeRegions, TypeOK
<1> QED BY <1>1, <1>2, <1>3 DEF ChangeAccounts, ChangeRegions, TypeOK

(* Every variable keeps its type, however accounts and regions come and go   *)
(* between scans (listInstancesPage).                                        *)
THEOREM InventoryTypes == Spec => []TypeOK
<1>1. Init => TypeOK
  BY ChangeAssumption DEF Init, TypeOK, Cursors
<1>2. TypeOK /\ [Next]_vars => TypeOK'
  <2>1. CASE Scan \/ ChangeAccounts \/ ChangeRegions
    BY <2>1, ScanTypes, ChangeTypes
  <2>2. CASE UNCHANGED vars
    BY <2>2 DEF vars, TypeOK
  <2> QED BY <2>1, <2>2 DEF Next
<1> QED BY <1>1, <1>2, PTL DEF Spec

-----------------------------------------------------------------------------
(* One call of a round: up to the target it scans, nothing is left out.      *)
LEMMA ScannedUpToTarget ==
  ASSUME DistinctScopes, ScanInv, Bounded',
         NEW t \in Listed, IsTarget(t),
         scanned' = (IF cursor = NoCursor THEN {} ELSE scanned) \cup {t},
         steady' = IF cursor = NoCursor THEN Listed ELSE steady \cap Listed,
         changed' = IF cursor = NoCursor THEN {} ELSE changed,
         NEW x \in steady', x = t \/ Before(x, t)
  PROVE  x \in scanned'
<1>1. x \in Listed /\ Listed \subseteq Targets
  BY DEF Listed
<1>2. CASE x = t
  BY <1>2
<1>3. CASE Before(x, t) /\ cursor = NoCursor
  <2>1. Matching(cursor) = {}
    <3>1. \A m \in Listed : m[2] # None
      BY <1>1, TargetParts
    <3> QED BY <1>3, <3>1 DEF Matching, Encode, NoCursor
  <2>2. t = x \/ Before(t, x)
    BY <1>1, <2>1 DEF IsTarget, IsFirst
  <2> QED BY <1>1, <1>3, <2>2, BeforeIsTotal
<1>4. CASE Before(x, t) /\ cursor # NoCursor
  <2>1. Bounded /\ x \in steady
    BY <1>4 DEF Bounded
  <2>2. TypeOK /\ PassedIsScanned /\ OneAccount
    BY <1>4, <2>1 DEF ScanInv
  <2>3. x \in scanned
    BY <1>1, <1>4, <2>1, <2>2, TargetIsNext
  <2> QED BY <1>4, <2>3
<1> QED BY <1>2, <1>3, <1>4

(* What the cursor of the answer has passed.                                 *)
LEMMA BehindNext ==
  ASSUME DistinctScopes, NEW u \in Listed, cursor' = Encode(u, MultiAccount),
         NEW x \in Listed, Behind(x)'
  PROVE  Before(x, u)
<1>1. u \in Targets /\ x \in Targets
  BY DEF Listed
<1>2. ScopeOf[u[1]] # None
  BY <1>1, TargetParts
<1>3. CASE MultiAccount
  <2>1. cursor'[1] = ScopeOf[u[1]] /\ cursor'[2] = u[2]
    BY <1>3 DEF Encode
  <2> QED BY <1>1, <1>2, <2>1, BeforeByScope DEF Behind
<1>4. CASE ~MultiAccount
  <2>1. cursor'[1] = None /\ cursor'[2] = u[2]
    BY <1>4 DEF Encode
  <2>2. ScopeOf[x[1]] = ScopeOf[u[1]]
    BY <1>4 DEF MultiAccount
  <2> QED BY <1>1, <2>1, <2>2, BeforeByScope DEF Behind
<1> QED BY <1>3, <1>4

(* If its cursor has no scope, the call listed one account.                  *)
LEMMA OneAccountNext ==
  ASSUME DistinctScopes, TypeOK, \A a \in Accounts : regions[a] # {},
         NEW u \in Listed, cursor' = Encode(u, MultiAccount),
         steady' \subseteq Listed, UNCHANGED <<accounts, regions>>
  PROVE  OneAccount'
<1> SUFFICES ASSUME cursor'[1] = None
             PROVE  /\ \A t, v \in steady' : t[1] = v[1]
                    /\ \A t \in steady' : cursor'[2] \in regions[t[1]]
                    /\ \A a, b \in accounts : a = b
  BY DEF OneAccount
<1>1. Listed \subseteq Targets
  BY DEF Listed
<1>2. ScopeOf[u[1]] # None
  BY <1>1, TargetParts
<1>3. ~MultiAccount /\ cursor'[2] = u[2]
  BY <1>2 DEF Encode
<1>4. \A t, v \in Listed : t[1] = v[1]
  BY <1>1, <1>3, BeforeByScope DEF MultiAccount
<1>5. \A t \in steady' : cursor'[2] \in regions[t[1]]
  BY <1>3, <1>4 DEF Listed
<1>6. \A a, b \in accounts : a = b
  <2>1. TAKE a, b \in accounts
  <2>2. PICK r \in Regions : r \in regions[a]
    BY DEF TypeOK
  <2>3. PICK q \in Regions : q \in regions[b]
    BY DEF TypeOK
  <2>4. <<a, r>> \in Listed /\ <<b, q>> \in Listed
    BY <2>2, <2>3 DEF Listed, Targets, TypeOK
  <2> QED BY <1>4, <2>4
<1> QED BY <1>4, <1>5, <1>6

(* A scan keeps the invariant.                                               *)
LEMMA ScanKeepsInv ==
  ASSUME DistinctScopes, ScanInv, Scan
  PROVE  ScanInv'
<1>1. TypeOK /\ (\A a \in Accounts : regions[a] # {}) /\ UNCHANGED <<accounts, regions>>
  BY DEF ScanInv, Scan
<1>2. TypeOK'
  BY <1>1, ScanTypes
<1>3. steady' \subseteq Listed /\ Listed \subseteq Targets
  BY DEF Scan, Listed
<1>4. CASE Listed = {} /\ cursor' = NoCursor
  BY <1>1, <1>2, <1>3, <1>4 DEF ScanInv, RoundIsComplete
<1>5. ASSUME NEW t \in Listed, IsTarget(t),
             scanned' = (IF cursor = NoCursor THEN {} ELSE scanned) \cup {t},
             \/ Later(t) = {} /\ cursor' = NoCursor
             \/ \E u \in Later(t) :
                  IsFirst(u, Later(t)) /\ cursor' = Encode(u, MultiAccount)
      PROVE  ScanInv'
  <2>1. ASSUME Bounded', NEW x \in steady', x = t \/ Before(x, t)
        PROVE  x \in scanned'
    BY <1>5, <2>1, ScannedUpToTarget DEF Scan
  <2>2. \A x \in steady' : x = t \/ Before(x, t) \/ x \in Later(t)
    BY <1>3, <1>5, BeforeIsTotal DEF Later
  <2>3. CASE Later(t) = {} /\ cursor' = NoCursor
    <3>1. RoundIsComplete'
      BY <2>1, <2>2, <2>3 DEF RoundIsComplete, Bounded
    <3> QED BY <1>1, <1>2, <2>3, <3>1 DEF ScanInv
  <2>4. ASSUME NEW u \in Later(t), IsFirst(u, Later(t)),
               cursor' = Encode(u, MultiAccount)
        PROVE  ScanInv'
    <3>1. u \in Listed /\ u \in Targets
      BY <1>3, <2>4 DEF Later
    <3>2. cursor' # NoCursor
      BY <2>4, <3>1, CursorOfTarget
    <3>3. OneAccount'
      BY <1>1, <1>3, <2>4, <3>1, OneAccountNext
    <3>4. ASSUME Bounded', NEW x \in steady', Behind(x)'
          PROVE  x \in scanned'
      <4>1. Before(x, u)
        BY <1>3, <2>4, <3>1, <3>4, BehindNext
      <4>2. x \notin Later(t)
        BY <1>3, <2>4, <3>1, <4>1, BeforeIsTotal DEF IsFirst
      <4> QED BY <2>1, <2>2, <3>4, <4>2
    <3>5. Bounded' => PassedIsScanned'
      BY <3>4 DEF PassedIsScanned
    <3> QED BY <1>1, <1>2, <3>2, <3>3, <3>5 DEF ScanInv, RoundIsComplete
  <2> QED BY <1>5, <2>3, <2>4
<1> QED BY <1>4, <1>5 DEF Scan

(* A change of the accounts or regions keeps it.                             *)
LEMMA ChangeKeepsInv ==
  ASSUME ScanInv, ChangeAccounts \/ ChangeRegions
  PROVE  ScanInv'
<1>1. TypeOK'
  BY ChangeTypes DEF ScanInv
<1>2. \A a \in Accounts : regions'[a] # {}
  BY DEF ScanInv, ChangeAccounts, ChangeRegions, TypeOK
<1>3. UNCHANGED <<cursor, scanned, steady>> /\ changed \subseteq changed'
  BY DEF ChangeAccounts, ChangeRegions, Change
<1>4. Bounded' => Bounded
  BY <1>1, <1>3 DEF Bounded, ScanInv, TypeOK
<1>5. RoundIsComplete'
  BY <1>3, <1>4 DEF RoundIsComplete, Bounded, ScanInv
<1>6. ASSUME cursor' # NoCursor, Bounded'
      PROVE  PassedIsScanned' /\ OneAccount'
  <2>1. PassedIsScanned /\ OneAccount
    BY <1>3, <1>4, <1>6 DEF ScanInv
  <2>2. PassedIsScanned'
    BY <1>3, <2>1 DEF PassedIsScanned, Behind
  <2>3. CASE ChangeAccounts
    <3>1. "accounts" \in changed' /\ regions' = regions
      BY <2>3 DEF ChangeAccounts, Change
    <3> QED BY <1>3, <2>1, <2>2, <3>1 DEF OneAccount
  <2>4. CASE ChangeRegions
    <3>1. "regions" \in changed' /\ accounts' = accounts
      BY <2>4 DEF ChangeRegions, Change
    <3> QED BY <1>3, <2>1, <2>2, <3>1 DEF OneAccount
  <2> QED BY <2>3, <2>4
<1> QED BY <1>1, <1>2, <1>5, <1>6 DEF ScanInv

(* Whatever accounts or regions come and go beside a round, one kind at a    *)
(* time, it leaves out no target that every one of its calls listed; given   *)
(* accounts that have scope ids of their own.                                *)
THEOREM RoundsAreComplete == DistinctScopes => (Spec => []RoundIsComplete)
<1> SUFFICES ASSUME DistinctScopes
             PROVE  Spec => []RoundIsComplete
  OBVIOUS
<1>1. Init => ScanInv
  <2> SUFFICES ASSUME Init PROVE ScanInv
    OBVIOUS
  <2>1. TypeOK
    BY ChangeAssumption DEF Init, TypeOK, Cursors
  <2>2. \A a \in Accounts : regions[a] # {}
    BY DEF Init
  <2> QED BY <2>1, <2>2 DEF Init, ScanInv, RoundIsComplete
<1>2. ScanInv /\ [Next]_vars => ScanInv'
  <2>1. ASSUME ScanInv, Next PROVE ScanInv'
    BY <2>1, ScanKeepsInv, ChangeKeepsInv DEF Next
  <2>2. ASSUME ScanInv, UNCHANGED vars PROVE ScanInv'
    BY <2>2 DEF vars, ScanInv, TypeOK, RoundIsComplete, Bounded, PassedIsScanned,
                Behind, OneAccount
  <2> QED BY <2>1, <2>2
<1>3. ScanInv => RoundIsComplete
  BY DEF ScanInv
<1> QED BY <1>1, <1>2, <1>3, PTL DEF Spec

-----------------------------------------------------------------------------
(* Going on.                                                                 *)

(* The scan of t is followed by one of a later target, unless it is the last *)
(* of its round.                                                             *)
MovesOn ==
  \A t, u \in Targets :
    /\ Scan /\ t \in Listed /\ IsTarget(t)
    /\ cursor' # NoCursor /\ (u \in Listed /\ IsTarget(u))'
    => Before(t, u)

(* A cursor just given out fits its own target only.                         *)
LEMMA FitsOne ==
  ASSUME DistinctScopes, NEW w \in Listed, NEW x \in Listed,
         Encode(w, MultiAccount) \in {Encode(x, TRUE), Encode(x, FALSE)}
  PROVE  x = w
<1>1. w \in Targets /\ x \in Targets
  BY DEF Listed
<1>2. /\ w = <<w[1], w[2]>> /\ x = <<x[1], x[2]>>
      /\ ScopeOf[w[1]] # None /\ ScopeOf[x[1]] # None
  BY <1>1, TargetParts
<1>3. x[2] = w[2]
  BY DEF Encode
<1>4. ScopeOf[x[1]] = ScopeOf[w[1]]
  <2>1. CASE MultiAccount
    BY <1>2, <2>1 DEF Encode
  <2>2. CASE ~MultiAccount
    BY <2>2 DEF MultiAccount
  <2> QED BY <2>1, <2>2
<1>5. x[1] = w[1]
  BY <1>1, <1>4, BeforeByScope
<1> QED BY <1>2, <1>3, <1>5

(* There is one target to scan.                                              *)
LEMMA TargetIsOne ==
  ASSUME NEW s \in Listed, NEW t \in Listed, IsTarget(s), IsTarget(t)
  PROVE  s = t
<1>1. s \in Targets /\ t \in Targets
  BY DEF Listed
<1>2. s = t \/ (Before(s, t) /\ Before(t, s))
  BY DEF IsTarget, IsFirst
<1> QED BY <1>1, <1>2, BeforeIsTotal

(* While nothing changes a round never turns back: each call scans a target  *)
(* that comes after that of the call before, by whichever cursor the host    *)
(* passes on, so that a round of n targets takes n calls (given accounts     *)
(* whose scope ids differ; resolveListActiveInstancesScan).                  *)
THEOREM ScansMoveOn == DistinctScopes => (Spec => [][MovesOn]_vars)
<1> SUFFICES ASSUME DistinctScopes PROVE Spec => [][MovesOn]_vars
  OBVIOUS
<1>1. [Next]_vars => [MovesOn]_vars
  <2> SUFFICES ASSUME NEW t \in Targets, NEW u \in Targets, Scan, t \in Listed, IsTarget(t),
                      cursor' # NoCursor, (u \in Listed /\ IsTarget(u))'
               PROVE  Before(t, u)
    BY DEF MovesOn
  <2>1. PICK s \in Listed : IsTarget(s) /\ \E w \in Later(s) : cursor' = Encode(w, MultiAccount)
    BY DEF Scan
  <2>2. PICK w \in Later(t) : cursor' = Encode(w, MultiAccount)
    BY <2>1, TargetIsOne
  <2>3. w \in Listed /\ Before(t, w)
    BY DEF Later
  <2>4. UNCHANGED Listed
    BY DEF Scan, Listed
  <2>5. Encode(w, MultiAccount) \in {Encode(w, TRUE), Encode(w, FALSE)}
    BY DEF Encode
  <2>6. w \in Matching(cursor)'
    BY <2>2, <2>3, <2>4, <2>5 DEF Matching, Encode
  <2>7. u \in Matching(cursor)'
    BY <2>6 DEF IsTarget, IsFirst
  <2>8. u \in Listed /\ Encode(w, MultiAccount) \in {Encode(u, TRUE), Encode(u, FALSE)}
    BY <2>2, <2>4, <2>7 DEF Matching, Encode
  <2>9. u = w
    BY <2>3, <2>8, FitsOne
  <2> QED BY <2>3, <2>9
<1> QED BY <1>1, PTL DEF Spec

-----------------------------------------------------------------------------
(* ListActiveInstances.                                                      *)

(* What EC2 and the code filter by together is what the request means: of    *)
(* the zones asked for, an instance's own is passed over only where it       *)
(* cannot be understood.                                                     *)
LEMMA FiltersAnswer ==
  ASSUME selection \in Selections, NEW m \in Machines, NEW is
  PROVE  PassesEC2(m, is) /\ MatchesFilters(m, is) <=> Answers(m, is)
<1>1. ASSUME NEW t \in selection.zones, t.zone = ZoneOf[m]
      PROVE  Understood(t) <=> ~PassedOver(t, HomeOf[m][2])
  <2>1. t \in Tokens /\ t.by \in {"name", "id"} /\ t.form \in {"plain", "upper"}
    BY SelectionAssumption DEF Tokens
  <2>2. RegionOf[t.zone] = HomeOf[m][2]
    BY <1>1, ZoneAssumption
  <2> QED
    BY <2>1, <2>2 DEF Understood, PassedOver, LooksLikeZone, BeginsWith
<1>2. ASSUME NEW f \in selection.tags
      PROVE  (\E k \in DOMAIN is.tags : k = f.key /\ f.value \in {NoValue, is.tags[k]})
             <=> /\ f.key \in DOMAIN is.tags
                 /\ f.value = NoValue \/ is.tags[f.key] = f.value
  OBVIOUS
<1> QED
  BY <1>1, <1>2 DEF PassesEC2, MatchesFilters, Answers

(* The entry of an instance in the inventory.                                *)
EntryOf(m) == [machine |-> m, scope |-> ScopeIdOf[HomeOf[m][1]], region |-> HomeOf[m][2]]

(* The targets are those of the request once they are resolved.              *)
PlanInv ==
  step \in {"scan", "done"} =>
    plan = {t \in Holders \X Covered :
              selection.regions = Everywhere => t[2] \in Sees[t[1]]}

(* What the history says of the instances as they are.                       *)
HistoryInv ==
  /\ \A m \in always : Answers(m, machines[m])
  /\ \A m \in Machines : Answers(m, machines[m]) => m \in ever

(* The instances of the targets read so far, and of the pages of this one,   *)
(* are in the list if they answered all the time, and only if they ever did. *)
ListScanInv ==
  /\ step \in {"scan", "done"} =>
       \A m \in always :
         \/ HomeOf[m] \in plan \ remaining
         \/ HomeOf[m] \in target /\ m \notin unread
         => EntryOf(m) \in listing
  /\ \A i \in listing : i.machine \in ever
  /\ step = "done" => remaining = {}
  /\ step = "targets" => target = {}

ListInv == InventoryTypeOK /\ PlanInv /\ HistoryInv /\ ListScanInv

(* What the steps of a call leave alone.                                     *)
LEMMA SelectionStays ==
  ASSUME [ListNext]_listVars
  PROVE  UNCHANGED selection /\ UNCHANGED Covered
<1>1. UNCHANGED selection
  BY DEF ListNext, ListTargets, OpenRegion, ReadPage, CloseRegion, ReturnList,
         ListFails, ChangeMachine, listVars
<1> QED
  BY <1>1 DEF Covered

(* Resolving the targets.                                                    *)
LEMMA TargetsStep ==
  ASSUME ListInv, ListTargets
  PROVE  ListInv'
<1>1. UNCHANGED Covered
  BY DEF ListTargets, Covered
<1>2. plan' = {t \in Holders \X Covered :
                 selection.regions = Everywhere => t[2] \in Sees[t[1]]}
  BY DEF ListTargets
<1>3. InventoryTypeOK'
  BY <1>1, <1>2 DEF ListInv, ListScanInv, InventoryTypeOK, ListTargets, history
<1>4. PlanInv'
  BY <1>1, <1>2 DEF PlanInv, ListTargets
<1>5. HistoryInv'
  BY DEF ListInv, HistoryInv, Answers, ListTargets, history
<1>6. ListScanInv'
  BY DEF ListInv, ListScanInv, EntryOf, ListTargets, history
<1> QED
  BY <1>3, <1>4, <1>5, <1>6 DEF ListInv

(* Opening a region: none of its instances is read yet.                      *)
LEMMA OpenStep ==
  ASSUME ListInv, NEW t \in remaining, OpenRegion(t)
  PROVE  ListInv'
<1>1. UNCHANGED Covered
  BY DEF OpenRegion, Covered
<1>2. InventoryTypeOK'
  BY <1>1 DEF ListInv, InventoryTypeOK, OpenRegion, history
<1>3. PlanInv'
  BY <1>1 DEF ListInv, PlanInv, OpenRegion
<1>4. HistoryInv'
  BY DEF ListInv, HistoryInv, Answers, OpenRegion, history
<1>5. ListScanInv'
  BY DEF ListInv, InventoryTypeOK, ListScanInv, EntryOf, OpenRegion, history
<1> QED
  BY <1>2, <1>3, <1>4, <1>5 DEF ListInv

(* Reading a page: the instances on it that answer at this time are listed,  *)
(* those that answered all the time among them.                              *)
LEMMA PageStep ==
  ASSUME ListInv, NEW t \in remaining, ReadPage(t)
  PROVE  ListInv'
<1> DEFINE Entry(m) == [machine |-> m, scope |-> ScopeIdOf[t[1]], region |-> t[2]]
           IsListed(page) == {m \in page : Answers(m, machines[m])}
<1>1. PICK page \in (SUBSET unread) \ {{}} :
        /\ unread' = unread \ page
        /\ listing' = listing \cup
             {[machine |-> m, scope |-> ScopeIdOf[t[1]], region |-> t[2]] :
                m \in {p \in page : /\ PassesEC2(p, machines[p])
                                    /\ MatchesFilters(p, machines[p])}}
  BY DEF ReadPage
<1>2. listing' = listing \cup {Entry(m) : m \in IsListed(page)}
  <2>1. selection \in Selections /\ page \subseteq Machines
    BY DEF ListInv, InventoryTypeOK
  <2> QED
    BY <1>1, <2>1, FiltersAnswer
<1>3. /\ target = {t} /\ step = "scan" /\ step' = "scan"
      /\ UNCHANGED <<selection, machines, plan, remaining, target, always, ever>>
      /\ UNCHANGED Covered
  BY DEF ReadPage, Covered, history
<1>4. \A m \in page : m \in Machines /\ HomeOf[m] = t
  BY <1>1, <1>3 DEF ListInv, InventoryTypeOK
<1>5. \A m \in page : Entry(m) = EntryOf(m)
  BY <1>4 DEF EntryOf
<1>6. InventoryTypeOK'
  <2>1. listing' \subseteq [machine: Machines, scope: {ScopeIdOf[a] : a \in Holders},
                            region: AllRegions]
    <3>1. ASSUME NEW m \in IsListed(page)
          PROVE  Entry(m) \in [machine: Machines, scope: {ScopeIdOf[a] : a \in Holders},
                               region: AllRegions]
      <4>1. HomeOf[m] \in Holders \X AllRegions
        BY <1>4, HomeAssumption
      <4>2. t[1] \in Holders /\ t[2] \in AllRegions
        BY <1>4, <4>1
      <4> QED
        BY <1>4, <4>2
    <3>2. listing \subseteq [machine: Machines, scope: {ScopeIdOf[a] : a \in Holders},
                             region: AllRegions]
      BY DEF ListInv, InventoryTypeOK
    <3> HIDE DEF Entry, IsListed
    <3> QED
      BY <1>2, <3>1, <3>2
  <2> QED
    BY <1>1, <1>3, <2>1 DEF ListInv, InventoryTypeOK
<1>7. PlanInv'
  BY <1>3 DEF ListInv, PlanInv
<1>8. HistoryInv'
  BY <1>3 DEF ListInv, HistoryInv, Answers
<1>9. ListScanInv'
  <2>1. ASSUME NEW m \in always,
               \/ HomeOf[m] \in plan \ remaining
               \/ HomeOf[m] \in target /\ m \notin unread'
        PROVE  EntryOf(m) \in listing'
    <3>1. CASE m \in page
      <4>1. m \in IsListed(page)
        BY <3>1 DEF ListInv, HistoryInv
      <4> QED
        BY <1>2, <1>5, <3>1, <4>1
    <3>2. CASE m \notin page
      BY <1>1, <1>2, <1>3, <2>1, <3>2 DEF ListInv, ListScanInv
    <3> QED
      BY <3>1, <3>2
  <2>2. ASSUME NEW i \in listing'
        PROVE  i.machine \in ever
    <3>1. CASE i \in listing
      BY <3>1 DEF ListInv, ListScanInv
    <3>2. CASE \E m \in IsListed(page) : i = Entry(m)
      BY <1>4, <3>2 DEF ListInv, HistoryInv
    <3> HIDE DEF Entry, IsListed
    <3> QED
      BY <1>2, <2>2, <3>1, <3>2
  <2> QED
    BY <1>3, <2>1, <2>2 DEF ListScanInv, EntryOf
<1> QED
  BY <1>6, <1>7, <1>8, <1>9 DEF ListInv

(* Closing a region: all its instances are read.                             *)
LEMMA CloseStep ==
  ASSUME ListInv, CloseRegion \/ ReturnList \/ ListFails
  PROVE  ListInv'
<1>1. UNCHANGED <<selection, machines, plan, always, ever>> /\ UNCHANGED Covered
  BY DEF CloseRegion, ReturnList, ListFails, Covered, history
<1>2. InventoryTypeOK'
  BY <1>1 DEF ListInv, InventoryTypeOK, CloseRegion, ReturnList, ListFails
<1>3. PlanInv' /\ HistoryInv'
  BY <1>1 DEF ListInv, PlanInv, HistoryInv, Answers, CloseRegion, ReturnList, ListFails
<1>4. ListScanInv'
  BY <1>1 DEF ListInv, InventoryTypeOK, ListScanInv, EntryOf, CloseRegion, ReturnList, ListFails
<1> QED
  BY <1>2, <1>3, <1>4 DEF ListInv

(* An instance changes: the history says so.                                 *)
LEMMA ChangeStep ==
  ASSUME ListInv, NEW m \in Machines, ChangeMachine(m)
  PROVE  ListInv'
<1>1. PICK state \in States \ {"none"}, tags \in TagSets :
        LET now == [state |-> state, tags |-> tags] IN
          /\ machines' = [machines EXCEPT ![m] = now]
          /\ always' = IF Answers(m, now) THEN always ELSE always \ {m}
          /\ ever' = IF Answers(m, now) THEN ever \cup {m} ELSE ever
  BY DEF ChangeMachine
<1> DEFINE now == [state |-> state, tags |-> tags]
<1>2. /\ machines' = [machines EXCEPT ![m] = now]
      /\ always' = IF Answers(m, now) THEN always ELSE always \ {m}
      /\ ever' = IF Answers(m, now) THEN ever \cup {m} ELSE ever
  BY <1>1
<1>3. now \in [state: States, tags: TagSets]
  OBVIOUS
<1> HIDE DEF now
<1>4. /\ UNCHANGED <<selection, step, plan, remaining, target, unread, listing>>
      /\ UNCHANGED Covered
  BY DEF ChangeMachine, Covered
<1>5. HistoryInv'
  <2>2. ASSUME NEW n \in always'
        PROVE  Answers(n, machines[n])'
    BY <1>2, <1>4, <2>2 DEF ListInv, HistoryInv, InventoryTypeOK, Answers
  <2>3. ASSUME NEW n \in Machines, Answers(n, machines[n])'
        PROVE  n \in ever'
    BY <1>2, <1>4, <2>3 DEF ListInv, HistoryInv, InventoryTypeOK, Answers
  <2> QED
    BY <2>2, <2>3 DEF HistoryInv
<1>6. InventoryTypeOK'
  <2>1. always' \subseteq ever' /\ ever' \subseteq Machines
    BY <1>2 DEF ListInv, InventoryTypeOK
  <2> QED
    BY <1>2, <1>3, <1>4, <2>1 DEF ListInv, InventoryTypeOK
<1>7. PlanInv'
  BY <1>4 DEF ListInv, PlanInv
<1>8. ListScanInv'
  BY <1>2, <1>4 DEF ListInv, ListScanInv, EntryOf
<1> QED
  BY <1>5, <1>6, <1>7, <1>8 DEF ListInv

(* Every step of a call, and of the instances under it, keeps the invariant. *)
LEMMA ListStep ==
  ASSUME ListInv, [ListNext]_listVars
  PROVE  ListInv'
<1>1. CASE UNCHANGED listVars
  <2>1. UNCHANGED Covered
    BY <1>1 DEF listVars, Covered
  <2> QED
    BY <1>1, <2>1
    DEF listVars, ListInv, InventoryTypeOK, PlanInv, HistoryInv, ListScanInv, Answers, EntryOf
<1> QED
  BY <1>1, TargetsStep, OpenStep, PageStep, CloseStep, ChangeStep DEF ListNext

(* A call starts with no target.                                             *)
LEMMA ListStart == ListInit => ListInv
<1> SUFFICES ASSUME ListInit PROVE ListInv
  OBVIOUS
<1>1. InventoryTypeOK
  BY DEF ListInit, InventoryTypeOK
<1> QED
  BY <1>1 DEF ListInit, ListInv, PlanInv, HistoryInv, ListScanInv

(* Every variable keeps its type, while instances come, go and change.       *)
THEOREM InventoryListTypes == ListSpec => []InventoryTypeOK
  BY ListStart, ListStep, PTL DEF ListSpec, ListInv

(* An inventory that succeeds lists every instance that was active and       *)
(* answered to the request while it was read, in every region it covers, and *)
(* nothing that never did, however the pages are cut and the instances change *)
(* between them.  An instance answers to a zone asked for by what the code   *)
(* does not take for another region's, see Answers (ListActiveInstances,     *)
(* listActiveInstancesInRegion, matchesAvailabilityZoneFilter).              *)
THEOREM ActiveInstancesListed == ListSpec => []ActiveAreListed
<1>1. ListInv => ActiveAreListed
  <2> SUFFICES ASSUME ListInv, step = "done" PROVE ActiveAreListed
    BY DEF ActiveAreListed
  <2>1. remaining = {}
    BY DEF ListInv, ListScanInv
  <2>2. ASSUME NEW r \in Covered
        PROVE  \E a \in Holders : <<a, r>> \in plan
    <3>1. CASE selection.regions = Everywhere
      <4>1. PICK a \in Holders : r \in Sees[a]
        BY <3>1 DEF Covered, AllRegions
      <4>2. <<a, r>> \in plan
        BY <4>1 DEF ListInv, PlanInv
      <4> QED
        BY <4>2
    <3>2. CASE selection.regions # Everywhere
      <4>1. PICK a \in Holders : TRUE
        BY HolderAssumption
      <4>2. <<a, r>> \in plan
        BY <3>2, <4>1 DEF ListInv, PlanInv
      <4> QED
        BY <4>2
    <3> QED
      BY <3>1, <3>2
  <2> QED
    BY <2>1, <2>2 DEF ActiveAreListed, ListInv, ListScanInv, EntryOf
<1> QED
  BY <1>1, ListStart, ListStep, PTL DEF ListSpec
=============================================================================
