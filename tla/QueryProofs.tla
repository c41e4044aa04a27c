---------------------------- MODULE QueryProofs -----------------------------
(***************************************************************************)
(* Proofs about the calls that only read, for every catalog, region, zone  *)
(* and price: GetSpotData (SpotQuery), ListInstanceTypes and               *)
(* GetInstanceTypeInfo (CatalogQueries), and GetInstancePrices             *)
(* (InstancePrices).  They share no variable but the catalog, and each is  *)
(* proved about under its own specification.                               *)
(***************************************************************************)
EXTENDS SpotQuery, InstancePrices, SequenceTheorems, FiniteSetTheorems,
        WellFoundedInduction, TLAPS

-----------------------------------------------------------------------------
(* GetSpotData.                                                              *)

Visiting == pc \in {"Zones", "Offerings", "Prices", "Scores"}

(* One price and one score for each type and zone, and no score of a type    *)
(* that is still to be asked for.                                            *)
KeyedInv ==
  /\ \A p, q \in prices : p.type = q.type /\ p.zone = q.zone => p = q
  /\ \A s, u \in scores : s.type = u.type /\ s.zone = u.zone => s = u
  /\ \A s \in scores : s.type \notin unscored

(* The region being visited is one of the call's, and no longer to do; none  *)
(* is before the loop and none is left after it.                             *)
RegionInv ==
  /\ Visiting => region \subseteq listed \ todo
  /\ At("Regions") => listed = {}
  /\ At("done") => todo = {}

(* The loop is through with region r.                                        *)
Passed(r) == r \in listed \ todo /\ ~(Visiting /\ In(r))

(* The request wants zone z, as selectAvailabilityZones reads it.            *)
IsWanted(z) == all \/ {NameKey(z), IdKey(z)} \cap Requested(RegionOf[z]) # {}

ItemsFor(z, t) == {i \in items : i.type = t /\ i.zone = z}
Complete(r) ==
  \A z \in Selected(r, open \cap ZonesOf(r)), t \in Types :
    \E i \in Items : ItemsFor(z, t) = {i}

(* Items are of wanted zones of regions the loop is through with, and such a *)
(* region has all of its items or a warning.                                 *)
ItemsInv ==
  pc # "failed" =>
    /\ \A i \in items :
         Passed(RegionOf[i.zone]) /\ i.zone \in open /\ IsWanted(i.zone)
    /\ \A r \in Regions : Passed(r) => Skipped(r) \/ Complete(r)

(* A zone asked for that was not found is named once its region is resolved, *)
(* unless what asks for it is taken for a zone of another region.            *)
IsNamed(t) == Understood(t) /\ ~(t.by = "name" /\ t.form = "padded")
NotFoundTold(t) ==
  [code |-> "AZ_NOT_FOUND", region |-> RegionOf[t.zone], token |-> t] \in warnings
ZonesInv ==
  ~all /\ pc # "failed" =>
    \A t \in {u \in asked : IsNamed(u)} :
      LET r == RegionOf[t.zone] IN
        r \in listed \ todo /\ ~(At("Zones") /\ In(r)) =>
          Skipped(r) \/ t.zone \in open \/ NotFoundTold(t)

SpotInv == TypeOK /\ KeyedInv /\ NewestPriceKept /\ RegionInv /\ ItemsInv /\ ZonesInv

-----------------------------------------------------------------------------
(* A call starts with nothing found.                                         *)
LEMMA SpotStart == Init => SpotInv
  BY DEF Init, SpotInv, TypeOK, KeyedInv, NewestPriceKept, RegionInv, ItemsInv, ZonesInv,
         Steps, Option, At, Visiting, Passed, Items, Scores, Entries, RegionWarnings,
         ZoneWarnings, ScoreWarnings

(* Every step keeps the types.                                               *)
LEMMA SpotTypes ==
  ASSUME TypeOK, [Next]_vars
  PROVE  TypeOK'
<1> USE DEF Steps, Option
<1>1. CASE ResolveRegions \/ NextRegion \/ Finish \/ Fail \/ UNCHANGED vars
  BY <1>1 DEF TypeOK, ResolveRegions, NextRegion, Finish, Fail, vars, request, regional
<1>2. ASSUME NEW r \in Regions, ResolveZones(r)
      PROVE  TypeOK'
  <2>1. PICK zones \in SUBSET ZonesOf(r) :
          open' = open \cup zones /\ warnings' = warnings \cup NotFound(r, zones)
    BY <1>2 DEF ResolveZones
  <2>2. NotFound(r, zones) \subseteq ZoneWarnings
    BY DEF NotFound, ZoneWarnings, TypeOK
  <2>3. zones \subseteq Zones
    BY DEF ZonesOf
  <2> QED
    BY <1>2, <2>1, <2>2, <2>3 DEF TypeOK, ResolveZones, request, regional
<1>3. ASSUME NEW r \in Regions, FetchOfferings(r)
      PROVE  TypeOK'
  BY <1>3 DEF TypeOK, FetchOfferings, request
<1>4. ASSUME NEW r \in Regions, ReadPrice(r)
      PROVE  TypeOK'
  <2>1. PICK e \in Entries : heard' = heard \cup {e} /\ prices' = Kept(e)
    BY <1>4 DEF ReadPrice
  <2> QED
    BY <1>4, <2>1 DEF TypeOK, ReadPrice, Kept, request
<1>5. ASSUME NEW r \in Regions, PricesRead(r)
      PROVE  TypeOK'
  BY <1>5 DEF TypeOK, PricesRead, request, regional
<1>6. ASSUME NEW r \in Regions, BuildItems(r)
      PROVE  TypeOK'
  BY <1>6 DEF TypeOK, BuildItems, SpotItems, request, regional
<1>7. ASSUME NEW r \in Regions, SkipRegion(r)
      PROVE  TypeOK'
  BY <1>7 DEF TypeOK, SkipRegion, RegionWarnings, At, request, regional
<1>8. ASSUME NEW r \in Regions, NEW t \in Types, FetchScores(r, t)
      PROVE  TypeOK'
  BY <1>8 DEF TypeOK, FetchScores, request
<1>9. ASSUME NEW r \in Regions, NEW t \in Types, ScoresFail(r, t)
      PROVE  TypeOK'
  BY <1>9 DEF TypeOK, ScoresFail, ScoreWarnings, request
<1> QED
  BY <1>1, <1>2, <1>3, <1>4, <1>5, <1>6, <1>7, <1>8, <1>9 DEF Next

(* What a region's entries and scores are keyed by stays unique, and the     *)
(* newest entry stays the one that is kept.                                  *)
LEMMA KeyedStep ==
  ASSUME TypeOK, KeyedInv, NewestPriceKept, [Next]_vars
  PROVE  KeyedInv' /\ NewestPriceKept'
<1>1. CASE NextRegion
  BY <1>1 DEF NextRegion, KeyedInv, NewestPriceKept
<1>2. ASSUME NEW r \in Regions, ReadPrice(r)
      PROVE  KeyedInv' /\ NewestPriceKept'
  <2>1. PICK e \in Entries : /\ \A h \in heard : e.time <= h.time
                             /\ heard' = heard \cup {e} /\ prices' = Kept(e)
    BY <1>2 DEF ReadPrice
  <2>2. UNCHANGED <<scores, unscored>>
    BY <1>2 DEF ReadPrice
  <2>3. KeyedInv'
    BY <2>1, <2>2 DEF KeyedInv, Kept
  <2>4. NewestPriceKept'
    <3>1. ASSUME NEW h \in heard
          PROVE  \E p \in prices' : p.type = h.type /\ p.zone = h.zone /\ p.time >= h.time
      BY <2>1 DEF NewestPriceKept, Kept
    <3>2. \E p \in prices' : p.type = e.type /\ p.zone = e.zone /\ p.time >= e.time
      <4>1. e.time \in Nat
        BY TimeAssumption DEF Entries
      <4>2. CASE \E p \in prices : p.type = e.type /\ p.zone = e.zone
        <5>1. PICK p \in prices : p.type = e.type /\ p.zone = e.zone
          BY <4>2
        <5>2. p.time \in Nat /\ e.time <= p.time
          BY <2>1, TimeAssumption DEF TypeOK, Entries
        <5> QED
          BY <2>1, <4>1, <4>2, <5>1, <5>2 DEF Kept
      <4>3. CASE ~(\E p \in prices : p.type = e.type /\ p.zone = e.zone)
        BY <2>1, <4>1, <4>3 DEF Kept
      <4> QED
        BY <4>2, <4>3
    <3> QED
      BY <2>1, <3>1, <3>2 DEF NewestPriceKept
  <2> QED
    BY <2>3, <2>4
<1>3. ASSUME NEW r \in Regions, NEW t \in Types, FetchScores(r, t)
      PROVE  KeyedInv' /\ NewestPriceKept'
  <2>1. PICK f \in [open \cap ZonesOf(r) -> Option(Levels)] :
          scores' = scores \cup
            {s \in Scores : s.type = t /\ s.zone \in DOMAIN f /\ s.level \in f[s.zone]}
    BY <1>3 DEF FetchScores
  <2>2. t \in unscored /\ unscored' = unscored \ {t} /\ UNCHANGED <<prices, heard>>
    BY <1>3 DEF FetchScores
  <2>3. ASSUME NEW s \in Scores, NEW u \in Scores, s.type = t, u.type = t,
               s.zone = u.zone, s.zone \in DOMAIN f,
               s.level \in f[s.zone], u.level \in f[u.zone]
        PROVE  s = u
    <3>1. s.level = u.level
      BY <2>3 DEF Option
    <3> QED
      BY <2>3, <3>1 DEF Scores
  <2>4. \A s \in scores : s.type # t
    BY <2>2 DEF KeyedInv
  <2>5. \A s, u \in scores' : s.type = u.type /\ s.zone = u.zone => s = u
    BY <2>1, <2>3, <2>4 DEF KeyedInv
  <2> QED
    BY <2>1, <2>2, <2>5 DEF KeyedInv, NewestPriceKept
<1>4. ASSUME NEW r \in Regions, NEW t \in Types, ScoresFail(r, t)
      PROVE  KeyedInv' /\ NewestPriceKept'
  BY <1>4 DEF ScoresFail, KeyedInv, NewestPriceKept
<1>5. CASE UNCHANGED <<prices, heard, scores, unscored>>
  BY <1>5 DEF KeyedInv, NewestPriceKept
<1> QED
  BY <1>1, <1>2, <1>3, <1>4, <1>5
  DEF Next, vars, regional, ResolveRegions, Finish, Fail, ResolveZones, FetchOfferings,
      PricesRead, BuildItems, SkipRegion

(* Every variable keeps its type, however many regions, zones and types there *)
(* are and in whatever order they are visited.                               *)
THEOREM SpotQueryTypes == Spec => []TypeOK
  BY SpotStart, SpotTypes, PTL DEF Spec, SpotInv

(* The price of an item is the newest EC2 listed for it.                     *)
THEOREM NewestPriceIsKept == Spec => []NewestPriceKept
<1>1. Init => TypeOK /\ KeyedInv /\ NewestPriceKept
  BY SpotStart DEF SpotInv
<1> QED
  BY <1>1, SpotTypes, KeyedStep, PTL DEF Spec

-----------------------------------------------------------------------------
(* The region being visited stays one that is no longer to do.               *)
LEMMA RegionStep ==
  ASSUME TypeOK, RegionInv, [Next]_vars
  PROVE  RegionInv'
<1>1. CASE NextRegion
  BY <1>1 DEF NextRegion, RegionInv, TypeOK, At, Visiting
<1>2. CASE ResolveRegions \/ Finish \/ Fail \/ UNCHANGED vars
  BY <1>2 DEF ResolveRegions, Finish, Fail, vars, RegionInv, Visiting, At
<1>3. ASSUME NEW r \in Regions,
             \/ ResolveZones(r) \/ FetchOfferings(r) \/ ReadPrice(r) \/ PricesRead(r)
             \/ BuildItems(r) \/ SkipRegion(r)
             \/ \E t \in Types : FetchScores(r, t) \/ ScoresFail(r, t)
      PROVE  RegionInv'
  <2>1. /\ Visiting /\ pc' \notin {"Regions", "done"}
        /\ UNCHANGED <<region, listed, todo>>
    BY <1>3 DEF ResolveZones, FetchOfferings, ReadPrice, PricesRead, BuildItems,
                SkipRegion, FetchScores, ScoresFail, Visiting, At
  <2> QED
    BY <2>1 DEF RegionInv, At
<1> QED
  BY <1>1, <1>2, <1>3 DEF Next

(* A warning stays.                                                          *)
LEMMA SkippedStays ==
  ASSUME warnings \subseteq warnings'
  PROVE  \A r : Skipped(r) => Skipped(r)'
  BY DEF Skipped

(* A region that is left out has its warning.                                *)
LEMMA SkippedNow ==
  ASSUME NEW r \in Regions, SkipRegion(r)
  PROVE  Skipped(r)'
<1>1. PICK code \in {"MARKET_REGION_SKIPPED", "MARKET_BATCH_SKIPPED"} :
        [code |-> code, region |-> r] \in warnings'
  BY DEF SkipRegion
<1>2. [code |-> code, region |-> r] \in RegionWarnings
  BY DEF RegionWarnings
<1> QED
  BY <1>1, <1>2 DEF Skipped

(* Of the zones of a region, only its own visit tells.                       *)
LEMMA OtherZonesStay ==
  ASSUME NEW r, NEW q, q # r, UNCHANGED <<asked, all, items>>,
         \E zones \in SUBSET ZonesOf(r) : open' = open \cup zones
  PROVE  Complete(q) => Complete(q)'
<1>1. open' \cap ZonesOf(q) = open \cap ZonesOf(q)
  BY DEF ZonesOf
<1> QED
  BY <1>1 DEF Complete, Selected, Requested, ItemsFor

(* What the code takes to be of the region of a zone, and asks for it, is    *)
(* what can be understood.                                                   *)
LEMMA UnderstoodAreRequested ==
  ASSUME asked \subseteq Tokens, NEW z \in Zones
  PROVE  {NameKey(z), IdKey(z)} \cap Requested(RegionOf[z]) # {}
           <=> \E t \in asked : t.zone = z /\ Understood(t)
<1>1. ASSUME NEW t \in asked, t.zone = z
      PROVE  /\ Understood(t) <=> ~PassedOver(Trimmed(t), RegionOf[z])
             /\ KeyOfToken(t) \in {NameKey(z), IdKey(z)}
  <2>1. t \in Tokens /\ t.by \in {"name", "id"} /\ t.form \in {"plain", "upper", "padded"}
    BY DEF Tokens
  <2>2. /\ Trimmed(t).by = t.by /\ Trimmed(t).zone = z
        /\ Trimmed(t).form = IF t.form = "padded" THEN "plain" ELSE t.form
    BY <1>1, <2>1 DEF Trimmed, Tokens
  <2>3. Understood(t) <=> ~PassedOver(Trimmed(t), RegionOf[z])
    BY <1>1, <2>1, <2>2 DEF Understood, PassedOver, LooksLikeZone, BeginsWith
  <2> QED
    BY <1>1, <2>1, <2>3 DEF KeyOfToken, NameKey, IdKey
<1>2. ASSUME NEW t \in asked, KeyOfToken(t) \in {NameKey(z), IdKey(z)}
      PROVE  t.zone = z
  BY <1>2 DEF KeyOfToken, NameKey, IdKey
<1> QED
  BY <1>1, <1>2 DEF Requested

(* There is exactly one item for a wanted zone and a type: its price and its *)
(* status are determined.                                                    *)
LEMMA OneItem ==
  ASSUME TypeOK, KeyedInv, NEW r, NEW zones \in SUBSET Zones,
         NEW z \in Selected(r, zones), NEW t \in Types
  PROVE  \E i \in Items : {j \in SpotItems(r, zones) : j.type = t /\ j.zone = z} = {i}
<1> DEFINE scored == {s \in scores : s.type = t /\ s.zone = z}
           price == {e.time : e \in {p \in prices : p.type = t /\ p.zone = z}}
<1>1. z \in Zones
  BY DEF Selected
<1>2. price \in Option(Times)
  <2>1. CASE \E p \in prices : p.type = t /\ p.zone = z
    <3>1. PICK p \in prices : p.type = t /\ p.zone = z
      BY <2>1
    <3>2. price = {p.time}
      BY <3>1 DEF KeyedInv
    <3>3. p.time \in Times
      BY DEF TypeOK, Entries
    <3> QED
      BY <3>2, <3>3 DEF Option
  <2>2. CASE ~(\E p \in prices : p.type = t /\ p.zone = z)
    <3>1. price = {}
      BY <2>2
    <3> QED
      BY <3>1 DEF Option
  <2> QED
    BY <2>1, <2>2
<1>3. \E x \in Levels \cup {"available", "unavailable"} : Status(t, z) = {x}
  <2>1. CASE <<t, z>> \notin offerings
    BY <2>1 DEF Status
  <2>2. CASE <<t, z>> \in offerings /\ scored = {}
    BY <2>2 DEF Status
  <2>3. CASE <<t, z>> \in offerings /\ scored # {}
    <3>1. PICK s \in scored : TRUE
      BY <2>3
    <3>2. scored = {s}
      BY <3>1 DEF KeyedInv
    <3>3. Status(t, z) = {s.level} /\ s.level \in Levels
      BY <2>3, <3>2 DEF Status, TypeOK, Scores
    <3> QED
      BY <3>3
  <2> QED
    BY <2>1, <2>2, <2>3
<1>4. PICK x \in Levels \cup {"available", "unavailable"} : Status(t, z) = {x}
  BY <1>3
<1> DEFINE listedThere == (<<t, z>> \in offerings)
           item == [type |-> t, zone |-> z, offered |-> listedThere, price |-> price,
                    status |-> x]
<1>5. listedThere \in BOOLEAN
  OBVIOUS
<1> HIDE DEF price, listedThere
<1>6. item \in Items
  BY <1>1, <1>2, <1>5 DEF Items
<1>7. item \in SpotItems(r, zones)
  BY <1>4, <1>6 DEF SpotItems, price, listedThere
<1>8. ASSUME NEW j \in SpotItems(r, zones), j.type = t, j.zone = z
      PROVE  j = item
  <2>1. j \in Items
    BY DEF SpotItems
  <2>2. j.offered = listedThere /\ j.price = price /\ j.status = x
    BY <1>4, <1>8 DEF SpotItems, price, listedThere
  <2> QED
    BY <1>8, <2>1, <2>2 DEF Items
<1> QED
  BY <1>6, <1>7, <1>8

(* The items of a region are put together in one step, when it has none.     *)
LEMMA BuildCompletes ==
  ASSUME SpotInv, NEW r \in Regions, BuildItems(r)
  PROVE  ItemsInv'
<1> DEFINE mine == open \cap ZonesOf(r)
<1>1. /\ pc = "Scores" /\ region = {r} /\ pc' = "Top" /\ items' = items \cup SpotItems(r, mine)
      /\ UNCHANGED <<asked, all, listed, todo, region, open, warnings>>
  BY DEF BuildItems, At, In, request
<1>2. r \in listed \ todo
  BY <1>1 DEF SpotInv, RegionInv, Visiting
<1>3. \A q : Passed(q)' <=> (Passed(q) \/ q = r)
  BY <1>1, <1>2 DEF Passed, Visiting, In
<1>4. \A i \in SpotItems(r, mine) :
         RegionOf[i.zone] = r /\ i.zone \in open /\ IsWanted(i.zone)
  BY DEF SpotItems, Selected, ZonesOf, IsWanted
<1>5. \A i \in items : /\ RegionOf[i.zone] # r /\ Passed(RegionOf[i.zone])
                       /\ i.zone \in open /\ IsWanted(i.zone)
  BY <1>1 DEF SpotInv, ItemsInv, Passed, Visiting, In
<1>6. ASSUME NEW i \in items'
      PROVE  (Passed(RegionOf[i.zone]) /\ i.zone \in open /\ IsWanted(i.zone))'
  <2>1. /\ Passed(RegionOf[i.zone]) \/ RegionOf[i.zone] = r
        /\ i.zone \in open /\ IsWanted(i.zone)
    BY <1>1, <1>4, <1>5
  <2>2. IsWanted(i.zone)'
    BY <1>1, <2>1 DEF IsWanted, Requested
  <2> QED
    BY <1>1, <1>3, <2>1, <2>2
<1>7. ASSUME NEW q \in Regions, q # r, Passed(q)'
      PROVE  Skipped(q)' \/ Complete(q)'
  <2>1. Skipped(q) \/ Complete(q)
    BY <1>1, <1>3, <1>7 DEF SpotInv, ItemsInv
  <2>2. ASSUME Complete(q)
        PROVE  Complete(q)'
    <3>1. ASSUME NEW z \in Selected(q, open \cap ZonesOf(q)), NEW t \in Types
          PROVE  ItemsFor(z, t)' = ItemsFor(z, t)
      <4>1. RegionOf[z] = q
        BY DEF Selected, ZonesOf
      <4>2. \A i \in SpotItems(r, mine) : i.zone # z
        BY <1>4, <1>7, <4>1
      <4> QED
        BY <1>1, <4>2 DEF ItemsFor
    <3>2. Selected(q, open \cap ZonesOf(q))' = Selected(q, open \cap ZonesOf(q))
      BY <1>1 DEF Selected, Requested
    <3> QED
      BY <2>2, <3>1, <3>2 DEF Complete
  <2> QED
    BY <1>1, <2>1, <2>2 DEF Skipped
<1>8. Complete(r)'
  <2>1. Selected(r, open \cap ZonesOf(r))' = Selected(r, mine)
    BY <1>1 DEF Selected, Requested
  <2>2. ASSUME NEW z \in Selected(r, mine), NEW t \in Types
        PROVE  \E i \in Items : ItemsFor(z, t)' = {i}
    <3>1. RegionOf[z] = r
      BY DEF Selected, ZonesOf
    <3>2. ItemsFor(z, t)' = {j \in SpotItems(r, mine) : j.type = t /\ j.zone = z}
      BY <1>1, <1>5, <3>1 DEF ItemsFor
    <3>3. mine \in SUBSET Zones
      BY DEF ZonesOf
    <3> QED
      BY <3>2, <3>3, OneItem DEF SpotInv
  <2> QED
    BY <2>1, <2>2 DEF Complete
<1> QED
  BY <1>6, <1>7, <1>8 DEF ItemsInv

(* A step that builds no items: what a region is through with stays.         *)
LEMMA ItemsStay ==
  ASSUME ItemsInv, pc # "failed", UNCHANGED <<asked, all, items>>,
         warnings \subseteq warnings', open \subseteq open',
         \A q : Passed(q) => Passed(q)',
         \A q \in Regions : Passed(q)' => Passed(q) \/ Skipped(q)',
         \A q \in Regions : Passed(q) /\ Complete(q) => Complete(q)'
  PROVE  ItemsInv'
<1>1. ASSUME NEW i \in items'
      PROVE  (Passed(RegionOf[i.zone]) /\ i.zone \in open /\ IsWanted(i.zone))'
  <2>1. Passed(RegionOf[i.zone]) /\ i.zone \in open /\ IsWanted(i.zone)
    BY <1>1 DEF ItemsInv
  <2>2. \A q : q = RegionOf[i.zone] => Passed(q)'
    BY <2>1
  <2>3. IsWanted(i.zone)'
    BY <2>1 DEF IsWanted, Requested
  <2> QED
    BY <2>1, <2>2, <2>3
<1>2. ASSUME NEW q \in Regions, Passed(q)'
      PROVE  Skipped(q)' \/ Complete(q)'
  BY <1>2, SkippedStays DEF ItemsInv
<1> QED
  BY <1>1, <1>2 DEF ItemsInv

(* Every step keeps account of the regions the loop is through with.         *)
LEMMA ItemsStep ==
  ASSUME SpotInv, [Next]_vars
  PROVE  ItemsInv'
<1>0. \A q : Complete(q) /\ UNCHANGED <<asked, all, items, open>> => Complete(q)'
  BY DEF Complete, Selected, Requested, ItemsFor
<1>1. CASE ResolveRegions
  <2>1. ~\E q \in Regions : Passed(q)'
    BY <1>1 DEF ResolveRegions, Passed
  <2>2. items = {}
    BY <1>1 DEF ResolveRegions, At, SpotInv, ItemsInv, Passed, RegionInv
  <2> QED
    BY <1>1, <2>1, <2>2 DEF ResolveRegions, ItemsInv
<1>2. CASE NextRegion
  <2>1. PICK r \in todo : region' = {r} /\ todo' = todo \ {r}
    BY <1>2 DEF NextRegion
  <2>2. /\ pc = "Top" /\ pc' = "Zones"
        /\ UNCHANGED <<asked, all, items, open, listed, warnings>>
    BY <1>2 DEF NextRegion, At, request
  <2>3. \A q : Passed(q)' <=> Passed(q)
    BY <2>1, <2>2 DEF Passed, Visiting, In
  <2> QED
    BY <1>0, <2>2, <2>3, ItemsStay DEF SpotInv
<1>3. CASE Fail
  BY <1>3 DEF Fail, ItemsInv
<1>4. CASE Finish
  <2>1. \A q : Passed(q)' <=> Passed(q)
    BY <1>4 DEF Finish, At, Passed, Visiting
  <2> QED
    BY <1>0, <1>4, <2>1, ItemsStay DEF SpotInv, Finish, At, request
<1>5. ASSUME NEW r \in Regions, ResolveZones(r)
      PROVE  ItemsInv'
  <2>1. /\ pc = "Zones" /\ pc' = "Offerings" /\ region = {r}
        /\ \E zones \in SUBSET ZonesOf(r) : open' = open \cup zones
        /\ warnings \subseteq warnings'
        /\ UNCHANGED <<asked, all, items, region, listed, todo>>
    BY <1>5 DEF ResolveZones, At, In, request
  <2>2. \A q : Passed(q)' <=> Passed(q)
    BY <2>1 DEF Passed, Visiting, In
  <2>3. \A q \in Regions : Passed(q) /\ Complete(q) => Complete(q)'
    <3>1. \A q : Passed(q) => q # r
      BY <2>1 DEF Passed, Visiting, In
    <3> QED
      BY <2>1, <3>1, OtherZonesStay
  <2> QED
    BY <2>1, <2>2, <2>3, ItemsStay DEF SpotInv
<1>6. ASSUME NEW r \in Regions,
             \/ FetchOfferings(r) \/ ReadPrice(r) \/ PricesRead(r)
             \/ \E t \in Types : FetchScores(r, t) \/ ScoresFail(r, t)
      PROVE  ItemsInv'
  <2>1. /\ Visiting /\ Visiting' /\ warnings \subseteq warnings' /\ pc # "failed"
        /\ UNCHANGED <<asked, all, items, open, region, listed, todo>>
    BY <1>6 DEF FetchOfferings, ReadPrice, PricesRead, FetchScores, ScoresFail,
                Visiting, At, request, regional
  <2>2. \A q : Passed(q)' <=> Passed(q)
    BY <2>1 DEF Passed, In
  <2> QED
    BY <1>0, <2>1, <2>2, ItemsStay DEF SpotInv
<1>7. ASSUME NEW r \in Regions, SkipRegion(r)
      PROVE  ItemsInv'
  <2>1. /\ Visiting /\ pc' = "Top" /\ region = {r} /\ pc # "failed"
        /\ warnings \subseteq warnings'
        /\ UNCHANGED <<asked, all, items, open, region, listed, todo>>
    BY <1>7 DEF SkipRegion, Visiting, In, request
  <2>2. Skipped(r)'
    BY <1>7, SkippedNow
  <2>3. \A q : Passed(q) => Passed(q)'
    BY <2>1 DEF Passed, Visiting
  <2>4. \A q : Passed(q)' => Passed(q) \/ q = r
    BY <2>1 DEF Passed, In
  <2>5. \A q : q = r => Skipped(q)'
    BY <2>2
  <2> QED
    BY <1>0, <2>1, <2>3, <2>4, <2>5, ItemsStay DEF SpotInv
<1>8. CASE UNCHANGED vars
  <2>1. \A q : Passed(q)' <=> Passed(q)
    BY <1>8 DEF vars, Passed, Visiting, In
  <2> QED
    BY <1>0, <1>8, <2>1, ItemsStay DEF SpotInv, vars, request, ItemsInv
<1> QED
  BY <1>1, <1>2, <1>3, <1>4, <1>5, <1>6, <1>7, <1>8, BuildCompletes
  DEF Next

(* Every step keeps account of the zones that were asked for.                *)
LEMMA ZonesStep ==
  ASSUME SpotInv, [Next]_vars
  PROVE  ZonesInv'
<1>1. CASE Fail
  BY <1>1 DEF Fail, ZonesInv
<1>2. ASSUME NEW r \in Regions, ResolveZones(r)
      PROVE  ZonesInv'
  <2>1. PICK zones \in SUBSET ZonesOf(r) :
          open' = open \cup zones /\ warnings' = warnings \cup NotFound(r, zones)
    BY <1>2 DEF ResolveZones
  <2>2. /\ pc = "Zones" /\ pc' = "Offerings" /\ region = {r}
        /\ UNCHANGED <<asked, all, region, listed, todo>>
    BY <1>2 DEF ResolveZones, At, In, request
  <2>3. ASSUME ~all, NEW t \in asked, IsNamed(t), RegionOf[t.zone] \in listed \ todo
        PROVE  \/ Skipped(RegionOf[t.zone])' \/ t.zone \in open' \/ NotFoundTold(t)'
    <3>1. CASE RegionOf[t.zone] = r
      <4>1. CASE t.zone \in zones
        BY <2>1, <4>1
      <4>2. CASE t.zone \notin zones
        <5>1. KeyOfToken(t) \notin Seen(r, zones)
          BY <4>2 DEF Seen, KeyOfToken
        <5>2. t \in Tokens
          BY DEF SpotInv, TypeOK
        <5>3. ~PassedOver(t, r)
          BY <2>3, <3>1, <5>2
          DEF IsNamed, Understood, PassedOver, LooksLikeZone, BeginsWith, Tokens
        <5>4. [code |-> "AZ_NOT_FOUND", region |-> r, token |-> t] \in NotFound(r, zones)
          BY <2>3, <5>1, <5>3 DEF NotFound
        <5> QED
          BY <2>1, <3>1, <5>4 DEF NotFoundTold
      <4> QED
        BY <4>1, <4>2
    <3>2. CASE RegionOf[t.zone] # r
      <4>1. Skipped(RegionOf[t.zone]) \/ t.zone \in open \/ NotFoundTold(t)
        BY <2>2, <2>3, <3>2 DEF SpotInv, ZonesInv, In
      <4>2. \A q : Skipped(q) => Skipped(q)'
        BY <2>1, SkippedStays
      <4> QED
        BY <2>1, <4>1, <4>2 DEF NotFoundTold
    <3> QED
      BY <3>1, <3>2
  <2> QED
    BY <2>2, <2>3 DEF ZonesInv
<1>3. ASSUME NEW r \in Regions, SkipRegion(r)
      PROVE  ZonesInv'
  <2>1. /\ pc # "failed" /\ region = {r} /\ warnings \subseteq warnings'
        /\ UNCHANGED <<asked, all, open, listed, todo>>
    BY <1>3 DEF SkipRegion, In, request
  <2>2. Skipped(r)'
    BY <1>3, SkippedNow
  <2>3. ASSUME ~all, NEW t \in asked, IsNamed(t), RegionOf[t.zone] \in listed \ todo
        PROVE  \/ Skipped(RegionOf[t.zone])' \/ t.zone \in open' \/ NotFoundTold(t)'
    <3>1. CASE RegionOf[t.zone] = r
      BY <2>2, <3>1
    <3>2. CASE RegionOf[t.zone] # r
      <4>1. Skipped(RegionOf[t.zone]) \/ t.zone \in open \/ NotFoundTold(t)
        BY <2>1, <2>3, <3>2 DEF SpotInv, ZonesInv, In
      <4> QED
        BY <2>1, <4>1, SkippedStays DEF NotFoundTold
    <3> QED
      BY <3>1, <3>2
  <2> QED
    BY <2>1, <2>3 DEF ZonesInv
<1>4. CASE NextRegion
  BY <1>4 DEF NextRegion, SpotInv, ZonesInv, At, In, Skipped, NotFoundTold, request
<1>5. CASE ResolveRegions
  BY <1>5 DEF ResolveRegions, ZonesInv
<1>6. CASE Finish \/ UNCHANGED vars
  BY <1>6 DEF Finish, vars, SpotInv, ZonesInv, At, In, Skipped, NotFoundTold, request
<1>7. ASSUME NEW r \in Regions,
             \/ FetchOfferings(r) \/ ReadPrice(r) \/ PricesRead(r) \/ BuildItems(r)
             \/ \E t \in Types : FetchScores(r, t) \/ ScoresFail(r, t)
      PROVE  ZonesInv'
  <2>1. /\ pc \notin {"failed", "Zones"} /\ warnings \subseteq warnings'
        /\ UNCHANGED <<asked, all, open, region, listed, todo>>
    BY <1>7 DEF FetchOfferings, ReadPrice, PricesRead, BuildItems, FetchScores, ScoresFail,
                At, request, regional
  <2>2. ASSUME ~all, NEW t \in asked, IsNamed(t), RegionOf[t.zone] \in listed \ todo
        PROVE  \/ Skipped(RegionOf[t.zone])' \/ t.zone \in open' \/ NotFoundTold(t)'
    <3>1. Skipped(RegionOf[t.zone]) \/ t.zone \in open \/ NotFoundTold(t)
      BY <2>1, <2>2 DEF SpotInv, ZonesInv, At
    <3> QED
      BY <2>1, <3>1, SkippedStays DEF NotFoundTold
  <2> QED
    BY <2>1, <2>2 DEF ZonesInv
<1> QED
  BY <1>1, <1>2, <1>3, <1>4, <1>5, <1>6, <1>7 DEF Next

(* All of it holds in every state of a call.                                 *)
LEMMA SpotAlways == Spec => []SpotInv
<1>1. SpotInv /\ [Next]_vars => SpotInv'
  BY SpotTypes, KeyedStep, RegionStep, ItemsStep, ZonesStep DEF SpotInv
<1> QED
  BY <1>1, SpotStart, PTL DEF Spec

(* An answer is complete or says what it lacks: every wanted zone of a region *)
(* has exactly one item for each type, unless a warning says that the region *)
(* was skipped, and no item is of another zone.  Wanted are the zones given  *)
(* by a name or an id the code does not take for another region's            *)
(* (GetSpotData, buildSpotItems, locations.go:278).                          *)
THEOREM EveryRegionTold == Spec => []RegionsTold
<1>1. ASSUME SpotInv, At("done"), NEW r \in listed, ~Skipped(r),
             NEW z \in WantedZones(r), NEW t \in Types
      PROVE  Cardinality({i \in items : i.type = t /\ i.zone = z}) = 1
  <2>1. r \in Regions /\ todo = {} /\ z \in Zones /\ RegionOf[z] = r
    BY <1>1 DEF SpotInv, TypeOK, RegionInv, WantedZones
  <2>2. z \in Selected(r, open \cap ZonesOf(r))
    BY <1>1, <2>1, UnderstoodAreRequested
    DEF SpotInv, TypeOK, WantedZones, Selected, ZonesOf
  <2>3. Complete(r)
    BY <1>1, <2>1 DEF SpotInv, ItemsInv, Passed, Visiting, At
  <2>4. PICK i \in Items : ItemsFor(z, t) = {i}
    BY <2>2, <2>3 DEF Complete
  <2> QED
    BY <2>4, FS_Singleton DEF ItemsFor
<1>2. ASSUME SpotInv, At("done"), NEW i \in items
      PROVE  i.zone \in WantedZones(RegionOf[i.zone])
  <2>1. i.zone \in Zones /\ i.zone \in open /\ IsWanted(i.zone)
    BY <1>2 DEF SpotInv, TypeOK, Items, ItemsInv, At
  <2> QED
    BY <1>2, <2>1, UnderstoodAreRequested DEF SpotInv, TypeOK, IsWanted, WantedZones
<1>3. SpotInv => RegionsTold
  BY <1>1, <1>2 DEF RegionsTold
<1> QED
  BY <1>3, SpotAlways, PTL

(* A zone that was asked for and is not in the answer is named in a warning, *)
(* by whichever of its two names it was asked for, when its region was looked *)
(* at, but for what the code takes for another region's: ids of local zones, *)
(* names in upper case or after a blank (selectAvailabilityZones,            *)
(* locations.go:327).                                                        *)
THEOREM EveryZoneTold == Spec => []ZonesTold
<1>1. SpotInv => ZonesTold
  BY DEF SpotInv, RegionInv, ZonesInv, ZonesTold, IsNamed, At, NotFoundTold
<1> QED
  BY <1>1, SpotAlways, PTL

-----------------------------------------------------------------------------
(* The catalog: what its files say.                                          *)

(* The records of the two files that have been read.                         *)
MetadataRead == {i \in DOMAIN metadataFile : i <= read}
RegionsRead == {i \in DOMAIN regionFile : Len(metadataFile) + i <= read}
IsUsable(r) == r.type # Blank /\ r.code # Blank

(* The files are of those there may be, and as much of them is read.         *)
FilesInv ==
  /\ metadataFile \in MetadataFiles /\ regionFile \in RegionFiles
  /\ read \in 0..Len(metadataFile) + Len(regionFile)

(* Every type read has its one record, and no other type has.                *)
MetadataInv ==
  /\ \A m, n \in metadataByType : m.type = n.type => m = n
  /\ \A m \in metadataByType :
       m.type # Blank /\ \E i \in MetadataRead : metadataFile[i] = m
  /\ \A i \in MetadataRead : metadataFile[i].type # Blank =>
       \E m \in metadataByType : m.type = metadataFile[i].type

(* Every type read for a region has its one record, and no other.            *)
OffersInv ==
  /\ \A r, s \in regionsByType : r.type = s.type /\ r.code = s.code => r = s
  /\ \A r \in regionsByType :
       IsUsable(r) /\ \E i \in RegionsRead : regionFile[i] = r
  /\ \A i \in RegionsRead : IsUsable(regionFile[i]) => IsSeen(regionFile[i])

(* Every region read with a name has one, and one it was read with.          *)
NamesInv ==
  /\ \A m, n \in regionNames : m.code = n.code => m = n
  /\ \A n \in regionNames :
       \E i \in RegionsRead :
         /\ IsUsable(regionFile[i]) /\ regionFile[i].name # Blank
         /\ n = [code |-> regionFile[i].code, name |-> regionFile[i].name]
  /\ \A i \in RegionsRead :
       IsUsable(regionFile[i]) /\ regionFile[i].name # Blank =>
         \E n \in regionNames : n.code = regionFile[i].code

(* An answer is that of the whole catalog.                                   *)
AnswerTo(call, q, matching) ==
  [call |-> call, filters |-> q, items |-> {m.type : m \in matching},
   told |-> MissingTypes(q)]
ListAnswer(q) ==
  AnswerTo("list", q, {m \in metadataByType : MatchesInstanceFilters(m, q)})
InfoAnswer(q) ==
  AnswerTo("info", q, {m \in metadataByType : MatchesInfoFilters(m, q)})
ReplyInv ==
  reply # NoReply =>
    Ready /\ \E q \in Filters : reply \in {ListAnswer(q), InfoAnswer(q)}

CatalogInv == FilesInv /\ MetadataInv /\ OffersInv /\ NamesInv

-----------------------------------------------------------------------------
(* The elements of a sequence over a set are in it.                          *)
LEMMA ElementType ==
  ASSUME NEW T, NEW f \in Seq(T), NEW i \in DOMAIN f
  PROVE  f[i] \in T
  OBVIOUS

(* What the files may say has its types.                                     *)
LEMMA FileTypes ==
  ASSUME FilesInv
  PROVE  /\ metadataFile \in Seq([type: Spellings, series: SeriesNames,
               generation: Generations, architectures: SUBSET Architectures])
         /\ regionFile \in Seq([type: Spellings, code: Codes, name: Names])
         /\ Len(metadataFile) \in Nat /\ Len(regionFile) \in Nat /\ read \in Nat
<1>1. /\ metadataFile \in Seq([type: Spellings, series: SeriesNames,
            generation: Generations, architectures: SUBSET Architectures])
      /\ regionFile \in Seq([type: Spellings, code: Codes, name: Names])
  BY FileAssumption DEF FilesInv
<1>2. Len(metadataFile) \in Nat /\ Len(regionFile) \in Nat
  BY <1>1
<1> QED
  BY <1>1, <1>2 DEF FilesInv

(* The next record of the metadata is read.                                  *)
LEMMA MetadataStep ==
  ASSUME CatalogInv, ReadMetadata
  PROVE  CatalogInv'
<1> DEFINE r == metadataFile[read + 1]
<1>1. /\ read < Len(metadataFile) /\ read' = read + 1
      /\ metadataByType' = IF r.type = Blank THEN metadataByType
                           ELSE {m \in metadataByType : m.type # r.type} \cup {r}
      /\ UNCHANGED <<metadataFile, regionFile, regionsByType, regionNames>>
  BY DEF ReadMetadata
<1>2. /\ metadataFile \in Seq([type: Spellings, series: SeriesNames,
            generation: Generations, architectures: SUBSET Architectures])
      /\ Len(metadataFile) \in Nat /\ Len(regionFile) \in Nat /\ read \in Nat
  BY FileTypes DEF CatalogInv
<1>3. read + 1 \in DOMAIN metadataFile
  BY <1>1, <1>2
<1>4. MetadataRead' = MetadataRead \cup {read + 1}
  BY <1>1, <1>2, <1>3 DEF MetadataRead
<1>5. RegionsRead = {} /\ RegionsRead' = {}
  <2>1. regionFile \in Seq([type: Spellings, code: Codes, name: Names])
    BY FileTypes DEF CatalogInv
  <2> QED
    BY <1>1, <1>2, <2>1 DEF RegionsRead
<1>6. FilesInv'
  BY <1>1, <1>2 DEF CatalogInv, FilesInv
<1>7. MetadataInv'
  <2> HIDE DEF r
  <2>1. \A m, n \in metadataByType' : m.type = n.type => m = n
    BY <1>1 DEF CatalogInv, MetadataInv
  <2>2. \A m \in metadataByType' :
          m.type # Blank /\ \E i \in MetadataRead' : metadataFile'[i] = m
    <3>1. metadataFile[read + 1] = r
      BY DEF r
    <3> QED
      BY <1>1, <1>4, <3>1 DEF CatalogInv, MetadataInv
  <2>3. \A i \in MetadataRead' : metadataFile'[i].type # Blank =>
          \E m \in metadataByType' : m.type = metadataFile'[i].type
    <3>1. metadataFile[read + 1] = r
      BY DEF r
    <3> QED
      BY <1>1, <1>4, <3>1 DEF CatalogInv, MetadataInv
  <2> QED
    BY <2>1, <2>2, <2>3 DEF MetadataInv
<1>8. OffersInv' /\ NamesInv'
  BY <1>1, <1>5 DEF CatalogInv, OffersInv, NamesInv, IsSeen, IsUsable
<1> QED
  BY <1>6, <1>7, <1>8 DEF CatalogInv

(* The next record of the regions is read.                                   *)
LEMMA RegionStepOfFile ==
  ASSUME CatalogInv, ReadRegion
  PROVE  CatalogInv'
<1> DEFINE k == read + 1 - Len(metadataFile)
           r == regionFile[k]
<1>1. /\ Len(metadataFile) <= read /\ read < Len(metadataFile) + Len(regionFile)
      /\ read' = read + 1
      /\ regionNames' = IF ~IsUsable(r) THEN regionNames ELSE NamesWith(r)
      /\ regionsByType' = IF ~IsUsable(r) \/ IsSeen(r) THEN regionsByType
                          ELSE regionsByType \cup {r}
      /\ UNCHANGED <<metadataFile, regionFile, metadataByType>>
  BY DEF ReadRegion, RegionRecord, IsUsable
<1>2. /\ regionFile \in Seq([type: Spellings, code: Codes, name: Names])
      /\ metadataFile \in Seq([type: Spellings, series: SeriesNames,
            generation: Generations, architectures: SUBSET Architectures])
      /\ Len(metadataFile) \in Nat /\ Len(regionFile) \in Nat /\ read \in Nat
  BY FileTypes DEF CatalogInv
<1>3. k \in DOMAIN regionFile /\ k \in Nat /\ Len(metadataFile) + k = read + 1
  BY <1>1, <1>2
<1> HIDE DEF k
<1>4. RegionsRead' = RegionsRead \cup {k}
  BY <1>1, <1>2, <1>3 DEF RegionsRead
<1>5. MetadataRead' = MetadataRead
  BY <1>1, <1>2 DEF MetadataRead
<1>6. FilesInv'
  BY <1>1, <1>2 DEF CatalogInv, FilesInv
<1>7. MetadataInv'
  BY <1>1, <1>5 DEF CatalogInv, MetadataInv
<1>8. regionFile[k] = r
  OBVIOUS
<1> HIDE DEF r
<1>9. OffersInv'
  <2>1. \A s, u \in regionsByType' : s.type = u.type /\ s.code = u.code => s = u
    BY <1>1 DEF CatalogInv, OffersInv, IsSeen
  <2>2. \A s \in regionsByType' :
          IsUsable(s) /\ \E i \in RegionsRead' : regionFile'[i] = s
    BY <1>1, <1>4, <1>8 DEF CatalogInv, OffersInv
  <2>3. \A s : IsSeen(s) => IsSeen(s)'
    BY <1>1 DEF IsSeen
  <2>4. \A i \in RegionsRead' : IsUsable(regionFile'[i]) =>
          \E s \in regionsByType' :
            s.type = regionFile'[i].type /\ s.code = regionFile'[i].code
    <3>1. IsUsable(r) => \E s \in regionsByType' : s.type = r.type /\ s.code = r.code
      BY <1>1 DEF IsSeen
    <3> QED
      BY <1>1, <1>4, <1>8, <3>1 DEF CatalogInv, OffersInv, IsSeen
  <2> QED
    BY <2>1, <2>2, <2>4 DEF OffersInv, IsSeen, IsUsable
<1>10. NamesInv'
  <2>1. \A m, n \in regionNames' : m.code = n.code => m = n
    BY <1>1 DEF CatalogInv, NamesInv, NamesWith
  <2>2. \A n \in regionNames' :
          \E i \in RegionsRead' :
            /\ IsUsable(regionFile'[i]) /\ regionFile'[i].name # Blank
            /\ n = [code |-> regionFile'[i].code, name |-> regionFile'[i].name]
    BY <1>1, <1>4, <1>8 DEF CatalogInv, NamesInv, NamesWith
  <2>3. \A i \in RegionsRead' :
          IsUsable(regionFile'[i]) /\ regionFile'[i].name # Blank =>
            \E n \in regionNames' : n.code = regionFile'[i].code
    <3>1. regionNames \subseteq regionNames'
      BY <1>1 DEF NamesWith
    <3>2. ASSUME IsUsable(r), r.name # Blank
          PROVE  \E n \in regionNames' : n.code = r.code
      <4>1. CASE \E n \in regionNames : n.code = r.code
        BY <3>1, <4>1
      <4>2. CASE ~\E n \in regionNames : n.code = r.code
        <5>1. [code |-> r.code, name |-> r.name] \in regionNames'
          BY <1>1, <3>2, <4>2 DEF NamesWith
        <5> QED
          BY <5>1
      <4> QED
        BY <4>1, <4>2
    <3> QED
      BY <1>1, <1>4, <1>8, <3>1, <3>2 DEF CatalogInv, NamesInv
  <2> QED
    BY <2>1, <2>2, <2>3 DEF NamesInv, IsUsable
<1> QED
  BY <1>6, <1>7, <1>9, <1>10 DEF CatalogInv

(* Nothing else touches the catalog.                                         *)
LEMMA CatalogStays ==
  ASSUME CatalogInv,
         UNCHANGED <<metadataFile, regionFile, read, metadataByType, regionsByType,
                     regionNames>>
  PROVE  CatalogInv'
  BY DEF CatalogInv, FilesInv, MetadataInv, OffersInv, NamesInv, MetadataRead, RegionsRead,
         IsSeen, IsUsable

(* A catalog starts with no record read.                                     *)
LEMMA CatalogStart == CatalogInit => CatalogInv /\ ReplyInv
<1> SUFFICES ASSUME CatalogInit PROVE CatalogInv /\ ReplyInv
  OBVIOUS
<1>1. FilesInv
  BY FileAssumption DEF CatalogInit, FilesInv
<1>2. /\ metadataFile \in Seq([type: Spellings, series: SeriesNames,
            generation: Generations, architectures: SUBSET Architectures])
      /\ regionFile \in Seq([type: Spellings, code: Codes, name: Names])
      /\ Len(metadataFile) \in Nat
  BY <1>1, FileTypes
<1>3. MetadataRead = {} /\ RegionsRead = {}
  BY <1>2 DEF CatalogInit, MetadataRead, RegionsRead
<1> QED
  BY <1>1, <1>3 DEF CatalogInit, CatalogInv, MetadataInv, OffersInv, NamesInv, ReplyInv

(* Every step keeps the catalog and the answer true to the files.            *)
LEMMA CatalogStep ==
  ASSUME CatalogInv, ReplyInv, [CatalogNext]_catalogVars
  PROVE  CatalogInv' /\ ReplyInv'
<1>1. CASE ReadMetadata \/ ReadRegion
  <2>1. ~Ready /\ UNCHANGED reply
    <3>1. Len(metadataFile) \in Nat /\ Len(regionFile) \in Nat /\ read \in Nat
      BY FileTypes DEF CatalogInv
    <3> QED
      BY <1>1, <3>1 DEF ReadMetadata, ReadRegion, Ready
  <2>2. ReplyInv'
    BY <2>1 DEF ReplyInv
  <2> QED
    BY <1>1, <2>2, MetadataStep, RegionStepOfFile
<1>2. ASSUME NEW q \in Filters, ListInstanceTypes(q) \/ GetInstanceTypeInfo(q)
      PROVE  CatalogInv' /\ ReplyInv'
  <2>1. /\ Ready /\ UNCHANGED <<metadataFile, regionFile, read, metadataByType,
                               regionsByType, regionNames>>
        /\ reply' \in {ListAnswer(q), InfoAnswer(q)}
    BY <1>2 DEF ListInstanceTypes, GetInstanceTypeInfo, Reply, ListAnswer, InfoAnswer, AnswerTo
  <2>2. ListAnswer(q)' = ListAnswer(q) /\ InfoAnswer(q)' = InfoAnswer(q) /\ Ready'
    BY <2>1 DEF ListAnswer, InfoAnswer, AnswerTo, MissingTypes, MatchesInstanceFilters,
                MatchesInfoFilters, SupportsRegion, Ready
  <2> QED
    BY <2>1, <2>2, CatalogStays DEF ReplyInv
<1>3. CASE UNCHANGED catalogVars
  <2>1. UNCHANGED <<metadataFile, regionFile, read, metadataByType, regionsByType,
                    regionNames, reply>>
    BY <1>3 DEF catalogVars
  <2>2. \A q : ListAnswer(q)' = ListAnswer(q) /\ InfoAnswer(q)' = InfoAnswer(q)
    BY <2>1 DEF ListAnswer, InfoAnswer, AnswerTo, MissingTypes, MatchesInstanceFilters,
                MatchesInfoFilters, SupportsRegion
  <2>3. Ready' = Ready
    BY <2>1 DEF Ready
  <2> QED
    BY <2>1, <2>2, <2>3, CatalogStays DEF ReplyInv
<1> QED
  BY <1>1, <1>2, <1>3 DEF CatalogNext

(* It holds in every state, whatever the files say.                          *)
LEMMA CatalogAlways == CatalogSpec => [](CatalogInv /\ ReplyInv)
  BY CatalogStart, CatalogStep, PTL DEF CatalogSpec

(* All records of the files are read when a call answers.                    *)
LEMMA AllRead ==
  ASSUME CatalogInv, Ready
  PROVE  MetadataRead = DOMAIN metadataFile /\ RegionsRead = DOMAIN regionFile
<1>1. /\ metadataFile \in Seq([type: Spellings, series: SeriesNames,
            generation: Generations, architectures: SUBSET Architectures])
      /\ regionFile \in Seq([type: Spellings, code: Codes, name: Names])
      /\ Len(metadataFile) \in Nat /\ Len(regionFile) \in Nat
  BY FileTypes DEF CatalogInv
<1>2. DOMAIN metadataFile = 1..Len(metadataFile) /\ DOMAIN regionFile = 1..Len(regionFile)
  BY <1>1
<1>3. \A i \in 1..Len(metadataFile) : i <= read
  BY <1>1 DEF Ready
<1>4. \A i \in 1..Len(regionFile) : Len(metadataFile) + i <= read
  BY <1>1 DEF Ready
<1> QED
  BY <1>2, <1>3, <1>4 DEF MetadataRead, RegionsRead

(* The catalog has the types of the metadata, but the blank one.             *)
LEMMA CatalogHas ==
  ASSUME CatalogInv, Ready
  PROVE  /\ \A m \in metadataByType : m.type \in Spellings \ {Blank} /\ InFile(m.type)
         /\ \A s \in Spellings \ {Blank} : InFile(s) => \E m \in metadataByType : m.type = s
<1>1. metadataFile \in Seq([type: Spellings, series: SeriesNames,
        generation: Generations, architectures: SUBSET Architectures])
  BY FileTypes DEF CatalogInv
<1>2. ASSUME NEW m \in metadataByType
      PROVE  m.type \in Spellings \ {Blank} /\ InFile(m.type)
  <2>1. PICK i \in DOMAIN metadataFile : metadataFile[i] = m
    BY DEF CatalogInv, MetadataInv, MetadataRead
  <2>2. metadataFile[i] \in [type: Spellings, series: SeriesNames,
          generation: Generations, architectures: SUBSET Architectures]
    BY <1>1, ElementType
  <2> QED
    BY <2>1, <2>2 DEF CatalogInv, MetadataInv, InFile
<1>3. ASSUME NEW s \in Spellings \ {Blank}, InFile(s)
      PROVE  \E m \in metadataByType : m.type = s
  BY <1>3, AllRead DEF CatalogInv, MetadataInv, InFile
<1> QED
  BY <1>2, <1>3

(* And what the regions say of a type.                                       *)
LEMMA CatalogOffers ==
  ASSUME CatalogInv, Ready, NEW s \in Spellings \ {Blank}, NEW code
  PROVE  SupportsRegion(s, code) <=> code = Blank \/ OfferedIn(s, code)
<1>1. ASSUME code # Blank, SupportsRegion(s, code)
      PROVE  OfferedIn(s, code)
  BY <1>1 DEF SupportsRegion, OfferedIn, CatalogInv, OffersInv, RegionsRead
<1>2. ASSUME code # Blank, OfferedIn(s, code)
      PROVE  SupportsRegion(s, code)
  BY <1>2, AllRead DEF SupportsRegion, OfferedIn, CatalogInv, OffersInv, IsUsable, IsSeen
<1> QED
  BY <1>1, <1>2 DEF SupportsRegion

(* The catalog keeps its types, whatever is in its files.                    *)
THEOREM CatalogQueryTypes == CatalogSpec => []CatalogTypeOK
<1>1. CatalogInv /\ ReplyInv => CatalogTypeOK
  <2> SUFFICES ASSUME CatalogInv, ReplyInv PROVE CatalogTypeOK
    OBVIOUS
  <2>1. ASSUME reply # NoReply
        PROVE  reply.items \subseteq Spellings \ {Blank} /\ reply.told \subseteq Spellings \ {Blank}
    <3>1. PICK q \in Filters : reply \in {ListAnswer(q), InfoAnswer(q)}
      BY <2>1 DEF ReplyInv
    <3>2. q.types \in Seq(Spellings)
      BY FilterAssumption
    <3>3. reply.told = MissingTypes(q)
      BY <3>1 DEF ListAnswer, InfoAnswer, AnswerTo
    <3>4. MissingTypes(q) \subseteq Spellings \ {Blank}
      BY <3>2 DEF MissingTypes
    <3>5. \A s \in reply.items : \E m \in metadataByType : m.type = s
      BY <3>1 DEF ListAnswer, InfoAnswer, AnswerTo
    <3> QED
      BY <2>1, <3>3, <3>4, <3>5, CatalogHas DEF ReplyInv
  <2> QED
    BY <2>1 DEF CatalogTypeOK, CatalogInv, FilesInv, MetadataInv, OffersInv, NamesInv
<1> QED
  BY <1>1, CatalogAlways, PTL

(* Every region any usable record names has a name of its own.               *)
THEOREM EveryNameKnown == CatalogSpec => []NamesKnown
<1>1. CatalogInv => NamesKnown
  <2> SUFFICES ASSUME CatalogInv, Ready PROVE NamesKnown
    BY DEF NamesKnown
  <2> DEFINE Titles(code) ==
        {regionFile[i].name : i \in {j \in DOMAIN regionFile :
           regionFile[j].code = code /\ regionFile[j].type # Blank}} \ {Blank}
  <2>1. RegionsRead = DOMAIN regionFile
    BY AllRead
  <2>2. ASSUME NEW n \in regionNames
        PROVE  n.code # Blank /\ n.name \in Titles(n.code)
    <3>1. PICK i \in RegionsRead :
            /\ IsUsable(regionFile[i]) /\ regionFile[i].name # Blank
            /\ n = [code |-> regionFile[i].code, name |-> regionFile[i].name]
      BY DEF CatalogInv, NamesInv
    <3>2. n.code = regionFile[i].code /\ n.name = regionFile[i].name
      BY <3>1
    <3> QED
      BY <2>1, <3>1, <3>2 DEF IsUsable
  <2>3. ASSUME NEW code \in Codes \ {Blank}, NEW name \in Titles(code)
        PROVE  \E n \in regionNames : n.code = code
    <3>1. PICK i \in DOMAIN regionFile :
            /\ regionFile[i].code = code /\ regionFile[i].type # Blank
            /\ regionFile[i].name = name /\ name # Blank
      BY <2>3
    <3> QED
      BY <2>1, <3>1 DEF CatalogInv, NamesInv, IsUsable
  <2>4. ASSUME NEW r \in regionsByType, r.name # Blank
        PROVE  \E n \in regionNames : n.code = r.code
    BY <2>1, <2>4 DEF CatalogInv, OffersInv, NamesInv
  <2>5. \A code \in Codes \ {Blank} :
          Titles(code) # {} <=> \E n \in regionNames : n.code = code
    <3>1. ASSUME NEW code \in Codes \ {Blank}, Titles(code) # {}
          PROVE  \E n \in regionNames : n.code = code
      BY <2>3, <3>1
    <3>2. ASSUME NEW code \in Codes \ {Blank}, NEW n \in regionNames, n.code = code
          PROVE  Titles(code) # {}
      BY <2>2, <3>2
    <3> QED
      BY <3>1, <3>2
  <2> QED
    BY <2>2, <2>4, <2>5 DEF NamesKnown
<1> QED
  BY <1>1, CatalogAlways, PTL

(* The types asked for that a call warns about are those the files lack.     *)
LEMMA ToldAreMissing ==
  ASSUME CatalogInv, Ready, NEW q \in Filters, NEW i \in DOMAIN q.types, q.types[i] # Blank
  PROVE  q.types[i] \in MissingTypes(q)
           <=> \A s \in Spellings : InFile(s) => KeyOf[s] # KeyOf[q.types[i]]
<1>1. q.types[i] \in Spellings /\ KeyOf[q.types[i]] # Blank /\ KeyOf[Blank] = Blank
  BY FilterAssumption, SpellingAssumption
<1>2. q.types[i] \in MissingTypes(q)
        <=> \A m \in metadataByType : KeyOf[m.type] # KeyOf[q.types[i]]
  BY DEF MissingTypes
<1>3. ASSUME NEW m \in metadataByType, KeyOf[m.type] = KeyOf[q.types[i]]
      PROVE  \E s \in Spellings : InFile(s) /\ KeyOf[s] = KeyOf[q.types[i]]
  BY <1>3, CatalogHas
<1>4. ASSUME NEW s \in Spellings, InFile(s), KeyOf[s] = KeyOf[q.types[i]]
      PROVE  \E m \in metadataByType : KeyOf[m.type] = KeyOf[q.types[i]]
  <2>1. s # Blank
    BY <1>1, <1>4
  <2> QED
    BY <1>4, <2>1, CatalogHas
<1> QED
  BY <1>2, <1>3, <1>4

(* Either call answers for the files, in whatever order their records come:  *)
(* what is listed, and which types are warned about.                         *)
THEOREM AnswersAreTheFiles == CatalogSpec => []AnswersTheFiles
<1>1. CatalogInv /\ ReplyInv => AnswersTheFiles
  <2> SUFFICES ASSUME CatalogInv, ReplyInv, reply # NoReply PROVE AnswersTheFiles
    BY DEF AnswersTheFiles
  <2> DEFINE q == reply.filters
             Asked(s) == Keys(q.types) \subseteq {Blank} \/ KeyOf[s] \in Keys(q.types)
             bare == q.series = {} /\ q.generation = Blank /\ q.architectures = {}
             InRegion(s) == q.region = Blank \/ OfferedIn(s, q.region)
             Matching(m) == IF reply.call = "list" THEN MatchesInstanceFilters(m, q)
                                                   ELSE MatchesInfoFilters(m, q)
             more == {m.type : m \in {n \in metadataByType : MatchesInfoFilters(n, q)}}
  <2>1. Ready
    BY DEF ReplyInv
  <2>2. /\ q \in Filters /\ reply.told = MissingTypes(q)
        /\ reply.items = {m.type : m \in {n \in metadataByType : Matching(n)}}
        /\ reply.call \in {"list", "info"}
    <3>1. PICK p \in Filters : reply \in {ListAnswer(p), InfoAnswer(p)}
      BY DEF ReplyInv
    <3>2. CASE reply = ListAnswer(p)
      BY <3>2 DEF ListAnswer, AnswerTo
    <3>3. CASE reply = InfoAnswer(p)
      BY <3>3 DEF InfoAnswer, AnswerTo
    <3> QED
      BY <3>1, <3>2, <3>3
  <2> HIDE DEF q
  <2>3. \A m : Matching(m) => MatchesInfoFilters(m, q)
    BY DEF MatchesInstanceFilters, MatchesInfoFilters
  <2>4. \A m \in metadataByType : m.type \in Spellings \ {Blank} /\ InFile(m.type)
    BY <2>1, CatalogHas
  <2>5. ASSUME NEW m \in metadataByType, MatchesInfoFilters(m, q)
        PROVE  Asked(m.type) /\ InRegion(m.type)
    <3>1. SupportsRegion(m.type, q.region) /\ Passes(KeyOf[m.type], Keys(q.types))
      BY <2>5 DEF MatchesInfoFilters
    <3> QED
      BY <2>1, <2>4, <3>1, CatalogOffers DEF Passes
  <2>6. ASSUME bare, NEW s \in Spellings \ {Blank}, InFile(s), Asked(s), InRegion(s)
        PROVE  s \in reply.items
    <3>1. PICK m \in metadataByType : m.type = s
      BY <2>1, <2>6, CatalogHas
    <3>2. KeyOf[s] # Blank
      BY SpellingAssumption
    <3>3. SupportsRegion(m.type, q.region)
      BY <2>1, <2>6, <3>1, CatalogOffers
    <3>4. Passes(KeyOf[m.type], Keys(q.types)) /\ Passes(m.series, q.series)
      BY <2>6, <3>1, <3>2 DEF Passes
    <3>5. Matching(m)
      BY <2>6, <3>3, <3>4 DEF MatchesInstanceFilters, MatchesInfoFilters
    <3> QED
      BY <2>2, <3>1, <3>5
  <2>7. reply.items \subseteq more
    BY <2>2, <2>3
  <2>8. ASSUME reply.call = "info" \/ (q.generation = Blank /\ q.architectures \subseteq {Blank})
        PROVE  reply.items = more
    <3>1. \A m : Matching(m) <=> MatchesInfoFilters(m, q)
      BY <2>2, <2>8 DEF MatchesInstanceFilters, MatchesInfoFilters
    <3> HIDE DEF Matching
    <3> QED
      BY <2>2, <3>1
  <2>9. \A s \in reply.items : InFile(s) /\ Asked(s) /\ InRegion(s)
    <3>1. \A s \in more : InFile(s) /\ Asked(s) /\ InRegion(s)
      BY <2>4, <2>5
    <3> QED
      BY <2>7, <3>1
  <2>10. \A i \in DOMAIN q.types : q.types[i] # Blank =>
           (q.types[i] \in reply.told
              <=> \A s \in Spellings : InFile(s) => KeyOf[s] # KeyOf[q.types[i]])
    BY <2>1, <2>2, ToldAreMissing
  <2> QED
    BY <2>6, <2>7, <2>8, <2>9, <2>10 DEF AnswersTheFiles, q
<1> QED
  BY <1>1, CatalogAlways, PTL

-----------------------------------------------------------------------------
(* GetInstancePrices.                                                        *)

OnePriceEach(map) == \A p, r \in map : KeyOf[p.type] = KeyOf[r.type] => p = r
HasPriceOf(map, o) == \E p \in map : KeyOf[p.type] = KeyOf[o.type]

(* The prices found so far: those of the batches before, and of this one.    *)
SoFar == results \cup (IF place = "page" THEN found ELSE {})

(* What a document said of a type is among the prices found so far, with one *)
(* price for each type of a batch and of those before it.                    *)
GatherInv ==
  /\ OnePriceEach(found) /\ OnePriceEach(results)
  /\ found \subseteq offered /\ results \subseteq offered
  /\ place = "items" => offered = {}
  /\ place \in {"batch", "page"} => \A o \in offered : HasPriceOf(SoFar, o)

(* The answer is what was found of the types wanted.                         *)
AnswerInv ==
  place = "done" =>
    /\ missing = Unpriced(priced) /\ priced \subseteq offered /\ OnePriceEach(priced)
    /\ \A o \in offered : KeyOf[o.type] \in Keys(wanted) => HasPriceOf(priced, o)

PriceInv == GatherInv /\ AnswerInv

(* A map that takes the prices of another has theirs, and keeps its own of   *)
(* other types.                                                              *)
LEMMA WithPrices ==
  ASSUME NEW map, NEW new, OnePriceEach(map), OnePriceEach(new)
  PROVE  /\ OnePriceEach(With(map, new))
         /\ With(map, new) \subseteq map \cup new
         /\ \A o : HasPriceOf(map, o) \/ HasPriceOf(new, o) => HasPriceOf(With(map, new), o)
<1>1. OnePriceEach(With(map, new)) /\ With(map, new) \subseteq map \cup new
  BY DEF With, OnePriceEach
<1>2. ASSUME NEW o, HasPriceOf(new, o)
      PROVE  HasPriceOf(With(map, new), o)
  BY <1>2 DEF With, HasPriceOf
<1>3. ASSUME NEW o, HasPriceOf(map, o), ~HasPriceOf(new, o)
      PROVE  HasPriceOf(With(map, new), o)
  BY <1>3 DEF With, HasPriceOf
<1> QED
  BY <1>1, <1>2, <1>3

(* The next document, which may replace a price of this batch.               *)
LEMMA DocumentStep ==
  ASSUME PriceInv, ReadDocument
  PROVE  PriceInv'
<1>1. PICK d \in Documents :
        LET new == IF Usable(d) THEN {[type |-> d.type, amount |-> d.amount]} ELSE {} IN
          found' = With(found, new) /\ offered' = offered \cup new
  BY DEF ReadDocument
<1> DEFINE new == IF Usable(d) THEN {[type |-> d.type, amount |-> d.amount]} ELSE {}
<1>2. found' = With(found, new) /\ offered' = offered \cup new
  BY <1>1
<1>3. OnePriceEach(new)
  BY DEF OnePriceEach
<1> HIDE DEF new
<1>4. place = "page" /\ place' = "page" /\ UNCHANGED results
  BY DEF ReadDocument
<1>5. /\ OnePriceEach(found') /\ found' \subseteq found \cup new
      /\ \A o : HasPriceOf(found, o) \/ HasPriceOf(new, o) => HasPriceOf(found', o)
  BY <1>2, <1>3, WithPrices DEF PriceInv, GatherInv
<1>6. ASSUME NEW o \in offered'
      PROVE  HasPriceOf(results \cup found', o)
  <2>1. HasPriceOf(found, o) \/ HasPriceOf(new, o) \/ HasPriceOf(results, o)
    <3>1. CASE o \in offered
      BY <1>4, <3>1 DEF PriceInv, GatherInv, SoFar, HasPriceOf
    <3>2. CASE o \in new
      BY <3>2 DEF HasPriceOf
    <3> QED
      BY <1>2, <3>1, <3>2
  <2> QED
    BY <1>5, <2>1 DEF HasPriceOf
<1>7. SoFar' = results \cup found'
  BY <1>4 DEF SoFar
<1> QED
  BY <1>2, <1>4, <1>5, <1>6, <1>7 DEF PriceInv, GatherInv, AnswerInv

(* The end of a batch: its prices join the others.                           *)
LEMMA BatchStep ==
  ASSUME PriceInv, EndBatch
  PROVE  PriceInv'
<1>1. /\ place = "page" /\ place' = "batch" /\ results' = With(results, found)
      /\ UNCHANGED <<found, offered>>
  BY DEF EndBatch
<1>2. /\ OnePriceEach(results') /\ results' \subseteq results \cup found
      /\ \A o : HasPriceOf(results, o) \/ HasPriceOf(found, o) => HasPriceOf(results', o)
  BY <1>1, WithPrices DEF PriceInv, GatherInv
<1>3. ASSUME NEW o \in offered'
      PROVE  HasPriceOf(results', o)
  <2>1. HasPriceOf(results, o) \/ HasPriceOf(found, o)
    BY <1>1 DEF PriceInv, GatherInv, SoFar, HasPriceOf
  <2> QED
    BY <1>2, <2>1
<1>4. SoFar' = results'
  BY <1>1 DEF SoFar
<1> QED
  BY <1>1, <1>2, <1>3, <1>4 DEF PriceInv, GatherInv, AnswerInv

(* The answer.                                                               *)
LEMMA ReturnStep ==
  ASSUME PriceInv, Return
  PROVE  PriceInv'
<1> DEFINE map == {p \in results : KeyOf[p.type] \in Keys(wanted)}
<1>1. /\ place = "batch" /\ place' = "done" /\ priced' = map /\ missing' = Unpriced(map)
      /\ UNCHANGED <<askedTypes, wanted, found, results, offered>>
  BY DEF Return, Answer, priceRequest
<1>2. missing' = Unpriced(priced)'
  BY <1>1 DEF Unpriced
<1>3. priced' \subseteq offered' /\ OnePriceEach(priced')
  BY <1>1 DEF PriceInv, GatherInv, OnePriceEach
<1>4. ASSUME NEW o \in offered', KeyOf[o.type] \in Keys(wanted)
      PROVE  HasPriceOf(priced', o)
  <2>1. HasPriceOf(results, o)
    BY <1>1 DEF PriceInv, GatherInv, SoFar
  <2> QED
    BY <1>1, <1>4, <2>1 DEF HasPriceOf
<1>5. AnswerInv'
  BY <1>1, <1>2, <1>3, <1>4 DEF AnswerInv
<1> QED
  BY <1>1, <1>5 DEF PriceInv, GatherInv

(* Every step keeps account of what the documents said.                      *)
LEMMA PriceStep ==
  ASSUME PriceInv, [PriceNext]_<<catalogVars, priceVars>>
  PROVE  PriceInv'
<1>1. CASE UNCHANGED priceVars
  BY <1>1 DEF priceVars, priceRequest, priceAnswer, PriceInv, GatherInv, AnswerInv, SoFar,
              Unpriced
<1>2. CASE OtherCurrency
  BY <1>2 DEF OtherCurrency, Answer, Unpriced, priceRequest, PriceInv, GatherInv, AnswerInv,
              OnePriceEach
<1>3. CASE ResolveItems
  <2>1. /\ place = "items" /\ UNCHANGED <<askedTypes, found, results, offered>>
        /\ \/ Answer({})
           \/ place' \in {"batch", "failed"}
    BY <1>3 DEF ResolveItems, priceRequest
  <2> QED
    BY <2>1 DEF Answer, Unpriced, PriceInv, GatherInv, AnswerInv, OnePriceEach
<1>4. CASE NextBatch
  BY <1>4 DEF NextBatch, PriceInv, GatherInv, AnswerInv, SoFar, OnePriceEach
<1>5. CASE PricesFail
  BY <1>5 DEF PricesFail, PriceInv, GatherInv, AnswerInv
<1> QED
  BY <1>1, <1>2, <1>3, <1>4, <1>5, DocumentStep, BatchStep, ReturnStep
  DEF PriceNext, GetInstancePrices

(* An answer has one price for every type wanted of which a document gave    *)
(* one, and warns about all others asked for and about no type it prices,    *)
(* whatever the batches, the pages and the spellings are.                    *)
THEOREM PricedOrNamedMissing == PriceSpec => []PricedOrMissing
<1>1. PriceInit => PriceInv
  BY DEF PriceInit, PriceInv, GatherInv, AnswerInv, OnePriceEach
<1>2. PriceInv => PricedOrMissing
  <2> SUFFICES ASSUME PriceInv, place = "done" PROVE PricedOrMissing
    BY DEF PricedOrMissing
  <2>1. ASSUME NEW o \in offered, KeyOf[o.type] \in Keys(wanted)
        PROVE  Cardinality({p \in priced : KeyOf[p.type] = KeyOf[o.type]}) = 1
    <3>1. PICK p \in priced : KeyOf[p.type] = KeyOf[o.type]
      BY <2>1 DEF PriceInv, AnswerInv, HasPriceOf
    <3>2. {r \in priced : KeyOf[r.type] = KeyOf[o.type]} = {p}
      BY <3>1 DEF PriceInv, AnswerInv, OnePriceEach
    <3> QED
      BY <3>2, FS_Singleton
  <2>2. \A i \in DOMAIN askedTypes :
          askedTypes[i] \in missing <=> \A p \in priced : KeyOf[p.type] # KeyOf[askedTypes[i]]
    BY DEF PriceInv, AnswerInv, Unpriced
  <2> QED
    BY <2>1, <2>2 DEF PricedOrMissing, PriceInv, AnswerInv
<1> QED
  BY <1>1, <1>2, PriceStep, PTL DEF PriceSpec

-----------------------------------------------------------------------------
(* Loops.  What a loop does for inputs of any length is proved by induction, *)
(* which here is that a set of numbers that leaves one out leaves out a      *)
(* least one.                                                                *)

(* A set of natural numbers has a least.                                     *)
LEMMA LeastNat ==
  ASSUME NEW T \in SUBSET Nat, T # {}
  PROVE  \E x \in T : \A y \in T : x <= y
<1> DEFINE R == OpToRel(<, Nat)
<1>1. IsWellFoundedOn(R, Nat)
  BY NatLessThanWellFounded, Zenon
<1>2. \E x \in T : \A y \in T : ~(<<y, x>> \in R)
  <2> HIDE DEF R
  <2> QED BY <1>1, WFMin
<1>3. R = {ss \in Nat \X Nat : ss[1] < ss[2]}
  BY Zenon DEF OpToRel
<1> HIDE DEF R
<1>4. PICK x \in T : \A y \in T : ~(<<y, x>> \in R)
  BY <1>2
<1>5. ASSUME NEW y \in T PROVE x <= y
  <2>1. ~(<<y, x>> \in {ss \in Nat \X Nat : ss[1] < ss[2]})
    BY <1>3, <1>4
  <2>2. <<y, x>> \in Nat \X Nat /\ <<y, x>>[1] = y /\ <<y, x>>[2] = x
    OBVIOUS
  <2> QED BY <2>1, <2>2
<1> QED BY <1>4, <1>5

(* What holds of 0, and of n + 1 where it holds of n, holds up to any limit. *)
LEMMA UpTo ==
  ASSUME NEW N \in Nat, NEW T, 0 \in T, \A n \in 0..N - 1 : n \in T => n + 1 \in T
  PROVE  0..N \subseteq T
<1> DEFINE Bad == {n \in 0..N : n \notin T}
<1>1. SUFFICES ASSUME Bad # {} PROVE FALSE
  OBVIOUS
<1>6. Bad \in SUBSET Nat
  OBVIOUS
<1>2. PICK m \in Bad : \A y \in Bad : m <= y
  <2> HIDE DEF Bad
  <2> QED BY <1>1, <1>6, LeastNat
<1>3. m \in 0..N /\ m \notin T /\ m # 0
  BY <1>2
<1>4. m - 1 \in 0..N - 1 /\ m - 1 \notin Bad
  BY <1>2, <1>3
<1>5. m - 1 \in T
  BY <1>3, <1>4
<1> QED BY <1>3, <1>4, <1>5

(* The histories of a loop of N rounds: its values after each of them.       *)
Runs(X, base, N, next) ==
  {g \in [0..N -> X] : g[0] = base /\ \A n \in 1..N : g[n] = next[<<g[n - 1], n>>]}

(* A loop has a history.                                                     *)
LEMMA Iterates ==
  ASSUME NEW X, NEW base \in X, NEW N \in Nat, NEW next \in [X \X (1..N) -> X]
  PROVE  Runs(X, base, N, next) # {}
<1> DEFINE Is(g, m) ==
             /\ g \in [0..m -> X] /\ g[0] = base
             /\ \A n \in 1..m : g[n] = next[<<g[n - 1], n>>]
           T == {m \in 0..N : \E g : Is(g, m)}
<1> HIDE DEF Is
<1>1. 0 \in T
  <2> DEFINE h == [n \in 0..0 |-> base]
  <2>1. h \in [0..0 -> X] /\ h[0] = base /\ 1..0 = {}
    OBVIOUS
  <2>2. Is(h, 0)
    BY <2>1 DEF Is
  <2> QED BY <2>2
<1>2. ASSUME NEW m \in 0..N - 1, m \in T PROVE m + 1 \in T
  <2>1. PICK g : Is(g, m)
    BY <1>2
  <2>0. /\ g \in [0..m -> X] /\ g[0] = base
        /\ \A n \in 1..m : g[n] = next[<<g[n - 1], n>>]
    BY <2>1 DEF Is
  <2> DEFINE h == [n \in 0..m + 1 |-> IF n <= m THEN g[n] ELSE next[<<g[m], m + 1>>]]
  <2>2. next[<<g[m], m + 1>>] \in X
    <3>1. g[m] \in X /\ m + 1 \in 1..N
      BY <2>0
    <3>2. <<g[m], m + 1>> \in X \X (1..N)
      BY <3>1
    <3> QED BY <3>2
  <2>3. h \in [0..m + 1 -> X] /\ h[0] = base
    BY <2>0, <2>2
  <2>4. ASSUME NEW n \in 1..m + 1 PROVE h[n] = next[<<h[n - 1], n>>]
    <3>1. n - 1 \in 0..m /\ n - 1 \in 0..m + 1 /\ n \in 0..m + 1 /\ n - 1 <= m
      OBVIOUS
    <3>2. h[n - 1] = g[n - 1]
      BY <3>1
    <3>3. CASE n <= m
      BY <2>0, <3>1, <3>2, <3>3
    <3>4. CASE n = m + 1
      BY <3>1, <3>2, <3>4
    <3> QED BY <3>3, <3>4
  <2> HIDE DEF h
  <2>5. Is(h, m + 1)
    BY <2>3, <2>4 DEF Is
  <2> QED BY <2>5
<1>3. N \in T
  <2> HIDE DEF T
  <2> QED BY <1>1, <1>2, UpTo
<1> QED BY <1>3 DEF Is, Runs

(* Two histories of one loop are the same as far as both go.                 *)
LEMMA SameLoop ==
  ASSUME NEW N \in Nat, NEW g, NEW h, g[0] = h[0],
         \A n \in 0..N - 1 : g[n] = h[n] => g[n + 1] = h[n + 1]
  PROVE  \A n \in 0..N : g[n] = h[n]
<1> DEFINE T == {n \in 0..N : g[n] = h[n]}
<1>1. 0 \in T
  OBVIOUS
<1>2. \A n \in 0..N - 1 : n \in T => n + 1 \in T
  OBVIOUS
<1> HIDE DEF T
<1>3. 0..N \subseteq T
  BY <1>1, <1>2, UpTo
<1> QED BY <1>3 DEF T

-----------------------------------------------------------------------------
(* The loops of GetInstancePrices: dedupeNormalizedStrings, the length of a  *)
(* joined filter, and chunkInstanceTypesForPricing.                          *)

(* The rounds of dedupeNormalizedStrings.                                    *)
LEMMA DedupeLoop ==
  ASSUME NEW s \in Seq(Spellings)
  PROVE  \E g \in [0..Len(s) -> Seq(Spellings)] :
           /\ g[0] = << >> /\ \A n \in 1..Len(s) : g[n] = Keep(g[n - 1], s[n])
           /\ Dedupe(s) = g[Len(s)]
<1> DEFINE N == Len(s)
           X == Seq(Spellings)
           Body(g) == [n \in 0..N |-> IF n = 0 THEN << >> ELSE Keep(g[n - 1], s[n])]
<1>0. N \in Nat /\ \A n \in 1..N : s[n] \in Spellings
  OBVIOUS
<1>1. ASSUME NEW x \in X, NEW n \in 1..N PROVE Keep(x, s[n]) \in X
  BY <1>0 DEF Keep
<1> DEFINE next == [x \in X \X (1..N) |-> Keep(x[1], s[x[2]])]
<1>2. next \in [X \X (1..N) -> X]
  BY <1>1
<1>3. << >> \in X
  OBVIOUS
<1> HIDE DEF X, N
<1>4. PICK g \in [0..N -> X] : g[0] = << >> /\ \A n \in 1..N : g[n] = next[<<g[n - 1], n>>]
  <2> HIDE DEF next
  <2>1. N \in Nat
    BY <1>0
  <2>2. Runs(X, << >>, N, next) # {}
    BY <1>2, <1>3, <2>1, Iterates
  <2> QED BY <2>2 DEF Runs
<1>5. ASSUME NEW n \in 1..N PROVE g[n] = Keep(g[n - 1], s[n])
  <2>1. g[n - 1] \in X
    BY <1>0
  <2>2. <<g[n - 1], n>> \in X \X (1..N)
    BY <2>1
  <2> QED BY <1>4, <2>2
<1>6. g = Body(g)
  BY <1>4, <1>5, <1>0
<1> DEFINE k == CHOOSE h : h = Body(h)
<1>7. Dedupe(s) = k[N]
  BY DEF Dedupe, N
<1>8. k = Body(k)
  <2> HIDE DEF Body
  <2> QED BY <1>6
<1> HIDE DEF k
<1>9. \A n \in 0..N : g[n] = k[n]
  <2>1. g[0] = k[0]
    BY <1>4, <1>8, <1>0
  <2>2. ASSUME NEW n \in 0..N - 1, g[n] = k[n] PROVE g[n + 1] = k[n + 1]
    <3>1. n + 1 \in 1..N /\ n + 1 \in 0..N /\ n + 1 # 0 /\ (n + 1) - 1 = n
      BY <1>0
    <3>2. k[n + 1] = Keep(k[n], s[n + 1])
      BY <1>8, <3>1
    <3>3. g[n + 1] = Keep(g[n], s[n + 1])
      BY <1>5, <3>1
    <3> QED BY <2>2, <3>2, <3>3
  <2> QED BY <1>0, <2>1, <2>2, SameLoop
<1>10. Dedupe(s) = g[N]
  BY <1>0, <1>7, <1>9
<1> QED BY <1>4, <1>5, <1>10 DEF N, X

(* The names of types.                                                       *)
Named == Spellings \ {Blank}

(* What is kept names each type once.                                        *)
LEMMA DedupeKeeps ==
  ASSUME NEW s \in Seq(Spellings)
  PROVE  /\ Dedupe(s) \in Seq(Named)
         /\ \A i, j \in DOMAIN Dedupe(s) :
              KeyOf[Dedupe(s)[i]] = KeyOf[Dedupe(s)[j]] => i = j
<1> DEFINE Distinct(k) == \A i, j \in DOMAIN k : KeyOf[k[i]] = KeyOf[k[j]] => i = j
<1>1. PICK g \in [0..Len(s) -> Seq(Spellings)] :
        /\ g[0] = << >> /\ \A n \in 1..Len(s) : g[n] = Keep(g[n - 1], s[n])
        /\ Dedupe(s) = g[Len(s)]
  BY DedupeLoop
<1> DEFINE T == {n \in 0..Len(s) : g[n] \in Seq(Named) /\ Distinct(g[n])}
<1>2. 0 \in T
  BY <1>1
<1>3. ASSUME NEW n \in 0..Len(s) - 1, n \in T PROVE n + 1 \in T
  <2>1. n + 1 \in 1..Len(s) /\ (n + 1) - 1 = n /\ s[n + 1] \in Spellings
    OBVIOUS
  <2>2. g[n + 1] = Keep(g[n], s[n + 1])
    BY <1>1, <2>1
  <2>3. g[n] \in Seq(Named) /\ Distinct(g[n])
    BY <1>3
  <2>4. CASE s[n + 1] = Blank \/ KeyOf[s[n + 1]] \in Keys(g[n])
    BY <2>1, <2>2, <2>3, <2>4 DEF Keep
  <2>5. CASE ~(s[n + 1] = Blank \/ KeyOf[s[n + 1]] \in Keys(g[n]))
    <3>1. g[n + 1] = Append(g[n], s[n + 1])
      BY <2>2, <2>5 DEF Keep
    <3>2. s[n + 1] \in Named
      BY <2>1, <2>5 DEF Named
    <3>3. g[n + 1] \in Seq(Named)
      BY <2>3, <3>1, <3>2
    <3>4. \A i \in DOMAIN g[n] : KeyOf[g[n][i]] # KeyOf[s[n + 1]]
      BY <2>5 DEF Keys
    <3>5. /\ DOMAIN g[n] = 1..Len(g[n]) /\ DOMAIN g[n + 1] = 1..Len(g[n]) + 1
          /\ Len(g[n]) \in Nat
          /\ \A i \in 1..Len(g[n]) : g[n + 1][i] = g[n][i]
          /\ g[n + 1][Len(g[n]) + 1] = s[n + 1]
      BY <2>3, <3>1, <3>2, AppendProperties
    <3>6. Distinct(g[n + 1])
      <4> SUFFICES ASSUME NEW i \in 1..Len(g[n]) + 1, NEW j \in 1..Len(g[n]) + 1,
                          KeyOf[g[n + 1][i]] = KeyOf[g[n + 1][j]]
                   PROVE  i = j
        BY <3>5
      <4>0. \A k \in 1..Len(g[n]) : KeyOf[g[n + 1][k]] # KeyOf[g[n + 1][Len(g[n]) + 1]]
        BY <3>4, <3>5
      <4>1. CASE i = Len(g[n]) + 1
        BY <3>5, <4>0, <4>1
      <4>2. CASE j = Len(g[n]) + 1
        BY <3>5, <4>0, <4>2
      <4>3. CASE i \in 1..Len(g[n]) /\ j \in 1..Len(g[n])
        BY <2>3, <3>5, <4>3
      <4> QED BY <3>5, <4>1, <4>2, <4>3
    <3> QED BY <2>1, <3>3, <3>6
  <2> QED BY <2>4, <2>5
<1> HIDE DEF T
<1>4. 0..Len(s) \subseteq T
  <2>1. Len(s) \in Nat
    OBVIOUS
  <2> QED BY <1>2, <1>3, <2>1, UpTo
<1>5. Len(s) \in T
  BY <1>4
<1> QED BY <1>1, <1>5 DEF T

(* The rounds of adding up the lengths of a batch.                           *)
LEMMA LengthLoop ==
  ASSUME NEW b \in Seq(Spellings)
  PROVE  \E g \in [0..Len(b) -> Int] :
           /\ g[0] = -1 /\ \A n \in 1..Len(b) : g[n] = g[n - 1] + 1 + LengthOf[b[n]]
           /\ JoinedLength(b) = g[Len(b)]
<1> DEFINE N == Len(b)
           Body(g) == [n \in 0..N |-> IF n = 0 THEN -1 ELSE g[n - 1] + 1 + LengthOf[b[n]]]
<1>0. N \in Nat /\ \A n \in 1..N : b[n] \in Spellings /\ LengthOf[b[n]] \in Int
  BY LengthAssumption
<1> DEFINE next == [x \in Int \X (1..N) |-> x[1] + 1 + LengthOf[b[x[2]]]]
<1>2. next \in [Int \X (1..N) -> Int]
  BY <1>0
<1>3. -1 \in Int
  OBVIOUS
<1> HIDE DEF N
<1>4. PICK g \in [0..N -> Int] : g[0] = -1 /\ \A n \in 1..N : g[n] = next[<<g[n - 1], n>>]
  <2> HIDE DEF next
  <2>1. N \in Nat
    BY <1>0
  <2>2. Runs(Int, -1, N, next) # {}
    BY <1>2, <1>3, <2>1, Iterates
  <2> QED BY <2>2 DEF Runs
<1>5. ASSUME NEW n \in 1..N PROVE g[n] = g[n - 1] + 1 + LengthOf[b[n]]
  <2>1. g[n - 1] \in Int
    BY <1>0
  <2>2. <<g[n - 1], n>> \in Int \X (1..N)
    BY <2>1
  <2> QED BY <1>4, <2>2
<1>6. g = Body(g)
  BY <1>4, <1>5, <1>0
<1> DEFINE k == CHOOSE h : h = Body(h)
<1>7. JoinedLength(b) = k[N]
  BY DEF JoinedLength, N
<1>8. k = Body(k)
  <2> HIDE DEF Body
  <2> QED BY <1>6
<1> HIDE DEF k
<1>9. \A n \in 0..N : g[n] = k[n]
  <2>1. g[0] = k[0]
    BY <1>4, <1>8, <1>0
  <2>2. ASSUME NEW n \in 0..N - 1, g[n] = k[n] PROVE g[n + 1] = k[n + 1]
    <3>1. n + 1 \in 1..N /\ n + 1 \in 0..N /\ n + 1 # 0 /\ (n + 1) - 1 = n
      BY <1>0
    <3>2. k[n + 1] = k[n] + 1 + LengthOf[b[n + 1]]
      BY <1>8, <3>1
    <3>3. g[n + 1] = g[n] + 1 + LengthOf[b[n + 1]]
      BY <1>5, <3>1
    <3> QED BY <2>2, <3>2, <3>3
  <2> QED BY <1>0, <2>1, <2>2, SameLoop
<1>10. JoinedLength(b) = g[N]
  BY <1>0, <1>7, <1>9
<1> QED BY <1>4, <1>5, <1>10 DEF N

(* The joined length of a batch of one is that of the one.                   *)
LEMMA LengthOfOne ==
  ASSUME NEW x \in Spellings
  PROVE  JoinedLength(<<x>>) = LengthOf[x]
<1>1. <<x>> \in Seq(Spellings) /\ Len(<<x>>) = 1 /\ <<x>>[1] = x /\ LengthOf[x] \in Int
  BY LengthAssumption
<1> DEFINE b == <<x>>
<1>2. b \in Seq(Spellings) /\ Len(b) = 1 /\ b[1] = x
  BY <1>1
<1> HIDE DEF b
<1>3. PICK g \in [0..Len(b) -> Int] :
        /\ g[0] = -1 /\ \A n \in 1..Len(b) : g[n] = g[n - 1] + 1 + LengthOf[b[n]]
        /\ JoinedLength(b) = g[Len(b)]
  BY <1>2, LengthLoop
<1>4. g[1] = g[0] + 1 + LengthOf[x]
  BY <1>2, <1>3
<1>5. JoinedLength(b) = LengthOf[x]
  BY <1>1, <1>2, <1>3, <1>4
<1> QED BY <1>5 DEF b

(* One more adds a comma and its own length.                                 *)
LEMMA LengthOfMore ==
  ASSUME NEW b \in Seq(Spellings), NEW x \in Spellings
  PROVE  /\ JoinedLength(Append(b, x)) = JoinedLength(b) + 1 + LengthOf[x]
         /\ JoinedLength(b) \in Int
<1> DEFINE c == Append(b, x)
           N == Len(b)
<1>1. /\ c \in Seq(Spellings) /\ Len(c) = N + 1 /\ N \in Nat
      /\ \A i \in 1..N : c[i] = b[i]
      /\ c[N + 1] = x
  BY AppendProperties
<1> HIDE DEF c
<1>2. PICK g \in [0..N -> Int] :
        /\ g[0] = -1 /\ \A n \in 1..N : g[n] = g[n - 1] + 1 + LengthOf[b[n]]
        /\ JoinedLength(b) = g[N]
  BY LengthLoop
<1>3. PICK h \in [0..N + 1 -> Int] :
        /\ h[0] = -1 /\ \A n \in 1..N + 1 : h[n] = h[n - 1] + 1 + LengthOf[c[n]]
        /\ JoinedLength(c) = h[N + 1]
  BY <1>1, LengthLoop
<1> HIDE DEF N
<1>4. \A n \in 0..N : g[n] = h[n]
  <2>1. g[0] = h[0]
    BY <1>2, <1>3
  <2>2. ASSUME NEW n \in 0..N - 1, g[n] = h[n] PROVE g[n + 1] = h[n + 1]
    <3>1. n + 1 \in 1..N /\ n + 1 \in 1..N + 1 /\ (n + 1) - 1 = n
      BY <1>1
    <3>2. g[n + 1] = g[n] + 1 + LengthOf[b[n + 1]]
      BY <1>2, <3>1
    <3>3. h[n + 1] = h[n] + 1 + LengthOf[c[n + 1]]
      BY <1>3, <3>1
    <3> QED BY <1>1, <2>2, <3>1, <3>2, <3>3
  <2>3. N \in Nat
    BY <1>1
  <2> QED BY <2>1, <2>2, <2>3, SameLoop
<1>5. N + 1 \in 1..N + 1 /\ (N + 1) - 1 = N /\ N \in 0..N
  BY <1>1
<1>6. h[N + 1] = h[N] + 1 + LengthOf[x]
  BY <1>1, <1>3, <1>5
<1>7. g[N] = h[N] /\ g[N] \in Int
  BY <1>4, <1>5
<1>8. JoinedLength(c) = JoinedLength(b) + 1 + LengthOf[x] /\ JoinedLength(b) \in Int
  BY <1>2, <1>3, <1>6, <1>7
<1> QED BY <1>8 DEF c

(* The rounds of putting sequences one behind the other.                     *)
LEMMA FlattenLoop ==
  ASSUME NEW E, NEW c \in Seq(Seq(E))
  PROVE  \E g \in [0..Len(c) -> Seq(E)] :
           /\ g[0] = << >> /\ \A n \in 1..Len(c) : g[n] = g[n - 1] \o c[n]
           /\ S!FlattenSeq(c) = g[Len(c)]
<1> DEFINE N == Len(c)
           X == Seq(E)
           Body(g) == [i \in 1..N |-> IF i = 1 THEN c[i] ELSE g[i - 1] \o c[i]]
<1>0. N \in Nat /\ \A n \in 1..N : c[n] \in X
  OBVIOUS
<1>1. ASSUME NEW x \in X, NEW n \in 1..N PROVE x \o c[n] \in X
  BY <1>0
<1> DEFINE next == [x \in X \X (1..N) |-> x[1] \o c[x[2]]]
<1>2. next \in [X \X (1..N) -> X]
  BY <1>1
<1>3. << >> \in X
  OBVIOUS
<1>e. \A x \in X : << >> \o x = x
  BY ConcatEmptySeq
<1> HIDE DEF X, N
<1>4. PICK g \in [0..N -> X] : g[0] = << >> /\ \A n \in 1..N : g[n] = next[<<g[n - 1], n>>]
  <2> HIDE DEF next
  <2>1. N \in Nat
    BY <1>0
  <2>2. Runs(X, << >>, N, next) # {}
    BY <1>2, <1>3, <2>1, Iterates
  <2> QED BY <2>2 DEF Runs
<1>5. ASSUME NEW n \in 1..N PROVE g[n] = g[n - 1] \o c[n]
  <2>1. g[n - 1] \in X
    BY <1>0
  <2>2. <<g[n - 1], n>> \in X \X (1..N)
    BY <2>1
  <2> QED BY <1>4, <2>2
<1>6. CASE N = 0
  <2>1. S!FlattenSeq(c) = c /\ c = << >>
    BY <1>6 DEF S!FlattenSeq, N
  <2> QED BY <1>4, <1>5, <1>6, <2>1 DEF N, X
<1>7. CASE N # 0
  <2> DEFINE f == [i \in 1..N |-> g[i]]
             k == CHOOSE h : h = Body(h)
  <2>1. f = Body(f)
    <3>1. ASSUME NEW i \in 1..N PROVE f[i] = IF i = 1 THEN c[i] ELSE f[i - 1] \o c[i]
      <4>1. CASE i = 1
        BY <1>0, <1>e, <1>4, <1>5, <4>1
      <4>2. CASE i # 1
        <5>1. i - 1 \in 1..N
          BY <1>0, <4>2
        <5> QED BY <1>5, <4>2, <5>1
      <4> QED BY <4>1, <4>2
    <3> QED BY <3>1
  <2>2. S!FlattenSeq(c) = k[N]
    BY <1>7 DEF S!FlattenSeq, N
  <2>3. k = Body(k)
    <3> HIDE DEF Body, f
    <3> QED BY <2>1
  <2> HIDE DEF k
  <2> DEFINE h == [n \in 0..N |-> IF n = 0 THEN << >> ELSE k[n]]
  <2>4. \A n \in 0..N : g[n] = h[n]
    <3>1. g[0] = h[0]
      BY <1>4, <1>0
    <3>2. ASSUME NEW n \in 0..N - 1, g[n] = h[n] PROVE g[n + 1] = h[n + 1]
      <4>1. n + 1 \in 1..N /\ n + 1 \in 0..N /\ n + 1 # 0 /\ (n + 1) - 1 = n /\ n \in 0..N
        BY <1>0
      <4>2. g[n + 1] = g[n] \o c[n + 1] /\ h[n + 1] = k[n + 1]
        BY <1>5, <4>1
      <4>3. CASE n = 0
        <5>1. k[1] = c[1]
          BY <2>3, <4>1, <4>3
        <5>2. 1 \in 1..N /\ n + 1 = 1 /\ 1 - 1 = 0
          BY <4>1, <4>3
        <5>3. g[1] = g[0] \o c[1] /\ c[1] \in X
          BY <1>0, <1>5, <5>2
        <5>4. g[1] = c[1]
          BY <1>4, <1>e, <5>3
        <5> QED BY <4>2, <5>1, <5>2, <5>4
      <4>4. CASE n # 0
        <5>0. n + 1 # 1 /\ (n + 1) - 1 = n
          BY <4>1, <4>4
        <5>1. k[n + 1] = k[n] \o c[n + 1]
          BY <2>3, <4>1, <5>0
        <5>2. h[n] = k[n]
          BY <4>1, <4>4
        <5> QED BY <3>2, <4>2, <5>1, <5>2
      <4> QED BY <4>3, <4>4
    <3> HIDE DEF h
    <3> QED BY <1>0, <3>1, <3>2, SameLoop
  <2>5. k[N] = g[N]
    BY <1>0, <1>7, <2>4
  <2> QED BY <1>4, <1>5, <2>2, <2>5 DEF N, X
<1> QED BY <1>6, <1>7

(* What a further one adds to those put one behind the other.                *)
LEMMA FlattenMore ==
  ASSUME NEW E, NEW c \in Seq(Seq(E)), NEW b \in Seq(E)
  PROVE  /\ S!FlattenSeq(c) \in Seq(E)
         /\ S!FlattenSeq(Append(c, b)) = S!FlattenSeq(c) \o b
<1> DEFINE d == Append(c, b)
           N == Len(c)
           X == Seq(E)
<1>1. /\ d \in Seq(X) /\ Len(d) = N + 1 /\ N \in Nat
      /\ \A i \in 1..N : d[i] = c[i]
      /\ d[N + 1] = b
  BY AppendProperties
<1> HIDE DEF d
<1>2. PICK g \in [0..N -> X] :
        /\ g[0] = << >> /\ \A n \in 1..N : g[n] = g[n - 1] \o c[n]
        /\ S!FlattenSeq(c) = g[N]
  BY FlattenLoop
<1>3. PICK h \in [0..N + 1 -> X] :
        /\ h[0] = << >> /\ \A n \in 1..N + 1 : h[n] = h[n - 1] \o d[n]
        /\ S!FlattenSeq(d) = h[N + 1]
  <2>1. \E h \in [0..Len(d) -> X] :
          /\ h[0] = << >> /\ \A n \in 1..Len(d) : h[n] = h[n - 1] \o d[n]
          /\ S!FlattenSeq(d) = h[Len(d)]
    BY <1>1, FlattenLoop
  <2> QED BY <1>1, <2>1
<1> HIDE DEF N, X
<1>4. \A n \in 0..N : g[n] = h[n]
  <2>1. g[0] = h[0]
    BY <1>2, <1>3
  <2>2. ASSUME NEW n \in 0..N - 1, g[n] = h[n] PROVE g[n + 1] = h[n + 1]
    <3>1. n + 1 \in 1..N /\ n + 1 \in 1..N + 1 /\ (n + 1) - 1 = n
      BY <1>1
    <3>2. g[n + 1] = g[n] \o c[n + 1]
      BY <1>2, <3>1
    <3>3. h[n + 1] = h[n] \o d[n + 1]
      BY <1>3, <3>1
    <3> QED BY <1>1, <2>2, <3>1, <3>2, <3>3
  <2>3. N \in Nat
    BY <1>1
  <2> QED BY <2>1, <2>2, <2>3, SameLoop
<1>5. N + 1 \in 1..N + 1 /\ (N + 1) - 1 = N /\ N \in 0..N
  BY <1>1
<1>6. h[N + 1] = h[N] \o b
  BY <1>1, <1>3, <1>5
<1>7. g[N] = h[N] /\ g[N] \in X
  BY <1>4, <1>5
<1>8. S!FlattenSeq(c) \in X /\ S!FlattenSeq(d) = S!FlattenSeq(c) \o b
  BY <1>2, <1>3, <1>6, <1>7
<1> QED BY <1>8 DEF d, X

(* Putting sequences one behind the other is associative.                    *)
LEMMA Behind ==
  ASSUME NEW E
  PROVE  \A x, y, z \in Seq(E) : (x \o y) \o z = x \o (y \o z)
OBVIOUS

(* The first of several goes before all that follow.                         *)
LEMMA FlattenTail ==
  ASSUME NEW E, NEW c \in Seq(Seq(E)), c # << >>
  PROVE  S!FlattenSeq(c) = Head(c) \o S!FlattenSeq(Tail(c))
<1>a. \A x, y, z \in Seq(E) : (x \o y) \o z = x \o (y \o z)
  BY Behind
<1> DEFINE t == Tail(c)
           N == Len(t)
           X == Seq(E)
<1>1. /\ t \in Seq(X) /\ Len(c) = N + 1 /\ N \in Nat /\ Head(c) = c[1] /\ c[1] \in X
      /\ \A i \in 1..N : t[i] = c[i + 1] /\ t[i] \in X
  BY HeadTailProperties
<1> HIDE DEF t
<1>2. PICK g \in [0..N -> X] :
        /\ g[0] = << >> /\ \A n \in 1..N : g[n] = g[n - 1] \o t[n]
        /\ S!FlattenSeq(t) = g[N]
  BY <1>1, FlattenLoop
<1>3. PICK h \in [0..N + 1 -> X] :
        /\ h[0] = << >> /\ \A n \in 1..N + 1 : h[n] = h[n - 1] \o c[n]
        /\ S!FlattenSeq(c) = h[N + 1]
  <2>1. \E h \in [0..Len(c) -> X] :
          /\ h[0] = << >> /\ \A n \in 1..Len(c) : h[n] = h[n - 1] \o c[n]
          /\ S!FlattenSeq(c) = h[Len(c)]
    BY <1>1, FlattenLoop
  <2> QED BY <1>1, <2>1
<1>e. \A x \in X : << >> \o x = x /\ x \o << >> = x
  BY ConcatEmptySeq
<1> HIDE DEF N, X
<1> DEFINE u == [n \in 0..N |-> c[1] \o g[n]]
           w == [n \in 0..N |-> h[n + 1]]
<1>4. \A n \in 0..N : u[n] = w[n]
  <2>1. u[0] = w[0]
    <3>0. 1 \in 1..N + 1 /\ 1 - 1 = 0 /\ 0 \in 0..N
      BY <1>1
    <3>1. h[1] = h[0] \o c[1]
      BY <1>3, <3>0
    <3>2. h[1] = c[1] /\ c[1] \o g[0] = c[1]
      BY <1>1, <1>2, <1>3, <1>e, <3>1
    <3> QED BY <3>0, <3>2
  <2>2. ASSUME NEW n \in 0..N - 1, u[n] = w[n] PROVE u[n + 1] = w[n + 1]
    <3>1. /\ n \in 0..N /\ n + 1 \in 0..N /\ n + 1 \in 1..N /\ n + 2 \in 1..N + 1
          /\ (n + 1) - 1 = n /\ (n + 2) - 1 = n + 1 /\ (n + 1) + 1 = n + 2
      BY <1>1
    <3>2. h[n + 2] = h[n + 1] \o c[n + 2] /\ g[n + 1] = g[n] \o t[n + 1]
      BY <1>2, <1>3, <3>1
    <3>3. t[n + 1] = c[n + 2] /\ t[n + 1] \in X /\ g[n] \in X
      BY <1>1, <3>1
    <3>4. h[n + 1] = c[1] \o g[n]
      BY <2>2, <3>1
    <3>5. h[n + 2] = c[1] \o g[n + 1]
      <4>1. h[n + 2] = (c[1] \o g[n]) \o t[n + 1]
        BY <3>2, <3>3, <3>4
      <4>2. (c[1] \o g[n]) \o t[n + 1] = c[1] \o (g[n] \o t[n + 1])
        BY <1>1, <1>a, <3>3 DEF X
      <4> QED BY <3>2, <4>1, <4>2
    <3> QED BY <3>1, <3>5
  <2>3. N \in Nat
    BY <1>1
  <2> HIDE DEF u, w
  <2> QED BY <2>1, <2>2, <2>3, SameLoop
<1>5. S!FlattenSeq(c) = c[1] \o S!FlattenSeq(t)
  <2>1. N \in 0..N /\ u[N] = w[N]
    BY <1>1, <1>4
  <2> QED BY <1>2, <1>3, <2>1
<1> QED BY <1>1, <1>5 DEF t

(* Types packed into batches.                                                *)
Packings == [full: Seq(Seq(Named)), batch: Seq(Named), length: Int]

(* The rounds of chunkInstanceTypesForPricing.                               *)
LEMMA PackLoop ==
  ASSUME NEW s \in Seq(Named)
  PROVE  \E g \in [0..Len(s) -> Packings] :
           /\ g[0] = Empty /\ \A n \in 1..Len(s) : g[n] = Pack(g[n - 1], s[n])
           /\ Chunks(s) = IF g[Len(s)].batch = << >> THEN g[Len(s)].full
                          ELSE Append(g[Len(s)].full, g[Len(s)].batch)
<1> DEFINE N == Len(s)
           X == Packings
           Body(g) == [n \in 0..N |-> IF n = 0 THEN Empty ELSE Pack(g[n - 1], s[n])]
<1>0. N \in Nat /\ \A n \in 1..N : s[n] \in Named
  OBVIOUS
<1>1. ASSUME NEW x \in X, NEW n \in 1..N PROVE Pack(x, s[n]) \in X
  <2>1. s[n] \in Named /\ LengthOf[s[n]] \in Int /\ <<s[n]>> \in Seq(Named)
    BY <1>0, LengthAssumption DEF Named
  <2>2. /\ x = [full |-> x.full, batch |-> x.batch, length |-> x.length]
        /\ x.full \in Seq(Seq(Named)) /\ x.batch \in Seq(Named) /\ x.length \in Int
    BY DEF Packings
  <2>3. /\ Append(x.full, x.batch) \in Seq(Seq(Named))
        /\ Append(x.batch, s[n]) \in Seq(Named)
    BY <2>1, <2>2, AppendProperties
  <2>4. [full |-> Append(x.full, x.batch), batch |-> <<s[n]>>, length |-> LengthOf[s[n]]] \in X
    BY <2>1, <2>3 DEF Packings
  <2>5. ASSUME NEW d \in {0, 1}
        PROVE  [full |-> x.full, batch |-> Append(x.batch, s[n]),
                length |-> x.length + LengthOf[s[n]] + d] \in X
    <3>1. x.length + LengthOf[s[n]] + d \in Int
      BY <2>1, <2>2
    <3> QED BY <2>2, <2>3, <3>1 DEF Packings
  <2>6. ASSUME Room(x.batch, x.length, s[n])
        PROVE  \E d \in {0, 1} :
                 Pack(x, s[n]) = [full |-> x.full, batch |-> Append(x.batch, s[n]),
                                  length |-> x.length + LengthOf[s[n]] + d]
    <3> DEFINE d == IF x.batch = << >> THEN 0 ELSE 1
    <3>1. Pack(x, s[n]) = [x EXCEPT !.batch = Append(@, s[n]),
                                    !.length = @ + LengthOf[s[n]] + d]
      BY <2>6 DEF Pack
    <3>2. d \in {0, 1}
      OBVIOUS
    <3> HIDE DEF d
    <3>3. Pack(x, s[n]) = [full |-> x.full, batch |-> Append(x.batch, s[n]),
                           length |-> x.length + LengthOf[s[n]] + d]
      BY <2>2, <3>1
    <3> QED BY <3>2, <3>3
  <2>7. CASE Room(x.batch, x.length, s[n])
    BY <2>5, <2>6, <2>7
  <2>8. CASE ~Room(x.batch, x.length, s[n])
    BY <2>4, <2>8 DEF Pack
  <2> QED BY <2>7, <2>8
<1> DEFINE next == [x \in X \X (1..N) |-> Pack(x[1], s[x[2]])]
<1>2. next \in [X \X (1..N) -> X]
  BY <1>1
<1>3. Empty \in X
  BY DEF Empty, Packings
<1> HIDE DEF X, N
<1>4. PICK g \in [0..N -> X] : g[0] = Empty /\ \A n \in 1..N : g[n] = next[<<g[n - 1], n>>]
  <2> HIDE DEF next
  <2>1. N \in Nat
    BY <1>0
  <2>2. Runs(X, Empty, N, next) # {}
    BY <1>2, <1>3, <2>1, Iterates
  <2> QED BY <2>2 DEF Runs
<1>5. ASSUME NEW n \in 1..N PROVE g[n] = Pack(g[n - 1], s[n])
  <2>1. g[n - 1] \in X
    BY <1>0
  <2>2. <<g[n - 1], n>> \in X \X (1..N)
    BY <2>1
  <2> QED BY <1>4, <2>2
<1>6. g = Body(g)
  BY <1>4, <1>5, <1>0
<1> DEFINE k == CHOOSE h : h = Body(h)
<1>7. Chunks(s) = IF k[N].batch = << >> THEN k[N].full ELSE Append(k[N].full, k[N].batch)
  BY DEF Chunks, N
<1>8. k = Body(k)
  <2> HIDE DEF Body
  <2> QED BY <1>6
<1> HIDE DEF k
<1>9. \A n \in 0..N : g[n] = k[n]
  <2>1. g[0] = k[0]
    BY <1>4, <1>8, <1>0
  <2>2. ASSUME NEW n \in 0..N - 1, g[n] = k[n] PROVE g[n + 1] = k[n + 1]
    <3>1. n + 1 \in 1..N /\ n + 1 \in 0..N /\ n + 1 # 0 /\ (n + 1) - 1 = n
      BY <1>0
    <3>2. k[n + 1] = Pack(k[n], s[n + 1])
      BY <1>8, <3>1
    <3>3. g[n + 1] = Pack(g[n], s[n + 1])
      BY <1>5, <3>1
    <3> QED BY <2>2, <3>2, <3>3
  <2> QED BY <1>0, <2>1, <2>2, SameLoop
<1>10. g[N] = k[N]
  BY <1>0, <1>9
<1> QED BY <1>4, <1>5, <1>7, <1>10 DEF N, X

(* A batch the API takes.                                                    *)
Taken(b) == Len(b) \in 1..MaxItems /\ (Len(b) = 1 \/ JoinedLength(b) <= MaxLength)

(* What a packing of the first n types of s is like.                         *)
PackInv(g, s, n) ==
  /\ S!FlattenSeq(g.full) \o g.batch = SubSeq(s, 1, n)
  /\ \A i \in DOMAIN g.full : Taken(g.full[i])
  /\ IF g.batch = << >> THEN g = Empty
                        ELSE Taken(g.batch) /\ g.length = JoinedLength(g.batch)

(* Nothing put one behind the other is nothing.                              *)
LEMMA FlattenNothing == ASSUME NEW E PROVE S!FlattenSeq(<< >>) = << >>
<1>1. Len(<< >>) = 0
  OBVIOUS
<1> QED BY <1>1 DEF S!FlattenSeq

(* So it is for the names of types.                                          *)
LEMMA NamesBehind == \A u, v, w \in Seq(Named) : (u \o v) \o w = u \o (v \o w)
BY Behind

(* One more type goes into the batch or begins the next.                     *)
LEMMA PackStep ==
  ASSUME NEW s \in Seq(Named), NEW n \in 1..Len(s), NEW g \in Packings,
         PackInv(g, s, n - 1)
  PROVE  PackInv(Pack(g, s[n]), s, n)
<1> DEFINE x == s[n]
<1>1. /\ x \in Named /\ x \in Spellings /\ LengthOf[x] \in Nat /\ Len(s) \in Nat
      /\ MaxItems \in Nat /\ MaxItems >= 1 /\ MaxLength \in Nat
  BY LengthAssumption, LimitAssumption DEF Named
<1>2. /\ g.full \in Seq(Seq(Named)) /\ g.batch \in Seq(Named) /\ g.length \in Int
      /\ g = [full |-> g.full, batch |-> g.batch, length |-> g.length]
      /\ g.batch \in Seq(Spellings) /\ Len(g.batch) \in Nat
  BY DEF Packings, Named
<1>3. /\ SubSeq(s, 1, n - 1) \in Seq(Named)
      /\ SubSeq(s, 1, n) = SubSeq(s, 1, n - 1) \o <<x>>
  BY <1>1
<1>4. \A y \in Seq(Named) : Append(y, x) = y \o <<x>> /\ << >> \o y = y /\ y \o << >> = y
  BY <1>1, AppendIsConcat, ConcatEmptySeq
<1>5. S!FlattenSeq(g.full) \in Seq(Named)
  BY <1>2, FlattenMore
<1>o. <<x>> \in Seq(Named) /\ Len(<<x>>) = 1 /\ JoinedLength(<<x>>) = LengthOf[x] /\ <<x>> # << >>
  BY <1>1, LengthOfOne
<1> HIDE DEF x
<1>6. CASE g.batch = << >>
  <2>1. g = Empty /\ g.length = 0 /\ g.full = << >> /\ Len(g.batch) = 0
    BY <1>6 DEF PackInv, Empty
  <2>2. Room(g.batch, g.length, x)
    BY <1>1, <1>6, <2>1 DEF Room
  <2>3. Append(g.batch, x) = <<x>>
    BY <1>6
  <2>4. Pack(g, x) = [full |-> g.full, batch |-> <<x>>, length |-> LengthOf[x]]
    <3>1. Pack(g, x) = [g EXCEPT !.batch = Append(@, x), !.length = @ + LengthOf[x] + 0]
      BY <1>6, <2>2 DEF Pack
    <3>2. g.length + LengthOf[x] + 0 = LengthOf[x]
      BY <1>1, <2>1
    <3> QED BY <1>2, <2>3, <3>1, <3>2
  <2>5. Taken(<<x>>)
    BY <1>1, <1>o DEF Taken
  <2>6. S!FlattenSeq(g.full) \o <<x>> = SubSeq(s, 1, n)
    <3>1. S!FlattenSeq(g.full) = SubSeq(s, 1, n - 1)
      BY <1>4, <1>5, <1>6 DEF PackInv
    <3> QED BY <1>3, <3>1
  <2> QED BY <1>o, <2>1, <2>4, <2>5, <2>6 DEF PackInv, x
<1>7. CASE g.batch # << >> /\ Room(g.batch, g.length, x)
  <2>1. Pack(g, x) = [full |-> g.full, batch |-> Append(g.batch, x),
                      length |-> g.length + LengthOf[x] + 1]
    <3>1. Pack(g, x) = [g EXCEPT !.batch = Append(@, x), !.length = @ + LengthOf[x] + 1]
      BY <1>7 DEF Pack
    <3> QED BY <1>2, <3>1
  <2>2. /\ Append(g.batch, x) \in Seq(Named) /\ Append(g.batch, x) # << >>
        /\ Len(Append(g.batch, x)) = Len(g.batch) + 1
    BY <1>1, <1>2, AppendProperties
  <2>3. /\ JoinedLength(Append(g.batch, x)) = JoinedLength(g.batch) + 1 + LengthOf[x]
        /\ JoinedLength(g.batch) \in Int
    BY <1>1, <1>2, LengthOfMore
  <2>4. g.length = JoinedLength(g.batch) /\ Taken(g.batch)
    BY <1>7 DEF PackInv
  <2>5. Len(g.batch) < MaxItems /\ g.length + 1 + LengthOf[x] <= MaxLength
    BY <1>7 DEF Room
  <2>6. Taken(Append(g.batch, x))
    <3>1. Len(g.batch) + 1 \in 1..MaxItems
      BY <1>1, <1>2, <2>5
    <3>2. JoinedLength(Append(g.batch, x)) <= MaxLength
      BY <1>1, <2>3, <2>4, <2>5
    <3>3. Len(Append(g.batch, x)) \in 1..MaxItems
      BY <2>2, <3>1
    <3> QED BY <3>2, <3>3 DEF Taken
  <2>7. g.length + LengthOf[x] + 1 = JoinedLength(Append(g.batch, x))
    <3> DEFINE j == JoinedLength(g.batch)
    <3>1. j \in Int /\ LengthOf[x] \in Int /\ j + LengthOf[x] + 1 = j + 1 + LengthOf[x]
      BY <1>1, <2>3
    <3> QED BY <2>3, <2>4, <3>1
  <2>8. S!FlattenSeq(g.full) \o Append(g.batch, x) = SubSeq(s, 1, n)
    <3>1. S!FlattenSeq(g.full) \o g.batch = SubSeq(s, 1, n - 1)
      BY DEF PackInv
    <3>2. Append(g.batch, x) = g.batch \o <<x>>
      BY <1>2, <1>4
    <3>3. (S!FlattenSeq(g.full) \o g.batch) \o <<x>> = S!FlattenSeq(g.full) \o (g.batch \o <<x>>)
      BY <1>2, <1>5, <1>o, NamesBehind
    <3> QED BY <1>3, <3>1, <3>2, <3>3
  <2>9. \A i \in DOMAIN g.full : Taken(g.full[i])
    BY DEF PackInv
  <2> DEFINE k == [full |-> g.full, batch |-> Append(g.batch, x),
                   length |-> g.length + LengthOf[x] + 1]
  <2>10. /\ k.full = g.full /\ k.batch = Append(g.batch, x)
         /\ k.length = g.length + LengthOf[x] + 1
    OBVIOUS
  <2> HIDE DEF k
  <2>11. PackInv(k, s, n)
    BY <2>2, <2>6, <2>7, <2>8, <2>9, <2>10 DEF PackInv
  <2> QED BY <2>1, <2>11 DEF k, x
<1>8. CASE g.batch # << >> /\ ~Room(g.batch, g.length, x)
  <2>1. Pack(g, x) = [full |-> Append(g.full, g.batch), batch |-> <<x>>,
                      length |-> LengthOf[x]]
    BY <1>8 DEF Pack
  <2>2. Taken(<<x>>)
    BY <1>1, <1>o DEF Taken
  <2>3. S!FlattenSeq(Append(g.full, g.batch)) = SubSeq(s, 1, n - 1)
    <3>1. S!FlattenSeq(Append(g.full, g.batch)) = S!FlattenSeq(g.full) \o g.batch
      BY <1>2, FlattenMore
    <3> QED BY <3>1 DEF PackInv
  <2>4. \A i \in DOMAIN Append(g.full, g.batch) : Taken(Append(g.full, g.batch)[i])
    <3>1. /\ DOMAIN g.full = 1..Len(g.full) /\ Len(g.full) \in Nat
          /\ DOMAIN Append(g.full, g.batch) = 1..Len(g.full) + 1
          /\ \A i \in 1..Len(g.full) : Append(g.full, g.batch)[i] = g.full[i]
          /\ Append(g.full, g.batch)[Len(g.full) + 1] = g.batch
      BY <1>2, AppendProperties
    <3>2. Taken(g.batch) /\ \A i \in DOMAIN g.full : Taken(g.full[i])
      BY <1>8 DEF PackInv
    <3> QED BY <3>1, <3>2
  <2>5. S!FlattenSeq(Append(g.full, g.batch)) \o <<x>> = SubSeq(s, 1, n)
    BY <1>3, <2>3
  <2> QED BY <1>o, <2>1, <2>2, <2>4, <2>5 DEF PackInv, x
<1> QED BY <1>6, <1>7, <1>8 DEF x

(* The batches are the types, in order, and each is one the API takes.       *)
LEMMA ChunksOf ==
  ASSUME NEW s \in Seq(Named)
  PROVE  /\ Chunks(s) \in Seq(Seq(Named)) /\ S!FlattenSeq(Chunks(s)) = s
         /\ \A i \in DOMAIN Chunks(s) : Taken(Chunks(s)[i])
<1>1. PICK g \in [0..Len(s) -> Packings] :
        /\ g[0] = Empty /\ \A n \in 1..Len(s) : g[n] = Pack(g[n - 1], s[n])
        /\ Chunks(s) = IF g[Len(s)].batch = << >> THEN g[Len(s)].full
                       ELSE Append(g[Len(s)].full, g[Len(s)].batch)
  BY PackLoop
<1> DEFINE T == {n \in 0..Len(s) : PackInv(g[n], s, n)}
<1>0. Len(s) \in Nat
  OBVIOUS
<1>2. 0 \in T
  <2>1. /\ Empty.full = << >> /\ Empty.batch = << >> /\ SubSeq(s, 1, 0) = << >>
        /\ DOMAIN Empty.full = {}
    BY DEF Empty
  <2>2. S!FlattenSeq(Empty.full) \o Empty.batch = << >>
    BY <2>1, FlattenNothing
  <2>3. PackInv(Empty, s, 0)
    BY <2>1, <2>2 DEF PackInv
  <2> QED BY <1>0, <1>1, <2>3
<1>3. ASSUME NEW n \in 0..Len(s) - 1, n \in T PROVE n + 1 \in T
  <2>1. n + 1 \in 1..Len(s) /\ n + 1 \in 0..Len(s) /\ (n + 1) - 1 = n /\ n \in 0..Len(s)
    BY <1>0
  <2>2. g[n] \in Packings /\ g[n + 1] = Pack(g[n], s[n + 1]) /\ PackInv(g[n], s, (n + 1) - 1)
    BY <1>1, <1>3, <2>1
  <2>3. PackInv(Pack(g[n], s[n + 1]), s, n + 1)
    BY <2>1, <2>2, PackStep
  <2> QED BY <2>1, <2>2, <2>3
<1> HIDE DEF T
<1>4. Len(s) \in T
  <2>1. 0..Len(s) \subseteq T
    BY <1>0, <1>2, <1>3, UpTo
  <2> QED BY <1>0, <2>1
<1> DEFINE l == g[Len(s)]
<1>5. l \in Packings /\ PackInv(l, s, Len(s))
  BY <1>0, <1>1, <1>4 DEF T
<1> HIDE DEF l
<1>6. Chunks(s) = IF l.batch = << >> THEN l.full ELSE Append(l.full, l.batch)
  BY <1>1 DEF l
<1>7. /\ l.full \in Seq(Seq(Named)) /\ l.batch \in Seq(Named)
      /\ S!FlattenSeq(l.full) \in Seq(Named)
  BY <1>5, FlattenMore DEF Packings
<1>8. S!FlattenSeq(l.full) \o l.batch = s /\ \A i \in DOMAIN l.full : Taken(l.full[i])
  <2>1. SubSeq(s, 1, Len(s)) = s
    OBVIOUS
  <2> QED BY <1>5, <2>1 DEF PackInv
<1>9. CASE l.batch = << >>
  <2>1. S!FlattenSeq(l.full) \o << >> = S!FlattenSeq(l.full)
    BY <1>7, ConcatEmptySeq
  <2> QED BY <1>6, <1>7, <1>8, <1>9, <2>1
<1>10. CASE l.batch # << >>
  <2>1. Chunks(s) = Append(l.full, l.batch) /\ Taken(l.batch)
    BY <1>5, <1>6, <1>10 DEF PackInv
  <2>2. /\ Append(l.full, l.batch) \in Seq(Seq(Named))
        /\ DOMAIN l.full = 1..Len(l.full) /\ Len(l.full) \in Nat
        /\ DOMAIN Append(l.full, l.batch) = 1..Len(l.full) + 1
        /\ \A i \in 1..Len(l.full) : Append(l.full, l.batch)[i] = l.full[i]
        /\ Append(l.full, l.batch)[Len(l.full) + 1] = l.batch
    BY <1>7, AppendProperties
  <2>3. \A i \in DOMAIN Append(l.full, l.batch) : Taken(Append(l.full, l.batch)[i])
    BY <1>8, <2>1, <2>2
  <2>4. S!FlattenSeq(Append(l.full, l.batch)) = S!FlattenSeq(l.full) \o l.batch
    BY <1>7, FlattenMore
  <2> QED BY <1>8, <2>1, <2>2, <2>3, <2>4
<1> QED BY <1>9, <1>10

(* A finite set has a sequence of its elements, each once.                   *)
LEMMA SequenceOfSet ==
  ASSUME NEW T, IsFiniteSet(T)
  PROVE  /\ S!SetToSeq(T) \in Seq(T)
         /\ \A i, j \in DOMAIN S!SetToSeq(T) :
              S!SetToSeq(T)[i] = S!SetToSeq(T)[j] => i = j
<1> DEFINE Orders == {f \in [1..Cardinality(T) -> T] :
                        \A i, j \in DOMAIN f : f[i] = f[j] => i = j}
<1>1. Cardinality(T) \in Nat /\ ExistsBijection(1..Cardinality(T), T)
  BY FS_CardinalityType
<1>2. Orders # {}
  BY <1>1 DEF ExistsBijection, Bijection, Injection, IsInjective
<1>3. S!SetToSeq(T) \in Orders
  <2>1. S!SetToSeq(T) = CHOOSE f \in [1..Cardinality(T) -> T] : S!IsInjective(f)
    BY DEF S!SetToSeq, S!Cardinality, Cardinality
  <2>2. ASSUME NEW f PROVE S!IsInjective(f) <=> \A i, j \in DOMAIN f : f[i] = f[j] => i = j
    BY DEF S!IsInjective
  <2>3. \E f \in [1..Cardinality(T) -> T] : S!IsInjective(f)
    BY <1>2, <2>2
  <2>4. S!SetToSeq(T) \in [1..Cardinality(T) -> T] /\ S!IsInjective(S!SetToSeq(T))
    BY <2>1, <2>3
  <2> QED BY <2>2, <2>4
<1> QED BY <1>1, <1>3
-----------------------------------------------------------------------------
(* A region's types are finitely many names.                                 *)
LEMMA TypesAreNames ==
  ASSUME CatalogInv
  PROVE  IsFiniteSet({r.type : r \in {s \in regionsByType : s.code = priceRegion}})
         /\ {r.type : r \in {s \in regionsByType : s.code = priceRegion}} \subseteq Named
<1> DEFINE T == {r.type : r \in {s \in regionsByType : s.code = priceRegion}}
           U == {regionFile[i].type : i \in DOMAIN regionFile}
           f == [i \in DOMAIN regionFile |-> regionFile[i].type]
<1>1. /\ regionFile \in Seq([type: Spellings, code: Codes, name: Names])
      /\ DOMAIN regionFile = 1..Len(regionFile) /\ Len(regionFile) \in Nat
  BY FileTypes DEF CatalogInv
<1>2. IsFiniteSet(DOMAIN regionFile)
  BY <1>1, FS_Interval
<1>3. f \in Surjection(DOMAIN regionFile, U)
  BY DEF Surjection
<1>4. IsFiniteSet(U)
  <2> HIDE DEF U, f
  <2> QED BY <1>2, <1>3, FS_Surjection
<1>5. ASSUME NEW r \in regionsByType PROVE r.type \in U /\ r.type \in Named
  <2>1. PICK i \in DOMAIN regionFile : regionFile[i] = r /\ r.type # Blank
    BY DEF CatalogInv, OffersInv, RegionsRead, IsUsable
  <2>2. regionFile[i] \in [type: Spellings, code: Codes, name: Names]
    BY <1>1, ElementType
  <2> QED BY <2>1, <2>2 DEF Named
<1>6. T \subseteq U /\ T \subseteq Named
  BY <1>5
<1> HIDE DEF U
<1>7. IsFiniteSet(T)
  <2> HIDE DEF T
  <2> QED BY <1>4, <1>6, FS_Subset
<1> QED BY <1>6, <1>7

(* The files of regions write each type in one way.                          *)
OneSpelling ==
  \A f \in RegionFiles : \A i, j \in DOMAIN f :
    KeyOf[f[i].type] = KeyOf[f[j].type] => f[i].type = f[j].type

DistinctKeys(s) == \A i, j \in DOMAIN s : KeyOf[s[i]] = KeyOf[s[j]] => i = j

(* The types of a region, as they are asked for when the request names none. *)
LEMMA RegionTypes ==
  ASSUME CatalogInv
  PROVE  TypesOfRegion \in Seq(Named) /\ (OneSpelling => DistinctKeys(TypesOfRegion))
<1> DEFINE T == {r.type : r \in {s \in regionsByType : s.code = priceRegion}}
           q == S!SetToSeq(T)
<1>1. IsFiniteSet(T) /\ T \subseteq Named
  BY TypesAreNames
<1>2. ASSUME OneSpelling, NEW a \in T, NEW b \in T, KeyOf[a] = KeyOf[b] PROVE a = b
  <2>1. PICK i \in DOMAIN regionFile, j \in DOMAIN regionFile :
          a = regionFile[i].type /\ b = regionFile[j].type
    BY DEF CatalogInv, OffersInv, RegionsRead
  <2> QED BY <1>2, <2>1 DEF OneSpelling, CatalogInv, FilesInv
<1>3. TypesOfRegion = q
  BY DEF TypesOfRegion
<1> HIDE DEF T
<1>4. q \in Seq(T) /\ \A i, j \in DOMAIN q : q[i] = q[j] => i = j
  BY <1>1, SequenceOfSet
<1> HIDE DEF q
<1>5. q \in Seq(Named)
  BY <1>1, <1>4
<1>6. ASSUME NEW i \in DOMAIN q PROVE q[i] \in T
  BY <1>4, ElementType
<1>7. ASSUME OneSpelling, NEW i \in DOMAIN q, NEW j \in DOMAIN q, KeyOf[q[i]] = KeyOf[q[j]]
      PROVE  i = j
  BY <1>2, <1>4, <1>6, <1>7
<1> QED BY <1>3, <1>5, <1>7 DEF DistinctKeys

(* The request and what is known of its answer.                              *)
AnswerTypes ==
  /\ askedTypes \in TypeLists /\ priceRegion \in Codes /\ dollars \in BOOLEAN
  /\ place \in {"items", "batch", "page", "done", "failed"}
  /\ documents \in 0..MaxDocuments
  /\ found \subseteq Prices /\ results \subseteq Prices /\ priced \subseteq Prices
  /\ missing \subseteq Spellings /\ offered \subseteq Prices

(* What was asked for and what is still to be asked for make up what is      *)
(* wanted, in batches the API takes.                                         *)
BatchInv ==
  /\ wanted \in Seq(Named) /\ sent \in Seq(Named)
  /\ batches \in Seq(Seq(Named)) /\ \A i \in DOMAIN batches : Taken(batches[i])
  /\ place = "items" => wanted = << >> /\ batches = << >> /\ sent = << >>
  /\ place = "batch" => sent \o S!FlattenSeq(batches) = wanted
  /\ place = "page" => batches # << >> /\ sent \o S!FlattenSeq(Tail(batches)) = wanted
  /\ OneSpelling => DistinctKeys(wanted)

(* The types asked for are a sequence.                                       *)
LEMMA AskedAreTypes ==
  ASSUME AnswerTypes
  PROVE  askedTypes \in Seq(Spellings)
<1>1. PICK n \in 0..MaxAsked : askedTypes \in [1..n -> Spellings]
  BY DEF AnswerTypes, TypeLists
<1>2. n \in Nat
  BY AskedAssumption
<1> QED BY <1>1, <1>2

(* The types of a request without blanks or repetitions, or of its region.   *)
LEMMA ItemsWanted ==
  ASSUME CatalogInv, AnswerTypes,
         NEW s, s = IF Dedupe(askedTypes) = << >> THEN TypesOfRegion ELSE Dedupe(askedTypes)
  PROVE  s \in Seq(Named) /\ (OneSpelling => DistinctKeys(s))
<1>1. Dedupe(askedTypes) \in Seq(Named) /\ DistinctKeys(Dedupe(askedTypes))
  BY AskedAreTypes, DedupeKeeps DEF DistinctKeys
<1> QED BY <1>1, RegionTypes

(* The types that are missing are among those asked for.                     *)
LEMMA MissingAsked ==
  ASSUME AnswerTypes, NEW map
  PROVE  Unpriced(map) \subseteq Spellings
<1>1. \A i \in DOMAIN askedTypes : askedTypes[i] \in Spellings
  BY AskedAreTypes, ElementType
<1> QED BY <1>1 DEF Unpriced

(* Every step keeps the types of the answer.                                 *)
LEMMA AnswerTypesStep ==
  ASSUME AnswerTypes, [PriceNext]_<<catalogVars, priceVars>>
  PROVE  AnswerTypes'
<1>1. CASE UNCHANGED priceVars
  BY <1>1 DEF priceVars, priceRequest, priceAnswer, AnswerTypes
<1>2. CASE OtherCurrency
  BY <1>2, MissingAsked DEF OtherCurrency, Answer, priceRequest, AnswerTypes
<1>3. CASE ResolveItems
  <2>1. /\ UNCHANGED <<askedTypes, priceRegion, dollars, documents, found, results, offered>>
        /\ \/ Answer({})
           \/ place' \in {"batch", "failed"} /\ UNCHANGED <<priced, missing>>
    BY <1>3 DEF ResolveItems, priceRequest
  <2> QED BY <2>1, MissingAsked DEF Answer, AnswerTypes
<1>4. CASE NextBatch
  BY <1>4, AskedAssumption DEF NextBatch, priceRequest, priceAnswer, AnswerTypes
<1>5. CASE ReadDocument
  <2>1. PICK d \in Documents :
          LET new == IF Usable(d) THEN {[type |-> d.type, amount |-> d.amount]} ELSE {} IN
            found' = With(found, new) /\ offered' = offered \cup new
    BY <1>5 DEF ReadDocument
  <2> DEFINE new == IF Usable(d) THEN {[type |-> d.type, amount |-> d.amount]} ELSE {}
  <2>2. new \subseteq Prices
    BY DEF Usable, Documents, Prices
  <2>3. found' = With(found, new) /\ offered' = offered \cup new
    BY <2>1
  <2> HIDE DEF new
  <2>4. found' \subseteq Prices /\ offered' \subseteq Prices
    BY <2>2, <2>3 DEF With, AnswerTypes
  <2>5. documents' \in 0..MaxDocuments
    BY <1>5, AskedAssumption DEF ReadDocument, AnswerTypes
  <2>6. UNCHANGED <<askedTypes, priceRegion, dollars, place, results, priced, missing>>
    BY <1>5 DEF ReadDocument, priceRequest, priceAnswer
  <2> QED BY <2>4, <2>5, <2>6 DEF AnswerTypes
<1>6. CASE EndBatch
  BY <1>6 DEF EndBatch, With, priceRequest, priceAnswer, AnswerTypes
<1>7. CASE Return
  BY <1>7, MissingAsked DEF Return, Answer, priceRequest, AnswerTypes
<1>8. CASE PricesFail
  BY <1>8 DEF PricesFail, priceRequest, priceAnswer, AnswerTypes
<1> QED
  BY <1>1, <1>2, <1>3, <1>4, <1>5, <1>6, <1>7, <1>8 DEF PriceNext, GetInstancePrices

(* The batches of what is wanted are what is still to be asked for.          *)
LEMMA ResolveBatches ==
  ASSUME CatalogInv, AnswerTypes, BatchInv, ResolveItems
  PROVE  BatchInv'
<1> DEFINE s == IF Dedupe(askedTypes) = << >> THEN TypesOfRegion ELSE Dedupe(askedTypes)
<1>1. s \in Seq(Named) /\ (OneSpelling => DistinctKeys(s))
  BY ItemsWanted
<1>2. /\ place = "items" /\ wanted' = s /\ UNCHANGED sent
      /\ \/ place' = "done" /\ UNCHANGED batches
         \/ place' = "batch" /\ batches' = Chunks(s)
         \/ place' = "failed" /\ UNCHANGED batches
  BY DEF ResolveItems, Answer
<1> HIDE DEF s
<1>3. sent = << >> /\ \A y \in Seq(Named) : << >> \o y = y
  BY <1>2, ConcatEmptySeq DEF BatchInv
<1>4. CASE place' = "batch" /\ batches' = Chunks(s)
  <2>1. /\ Chunks(s) \in Seq(Seq(Named)) /\ S!FlattenSeq(Chunks(s)) = s
        /\ \A i \in DOMAIN Chunks(s) : Taken(Chunks(s)[i])
    BY <1>1, ChunksOf
  <2>2. sent' \o S!FlattenSeq(batches)' = wanted'
    BY <1>1, <1>2, <1>3, <1>4, <2>1
  <2> QED BY <1>1, <1>2, <1>4, <2>1, <2>2 DEF BatchInv
<1>5. CASE place' \in {"done", "failed"} /\ UNCHANGED batches
  BY <1>1, <1>2, <1>5 DEF BatchInv
<1> QED BY <1>2, <1>4, <1>5

(* Every step keeps what was and what is to be asked for together.           *)
LEMMA BatchesStep ==
  ASSUME CatalogInv, AnswerTypes, BatchInv, [PriceNext]_<<catalogVars, priceVars>>
  PROVE  BatchInv'
<1>1. CASE UNCHANGED <<place, wanted, batches, sent>>
  BY <1>1 DEF BatchInv
<1>2. CASE OtherCurrency \/ PricesFail \/ Return
  <2>1. place' \in {"done", "failed"} /\ UNCHANGED <<wanted, batches, sent>>
    BY <1>2 DEF OtherCurrency, PricesFail, Return, Answer
  <2> QED BY <2>1 DEF BatchInv
<1>3. CASE NextBatch
  <2>1. /\ place = "batch" /\ batches # << >> /\ place' = "page"
        /\ sent' = sent \o Head(batches) /\ UNCHANGED <<wanted, batches>>
    BY <1>3 DEF NextBatch
  <2>2. /\ batches \in Seq(Seq(Named)) /\ sent \in Seq(Named)
        /\ sent \o S!FlattenSeq(batches) = wanted
    BY <2>1 DEF BatchInv
  <2>3. Head(batches) \in Seq(Named) /\ Tail(batches) \in Seq(Seq(Named))
    BY <2>1, <2>2, HeadTailProperties
  <2>4. S!FlattenSeq(Tail(batches)) \in Seq(Named)
    BY <2>3, FlattenMore
  <2>5. S!FlattenSeq(batches) = Head(batches) \o S!FlattenSeq(Tail(batches))
    BY <2>1, <2>2, FlattenTail
  <2>6. sent' \o S!FlattenSeq(Tail(batches)) = wanted
    <3>1. (sent \o Head(batches)) \o S!FlattenSeq(Tail(batches))
            = sent \o (Head(batches) \o S!FlattenSeq(Tail(batches)))
      BY <2>2, <2>3, <2>4, NamesBehind
    <3> QED BY <2>1, <2>2, <2>5, <3>1, Zenon
  <2>7. sent' \in Seq(Named)
    BY <2>1, <2>2, <2>3, ConcatProperties
  <2> QED BY <2>1, <2>6, <2>7 DEF BatchInv
<1>4. CASE EndBatch
  <2>1. /\ place = "page" /\ place' = "batch" /\ batches' = Tail(batches)
        /\ UNCHANGED <<wanted, sent>>
    BY <1>4 DEF EndBatch
  <2>2. batches # << >> /\ batches \in Seq(Seq(Named))
    BY <2>1 DEF BatchInv
  <2>3. /\ Tail(batches) \in Seq(Seq(Named))
        /\ \A i \in DOMAIN Tail(batches) :
             Tail(batches)[i] = batches[i + 1] /\ i + 1 \in DOMAIN batches
    BY <2>2, HeadTailProperties
  <2>4. \A i \in DOMAIN batches' : Taken(batches'[i])
    BY <2>1, <2>3 DEF BatchInv
  <2> QED BY <2>1, <2>3, <2>4 DEF BatchInv
<1>5. CASE ReadDocument
  BY <1>1, <1>5 DEF ReadDocument
<1>6. CASE UNCHANGED priceVars
  BY <1>1, <1>6 DEF priceVars
<1> QED
  BY <1>2, <1>3, <1>4, <1>5, <1>6, ResolveBatches DEF PriceNext, GetInstancePrices

(* It all holds in every state, with the catalog true to its files.          *)
LEMMA BatchesAlways == PriceSpec => [](CatalogInv /\ AnswerTypes /\ BatchInv)
<1>1. PriceInit => CatalogInv /\ AnswerTypes /\ BatchInv
  <2> SUFFICES ASSUME PriceInit PROVE CatalogInv /\ AnswerTypes /\ BatchInv
    OBVIOUS
  <2>1. CatalogInv
    BY CatalogStart DEF PriceInit
  <2>2. AnswerTypes
    BY AskedAssumption DEF PriceInit, AnswerTypes
  <2>3. BatchInv
    BY DEF PriceInit, BatchInv, DistinctKeys
  <2> QED BY <2>1, <2>2, <2>3
<1>2. CatalogInv /\ [PriceNext]_<<catalogVars, priceVars>> => CatalogInv'
  <2> SUFFICES ASSUME CatalogInv, [PriceNext]_<<catalogVars, priceVars>> PROVE CatalogInv'
    OBVIOUS
  <2>1. CASE ReadMetadata \/ ReadRegion
    BY <2>1, MetadataStep, RegionStepOfFile
  <2>2. CASE UNCHANGED catalogVars
    BY <2>2, CatalogStays DEF catalogVars
  <2> QED BY <2>1, <2>2 DEF PriceNext, GetInstancePrices
<1> QED
  BY <1>1, <1>2, AnswerTypesStep, BatchesStep, PTL DEF PriceSpec

(* A request and its answer keep their types, whatever the files, the        *)
(* documents and the limits are.                                             *)
THEOREM PriceTypes == PriceSpec => []PriceTypeOK
<1>1. AnswerTypes /\ BatchInv => PriceTypeOK
  BY DEF AnswerTypes, BatchInv, PriceTypeOK, Named
<1> QED BY <1>1, BatchesAlways, PTL

(* Where the catalog writes each type in one way, every type wanted is asked *)
(* for once, in batches within the limits of the API, whatever these are.    *)
THEOREM AskedOnce ==
  ASSUME OneSpelling
  PROVE  PriceSpec => []EachAskedOnce
<1>1. AnswerTypes /\ BatchInv => EachAskedOnce
  BY OneSpelling DEF BatchInv, EachAskedOnce, DistinctKeys, Taken
<1> QED BY <1>1, BatchesAlways, PTL
=============================================================================
