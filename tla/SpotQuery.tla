----------------------------- MODULE SpotQuery ------------------------------
(***************************************************************************)
(* GetSpotData (src/internal/aws/spot.go): for every region asked for, the *)
(* zones, the offerings, the price history and the placement scores of     *)
(* some instance types, put together as one item per type and zone.  A     *)
(* region EC2 refuses in a known way is left out with a warning; any other *)
(* error fails the call.  The choice of zones is selectAvailabilityZones   *)
(* of locations.go.                                                        *)
(*                                                                         *)
(* Regions are scanned in any order: the option "regions" may give any.    *)
(***************************************************************************)
EXTENDS ZoneFilter, Integers, FiniteSets

CONSTANTS
  Regions, Types,
  Levels,        \* what inventoryStatus makes of a score
  Times,         \* timestamps of spot prices
  MaxEntries     \* bound: price entries EC2 lists for a region

ASSUME RegionAssumption == RegionOf \in [Zones -> Regions]
ASSUME TimeAssumption == Times \subseteq Nat
ASSUME BoundAssumption == MaxEntries \in Nat

Option(S) == {{}} \cup {{x} : x \in S}

Entries == [type: Types, zone: Zones, time: Times]
Scores == [type: Types, zone: Zones, level: Levels]
Items == [type: Types, zone: Zones, offered: BOOLEAN, price: Option(Times),
          status: Levels \cup {"available", "unavailable"}]
RegionWarnings == [code: {"MARKET_REGION_SKIPPED", "MARKET_BATCH_SKIPPED"},
                   region: Regions]
ZoneWarnings == [code: {"AZ_NOT_FOUND"}, region: Regions, token: Tokens]
ScoreWarnings == [code: {"SPOT_CAPACITY_UNAVAILABLE"}, region: Regions, type: Types]

VARIABLES
  asked, all,    \* the request's zones; whether it wants all of them
  pc,
  listed,        \* the regions of the call
  todo,          \* those the loop has still to visit
  region,        \* the one it is in
  open,          \* the zones EC2 has listed
  offerings, prices, scores,   \* of this region
  heard,         \* EC2: the price entries listed for this region
  unscored,      \* the types whose placement scores are still to ask for
  items, warnings
request == <<asked, all>>
regional == <<offerings, prices, scores, heard, unscored>>
vars == <<request, pc, listed, todo, region, open, regional, items, warnings>>

Steps == {"Regions", "Top", "Zones", "Offerings", "Prices", "Scores"}

(* Every variable has its type.                                              *)
TypeOK ==
  /\ asked \subseteq Tokens /\ all \in BOOLEAN
  /\ pc \in Steps \cup {"done", "failed"}
  /\ listed \subseteq Regions /\ todo \subseteq listed
  /\ region \in Option(Regions)
  /\ open \subseteq Zones
  /\ offerings \subseteq Types \X Zones
  /\ prices \subseteq heard /\ heard \subseteq Entries
  /\ scores \subseteq Scores
  /\ unscored \subseteq Types
  /\ items \subseteq Items
  /\ warnings \subseteq RegionWarnings \cup ZoneWarnings \cup ScoreWarnings

-----------------------------------------------------------------------------
ZonesOf(r) == {z \in Zones : RegionOf[z] = r}

(* selectAvailabilityZones, called with the region r and EC2's zones of it.  *)
(* The requested zones that are not taken for another region's.              *)
Requested(r) == {KeyOfToken(t) : t \in {u \in asked : ~PassedOver(Trimmed(u), r)}}

(* The zones that are wanted, by name or by id.                              *)
Selected(r, zones) ==
  {z \in zones : all \/ {NameKey(z), IdKey(z)} \cap Requested(r) # {}}

(* What was found of those requested.  The id of a zone is only looked at if *)
(* its name was not requested.                                               *)
Seen(r, zones) ==
  {k \in Requested(r) :
     k.zone \in zones /\ (k.by = "id" => NameKey(k.zone) \notin Requested(r))}

(* A variant of NotFound that keeps quiet about ids.                         *)
NotFoundNames(r, zones) ==
  IF all THEN {}
  ELSE {[code |-> "AZ_NOT_FOUND", region |-> r, token |-> t] :
          t \in {u \in asked : /\ KeyOfToken(u) \notin Seen(r, zones)
                              /\ u.by = "name" /\ ~PassedOver(u, r)}}

(* The warnings about the others, but for those taken for another region's,  *)
(* for which what is written is not trimmed this time.                       *)
NotFound(r, zones) ==
  IF all THEN {}
  ELSE {[code |-> "AZ_NOT_FOUND", region |-> r, token |-> t] :
          t \in {u \in asked : KeyOfToken(u) \notin Seen(r, zones) /\ ~PassedOver(u, r)}}

(* inventoryStatus.                                                          *)
Status(type, zone) ==
  IF <<type, zone>> \notin offerings THEN {"unavailable"}
  ELSE LET scored == {s \in scores : s.type = type /\ s.zone = zone} IN
    IF scored = {} THEN {"available"} ELSE {s.level : s \in scored}

(* buildSpotItems.                                                           *)
SpotItems(r, zones) ==
  {i \in Items :
     /\ i.zone \in Selected(r, zones)
     /\ i.offered = (<<i.type, i.zone>> \in offerings)
     /\ i.price = {e.time : e \in {p \in prices : p.type = i.type /\ p.zone = i.zone}}
     /\ i.status \in Status(i.type, i.zone)}

-----------------------------------------------------------------------------
At(step) == pc = step
In(r) == region = {r}

(* resolveRegions: the option "regions", the region of the request, or all   *)
(* regions of the account.                                                   *)
ResolveRegions ==
  /\ At("Regions") /\ pc' = "Top"
  /\ \E R \in SUBSET Regions : listed' = R /\ todo' = R
  /\ UNCHANGED <<request, region, open, regional, items, warnings>>

(* The loop over the regions; every map starts empty in each.                *)
NextRegion ==
  /\ At("Top")
  /\ \E r \in todo : region' = {r} /\ todo' = todo \ {r}
  /\ pc' = "Zones"
  /\ offerings' = {} /\ prices' = {} /\ scores' = {} /\ heard' = {}
  /\ unscored' = Types
  /\ UNCHANGED <<request, listed, open, items, warnings>>

Finish ==
  /\ At("Top") /\ todo = {}
  /\ pc' = "done"
  /\ UNCHANGED <<request, listed, todo, region, open, regional, items, warnings>>

(* DescribeAvailabilityZones and the choice among its answer.                *)
ResolveZones(r) ==
  /\ At("Zones") /\ In(r) /\ pc' = "Offerings"
  /\ \E zones \in SUBSET ZonesOf(r) :
       /\ open' = open \cup zones
       /\ warnings' = warnings \cup NotFound(r, zones)
  /\ UNCHANGED <<request, listed, todo, region, regional, items>>

(* fetchOfferings, over all its pages.                                       *)
FetchOfferings(r) ==
  /\ At("Offerings") /\ In(r) /\ pc' = "Prices"
  /\ offerings' \in SUBSET (Types \X (open \cap ZonesOf(r)))
  /\ UNCHANGED <<request, listed, todo, region, open, prices, scores, heard,
                 unscored, items, warnings>>

(* A variant of Kept in which a later entry replaces an earlier one.         *)
KeptLast(e) ==
  {p \in prices : ~(p.type = e.type /\ p.zone = e.zone)} \cup {e}

(* fetchLatestSpotPrices keeps the first entry of a type and zone.           *)
Kept(e) ==
  IF \E p \in prices : p.type = e.type /\ p.zone = e.zone
    THEN prices ELSE prices \cup {e}

(* The next entry of DescribeSpotPriceHistory, which lists the newest first. *)
ReadPrice(r) ==
  /\ At("Prices") /\ In(r)
  /\ Cardinality(heard) < MaxEntries
  /\ \E e \in Entries :
       /\ RegionOf[e.zone] = r /\ \A h \in heard : e.time <= h.time
       /\ heard' = heard \cup {e}
       /\ prices' = Kept(e)
  /\ UNCHANGED <<request, pc, listed, todo, region, open, offerings, scores,
                 unscored, items, warnings>>

PricesRead(r) ==
  /\ At("Prices") /\ In(r) /\ pc' = "Scores"
  /\ UNCHANGED <<request, listed, todo, region, open, regional, items, warnings>>

(* GetSpotPlacementScores for one type: one score at most for each zone, and *)
(* those of a zone that is not listed are dropped.                           *)
FetchScores(r, t) ==
  /\ At("Scores") /\ In(r) /\ t \in unscored
  /\ \E f \in [open \cap ZonesOf(r) -> Option(Levels)] :
       scores' = scores \cup
         {s \in Scores : s.type = t /\ s.zone \in DOMAIN f /\ s.level \in f[s.zone]}
  /\ unscored' = unscored \ {t}
  /\ UNCHANGED <<request, pc, listed, todo, region, open, offerings, prices, heard,
                 items, warnings>>

(* It fails, in whatever way: the region goes on without it.                 *)
ScoresFail(r, t) ==
  /\ At("Scores") /\ In(r) /\ t \in unscored
  /\ unscored' = unscored \ {t}
  /\ warnings' = warnings \cup
       {[code |-> "SPOT_CAPACITY_UNAVAILABLE", region |-> r, type |-> t]}
  /\ UNCHANGED <<request, pc, listed, todo, region, open, offerings, prices, scores,
                 heard, items>>

BuildItems(r) ==
  /\ At("Scores") /\ In(r) /\ unscored = {} /\ pc' = "Top"
  /\ items' = items \cup SpotItems(r, open \cap ZonesOf(r))
  /\ UNCHANGED <<request, listed, todo, region, open, regional, warnings>>

(* A variant of SkipRegion that leaves the region out without a word.        *)
SkipSilently(r) ==
  /\ pc \in {"Zones", "Offerings", "Prices"} /\ In(r) /\ pc' = "Top"
  /\ UNCHANGED <<request, listed, todo, region, open, regional, items, warnings>>

(* An error shouldSkipMarketRegionError or shouldSkipMarketBatchError knows. *)
SkipRegion(r) ==
  /\ pc \in {"Zones", "Offerings", "Prices"} /\ In(r) /\ pc' = "Top"
  /\ warnings' = warnings \cup
       {[code |-> IF At("Zones") THEN "MARKET_REGION_SKIPPED" ELSE "MARKET_BATCH_SKIPPED",
         region |-> r]}
  /\ UNCHANGED <<request, listed, todo, region, open, regional, items>>

(* Any other error: nothing of what was found is returned.                   *)
Fail ==
  /\ pc \in {"Regions", "Zones", "Offerings", "Prices"} /\ pc' = "failed"
  /\ items' = {} /\ warnings' = {}
  /\ UNCHANGED <<request, listed, todo, region, open, regional>>

-----------------------------------------------------------------------------
Init ==
  /\ asked \in SUBSET Tokens /\ all \in BOOLEAN
  /\ all => asked = {}
  /\ pc = "Regions"
  /\ listed = {} /\ todo = {} /\ region = {} /\ open = {}
  /\ offerings = {} /\ prices = {} /\ scores = {} /\ heard = {} /\ unscored = {}
  /\ items = {} /\ warnings = {}

Next ==
  \/ ResolveRegions \/ NextRegion \/ Finish \/ Fail
  \/ \E r \in Regions :
       \/ ResolveZones(r) \/ FetchOfferings(r)
       \/ ReadPrice(r) \/ PricesRead(r)
       \/ BuildItems(r) \/ SkipRegion(r)
       \/ \E t \in Types : FetchScores(r, t) \/ ScoresFail(r, t)

Spec == Init /\ [][Next]_vars

-----------------------------------------------------------------------------
Skipped(r) == \E w \in warnings : w.region = r /\ w \in RegionWarnings

(* What the request wants of the zones EC2 listed for a region: all of them, *)
(* or those it gives a name or an id of that can be understood.              *)
WantedZones(r) ==
  {z \in open : RegionOf[z] = r /\ (all \/ \E t \in asked : t.zone = z /\ Understood(t))}

(* An answer is complete or says what it lacks: every wanted zone of a       *)
(* region has one item for each type, unless a warning says that the region  *)
(* was skipped, although other regions of the same call went well; and no    *)
(* item is of a zone that is not wanted.  Wanted is a zone whose name is     *)
(* given, not in upper case, or whose id, if it is not a local zone's: what  *)
(* the code does not take for a zone of another region (GetSpotData,         *)
(* locations.go:278).                                                        *)
RegionsTold ==
  At("done") =>
    /\ \A r \in listed :
         \/ Skipped(r)
         \/ \A z \in WantedZones(r), t \in Types :
              Cardinality({i \in items : i.type = t /\ i.zone = z}) = 1
    /\ \A i \in items : i.zone \in WantedZones(RegionOf[i.zone])

(* A zone that was asked for and is not in the answer is named in a warning, *)
(* by whichever of its two names it was asked for, when its region was       *)
(* looked at.  The code says nothing of the entries it takes for another     *)
(* region's, here those that cannot be understood and names with a blank     *)
(* before them (selectAvailabilityZones, locations.go:327).                  *)
ZonesTold ==
  At("done") /\ ~all =>
    \A t \in asked :
      LET r == RegionOf[t.zone] IN
        /\ r \in listed /\ ~Skipped(r) /\ t.zone \notin open
        /\ Understood(t) /\ ~(t.by = "name" /\ t.form = "padded")
        => [code |-> "AZ_NOT_FOUND", region |-> r, token |-> t] \in warnings

(* The price of an item is the newest EC2 listed for it, on whichever page   *)
(* that came (fetchLatestSpotPrices).                                        *)
NewestPriceKept ==
  \A e \in heard :
    \E p \in prices : p.type = e.type /\ p.zone = e.zone /\ p.time >= e.time
=============================================================================
