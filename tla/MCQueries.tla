-------------------------- MODULE MCQueries ------------------------------
(* Small instances of the calls that only read: GetSpotData, the calls that  *)
(* list the catalog, GetInstancePrices and ListActiveInstances.  They share  *)
(* no variable but the catalog, so each is explored with the others at rest. *)
(* "A" and "a" are one type.  With its comma, "bb" is too long to go with    *)
(* another but "a" or "c", any three are too many, and "dddddd" is too long  *)
(* by itself.                                                                *)
EXTENDS MCSpotQuery, InstancePrices, InventoryList

Written == {"", "a", "A", "bb", "c", "dddddd"}
Lower == [s \in Written |-> IF s = "A" THEN "a" ELSE s]
Lengths == [s \in Written |->
              CASE s = "" -> 0 [] s \in {"a", "A", "c"} -> 1 [] s = "bb" -> 2
                [] s = "dddddd" -> 6]

Metadata(type, series, generation, architectures) ==
  [type |-> type, series |-> series, generation |-> generation,
   architectures |-> architectures]
SomeMetadata == {
  << >>,
  <<Metadata("a", "s", "new", {"arm"}), Metadata("bb", "", "", {"arm", "amd"})>>,
  <<Metadata("a", "s", "", {"amd"}), Metadata("", "s", "new", {}),
    Metadata("a", "", "new", {"arm"})>>}
RegionRecords == [type: {"", "a", "bb"}, code: {"", "r1"}, name: {"", "n"}]
RegionOfA == [type |-> "a", code |-> "r1", name |-> "n"]
SomeRegions ==
  {<<p, q>> : p \in RegionRecords, q \in {r \in RegionRecords : r.type # "" /\ r.code # ""}}
  \cup {<<RegionOfA, [type |-> "bb", code |-> "r1", name |-> "n"],
          [type |-> "c", code |-> "r1", name |-> "n"]>>}
SomeFilters ==
  [types: {<< >>, <<"">>, <<"a">>, <<"A">>, <<"bb">>, <<"c">>, <<"a", "A">>, <<"", "bb">>,
           <<"c", "A">>},
   series: {{}, {"", "s"}}, region: {"", "r1"}, generation: {"", "new"},
   architectures: {{}, {"arm"}, {"", "amd"}}]
PricedRegions ==
  {f \in SomeRegions : Len(f) = 3 \/ (f[1] = f[2] /\ f[1].type = "a" /\ f[1].code = "r1")}

Homes == [m \in Machines |-> IF m = "x" THEN <<1, 1>> ELSE <<2, 1>>]
Kinds == [m \in Machines |-> IF m = "y" THEN "small" ELSE "large"]
ZonesOfMachines == [m \in Machines |-> IF m = "z" THEN 12 ELSE 11]
Scopes == [a \in {1, 2} |-> IF a = 1 THEN "scope1" ELSE "scope2"]
Seen2 == [a \in {1, 2} |-> IF a = 1 THEN {1, 2} ELSE {1}]
Token(by, zone, form) == [by |-> by, zone |-> zone, form |-> form]
SomeSelections ==
  {[regions |-> r, zones |-> zk[1], kinds |-> zk[2], tags |-> t] :
     r \in {Everywhere, {1}},
     zk \in {<<{}, {}>>, <<{Token("id", 11, "upper"), Token("id", 12, "plain")}, {"small"}>>},
     t \in {{}, {[key |-> "k", value |-> "v"]}, {[key |-> "k", value |-> ""]}}}
  \cup {[regions |-> {1}, zones |-> {t}, kinds |-> {}, tags |-> {}] :
           t \in {Token("name", 12, "plain"), Token("name", 11, "upper")}}
  \cup {[regions |-> r, zones |-> {Token("name", 12, "plain")}, kinds |-> {}, tags |-> {}] :
           r \in {{2}, {3}}}

(* One entry of availability_zones, or two, both as AWS writes them or of    *)
(* one zone.                                                                 *)
SomeEntries ==
  {A \in SUBSET Tokens :
     /\ Cardinality(A) <= 2
     /\ \A t, u \in A : \/ t = u
                        \/ t.form = "plain" /\ u.form = "plain"
                        \/ t.zone = u.zone /\ "plain" \in {t.form, u.form}}

ListAtRest ==
  /\ selection = [regions |-> Everywhere, zones |-> {}, kinds |-> {}, tags |-> {}]
  /\ machines = [m \in Machines |-> [state |-> "none", tags |-> << >>]]
  /\ ListInit

PricesAtRest ==
  /\ askedTypes = << >> /\ priceRegion = "" /\ dollars = TRUE /\ place = "items"
  /\ wanted = << >> /\ batches = << >> /\ sent = << >> /\ documents = 0
  /\ found = {} /\ results = {} /\ priced = {} /\ missing = {} /\ offered = {}
CatalogAtRest ==
  /\ metadataFile = << >> /\ regionFile = <<RegionOfA, RegionOfA>> /\ CatalogInit
SpotAtRest == asked = {} /\ all = TRUE /\ Init

VARIABLE part

QueryInit ==
  \/ /\ part = "spot" /\ asked \in SomeEntries /\ Init
     /\ CatalogAtRest /\ PricesAtRest /\ ListAtRest
  \/ part = "catalog" /\ SpotAtRest /\ CatalogInit /\ PricesAtRest /\ ListAtRest
  \/ /\ part = "prices" /\ metadataFile = << >> /\ regionFile \in PricedRegions
     /\ SpotAtRest /\ PriceInit /\ ListAtRest
  \/ /\ part = "list" /\ SpotAtRest /\ CatalogAtRest /\ PricesAtRest
     /\ machines \in [Machines -> [state: {"none", "running"}, tags: TagSets]] /\ ListInit

QueryNext ==
  /\ UNCHANGED part
  /\ \/ part = "spot" /\ Next /\ UNCHANGED <<catalogVars, priceVars, listVars>>
     \/ part = "catalog" /\ CatalogNext /\ UNCHANGED <<vars, priceVars, listVars>>
     \/ /\ part = "prices" /\ UNCHANGED <<vars, listVars>>
        /\ \/ ReadRegion /\ UNCHANGED priceVars
           \/ GetInstancePrices
     \/ part = "list" /\ ListNext /\ UNCHANGED <<vars, catalogVars, priceVars>>

QuerySpec == QueryInit /\ [][QueryNext]_<<part, vars, catalogVars, priceVars, listVars>>
=============================================================================
