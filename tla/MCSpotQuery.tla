---------------------------- MODULE MCSpotQuery -----------------------------
(* Small instances of SpotQuery: zones 11 and 12 of region 1, 21 of region 2. *)
EXTENDS SpotQuery

RegionByName == [z \in Zones |-> z \div 10]
=============================================================================
