----------------------------- MODULE ZoneFilter -----------------------------
(***************************************************************************)
(* An entry of availability_zones, as selectAvailabilityZones              *)
(* (src/internal/aws/locations.go) and matchesAvailabilityZoneFilter       *)
(* (instance_list.go) take it.  A zone has a name, which begins with its   *)
(* region, and a stable id.  The code takes any text with two dashes for   *)
(* the name of a zone: all names have two, the id of an ordinary zone      *)
(* ("usw2-az1") has one, that of a local or wavelength zone                *)
(* ("usw2-lax1-az1") two.                                                  *)
(***************************************************************************)

CONSTANTS
  Zones,
  RegionOf,      \* the region of a zone, which its name begins with
  LocalZones     \* the zones whose id has two dashes

ASSUME LocalAssumption == LocalZones \subseteq Zones

(* Which name of which zone, and how it is written: as AWS writes it, in     *)
(* upper case, or with a blank before it.                                    *)
Tokens == [by: {"name", "id"}, zone: Zones, form: {"plain", "upper", "padded"}]

(* normalizeToken: neither the case nor the blank counts.                    *)
KeyOfToken(t) == [by |-> t.by, zone |-> t.zone]
NameKey(z) == [by |-> "name", zone |-> z]
IdKey(z) == [by |-> "id", zone |-> z]

LooksLikeZone(t) == t.by = "name" \/ t.zone \in LocalZones

(* What is written begins with the name of region r, which is lower case.    *)
BeginsWith(t, r) == t.by = "name" /\ t.form = "plain" /\ RegionOf[t.zone] = r
Trimmed(t) == IF t.form = "padded" THEN [t EXCEPT !.form = "plain"] ELSE t

(* It is taken for a zone of another region and passed over.                 *)
PassedOver(t, r) == LooksLikeZone(t) /\ ~BeginsWith(t, r)

(* What a caller can rely on: a name not in upper case, or an id that is not *)
(* of a local zone.                                                          *)
Understood(t) ==
  IF t.by = "name" THEN t.form # "upper" ELSE t.zone \notin LocalZones
=============================================================================
