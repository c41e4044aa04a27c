-------------------------- MODULE MCManagedNetwork --------------------------
(***************************************************************************)
(* Instances of ManagedNetwork for TLC: the placements the callers ask for.*)
(***************************************************************************)
EXTENDS ManagedNetwork

(* An IPv6-only placement and a dual-stack one, each in a zone of its own.   *)
TwoZones == {[az |-> 1, mode |-> "ipv6-native"], [az |-> 2, mode |-> "dualstack"]}
OnePlacement == {[az |-> 1, mode |-> "dualstack"]}
BothModes == {[az |-> 1, mode |-> m] : m \in Modes}
MixedPlacements ==
  {[az |-> z, mode |-> "dualstack"] : z \in {None, 1, 2}}
    \cup {[az |-> 1, mode |-> "ipv6-native"]}
=============================================================================
