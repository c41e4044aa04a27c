--------------------------- MODULE SubnetRegistry ---------------------------
(***************************************************************************)
(* What ensureManagedSubnet promises about the subnets of the shared VPCs, *)
(* as if one registry handed them out: in each VPC the placements, a zone  *)
(* and a mode, are numbered 0, 1, 2, ... in the order they were first      *)
(* claimed, no placement is numbered twice and no number is given away     *)
(* twice or taken back.  ManagedNetwork implements it without a registry.  *)
(***************************************************************************)
EXTENDS Naturals

CONSTANTS Vpcs, Zones, Modes, Indexes

VARIABLE registry  \* the claims made: [vpc, az, mode, index]

Of(v) == {e \in registry : e.vpc = v}

Init == registry = {}

Claim(v, z, m, i) ==
  /\ \A e \in Of(v) : ~(e.az = z /\ e.mode = m)
  /\ \A e \in Of(v) : e.index # i
  /\ \A j \in Indexes : j < i => \E e \in Of(v) : e.index = j
  /\ registry' = registry \cup {[vpc |-> v, az |-> z, mode |-> m, index |-> i]}

Next == \E v \in Vpcs, z \in Zones, m \in Modes, i \in Indexes : Claim(v, z, m, i)

Spec == Init /\ [][Next]_registry
=============================================================================
