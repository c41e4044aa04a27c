-------------------------- MODULE MCInventoryScan --------------------------
(* Small instances of InventoryScan.                                         *)
EXTENDS InventoryScan

(* Accounts whose scope ids differ.                                          *)
OwnScopes == [a \in Accounts |-> a]
=============================================================================
