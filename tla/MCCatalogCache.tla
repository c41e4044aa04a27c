--------------------------- MODULE MCCatalogCache ---------------------------
(* Small instances of CatalogCache.                                          *)
EXTENDS CatalogCache, TLC

CONSTANTS p1, p2, l1, l2

(* Two loads in two processes.                                               *)
OneEach == (l1 :> p1) @@ (l2 :> p2)

(* Declared sizes that tell the versions apart.                              *)
DistinctSizes == [v \in 1..MaxVersion |-> v]
=============================================================================
