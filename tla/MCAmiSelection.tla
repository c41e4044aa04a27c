--------------------------- MODULE MCAmiSelection ---------------------------
(* Small instances of AmiSelection.                                          *)
EXTENDS AmiSelection

(* Names of both architectures, by their usual and their other spelling, and *)
(* the versions that can tell them apart.                                    *)
SomeParameters ==
  {p \in [machine: {"amd64", "x86_64", "arm64"}, id: BOOLEAN, version: 0..1, name: 1..2] :
     p.id => p.machine = "amd64"}
=============================================================================
