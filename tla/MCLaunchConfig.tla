--------------------------- MODULE MCLaunchConfig ---------------------------
(* Small instances of LaunchConfig, with integers of three bits.             *)
EXTENDS LaunchConfig

(* Values an integer of that width holds, and one that is refused.           *)
SmallNumbers == -1..2

(* Values up to one that comes round to where it started.                    *)
WideNumbers == {1, 3, 4, 7, 8}
=============================================================================
