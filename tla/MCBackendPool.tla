--------------------------- MODULE MCBackendPool ----------------------------
(* BackendPool for TLC: an instance of weight 2, one of weight 0, and last *)
(* in the configuration one whose check raises.                            *)
EXTENDS BackendPool

MCInstances == 1 .. 3

MCWeight == <<2, 0, 1>>

MCBroken == {3}
=============================================================================
