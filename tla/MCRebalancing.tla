---------------------------- MODULE MCRebalancing ----------------------------
(* Rebalancing for TLC: the constants are given in the .cfg files.         *)
EXTENDS Rebalancing
=============================================================================
