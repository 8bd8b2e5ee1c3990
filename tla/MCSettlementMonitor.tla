------------------------ MODULE MCSettlementMonitor ------------------------
(* SettlementMonitor for TLC: the constants are given in the .cfg files.   *)
EXTENDS SettlementMonitor
=============================================================================
