--------------------------- MODULE MCSettlement ----------------------------
(* Settlement on small instances.  One trade and one or two calls at a     *)
(* time are enough: trades share nothing but the order of the queues.      *)
EXTENDS Settlement

CONSTANTS t1, t2

(* One trade of any type, on each of the networks in turn.                 *)
AnyKind == [network : [{t1} -> Networks], lending : SUBSET {t1}]

SwapOnEvm == {[network |-> [t \in {t1} |-> "EVM"], lending |-> {}]}

(* A swap paid on Solana and a lending trade paid on an EVM network.       *)
SwapAndLending ==
    {[network |-> [t \in {t1, t2} |-> IF t = t1 THEN "SOLANA" ELSE "EVM"],
      lending |-> {t2}]}
=============================================================================
