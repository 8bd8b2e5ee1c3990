-------------------------------- MODULE Payout --------------------------------
(***************************************************************************)
(* What both pipelines of the PMM promise: money leaves for a payee only   *)
(* after that was granted, and the outside is told that it has only after  *)
(* it has.  A payee is a trade, which the solver's acknowledgement grants  *)
(* and the submit worker claims, or a rebalancing record, which the        *)
(* accepted quote's transfer job grants and the record's status claims.    *)
(* How often a payee is paid is for the pipelines to bound.                *)
(***************************************************************************)
CONSTANT Payees

VARIABLES granted, paid, claimed

vars == <<granted, paid, claimed>>

Init == granted = {} /\ paid = {} /\ claimed = {}

Grant(x) ==
    /\ granted' = granted \cup {x}
    /\ UNCHANGED <<paid, claimed>>

(* Once more is no step here.                                              *)
Pay(x) ==
    /\ x \in granted
    /\ paid' = paid \cup {x}
    /\ UNCHANGED <<granted, claimed>>

Claim(x) ==
    /\ x \in paid
    /\ claimed' = claimed \cup {x}
    /\ UNCHANGED <<granted, paid>>

(* A claim may be taken back: a poll that is late overwrites a status.     *)
Retract(x) ==
    /\ claimed' = claimed \ {x}
    /\ UNCHANGED <<granted, paid>>

Next == \E x \in Payees : Grant(x) \/ Pay(x) \/ Claim(x) \/ Retract(x)

Spec == Init /\ [][Next]_vars
=============================================================================
