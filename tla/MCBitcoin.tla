------------------------------ MODULE MCBitcoin ------------------------------
(* Two payouts, the second of which may be the retry of the first, beside  *)
(* a deposit.  With the estimate 2 the deposit leaves 546 sats, exactly    *)
(* dust; the fallback rate of 5 meets the cap of 4 and leaves less; after  *)
(* one payout at the cap the change does not pay for the other.  The       *)
(* payouts are alike.                                                      *)
EXTENDS BalanceMonitor, TLC

CONSTANTS pay1, pay2, dep

Amounts == [c \in {pay1, pay2, dep} |-> IF c = dep THEN 9001 ELSE 4000]

Values == <<10000, 6000>>

Alike == Permutations({pay1, pay2})
=============================================================================
