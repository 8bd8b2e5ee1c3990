------------------------------ MODULE MCQuotes ------------------------------
(* Two coins of ten units and a dollar of ten units, a price that rises    *)
(* past the soft cap and rounds at half a micro-USD, and a settlement      *)
(* transaction with change to the vault and a fee output.                  *)
EXTENDS Quotes

CONSTANTS indicative, commitment, worker

Ask(kind, from, to, amount) ==
    [kind |-> kind, session |-> "s", from |-> from, to |-> to, amount |-> amount]

Asks ==
    [c \in Calls |->
        CASE c = indicative -> Ask("indicative", "ETH", "BTC", 7)
          [] c = commitment -> Ask("liquidation", "WBTC", "USDC", 7)
          [] c = worker     -> Ask("rebalance", "BTC", "USDC", 7)]

CoinOf == [s \in {"BTC", "WBTC", "ETH", "USDC"} |-> IF s = "WBTC" THEN "BTC" ELSE s]
Units == [s \in {"BTC", "WBTC", "ETH", "USDC"} |-> 10]

TxOutputs == {[to |-> "vault", value |-> 20], [to |-> "pmm", value |-> 7],
              [to |-> "fee", value |-> 1]}
=============================================================================
