------------------------------- MODULE Pricing -------------------------------
(***************************************************************************)
(* The PMM's arithmetic on amounts and prices: the limits of a trade, the  *)
(* quote, the slippage of a NEAR quote, and the amount of BTC a settlement *)
(* transaction took out of the vault.  Token amounts are in smallest units *)
(* and unit is how many of them make one token (10 ^ decimals).  A price   *)
(* is in the finest step a provider gives, PerMicro of them a micro-USD.   *)
(***************************************************************************)
EXTENDS Integers, FiniteSetsExt

CONSTANTS
    PerMicro,       \* price steps in a micro-USD
    MicroPerCent,   \* 10000
    SatsPerBtc,     \* 100000000
    MinTrade, SoftCap, HardCap,         \* config trade, in cents
    CommitmentBps, IndicativeBps,
    ThresholdBps                        \* config rebalance.slippage

Bps == 10000

ASSUME PricingAssumption ==
    /\ {PerMicro, MicroPerCent, SatsPerBtc} \subseteq Nat \ {0}
    /\ {MinTrade, SoftCap, HardCap} \subseteq Nat
    /\ {CommitmentBps, IndicativeBps} \subseteq Nat
    /\ ThresholdBps \in 0 .. Bps

(* n / d to the nearest integer, halves up.                                *)
Rounded(n, d) == (2 * n + d) \div (2 * d)

(* BigInt division drops the fraction, towards zero.                       *)
Truncated(n, d) == IF n >= 0 THEN n \div d ELSE -((-n) \div d)

MicroUsd(price) == Rounded(price, PerMicro)

-----------------------------------------------------------------------------
(* TokenService                                                            *)

AmountInCents(amount, price, unit) ==
    Rounded(amount * price, unit * PerMicro * MicroPerCent)

(* Mutation: a commitment is held to the cap of an indicative quote.       *)
WithinLimitsHardCap(amount, price, unit, isCommitment) ==
    AmountInCents(amount, price, unit) \in MinTrade .. HardCap

WithinLimits(amount, price, unit, isCommitment) ==
    AmountInCents(amount, price, unit) \in
        MinTrade .. (IF isCommitment THEN SoftCap ELSE HardCap)

(* Undefined, as in the code, when the price bought rounds to zero.        *)
BestQuote(amount, fromPrice, toPrice, fromUnit, toUnit, isCommitment) ==
    LET raw == (amount * MicroUsd(fromPrice) * toUnit) \div (MicroUsd(toPrice) * fromUnit)
    IN  (raw * (IF isCommitment THEN CommitmentBps ELSE IndicativeBps)) \div Bps

-----------------------------------------------------------------------------
(* SlippageService                                                         *)

ExpectedUsd(sats, price) == (sats * MicroUsd(price)) \div SatsPerBtc

(* Mutation: the difference the wrong way round.                           *)
SlippageBpsNegated(sats, price, amountOut) ==
    LET expected == ExpectedUsd(sats, price)
    IN  IF expected > 0
        THEN Truncated((amountOut - expected) * Bps, expected) ELSE 0

SlippageBps(sats, price, amountOut) ==
    LET expected == ExpectedUsd(sats, price)
    IN  IF expected > 0
        THEN Truncated((expected - amountOut) * Bps, expected) ELSE 0

IsAcceptable(slippage) == slippage <= ThresholdBps

-----------------------------------------------------------------------------
(* RebalancePendingScheduler.extractRealAmount                             *)

(* An output of a Bitcoin transaction is [to, value].                      *)
Largest(outputs) == Max({o.value : o \in outputs})

NoVault == "none"

(* The largest output that does not return to the vault, and the largest   *)
(* of all when there is none or the vault is not known.                    *)
ExtractRealAmount(outputs, vault) ==
    LET leaving == {o \in outputs : o.to # vault}
    IN  IF vault # NoVault /\ leaving # {} THEN Largest(leaving)
        ELSE Largest(outputs)
=============================================================================
