----------------------------- MODULE QuotesProofs -----------------------------
(***************************************************************************)
(* Proofs about Quotes, for any number of calls sharing the price cache,   *)
(* any prices and amounts, and any cache and provider timeouts.            *)
(***************************************************************************)
EXTENDS Quotes, TLAPS

-----------------------------------------------------------------------------
(* What the arithmetic of Pricing guarantees for all amounts and prices:   *)
(* how far a quote, a limit and a slippage can be off by their rounding.   *)

USE PricingAssumption

LEMMA Floor ==
    ASSUME NEW n \in Int, NEW d \in Nat \ {0}
    PROVE  /\ n \div d \in Int
           /\ d * (n \div d) <= n
           /\ n < d * (n \div d) + d
OBVIOUS

LEMMA FloorNat ==
    ASSUME NEW n \in Nat, NEW d \in Nat \ {0}
    PROVE  n \div d \in Nat
BY Floor

(* A product is monotone in each factor.                                   *)
LEMMA Monotone ==
    ASSUME NEW a \in Int, NEW b \in Int, NEW c \in Nat, a <= b
    PROVE  a * c <= b * c
OBVIOUS

LEMMA NatProduct ==
    ASSUME NEW a \in Nat, NEW b \in Nat
    PROVE  a * b \in Nat
OBVIOUS

LEMMA Positive ==
    ASSUME NEW a \in Nat \ {0}, NEW b \in Nat \ {0}
    PROVE  a * b \in Nat \ {0}
OBVIOUS

(* Rounding is off by at most a half.                                      *)
LEMMA RoundedBounds ==
    ASSUME NEW n \in Nat, NEW d \in Nat \ {0}
    PROVE  /\ Rounded(n, d) \in Nat
           /\ 2 * d * Rounded(n, d) <= 2 * n + d
           /\ 2 * n < 2 * d * Rounded(n, d) + d
<1> DEFINE x == 2 * n + d
           y == 2 * d
<1>1. x \in Nat /\ y \in Nat \ {0}
  OBVIOUS
<1>2. x \div y \in Nat /\ y * (x \div y) <= x /\ x < y * (x \div y) + y
  <2> HIDE DEF x, y
  <2> QED
    BY <1>1, Floor, FloorNat
<1> QED
  BY <1>2 DEF Rounded

LEMMA MicroUsdBounds ==
    ASSUME NEW price \in Nat
    PROVE  /\ MicroUsd(price) \in Nat
           /\ 2 * PerMicro * MicroUsd(price) <= 2 * price + PerMicro
BY RoundedBounds DEF MicroUsd

(* TokenService.calculateBestQuote: at the prices it is given, a quote is  *)
(* worth at most the configured fraction of what it is a quote for.        *)
LEMMA QuoteBacked ==
    ASSUME NEW amount \in Nat, NEW fromPrice \in Nat, NEW toPrice \in Nat,
           NEW fromUnit \in Nat \ {0}, NEW toUnit \in Nat \ {0},
           NEW isCommitment, MicroUsd(toPrice) # 0
    PROVE  LET q == BestQuote(amount, fromPrice, toPrice, fromUnit, toUnit, isCommitment)
               f == IF isCommitment THEN CommitmentBps ELSE IndicativeBps
           IN  /\ q \in Nat
               /\ q * MicroUsd(toPrice) * fromUnit * Bps
                     <= amount * MicroUsd(fromPrice) * toUnit * f
<1> DEFINE f == IF isCommitment THEN CommitmentBps ELSE IndicativeBps
           n == amount * MicroUsd(fromPrice) * toUnit
           d == MicroUsd(toPrice) * fromUnit
           raw == n \div d
           q == (raw * f) \div Bps
<1>1. f \in Nat /\ Bps \in Nat \ {0}
  BY DEF Bps
<1>2. MicroUsd(fromPrice) \in Nat /\ MicroUsd(toPrice) \in Nat \ {0}
  BY MicroUsdBounds
<1>3. n \in Nat /\ d \in Nat \ {0}
  <2>1. d \in Nat \ {0}
    BY <1>2, Positive
  <2> QED
    BY <1>2, <2>1
<1>4. raw \in Nat /\ d * raw <= n
  <2> HIDE DEF n, d
  <2> QED
    BY <1>3, Floor, FloorNat
<1>5. q \in Nat /\ Bps * q <= raw * f
  <2> HIDE DEF raw, f
  <2>1. raw * f \in Nat
    BY <1>1, <1>4
  <2> QED
    BY <1>1, <2>1, Floor, FloorNat
<1>6. (Bps * q) * d <= (raw * f) * d
  <2> HIDE DEF raw, f, q, d
  <2> QED
    BY <1>1, <1>3, <1>4, <1>5, Monotone
<1>7. (d * raw) * f <= n * f
  <2> HIDE DEF raw, f, n, d
  <2> QED
    BY <1>1, <1>3, <1>4, Monotone
<1>8. q * d * Bps <= n * f
  <2> HIDE DEF raw, f, q, n, d
  <2> QED
    BY <1>1, <1>3, <1>4, <1>5, <1>6, <1>7
<1>9. q * MicroUsd(toPrice) * fromUnit * Bps = q * d * Bps
  <2> HIDE DEF q
  <2> QED
    BY <1>1, <1>2, <1>5
<1> QED
  BY <1>5, <1>8, <1>9 DEF BestQuote

(* TokenService.validateTradeAmount: an amount within the limits of a      *)
(* commitment is worth the soft cap, and half a cent and the rounding of   *)
(* its price to micro-USD more, at most.                                   *)
LEMMA LimitHolds ==
    ASSUME NEW amount \in Nat, NEW price \in Nat, NEW unit \in Nat \ {0},
           WithinLimits(amount, price, unit, TRUE)
    PROVE  2 * MicroUsd(price) * amount
               <= (2 * SoftCap + 1) * MicroPerCent * unit + amount
<1> DEFINE n == amount * price
           u == MicroPerCent * unit
           d == unit * PerMicro * MicroPerCent
           c == Rounded(n, d)
           m == MicroUsd(price)
<1>1. n \in Nat /\ u \in Nat \ {0}
  BY Positive
<1>2. d = PerMicro * u /\ d \in Nat \ {0}
  <2>1. d = PerMicro * u
    OBVIOUS
  <2> QED
    BY <1>1, <2>1, Positive
<1>3. c \in Nat /\ 2 * n < 2 * d * c + d /\ c <= SoftCap
  <2>1. c \in Nat /\ 2 * n < 2 * d * c + d
    BY <1>1, <1>2, RoundedBounds
  <2> QED
    BY <2>1 DEF WithinLimits, AmountInCents
<1>4. m \in Nat /\ 2 * PerMicro * m <= 2 * price + PerMicro
  BY MicroUsdBounds
<1>5. 2 * n < (2 * SoftCap + 1) * d
  <2> HIDE DEF n, d, c
  <2>1. c * d <= SoftCap * d
    BY <1>2, <1>3, Monotone
  <2>2. 2 * d * c + d = 2 * (c * d) + d /\ (2 * SoftCap + 1) * d = 2 * (SoftCap * d) + d
    BY <1>2, <1>3
  <2> QED
    BY <1>1, <1>2, <1>3, <2>1, <2>2
<1>6. (2 * PerMicro * m) * amount <= 2 * n + PerMicro * amount
  <2>1. (2 * PerMicro * m) * amount <= (2 * price + PerMicro) * amount
    <3> HIDE DEF m
    <3> QED
      BY <1>4, Monotone
  <2> QED
    BY <2>1
<1>7. PerMicro * (2 * m * amount) < PerMicro * ((2 * SoftCap + 1) * u + amount)
  <2> HIDE DEF m, n, u, d
  <2>1. (2 * SoftCap + 1) * d = PerMicro * ((2 * SoftCap + 1) * u)
    BY <1>1, <1>2
  <2> QED
    BY <1>1, <1>2, <1>4, <1>5, <1>6, <2>1
<1>8. 2 * m * amount <= (2 * SoftCap + 1) * u + amount
  <2> DEFINE x == 2 * m * amount
             y == (2 * SoftCap + 1) * u + amount
  <2>1. x \in Nat /\ y \in Nat
    <3> HIDE DEF m, u
    <3> QED
      BY <1>1, <1>4
  <2>2. y < x => PerMicro * y <= PerMicro * x
    <3> HIDE DEF x, y
    <3> QED
      BY <2>1, Monotone
  <2> HIDE DEF x, y
  <2>3. x <= y
    BY <1>7, <2>1, <2>2 DEF x, y
  <2> QED
    BY <2>3 DEF x, y
<1> QED
  <2>1. (2 * SoftCap + 1) * u = (2 * SoftCap + 1) * MicroPerCent * unit
    OBVIOUS
  <2> QED
    BY <1>8, <2>1

(* SlippageService.checkSlippage: an amount that is accepted loses at most *)
(* the threshold, and less than one basis point more, on what is expected. *)
LEMMA AcceptedLoss ==
    ASSUME NEW sats \in Nat, NEW price \in Nat, NEW out \in Nat,
           ExpectedUsd(sats, price) > 0,
           IsAcceptable(SlippageBps(sats, price, out))
    PROVE  ExpectedUsd(sats, price) * (Bps - ThresholdBps - 1) < out * Bps
<1> DEFINE e == ExpectedUsd(sats, price)
           n == (e - out) * Bps
           s == Truncated(n, e)
<1>1. e \in Nat \ {0}
  <2>1. sats * MicroUsd(price) \in Nat
    BY MicroUsdBounds
  <2>2. e \in Nat
    BY <2>1, FloorNat DEF ExpectedUsd
  <2> QED
    BY <2>2
<1>2. n \in Int /\ Bps \in Nat
  BY <1>1 DEF Bps
<1>3. s <= ThresholdBps
  BY DEF SlippageBps, IsAcceptable
<1> HIDE DEF e
<1>4. CASE n >= 0
  <2>1. s \in Int /\ n < e * s + e
    <3> HIDE DEF n
    <3> QED
      BY <1>1, <1>2, <1>4, Floor DEF Truncated
  <2>2. e * s <= e * ThresholdBps
    <3> HIDE DEF s
    <3> QED
      BY <1>1, <1>3, <2>1, Monotone
  <2> HIDE DEF s
  <2>3. (e - out) * Bps < e * ThresholdBps + e
    BY <1>1, <1>2, <2>1, <2>2
  <2> QED
    BY <1>1, <1>2, <2>3 DEF e
<1>5. CASE n < 0
  <2>1. e * Bps < out * Bps
    BY <1>1, <1>2, <1>5
  <2>2. e * (ThresholdBps + 1) \in Nat
    BY <1>1
  <2>3. e * (Bps - ThresholdBps - 1) = e * Bps - e * (ThresholdBps + 1)
    BY <1>1, <1>2
  <2> QED
    BY <1>1, <1>2, <2>1, <2>2, <2>3 DEF e
<1> QED
  BY <1>2, <1>4, <1>5

HIDE PricingAssumption

-----------------------------------------------------------------------------
(* The calls, the cache and the providers                                  *)

LEMMA ConstantTypes ==
    /\ TTL \in Nat \ {0} /\ Timeout \in Nat \ {0} /\ MaxTime \in Nat
    /\ Received \in Nat /\ \A out \in AmountsOut : out \in Nat
    /\ \A price \in MarketPrices : price \in Nat \ {0}
BY QuotesAssumption

LEMMA RequestTypes ==
    ASSUME NEW c \in Calls
    PROVE  /\ Request[c].from \in Symbols /\ Request[c].to \in Symbols
           /\ Request[c].amount \in Nat
           /\ Unit[Request[c].from] \in Nat \ {0} /\ Unit[Request[c].to] \in Nat \ {0}
           /\ ~IsQuote(c) => Request[c].kind = "rebalance"
           /\ IsCommitment(c) => IsQuote(c)
           /\ Request[c].session \in Sessions
BY QuotesAssumption DEF IsQuote, IsCommitment

-----------------------------------------------------------------------------
(* The inductive invariant                                                 *)

Entry  == [price : Nat, asOf : Int, since : Int]
Answer == [price : Nat, asOf : Int]
Given  == [price : Nat, asOf : Int, at : Int]
Fetch  == [start : Int, answers : [Providers -> Answer]]

Stages == {"start", "prices", "quoted", "rejected", "done", "thrown"}

Types ==
    /\ now \in 0 .. MaxTime
    /\ cache \in [Coins -> Entry]
    /\ session \in [Sessions -> Never .. MaxTime]
    /\ at \in [Calls -> Stages]
    /\ got \in [Calls -> Seq(Given)]
    /\ fetch \in [Calls -> Fetch]
    /\ amountOut \in [Calls -> AmountsOut \cup {Never}]
    /\ result \in [Calls -> Int]

(* What is cached is younger than TTL, and was younger than Timeout when   *)
(* it was stored.                                                          *)
CacheInv ==
    \A k \in Coins :
        \/ cache[k] = NotCached
        \/ /\ cache[k].asOf \in 0 .. cache[k].since
           /\ cache[k].since \in 0 .. now
           /\ now < cache[k].since + TTL
           /\ cache[k].since <= cache[k].asOf + Timeout

(* Answers of a fetch are not older than the fetch, which is not older     *)
(* than Timeout.                                                           *)
FetchInv(c) ==
    fetch[c] # NoFetch =>
        /\ Asking(c) /\ Asked(c) \notin STABLECOINS
        /\ fetch[c].start \in 0 .. now /\ now <= fetch[c].start + Timeout
        /\ \A p \in Providers :
             fetch[c].answers[p] \in {Awaited, Failed}
               \/ fetch[c].answers[p].asOf \in fetch[c].start .. now

(* The prices a call goes by.                                              *)
GotInv(c) ==
    /\ at[c] \in {"start", "thrown"} => got[c] = <<>>
    /\ Len(got[c]) <= Len(PricesFor(c))
    /\ \A i \in 1 .. Len(got[c]) :
         got[c][i].asOf <= got[c][i].at /\ Recent(got[c][i], got[c][i].at, 1)

(* A quote waits for its second price no longer than for the providers.    *)
PairInv(c) ==
    IsQuote(c) =>
        /\ Len(got[c]) = 2 =>
             got[c][2].at = IF fetch[c] = NoFetch THEN now ELSE fetch[c].start
        /\ Len(got[c]) = 3 => got[c][3].at <= got[c][2].at + Timeout

(* What has been checked and calculated with them.                         *)
ResultInv(c) ==
    /\ IsQuote(c) /\ Len(got[c]) >= 1 =>
         WithinLimits(Request[c].amount, got[c][1].price, Unit[Request[c].from],
                      IsCommitment(c))
    /\ IsQuote(c) /\ Len(got[c]) = 3 => MicroUsd(got[c][3].price) # 0
    /\ at[c] \in {"quoted", "rejected", "done"} =>
         /\ Len(got[c]) = Len(PricesFor(c))
         /\ at[c] = "quoted" => IsQuote(c)
         /\ IsQuote(c) => result[c] = Quote(c, got[c])
         /\ ~IsQuote(c) => /\ amountOut[c] \in AmountsOut
                           /\ at[c] = "done" => IsAcceptable(Slippage(c, got[c]))

CallInv(c) == FetchInv(c) /\ GotInv(c) /\ PairInv(c) /\ ResultInv(c)

IInv ==
    /\ Types
    /\ CacheInv
    /\ \A c \in Calls : CallInv(c)

-----------------------------------------------------------------------------
(* A call is left alone by the steps of others.                            *)
LEMMA CallKept ==
    ASSUME NEW c \in Calls, CallInv(c),
           UNCHANGED <<now, at[c], got[c], fetch[c], amountOut[c], result[c]>>
    PROVE  CallInv(c)'
BY DEF CallInv, FetchInv, GotInv, ResultInv, Asking, Asked, Recent, PairInv, Quote, Slippage

LEMMA Amount ==
    ExtractRealAmount(Outputs, Vault) = Received
<1> DEFINE leaving == {o \in Outputs : o.to # Vault}
           counted == Beside(Vault)
           values == {o.value : o \in counted}
<1>1. Received \in values /\ \A x \in values : x \in Nat /\ Received >= x
  BY OutputsAssumption DEF Beside
<1>2. \A x \in values : (\A y \in values : x >= y) => x = Received
  BY <1>1
<1>3. Max(values) = Received
  <2> HIDE DEF values
  <2> QED
    BY <1>1, <1>2 DEF Max
<1>4. IF Vault # NoVault THEN counted = leaving /\ leaving # {} ELSE counted = Outputs
  BY OutputsAssumption DEF Beside
<1>5. Largest(counted) = Received
  BY <1>3 DEF Largest
<1>6. ExtractRealAmount(Outputs, Vault) = Largest(counted)
  BY <1>4 DEF ExtractRealAmount
<1> QED
  BY <1>5, <1>6

LEMMA PricesAsked ==
    ASSUME NEW c \in Calls
    PROVE  /\ Len(PricesFor(c)) = IF IsQuote(c) THEN 3 ELSE 2
           /\ \A i \in 1 .. Len(PricesFor(c)) : PricesFor(c)[i] \in Symbols
BY QuotesAssumption DEF PricesFor

LEMMA AskedCoin ==
    ASSUME NEW c \in Calls, Types, Asking(c), Asked(c) \notin STABLECOINS
    PROVE  Asked(c) \in Coins
<1>1. Len(got[c]) \in Nat /\ Len(got[c]) + 1 \in 1 .. Len(PricesFor(c))
  BY PricesAsked DEF Types, Asking
<1> QED
  BY <1>1, PricesAsked DEF Asked, Coins

LEMMA ResultTypes ==
    ASSUME NEW c \in Calls, NEW given \in Seq(Given), Len(given) = Len(PricesFor(c)),
           ~Refused(c, given), ~IsQuote(c) => amountOut[c] \in AmountsOut
    PROVE  Outcome(c, given)[2] \in Int
<1>1. CASE IsQuote(c)
  <2>1. Len(given) = 3 /\ given[2] \in Given /\ given[3] \in Given
    BY <1>1, PricesAsked
  <2>2. MicroUsd(given[3].price) # 0
    BY <1>1, <2>1 DEF Refused
  <2>3. /\ given[2].price \in Nat /\ given[3].price \in Nat
        /\ Request[c].amount \in Nat
        /\ Unit[Request[c].from] \in Nat \ {0} /\ Unit[Request[c].to] \in Nat \ {0}
    BY <2>1, RequestTypes DEF Given
  <2>4. Quote(c, given) \in Nat
    BY <2>2, <2>3, QuoteBacked DEF Quote
  <2> QED
    BY <1>1, <2>4 DEF Outcome
<1>2. CASE ~IsQuote(c)
  <2>1. given[2].price \in Nat /\ Received \in Nat
    <3>1. Len(given) = 2
      BY <1>2, PricesAsked
    <3>2. given[2] \in Given
      <4>1. 2 \in 1 .. Len(given)
        BY <3>1
      <4> QED
        BY <4>1
    <3> QED
      BY <3>2, ConstantTypes DEF Given
  <2> DEFINE e == ExpectedUsd(Received, given[2].price)
             n == (e - amountOut[c]) * Bps
  <2>2. e \in Nat
    <3>1. Received * MicroUsd(given[2].price) \in Nat
      BY <2>1, MicroUsdBounds, NatProduct
    <3> QED
      BY <3>1, FloorNat, PricingAssumption DEF ExpectedUsd
  <2>3. n \in Int
    <3>1. amountOut[c] \in Int /\ Bps \in Int
      BY <1>2, ConstantTypes DEF Bps
    <3> HIDE DEF e
    <3> QED
      BY <2>2, <3>1
  <2>4. e > 0 => Truncated(n, e) \in Int
    <3> HIDE DEF n, e
    <3> QED
      BY <2>2, <2>3, Floor DEF Truncated
  <2> QED
    BY <1>2, <2>4, Amount DEF Outcome, Slippage, SlippageBps
<1> QED
  BY <1>1, <1>2

(* A price arrives at a call that asked for it.                            *)
LEMMA ArrivesKeeps ==
    ASSUME Types, NEW c \in Calls, CallInv(c), Asking(c),
           NEW price, price.price \in Nat, price.asOf \in Int,
           price.asOf <= now, now < price.asOf + TTL + Timeout,
           Arrives(c, price), fetch'[c] = NoFetch, now' = now
    PROVE  /\ at' \in [Calls -> Stages] /\ got' \in [Calls -> Seq(Given)]
           /\ amountOut' \in [Calls -> AmountsOut \cup {Never}]
           /\ result' \in [Calls -> Int]
           /\ CallInv(c)'
           /\ \A d \in Calls \ {c} :
                UNCHANGED <<at[d], got[d], amountOut[d], result[d]>>
<1> DEFINE one == [price |-> price.price, asOf |-> price.asOf, at |-> now]
           given == Append(got[c], one)
<1> USE DEF Types
<1>1. /\ one \in Given /\ got[c] \in Seq(Given) /\ given \in Seq(Given)
      /\ Len(given) = Len(got[c]) + 1
      /\ \A i \in 1 .. Len(got[c]) : given[i] = got[c][i]
      /\ given[Len(given)] = one
  BY DEF Given
<1>2. Len(given) <= Len(PricesFor(c)) /\ at[c] = "prices"
  BY <1>1, PricesAsked DEF Asking
<1>3. CASE Refused(c, given)
  <2>1. Throw(c)
    BY <1>3 DEF Arrives
  <2>2. /\ at' = [at EXCEPT ![c] = "thrown"] /\ got' = [got EXCEPT ![c] = <<>>]
        /\ amountOut' = [amountOut EXCEPT ![c] = Never] /\ result' = result
    BY <2>1 DEF Throw
  <2>3. CallInv(c)'
    <3>1. got'[c] = <<>> /\ at'[c] = "thrown" /\ Len(got'[c]) = 0
      BY <2>2
    <3> QED
      BY <3>1, PricesAsked DEF CallInv, FetchInv, GotInv, PairInv, ResultInv
  <2> QED
    BY <2>2, <2>3 DEF Stages
<1>4. CASE ~Refused(c, given)
  <2>1. /\ got' = [got EXCEPT ![c] = given] /\ amountOut' = amountOut
        /\ IF Len(given) < Len(PricesFor(c)) THEN UNCHANGED <<at, result>>
           ELSE /\ at' = [at EXCEPT ![c] = Outcome(c, given)[1]]
                /\ result' = [result EXCEPT ![c] = Outcome(c, given)[2]]
    BY <1>4 DEF Arrives
  <2>2. ~IsQuote(c) /\ Len(given) = Len(PricesFor(c)) => amountOut[c] \in AmountsOut
    <3>1. ~IsQuote(c) => Request[c].kind = "rebalance" /\ Len(PricesFor(c)) = 2
      BY PricesAsked, RequestTypes
    <3>2. Len(got[c]) \in Nat
      BY <1>1
    <3>3. ~IsQuote(c) /\ Len(given) = Len(PricesFor(c)) => Len(got[c]) = 1
      <4> DEFINE n == Len(got[c])
      <4>1. n \in Nat /\ Len(given) = n + 1
        BY <1>1
      <4>2. ~IsQuote(c) /\ Len(given) = Len(PricesFor(c)) => n + 1 = 2
        BY <3>1, <4>1
      <4> HIDE DEF n
      <4>3. n + 1 = 2 => n = 1
        BY <4>1
      <4> QED
        BY <4>2, <4>3 DEF n
    <3> QED
      BY <3>1, <3>3 DEF Asking
  <2>3. Len(given) >= Len(PricesFor(c)) => Outcome(c, given)[2] \in Int
    <3>1. Len(given) >= Len(PricesFor(c)) => Len(given) = Len(PricesFor(c))
      <4>1. Len(given) \in Nat /\ Len(PricesFor(c)) \in Nat
        BY <1>1, PricesAsked
      <4> QED
        BY <1>2, <4>1
    <3> HIDE DEF given
    <3> QED
      BY <1>1, <1>4, <2>2, <3>1, ResultTypes
  <2>4. Outcome(c, given)[1] \in Stages
    BY DEF Outcome, Stages
  <2>5. GotInv(c)'
    <3>1. Recent(one, one.at, 1) /\ one.asOf <= one.at
      BY ConstantTypes DEF Recent
    <3>2. got'[c] = given /\ at'[c] \notin {"start", "thrown"}
      BY <1>2, <2>1 DEF Outcome
    <3>3. \A i \in 1 .. Len(given) : i = Len(given) \/ i \in 1 .. Len(got[c])
      BY <1>1
    <3>4. \A i \in 1 .. Len(got[c]) :
            Recent(got[c][i], got[c][i].at, 1) /\ got[c][i].asOf <= got[c][i].at
      BY DEF CallInv, GotInv
    <3>5. \A i \in 1 .. Len(given) :
            Recent(given[i], given[i].at, 1) /\ given[i].asOf <= given[i].at
      <4> HIDE DEF one, given
      <4> QED
        BY <1>1, <3>1, <3>3, <3>4
    <3> QED
      BY <1>2, <3>2, <3>5 DEF GotInv, Recent
  <2>6. ResultInv(c)'
    <3>1. got'[c] = given /\ amountOut'[c] = amountOut[c]
      BY <2>1
    <3>2. IsQuote(c) /\ Len(given) >= 1 =>
            WithinLimits(Request[c].amount, given[1].price, Unit[Request[c].from],
                         IsCommitment(c))
      <4>1. CASE Len(given) = 1
        BY <1>4, <4>1 DEF Refused
      <4>2. CASE Len(given) # 1
        <5>1. Len(given) >= 1 => Len(got[c]) >= 1 /\ given[1] = got[c][1]
          BY <1>1, <4>2
        <5> QED
          BY <5>1 DEF CallInv, ResultInv
      <4> QED
        BY <4>1, <4>2
    <3>3. IsQuote(c) /\ Len(given) = 3 => MicroUsd(given[3].price) # 0
      BY <1>4 DEF Refused
    <3>4. at'[c] \in {"quoted", "rejected", "done"} =>
            /\ Len(given) = Len(PricesFor(c))
            /\ at'[c] = Outcome(c, given)[1] /\ result'[c] = Outcome(c, given)[2]
      BY <1>1, <1>2, <2>1, PricesAsked
    <3>5. IsQuote(c) => Outcome(c, given)[2] = Quote(c, given)
      BY DEF Outcome
    <3>6. ~IsQuote(c) /\ Outcome(c, given)[1] = "done" => IsAcceptable(Slippage(c, given))
      BY DEF Outcome
    <3>7. Outcome(c, given)[1] = "quoted" => IsQuote(c)
      BY DEF Outcome
    <3> HIDE DEF given
    <3> QED
      BY <2>2, <3>1, <3>2, <3>3, <3>4, <3>5, <3>6, <3>7 DEF ResultInv, Quote, Slippage
  <2>7. FetchInv(c)'
    BY DEF FetchInv
  <2>8. \A d \in Calls \ {c} : UNCHANGED <<at[d], got[d], amountOut[d], result[d]>>
    BY <2>1
  <2>10. PairInv(c)'
    <3>1. got'[c] = given /\ one.at = now /\ now \in Nat
      BY <2>1, ConstantTypes
    <3>2. Len(given) = 2 => given[2] = one
      BY <1>1
    <3>3. Len(given) = 3 => Len(got[c]) = 2 /\ given[2] = got[c][2] /\ given[3] = one
      <4> DEFINE n == Len(got[c])
      <4>1. /\ n \in Nat /\ Len(given) = n + 1 /\ given[Len(given)] = one
            /\ \A i \in 1 .. n : given[i] = got[c][i]
        BY <1>1
      <4> HIDE DEF one, given, n
      <4>2. Len(given) = 3 => n = 2
        <5>1. n \in Nat /\ Len(given) = n + 1
          BY <4>1
        <5>2. n + 1 = 3 => n = 2
          BY ONLY <5>1, SMT
        <5> QED
          BY ONLY <5>1, <5>2, Zenon
      <4>3. n = 2 => given[2] = got[c][2]
        BY <4>1
      <4> QED
        BY <4>1, <4>2, <4>3 DEF n
    <3>4. IsQuote(c) /\ Len(got[c]) = 2 => now <= got[c][2].at + Timeout
      <4>1. CASE fetch[c] = NoFetch
        BY <3>1, <4>1, ConstantTypes DEF CallInv, PairInv
      <4>2. CASE fetch[c] # NoFetch
        BY <4>2 DEF CallInv, PairInv, FetchInv
      <4> QED
        BY <4>1, <4>2
    <3> HIDE DEF one, given
    <3>5. IsQuote(c) /\ Len(given) = 3 => given[3].at <= given[2].at + Timeout
      BY <3>1, <3>2, <3>3, <3>4
    <3> QED
      BY <3>1, <3>2, <3>5 DEF PairInv
  <2>9. /\ at' \in [Calls -> Stages] /\ got' \in [Calls -> Seq(Given)]
        /\ amountOut' \in [Calls -> AmountsOut \cup {Never}]
        /\ result' \in [Calls -> Int]
    <3>1. Len(given) \in Nat /\ Len(PricesFor(c)) \in Nat
      BY <1>1, PricesAsked
    <3> HIDE DEF given
    <3>2. got' \in [Calls -> Seq(Given)] /\ amountOut' \in [Calls -> AmountsOut \cup {Never}]
      BY <1>1, <2>1
    <3>3. CASE Len(given) < Len(PricesFor(c))
      BY <2>1, <3>2, <3>3
    <3>4. CASE Len(given) >= Len(PricesFor(c))
      <4>1. /\ at' = [at EXCEPT ![c] = Outcome(c, given)[1]]
            /\ result' = [result EXCEPT ![c] = Outcome(c, given)[2]]
        BY <2>1, <3>1, <3>4
      <4> QED
        BY <2>3, <2>4, <3>2, <3>4, <4>1
    <3> QED
      BY <3>1, <3>3, <3>4
  <2> QED
    BY <2>5, <2>6, <2>7, <2>8, <2>9, <2>10 DEF CallInv
<1> QED
  BY <1>3, <1>4

-----------------------------------------------------------------------------
(* The invariant is inductive                                              *)

LEMMA InvInit == Init => IInv
<1> SUFFICES ASSUME Init PROVE IInv
  OBVIOUS
<1>1. Types
  BY ConstantTypes DEF Init, Types, Entry, Stages, Fetch, Answer, NotCached, NoFetch,
     Awaited, Never
<1>2. CacheInv
  BY DEF Init, CacheInv
<1>3. ASSUME NEW c \in Calls
      PROVE  CallInv(c)
  <2>1. got[c] = <<>> /\ at[c] = "start" /\ fetch[c] = NoFetch /\ Len(got[c]) = 0
    BY DEF Init
  <2> QED
    BY <2>1, PricesAsked DEF CallInv, FetchInv, GotInv, PairInv, ResultInv
<1> QED
  BY <1>1, <1>2, <1>3 DEF IInv

(* Nothing that has expired is left after a step of time, and no fetch     *)
(* outlives its timeout.                                                   *)
LEMMA InvTick ==
    ASSUME IInv, Tick
    PROVE  IInv'
<1> USE DEF IInv
<1>1. now \in Nat /\ now' = now + 1 /\ now' \in 0 .. MaxTime
  BY ConstantTypes DEF Tick, Types
<1>2. UNCHANGED <<at, got, fetch, amountOut, result>>
  BY DEF Tick
<1>3. Types'
  <2>1. cache' \in [Coins -> Entry]
    <3>1. NotCached \in Entry
      BY DEF NotCached, Entry, Never
    <3> QED
      BY <3>1 DEF Tick, Types
  <2>2. session' \in [Sessions -> Never .. MaxTime]
    BY ConstantTypes DEF Tick, Types, Never
  <2> QED
    BY <1>1, <1>2, <2>1, <2>2 DEF Types
<1>4. CacheInv'
  <2> SUFFICES ASSUME NEW k \in Coins, cache'[k] # NotCached
               PROVE  /\ cache'[k].asOf \in 0 .. cache'[k].since
                      /\ cache'[k].since \in 0 .. now'
                      /\ now' < cache'[k].since + TTL
                      /\ cache'[k].since <= cache'[k].asOf + Timeout
    BY DEF CacheInv
  <2>1. cache'[k] = cache[k] /\ cache[k] # NotCached /\ ~Expires(cache[k].since, TTL)
    BY DEF Tick
  <2>2. /\ cache[k].asOf \in 0 .. cache[k].since /\ cache[k].since \in 0 .. now
        /\ cache[k].since <= cache[k].asOf + Timeout
    BY <2>1 DEF CacheInv
  <2>3. ~(now + 1 - cache[k].since >= TTL)
    BY <2>1, <2>2 DEF Expires, Never
  <2> QED
    BY <1>1, <2>1, <2>2, <2>3, ConstantTypes
<1>5. ASSUME NEW c \in Calls
      PROVE  CallInv(c)'
  <2>1. FetchInv(c)'
    <3>1. ASSUME fetch[c] # NoFetch
          PROVE  FetchInv(c)'
      <4>1. now < fetch[c].start + Timeout
        BY <3>1 DEF Tick, CanWait
      <4>2. /\ Asking(c)' /\ Asked(c)' \notin STABLECOINS
            /\ fetch[c].start \in 0 .. now
        BY <1>2, <3>1 DEF CallInv, FetchInv, Asking, Asked
      <4>3. fetch[c].start \in 0 .. now' /\ now' <= fetch[c].start + Timeout
        BY <1>1, <4>1, <4>2, ConstantTypes
      <4>4. ASSUME NEW p \in Providers
            PROVE  \/ fetch[c].answers[p] \in {Awaited, Failed}
                   \/ fetch[c].answers[p].asOf \in fetch[c].start .. now'
        BY <1>1, <3>1, <4>2 DEF CallInv, FetchInv
      <4> QED
        BY <1>2, <4>2, <4>3, <4>4 DEF FetchInv
    <3> QED
      BY <1>2, <3>1 DEF FetchInv
  <2>2. GotInv(c)' /\ ResultInv(c)'
    BY <1>2 DEF CallInv, GotInv, ResultInv, Recent, Quote, Slippage
  <2>3. PairInv(c)'
    <3>1. IsQuote(c) /\ Len(got[c]) = 2 => fetch[c] # NoFetch
      BY DEF Tick, CanWait, BetweenPrices
    <3> QED
      BY <1>2, <3>1 DEF CallInv, PairInv
  <2> QED
    BY <2>1, <2>2, <2>3 DEF CallInv
<1> QED
  BY <1>3, <1>4, <1>5

(* A step of call c that touches nothing but c and what follows from it.   *)
LEMMA StepOfCall ==
    ASSUME IInv, NEW c \in Calls, now' = now, CallInv(c)',
           \A d \in Calls \ {c} :
               UNCHANGED <<at[d], got[d], fetch[d], amountOut[d], result[d]>>
    PROVE  \A d \in Calls : CallInv(d)'
BY CallKept DEF IInv

(* A call that throws keeps nothing.                                       *)
LEMMA ThrowKeeps ==
    ASSUME IInv, NEW c \in Calls, Throw(c), fetch'[c] = NoFetch,
           fetch' \in [Calls -> Fetch],
           \A d \in Calls \ {c} : UNCHANGED fetch[d],
           UNCHANGED <<now, cache, session>>
    PROVE  IInv'
<1>1. /\ at' = [at EXCEPT ![c] = "thrown"] /\ got' = [got EXCEPT ![c] = <<>>]
      /\ amountOut' = [amountOut EXCEPT ![c] = Never] /\ result' = result
  BY DEF Throw
<1>2. Types'
  BY <1>1 DEF IInv, Types, Stages
<1>3. CacheInv'
  BY DEF IInv, CacheInv
<1>4. CallInv(c)'
  <2>1. got'[c] = <<>> /\ at'[c] = "thrown" /\ Len(got'[c]) = 0
    BY <1>1 DEF IInv, Types
  <2> QED
    BY <2>1, PricesAsked DEF CallInv, FetchInv, GotInv, PairInv, ResultInv
<1>5. \A d \in Calls \ {c} :
        UNCHANGED <<at[d], got[d], fetch[d], amountOut[d], result[d]>>
  BY <1>1 DEF IInv, Types
<1> QED
  BY <1>2, <1>3, <1>4, <1>5, StepOfCall DEF IInv

(* A price that arrives from the cache, a provider or by definition.       *)
LEMMA ArrivalStep ==
    ASSUME IInv, NEW c \in Calls, Asking(c), NEW price, price.price \in Nat,
           price.asOf \in Int, price.asOf <= now, now < price.asOf + TTL + Timeout,
           Arrives(c, price), fetch' \in [Calls -> Fetch], fetch'[c] = NoFetch,
           \A d \in Calls \ {c} : UNCHANGED fetch[d],
           UNCHANGED <<now, session>>, cache' \in [Coins -> Entry], CacheInv'
    PROVE  IInv'
<1>1. /\ at' \in [Calls -> Stages] /\ got' \in [Calls -> Seq(Given)]
      /\ amountOut' \in [Calls -> AmountsOut \cup {Never}]
      /\ result' \in [Calls -> Int]
      /\ CallInv(c)'
      /\ \A d \in Calls \ {c} :
           UNCHANGED <<at[d], got[d], amountOut[d], result[d]>>
  BY ArrivesKeeps DEF IInv
<1>2. Types'
  BY <1>1 DEF IInv, Types
<1>3. \A d \in Calls : CallInv(d)'
  BY <1>1, StepOfCall
<1> QED
  BY <1>2, <1>3 DEF IInv

LEMMA InvBegin ==
    ASSUME IInv, NEW c \in Calls, Begin(c)
    PROVE  IInv'
<1>1. fetch[c] = NoFetch /\ fetch' = fetch /\ UNCHANGED <<now, cache, session>>
  BY DEF Begin, IInv, CallInv, FetchInv, Asking
<1>2. CASE Throw(c)
  BY <1>1, <1>2, ThrowKeeps DEF IInv, Types
<1>3. CASE at' = [at EXCEPT ![c] = "prices"] /\ UNCHANGED <<got, amountOut, result>>
  <2>1. Types' /\ CacheInv'
    BY <1>1, <1>3 DEF IInv, Types, CacheInv, Stages
  <2>2. at[c] = "start" /\ got'[c] = <<>> /\ at'[c] = "prices" /\ Len(got'[c]) = 0
    BY <1>3 DEF Begin, IInv, Types, CallInv, GotInv
  <2>3. CallInv(c)'
    BY <1>1, <2>2, PricesAsked DEF CallInv, FetchInv, GotInv, PairInv, ResultInv
  <2>4. \A d \in Calls \ {c} :
          UNCHANGED <<at[d], got[d], fetch[d], amountOut[d], result[d]>>
    BY <1>1, <1>3 DEF IInv, Types
  <2> QED
    BY <1>1, <2>1, <2>3, <2>4, StepOfCall DEF IInv
<1> QED
  BY <1>2, <1>3 DEF Begin

LEMMA InvGetTokenPrice ==
    ASSUME IInv, NEW c \in Calls, GetTokenPrice(c)
    PROVE  IInv'
<1>1. /\ Asking(c) /\ fetch[c] = NoFetch /\ UNCHANGED <<now, cache, session>>
      /\ cache' \in [Coins -> Entry] /\ CacheInv'
  BY DEF GetTokenPrice, IInv, Types, CacheInv
<1>2. now \in Nat
  BY ConstantTypes DEF IInv, Types
<1>3. CASE Asked(c) \in STABLECOINS
  <2> DEFINE price == [price |-> Dollar, asOf |-> now]
  <2>1. Arrives(c, price) /\ fetch' = fetch
    BY <1>3 DEF GetTokenPrice
  <2>2. price.price \in Nat
    BY PricingAssumption, NatProduct DEF Dollar
  <2>3. price.asOf \in Int /\ price.asOf <= now /\ now < price.asOf + TTL + Timeout
    BY <1>2, ConstantTypes
  <2>4. fetch' \in [Calls -> Fetch] /\ fetch'[c] = NoFetch /\ \A d \in Calls \ {c} : UNCHANGED fetch[d]
    BY <1>1, <2>1 DEF IInv, Types
  <2> HIDE DEF price
  <2> QED
    BY <1>1, <2>1, <2>2, <2>3, <2>4, ArrivalStep
<1>4. CASE Asked(c) \notin STABLECOINS /\ Cached(Asked(c))
  <2> DEFINE price == cache[Asked(c)]
  <2>1. Arrives(c, price) /\ fetch' = fetch
    BY <1>4 DEF GetTokenPrice
  <2>2. Asked(c) \in Coins
    BY <1>1, <1>4, AskedCoin DEF IInv
  <2>3. price \in Entry
    BY <2>2 DEF IInv, Types
  <2>4. /\ price.asOf \in 0 .. price.since /\ price.since \in 0 .. now
        /\ now < price.since + TTL /\ price.since <= price.asOf + Timeout
    BY <1>4, <2>2 DEF IInv, CacheInv, Cached
  <2>5. price.price \in Nat /\ price.asOf \in Int /\ price.since \in Int
    BY <2>3 DEF Entry
  <2>6. fetch' \in [Calls -> Fetch] /\ fetch'[c] = NoFetch /\ \A d \in Calls \ {c} : UNCHANGED fetch[d]
    BY <1>1, <2>1 DEF IInv, Types
  <2> HIDE DEF price
  <2>7. price.asOf <= now /\ now < price.asOf + TTL + Timeout
    BY <1>2, <2>4, <2>5, ConstantTypes
  <2> QED
    BY <1>1, <2>1, <2>5, <2>6, <2>7, ArrivalStep
<1>5. CASE Asked(c) \notin STABLECOINS /\ ~Cached(Asked(c))
  <2> DEFINE begun == [NoFetch EXCEPT !.start = now]
  <2>1. fetch' = [fetch EXCEPT ![c] = begun] /\ UNCHANGED <<at, got, amountOut, result>>
    BY <1>5 DEF GetTokenPrice
  <2>2. /\ begun \in Fetch /\ begun.start = now
        /\ \A p \in Providers : begun.answers[p] = Awaited
    BY <1>2 DEF NoFetch, Fetch, Answer, Awaited, Never
  <2> HIDE DEF begun
  <2>3. Types'
    BY <1>1, <2>1, <2>2 DEF IInv, Types
  <2>4. CallInv(c)'
    <3>1. fetch'[c] = begun
      BY <2>1 DEF IInv, Types
    <3>2. FetchInv(c)'
      <4>1. Asking(c)' /\ Asked(c)' \notin STABLECOINS
        BY <1>1, <1>5, <2>1 DEF Asking, Asked
      <4>2. begun.start \in 0 .. now' /\ now' <= begun.start + Timeout
        BY <1>1, <1>2, <2>2, ConstantTypes
      <4> QED
        BY <2>2, <3>1, <4>1, <4>2 DEF FetchInv
    <3>3. GotInv(c)' /\ ResultInv(c)'
      BY <1>1, <2>1 DEF IInv, CallInv, GotInv, ResultInv, Recent, Quote, Slippage
    <3>4. PairInv(c)'
      BY <1>1, <2>1, <2>2, <3>1 DEF IInv, CallInv, PairInv
    <3> QED
      BY <3>2, <3>3, <3>4 DEF CallInv
  <2>5. \A d \in Calls \ {c} :
          UNCHANGED <<at[d], got[d], fetch[d], amountOut[d], result[d]>>
    BY <2>1 DEF IInv, Types
  <2> QED
    BY <1>1, <2>3, <2>4, <2>5, StepOfCall DEF IInv
<1> QED
  BY <1>3, <1>4, <1>5

LEMMA InvProviderAnswers ==
    ASSUME IInv, NEW c \in Calls, NEW p \in Providers, ProviderAnswers(c, p)
    PROVE  IInv'
<1>1. PICK answer \in {[price |-> price, asOf |-> now] : price \in MarketPrices} \cup {Failed} :
        fetch' = [fetch EXCEPT ![c].answers[p] = answer]
  BY DEF ProviderAnswers
<1>2. now \in Nat
  BY ConstantTypes DEF IInv, Types
<1>3. answer \in Answer /\ (answer = Failed \/ answer.asOf = now)
  BY <1>2, ConstantTypes DEF Answer, Failed
<1>4. /\ UNCHANGED <<now, cache, session, at, got, amountOut, result>>
      /\ fetch[c] # NoFetch
  BY DEF ProviderAnswers
<1>5. Types' /\ CacheInv'
  <2>1. fetch' \in [Calls -> Fetch]
    BY <1>1, <1>3 DEF IInv, Types, Fetch
  <2> QED
    BY <1>4, <2>1 DEF IInv, Types, CacheInv
<1>6. CallInv(c)'
  <2>1. /\ fetch'[c].start = fetch[c].start
        /\ fetch'[c].answers[p] = answer
        /\ \A q \in Providers \ {p} : fetch'[c].answers[q] = fetch[c].answers[q]
    BY <1>1 DEF IInv, Types, Fetch
  <2>2. FetchInv(c)'
    <3>1. /\ Asking(c) /\ Asked(c) \notin STABLECOINS
          /\ fetch[c].start \in 0 .. now /\ now <= fetch[c].start + Timeout
          /\ \A q \in Providers :
               fetch[c].answers[q] \in {Awaited, Failed}
                 \/ fetch[c].answers[q].asOf \in fetch[c].start .. now
      BY <1>4 DEF IInv, CallInv, FetchInv
    <3>2. Asking(c)' /\ Asked(c)' \notin STABLECOINS
      BY <1>4, <3>1 DEF Asking, Asked
    <3>3. answer \in {Awaited, Failed} \/ answer.asOf \in fetch[c].start .. now
      BY <1>2, <1>3, <3>1
    <3> QED
      BY <1>4, <2>1, <3>1, <3>2, <3>3 DEF FetchInv
  <2>3. GotInv(c)' /\ ResultInv(c)'
    BY <1>4 DEF IInv, CallInv, GotInv, ResultInv, Recent, Quote, Slippage
  <2>4. PairInv(c)'
    <3>1. fetch[c].start \in 0 .. now /\ NoFetch.start = Never
      BY <1>4 DEF IInv, CallInv, FetchInv, NoFetch
    <3>2. fetch'[c] # NoFetch
      BY <1>2, <2>1, <3>1 DEF Never
    <3> QED
      BY <1>4, <2>1, <3>2 DEF IInv, CallInv, PairInv
  <2> QED
    BY <2>2, <2>3, <2>4 DEF CallInv
<1>7. \A d \in Calls \ {c} :
        UNCHANGED <<at[d], got[d], fetch[d], amountOut[d], result[d]>>
  BY <1>1, <1>4 DEF IInv, Types
<1> QED
  BY <1>4, <1>5, <1>6, <1>7, StepOfCall DEF IInv

(* What is stored is a price a provider gave after the miss, and no longer *)
(* ago than the timeout.                                                   *)
LEMMA InvStore ==
    ASSUME IInv, NEW c \in Calls, Store(c)
    PROVE  IInv'
<1> DEFINE answer == Chosen(c)
           entry == [price |-> answer.price, asOf |-> answer.asOf, since |-> now]
<1>1. /\ RaceOver(c) /\ answer # Failed /\ fetch[c] # NoFetch
      /\ cache' = [cache EXCEPT ![Asked(c)] = entry]
      /\ Arrives(c, answer) /\ fetch' = [fetch EXCEPT ![c] = NoFetch]
      /\ UNCHANGED <<now, session>>
  BY DEF Store, RaceOver
<1>2. /\ Asking(c) /\ Asked(c) \notin STABLECOINS
      /\ fetch[c].start \in 0 .. now /\ now <= fetch[c].start + Timeout
      /\ \A q \in Providers :
           fetch[c].answers[q] \in {Awaited, Failed}
             \/ fetch[c].answers[q].asOf \in fetch[c].start .. now
  BY <1>1 DEF IInv, CallInv, FetchInv
<1>3. PICK q \in Providers : answer = fetch[c].answers[q]
  BY DEF Chosen, Providers
<1>4. now \in Nat /\ now' = now
  BY <1>1, ConstantTypes DEF IInv, Types
<1>5. /\ answer \in Answer /\ answer.price \in Nat /\ answer.asOf \in Int
      /\ answer.asOf \in fetch[c].start .. now
  BY <1>1, <1>2, <1>3 DEF RaceOver, IInv, Types, Fetch, Answer
<1> HIDE DEF answer
<1>6. answer.asOf \in 0 .. now /\ now <= answer.asOf + Timeout
  BY <1>2, <1>4, <1>5, ConstantTypes
<1>7. now < answer.asOf + TTL + Timeout
  BY <1>4, <1>6, ConstantTypes
<1>8. Asked(c) \in Coins /\ entry \in Entry
  BY <1>2, <1>4, <1>5, AskedCoin DEF IInv, Entry
<1>9. cache' \in [Coins -> Entry]
  BY <1>1, <1>8 DEF IInv, Types
<1>10. CacheInv'
  <2> SUFFICES ASSUME NEW k \in Coins, cache'[k] # NotCached
               PROVE  /\ cache'[k].asOf \in 0 .. cache'[k].since
                      /\ cache'[k].since \in 0 .. now'
                      /\ now' < cache'[k].since + TTL
                      /\ cache'[k].since <= cache'[k].asOf + Timeout
    BY DEF CacheInv
  <2>1. CASE k = Asked(c)
    <3>1. cache'[k] = entry
      BY <1>1, <2>1 DEF IInv, Types
    <3>2. entry.asOf = answer.asOf /\ entry.since = now
      OBVIOUS
    <3>3. now < now + TTL
      BY <1>4, ConstantTypes
    <3> HIDE DEF entry
    <3> QED
      BY <1>4, <1>6, <3>1, <3>2, <3>3
  <2>2. CASE k # Asked(c)
    BY <1>1, <2>2 DEF IInv, Types, CacheInv
  <2> QED
    BY <2>1, <2>2
<1>11. /\ fetch' \in [Calls -> Fetch] /\ fetch'[c] = NoFetch
       /\ \A d \in Calls \ {c} : UNCHANGED fetch[d]
  <2>1. NoFetch \in Fetch
    BY DEF NoFetch, Fetch, Answer, Awaited, Never
  <2> QED
    BY <1>1, <2>1 DEF IInv, Types
<1> QED
  BY <1>1, <1>2, <1>5, <1>6, <1>7, <1>9, <1>10, <1>11, ArrivalStep

LEMMA InvAllProvidersFailed ==
    ASSUME IInv, NEW c \in Calls, AllProvidersFailed(c)
    PROVE  IInv'
<1>1. NoFetch \in Fetch
  BY DEF NoFetch, Fetch, Answer, Awaited, Never
<1>2. /\ fetch' \in [Calls -> Fetch] /\ fetch'[c] = NoFetch
      /\ \A d \in Calls \ {c} : UNCHANGED fetch[d]
  BY <1>1 DEF AllProvidersFailed, IInv, Types
<1> QED
  BY <1>2, ThrowKeeps DEF AllProvidersFailed

LEMMA InvRequestQuote ==
    ASSUME IInv, NEW c \in Calls, RequestQuote(c)
    PROVE  IInv'
<1>1. /\ at[c] = "prices" /\ Request[c].kind = "rebalance" /\ Len(got[c]) = 1
      /\ amountOut[c] = Never
      /\ UNCHANGED <<now, cache, session, fetch>>
  BY DEF RequestQuote
<1>2. fetch[c] = NoFetch
  BY <1>1 DEF IInv, CallInv, FetchInv, Asking
<1>3. CASE Throw(c)
  BY <1>1, <1>2, <1>3, ThrowKeeps DEF IInv, Types
<1>4. ASSUME NEW out \in AmountsOut, amountOut' = [amountOut EXCEPT ![c] = out],
             UNCHANGED <<at, got, result>>
      PROVE  IInv'
  <2>1. Types' /\ CacheInv'
    BY <1>1, <1>4 DEF IInv, Types, CacheInv
  <2>2. CallInv(c)'
    BY <1>1, <1>2, <1>4 DEF IInv, Types, CallInv, FetchInv, GotInv, ResultInv, Recent, PairInv,
       Quote, Slippage
  <2>3. \A d \in Calls \ {c} :
          UNCHANGED <<at[d], got[d], fetch[d], amountOut[d], result[d]>>
    BY <1>1, <1>4 DEF IInv, Types
  <2> QED
    BY <1>1, <2>1, <2>2, <2>3, StepOfCall DEF IInv
<1> QED
  BY <1>3, <1>4 DEF RequestQuote

LEMMA InvReply ==
    ASSUME IInv, NEW c \in Calls, Reply(c)
    PROVE  IInv'
<1>1. /\ at[c] = "quoted" /\ at' = [at EXCEPT ![c] = "done"]
      /\ UNCHANGED <<now, cache, got, fetch, amountOut, result>>
  BY DEF Reply
<1>2. session' \in [Sessions -> Never .. MaxTime]
  <2>1. now \in Never .. MaxTime
    BY ConstantTypes DEF IInv, Types, Never
  <2> QED
    BY <2>1 DEF Reply, IInv, Types
<1>3. Types' /\ CacheInv'
  BY <1>1, <1>2 DEF IInv, Types, CacheInv, Stages
<1>4. fetch[c] = NoFetch /\ at'[c] = "done"
  BY <1>1 DEF IInv, Types, CallInv, FetchInv, Asking
<1>5. CallInv(c)'
  <2>1. IsQuote(c)
    BY <1>1 DEF IInv, CallInv, ResultInv
  <2> QED
    BY <1>1, <1>4, <2>1 DEF IInv, Types, CallInv, FetchInv, GotInv, ResultInv, Recent, PairInv,
       Quote, Slippage
<1>6. \A d \in Calls \ {c} :
        UNCHANGED <<at[d], got[d], fetch[d], amountOut[d], result[d]>>
  BY <1>1 DEF IInv, Types
<1> QED
  BY <1>1, <1>3, <1>5, <1>6, StepOfCall DEF IInv

LEMMA InvThrows ==
    ASSUME IInv, NEW c \in Calls, Throws(c)
    PROVE  IInv'
BY ThrowKeeps DEF Throws, IInv, Types

LEMMA InvStutter ==
    ASSUME IInv, UNCHANGED vars
    PROVE  IInv'
BY DEF vars, IInv, Types, CacheInv, CallInv, FetchInv, GotInv, ResultInv, Recent, PairInv,
   Quote, Slippage, Asking, Asked

THEOREM InductiveInvariantQuotes == Spec => []IInv
<1>1. IInv /\ [Next]_vars => IInv'
  <2> SUFFICES ASSUME IInv, [Next]_vars PROVE IInv'
    OBVIOUS
  <2>1. CASE Tick
    BY <2>1, InvTick
  <2>2. ASSUME NEW c \in Calls, CallStep(c)
        PROVE  IInv'
    BY <2>2, InvBegin, InvGetTokenPrice, InvStore, InvAllProvidersFailed,
       InvProviderAnswers, InvRequestQuote, InvReply, InvThrows DEF CallStep
  <2>3. CASE UNCHANGED vars
    BY <2>3, InvStutter
  <2> QED
    BY <2>1, <2>2, <2>3 DEF Next
<1> QED
  BY <1>1, InvInit, PTL DEF Spec

-----------------------------------------------------------------------------
(* What follows from it                                                    *)

LEMMA TypesFollow == IInv => TypeOK
<1> SUFFICES ASSUME IInv PROVE TypeOK
  OBVIOUS
<1>1. now \in 0 .. MaxTime /\ now \in Nat
  BY ConstantTypes DEF IInv, Types
<1>2. ASSUME NEW k \in Coins
      PROVE  cache[k].since \in Never .. now /\ cache[k].asOf <= cache[k].since
  <2>1. CASE cache[k] = NotCached
    BY <1>1, <2>1 DEF NotCached, Never
  <2>2. CASE cache[k] # NotCached
    <3>1. cache[k].asOf \in 0 .. cache[k].since /\ cache[k].since \in 0 .. now
      BY <2>2 DEF IInv, CacheInv
    <3> QED
      BY <1>1, <3>1 DEF Never
  <2> QED
    BY <2>1, <2>2
<1>3. ASSUME NEW c \in Calls
      PROVE  /\ Len(got[c]) <= Len(PricesFor(c))
             /\ \A i \in DOMAIN got[c] : got[c][i].asOf <= got[c][i].at
             /\ fetch[c] # NoFetch => at[c] = "prices" /\ now <= fetch[c].start + Timeout
             /\ result[c] \in Int
  <2>1. DOMAIN got[c] = 1 .. Len(got[c])
    BY DEF IInv, Types
  <2> QED
    BY <2>1 DEF IInv, Types, CallInv, GotInv, FetchInv, Asking
<1> QED
  BY <1>1, <1>2, <1>3 DEF IInv, Types, TypeOK, Stages

(* The prices a quote was calculated with.                                 *)
LEMMA QuotePrices ==
    ASSUME IInv, NEW c \in Calls, IsQuote(c), at[c] \in {"quoted", "done"}
    PROVE  /\ Len(got[c]) = 3
           /\ \A i \in 1 .. 3 : got[c][i].price \in Nat
           /\ Recent(got[c][2], got[c][3].at, 2) /\ Recent(got[c][3], got[c][3].at, 1)
           /\ MicroUsd(got[c][3].price) # 0
           /\ result[c] = Quote(c, got[c])
           /\ WithinLimits(Request[c].amount, got[c][1].price, Unit[Request[c].from],
                           IsCommitment(c))
<1>1. Len(got[c]) = 3 /\ got[c] \in Seq(Given)
  BY PricesAsked DEF IInv, Types, CallInv, ResultInv
<1>2. \A i \in 1 .. 3 : got[c][i] \in Given /\ Recent(got[c][i], got[c][i].at, 1)
  BY <1>1 DEF IInv, CallInv, GotInv
<1>3. got[c][3].at <= got[c][2].at + Timeout
  BY <1>1 DEF IInv, CallInv, PairInv
<1>4. \A i \in 1 .. 3 : got[c][i].at \in Int /\ got[c][i].asOf \in Int
  BY <1>2 DEF Given
<1>5. Recent(got[c][2], got[c][3].at, 2)
  <2> DEFINE from == got[c][2]
             to == got[c][3]
  <2>1. from.at \in Int /\ from.asOf \in Int /\ to.at \in Int /\ to.at <= from.at + Timeout
    BY <1>3, <1>4
  <2>2. from.at < from.asOf + TTL + 1 * Timeout
    BY <1>2 DEF Recent
  <2> HIDE DEF from, to
  <2>3. to.at < from.asOf + TTL + 2 * Timeout
    BY <2>1, <2>2, ConstantTypes
  <2> QED
    BY <2>3 DEF Recent, from, to
<1> QED
  BY <1>1, <1>2, <1>5 DEF IInv, CallInv, ResultInv, Given

LEMMA Backed == IInv => QuoteIsBacked
<1> SUFFICES ASSUME IInv, NEW c \in Calls, IsQuote(c), at[c] \in {"quoted", "done"}
             PROVE  /\ Recent(got[c][2], got[c][3].at, 2)
                    /\ Recent(got[c][3], got[c][3].at, 1)
                    /\ result[c] * MicroUsd(got[c][3].price) * Unit[Request[c].from] * Bps
                         <= Request[c].amount * MicroUsd(got[c][2].price)
                               * Unit[Request[c].to] * Fraction(c)
  BY DEF QuoteIsBacked
<1>1. /\ Recent(got[c][2], got[c][3].at, 2) /\ Recent(got[c][3], got[c][3].at, 1)
      /\ got[c][2].price \in Nat /\ got[c][3].price \in Nat
      /\ MicroUsd(got[c][3].price) # 0 /\ result[c] = Quote(c, got[c])
  BY QuotePrices
<1> QED
  BY <1>1, RequestTypes, QuoteBacked DEF Quote, Fraction

LEMMA Capped == IInv => CapHoldsAtOnePrice
<1> SUFFICES ASSUME IInv, NEW c \in Calls, IsCommitment(c), at[c] \in {"quoted", "done"},
                    got[c][1].price = got[c][2].price
             PROVE  2 * result[c] * MicroUsd(got[c][3].price) * Unit[Request[c].from] * Bps
                      <= CommitmentBps * Unit[Request[c].to] *
                           ((2 * SoftCap + 1) * MicroPerCent * Unit[Request[c].from]
                              + Request[c].amount)
  BY DEF CapHoldsAtOnePrice
<1> DEFINE q == result[c]
           to == MicroUsd(got[c][3].price)
           from == MicroUsd(got[c][1].price)
           unit == Unit[Request[c].from]
           scale == CommitmentBps * Unit[Request[c].to]
           amount == Request[c].amount
           value == 2 * from * amount
           cap == (2 * SoftCap + 1) * MicroPerCent * unit + amount
           paid == q * to * unit * Bps
<1>1. IsQuote(c)
  BY RequestTypes
<1>2. /\ to \in Nat /\ from \in Nat /\ unit \in Nat \ {0} /\ amount \in Nat
      /\ Unit[Request[c].to] \in Nat /\ CommitmentBps \in Nat /\ SoftCap \in Nat
      /\ MicroPerCent \in Nat /\ Bps \in Nat
  BY <1>1, QuotePrices, RequestTypes, MicroUsdBounds, PricingAssumption DEF Bps
<1>3. value <= cap
  <2>1. WithinLimits(amount, got[c][1].price, unit, TRUE) /\ got[c][1].price \in Nat
    BY <1>1, QuotePrices DEF WithinLimits
  <2> QED
    BY <1>2, <2>1, LimitHolds
<1>4. q \in Nat /\ paid <= amount * from * Unit[Request[c].to] * CommitmentBps
  <2>1. /\ got[c][1].price \in Nat /\ got[c][3].price \in Nat
        /\ got[c][2].price \in Nat /\ from = MicroUsd(got[c][2].price)
        /\ MicroUsd(got[c][3].price) # 0 /\ q = Quote(c, got[c])
    BY <1>1, QuotePrices
  <2>2. BestQuote(amount, got[c][2].price, got[c][3].price, unit, Unit[Request[c].to],
                  IsCommitment(c)) = q
    BY <2>1 DEF Quote
  <2> DEFINE b == BestQuote(amount, got[c][2].price, got[c][3].price, unit,
                            Unit[Request[c].to], IsCommitment(c))
  <2>3. /\ b \in Nat
        /\ b * MicroUsd(got[c][3].price) * unit * Bps
             <= amount * MicroUsd(got[c][2].price) * Unit[Request[c].to]
                  * (IF IsCommitment(c) THEN CommitmentBps ELSE IndicativeBps)
    <3>1. Unit[Request[c].to] \in Nat \ {0}
      BY RequestTypes
    <3> QED
      BY <1>2, <2>1, <3>1, QuoteBacked
  <2>4. b = q
    BY <2>2
  <2>5. (IF IsCommitment(c) THEN CommitmentBps ELSE IndicativeBps) = CommitmentBps
    OBVIOUS
  <2> HIDE DEF b
  <2> QED
    BY <2>1, <2>3, <2>4, <2>5
<1>5. scale \in Nat /\ value \in Nat /\ cap \in Nat
  <2>1. from * amount \in Nat /\ (2 * SoftCap + 1) * MicroPerCent \in Nat
    BY <1>2, NatProduct
  <2>2. (2 * SoftCap + 1) * MicroPerCent * unit \in Nat
    BY <1>2, <2>1, NatProduct
  <2>3. scale \in Nat
    BY <1>2, NatProduct
  <2>4. value = 2 * (from * amount)
    BY <1>2
  <2> QED
    BY <1>2, <2>1, <2>2, <2>3, <2>4
<1>6. value * scale <= cap * scale
  <2> HIDE DEF value, cap, scale
  <2> QED
    BY <1>3, <1>5, Monotone
<1>7. 2 * paid <= value * scale
  <2>1. paid \in Int
    BY <1>2, <1>4
  <2>2. value * scale = 2 * (amount * from * Unit[Request[c].to] * CommitmentBps)
    BY <1>2
  <2>3. amount * from * Unit[Request[c].to] * CommitmentBps \in Int
    BY <1>2
  <2> DEFINE bound == amount * from * Unit[Request[c].to] * CommitmentBps
  <2> HIDE DEF paid, bound
  <2>4. paid <= bound => 2 * paid <= 2 * bound
    BY <2>1, <2>3 DEF bound
  <2> QED
    BY <1>4, <2>2, <2>4 DEF bound
<1>8. 2 * q * to * unit * Bps = 2 * paid
  BY <1>2, <1>4
<1>9. 2 * paid \in Int /\ value * scale \in Int /\ cap * scale \in Int
  BY <1>2, <1>4, <1>5
<1>10. cap * scale = scale * cap
  BY <1>5
<1> HIDE DEF paid, value, cap, scale
<1>11. 2 * paid <= scale * cap
  BY <1>6, <1>7, <1>9, <1>10
<1> QED
  BY <1>8, <1>11 DEF cap, scale

LEMMA Fair == IInv => AcceptedIsFair
<1> SUFFICES ASSUME IInv, NEW c \in Calls, Request[c].kind = "rebalance", at[c] = "done"
             PROVE  LET expected == ExpectedUsd(Received, got[c][2].price)
                    IN  /\ Recent(got[c][2], got[c][2].at, 1)
                        /\ \/ expected = 0
                           \/ expected * (Bps - ThresholdBps - 1) < amountOut[c] * Bps
  BY DEF AcceptedIsFair
<1>1. ~IsQuote(c) /\ Len(got[c]) = 2 /\ got[c] \in Seq(Given)
  BY PricesAsked DEF IsQuote, IInv, Types, CallInv, ResultInv
<1>2. got[c][2] \in Given /\ Recent(got[c][2], got[c][2].at, 1)
  BY <1>1 DEF IInv, CallInv, GotInv
<1>3. /\ amountOut[c] \in Nat /\ got[c][2].price \in Nat /\ Received \in Nat
      /\ IsAcceptable(SlippageBps(Received, got[c][2].price, amountOut[c]))
  BY <1>1, <1>2, ConstantTypes, Amount DEF IInv, CallInv, ResultInv, Slippage, Given
<1>4. ExpectedUsd(Received, got[c][2].price) \in Nat
  <2>1. Received * MicroUsd(got[c][2].price) \in Nat
    BY <1>3, MicroUsdBounds, NatProduct
  <2> QED
    BY <2>1, FloorNat, PricingAssumption DEF ExpectedUsd
<1> QED
  BY <1>2, <1>3, <1>4, AcceptedLoss

-----------------------------------------------------------------------------
(* Theorems                                                                *)

(* What each variable may hold.                                            *)
THEOREM QuotesTypeCorrect == Spec => []TypeOK
BY InductiveInvariantQuotes, TypesFollow, PTL

(* However calls share the cache and however late providers answer, a      *)
(* quote is never more than the configured fraction of what it is for, at  *)
(* prices that are, when it is calculated, at most the cache's ttl and one *)
(* or two timeouts of providers old (TokenService.calculateBestQuote).     *)
THEOREM QuotesAreBacked == Spec => []QuoteIsBacked
BY InductiveInvariantQuotes, Backed, PTL

(* The soft cap bounds what a commitment promises, but for the rounding,   *)
(* when both its prices agree (QuoteService.getCommitmentQuote).           *)
THEOREM CommitmentsAreCapped == Spec => []CapHoldsAtOnePrice
BY InductiveInvariantQuotes, Capped, PTL

(* An accepted offer loses at most the threshold against the BTC received  *)
(* (SlippageService.checkSlippage).                                        *)
THEOREM AcceptedOffersAreFair == Spec => []AcceptedIsFair
BY InductiveInvariantQuotes, Fair, PTL
=============================================================================
