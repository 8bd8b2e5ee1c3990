-------------------------------- MODULE Quotes --------------------------------
(***************************************************************************)
(* Who uses prices, against a market that moves: QuoteService's calls and  *)
(* the rebalance worker's slippage check, through the price cache of       *)
(* TokenRemoteRepository and its two providers, and the quote sessions.    *)
(* A step of time is long for Redis and the process; what a call has       *)
(* awaited may have changed when it goes on.  The rows of trades are in    *)
(* Settlement and the rest of the rebalance worker in Rebalancing.         *)
(***************************************************************************)
EXTENDS Pricing, Sequences

CONSTANTS
    Calls,          \* calls and runs
    Request,        \* what each asks: kind, session, from, to, amount
    Sessions,
    Coin,           \* normalizeSymbol: the coin of each token symbol
    Unit,           \* smallest units in one token of each symbol
    Outputs, Vault, \* of the settlement transaction that is rebalanced
    Received,       \* its output to the PMM
    AmountsOut,     \* what NEAR may offer for it
    MarketPrices,
    TTL,            \* of a cached price
    Timeout,        \* of a provider
    SessionTimeout,
    MaxTime

Symbols == DOMAIN Coin
STABLECOINS == {"USDT", "USDC"}
Dollar == 100 * MicroPerCent * PerMicro
Providers == {"coingecko", "binance"}
IsQuote(c) == Request[c].kind \in {"indicative", "commitment", "liquidation"}
IsCommitment(c) == Request[c].kind \in {"commitment", "liquidation"}

ASSUME QuotesAssumption ==
    /\ \A c \in Calls :
          /\ Request[c].kind \in {"indicative", "commitment", "liquidation", "rebalance"}
          /\ {Request[c].from, Request[c].to} \subseteq Symbols
          /\ Request[c].session \in Sessions /\ Request[c].amount \in Nat
    /\ Unit \in [Symbols -> Nat \ {0}]
    /\ MarketPrices \subseteq Nat \ {0}
    /\ {TTL, Timeout, SessionTimeout} \subseteq Nat \ {0}
    /\ {MaxTime, Received} \subseteq Nat
    /\ AmountsOut \subseteq Nat
    /\ "BTC" \in Symbols

(* The transaction that settles a liquidation pays the PMM the most that   *)
(* does not return to the vault, and the most of all where the vault's     *)
(* address is not known: what extractRealAmount takes it for.              *)
Beside(vault) == {o \in Outputs : vault = NoVault \/ o.to # vault}

ASSUME OutputsAssumption ==
    /\ \A o \in Outputs : o.value \in Nat
    /\ \E o \in Beside(Vault) : o.value = Received
    /\ \A o \in Beside(Vault) : o.value <= Received

VARIABLES
    now,
    cache,          \* the price kept for each coin
    session,        \* when each session was saved
    at,             \* where each call is
    got,            \* the prices a call has been given, in order
    fetch,          \* its answers from the providers, while it waits
    amountOut,      \* what NEAR offered a rebalance worker
    result          \* what came of the call

vars == <<now, cache, session, at, got, fetch, amountOut, result>>

Coins == {Coin[s] : s \in Symbols} \ STABLECOINS

Never == -1

(* A price comes with the time the provider gave it.                       *)
NotCached == [price |-> 0, asOf |-> Never, since |-> Never]
Awaited == [price |-> 0, asOf |-> Never]
Failed  == [price |-> 0, asOf |-> 0]
NoFetch == [start |-> Never, answers |-> [p \in Providers |-> Awaited]]

Init ==
    /\ now = 0
    /\ cache = [k \in Coins |-> NotCached]
    /\ session = [s \in Sessions |-> Never]
    /\ at = [c \in Calls |-> "start"]
    /\ got = [c \in Calls |-> <<>>]
    /\ fetch = [c \in Calls |-> NoFetch]
    /\ amountOut = [c \in Calls |-> Never]
    /\ result = [c \in Calls |-> Never]

(* Mutation: nothing expires.                                              *)
ExpiresNever(since, ttl) == FALSE

(* Redis drops what was set with a ttl; it is gone once the ttl is over.   *)
Expires(since, ttl) == since # Never /\ now + 1 - since >= ttl

(* calculateBestQuote has the first of its two prices: for the second one  *)
(* it asks Redis, and if need be the providers, and nobody else.           *)
BetweenPrices(c) == IsQuote(c) /\ Len(got[c]) = 2

(* Mutation: a provider is waited for as long as it takes.                 *)
CanWaitForever(c) ==
    /\ fetch[c] # NoFetch => \E p \in Providers : fetch[c].answers[p] = Awaited
    /\ BetweenPrices(c) => fetch[c] # NoFetch

(* Promise.race: after the timeout an answer is no longer waited for, what *)
(* has been answered is used at once, and what only waits for Redis does   *)
(* not wait for a step of time.                                            *)
CanWait(c) ==
    /\ fetch[c] # NoFetch => /\ now < fetch[c].start + Timeout
                             /\ \E p \in Providers : fetch[c].answers[p] = Awaited
    /\ BetweenPrices(c) => fetch[c] # NoFetch

Tick ==
    /\ now < MaxTime
    /\ \A c \in Calls : CanWait(c)
    /\ now' = now + 1
    /\ cache' = [k \in Coins |-> IF Expires(cache[k].since, TTL) THEN NotCached ELSE cache[k]]
    /\ session' = [s \in Sessions |->
                      IF Expires(session[s], SessionTimeout) THEN Never ELSE session[s]]
    /\ UNCHANGED <<at, got, fetch, amountOut, result>>

-----------------------------------------------------------------------------
(* The symbols whose prices a call asks for: a quote is first validated;   *)
(* the rebalance worker stores one price and compares with another.        *)
PricesFor(c) ==
    IF IsQuote(c) THEN <<Request[c].from, Request[c].from, Request[c].to>>
    ELSE <<"BTC", "BTC">>

(* The coin the next price of a call is for.                               *)
Asked(c) == Coin[PricesFor(c)[Len(got[c]) + 1]]

(* Still to be given a price, and not waiting for NEAR's offer.            *)
Asking(c) ==
    /\ at[c] = "prices" /\ Len(got[c]) < Len(PricesFor(c))
    /\ Request[c].kind = "rebalance" /\ Len(got[c]) = 1 => amountOut[c] # Never

(* QuoteSessionCacheRepository.findById                                    *)
FindSession(s) == session[s] # Never

(* A call that throws leaves nothing of itself.                            *)
Throw(c) ==
    /\ at' = [at EXCEPT ![c] = "thrown"]
    /\ got' = [got EXCEPT ![c] = <<>>]
    /\ amountOut' = [amountOut EXCEPT ![c] = Never]
    /\ UNCHANGED result

(* A commitment needs the session of an indicative quote.                  *)
Begin(c) ==
    /\ at[c] = "start"
    /\ IF IsCommitment(c) /\ ~FindSession(Request[c].session) THEN Throw(c)
       ELSE at' = [at EXCEPT ![c] = "prices"] /\ UNCHANGED <<got, amountOut, result>>
    /\ UNCHANGED <<now, cache, session, fetch>>

(* A quote is refused where its amount is beyond the limits, and throws    *)
(* where it would divide by a price that rounds to zero.                   *)
Refused(c, given) ==
    IsQuote(c) /\
        \/ Len(given) = 1
           /\ ~WithinLimits(Request[c].amount, given[1].price,
                            Unit[Request[c].from], IsCommitment(c))
        \/ Len(given) = 3 /\ MicroUsd(given[3].price) = 0

Quote(c, given) ==
    BestQuote(Request[c].amount, given[2].price, given[3].price,
              Unit[Request[c].from], Unit[Request[c].to], IsCommitment(c))

Slippage(c, given) ==
    SlippageBps(ExtractRealAmount(Outputs, Vault), given[2].price, amountOut[c])

(* Where the last price takes a call, and with what result.                *)
Outcome(c, given) ==
    IF IsQuote(c) THEN <<"quoted", Quote(c, given)>>
    ELSE <<IF IsAcceptable(Slippage(c, given)) THEN "done" ELSE "rejected",
           Slippage(c, given)>>

(* What the code does as soon as a price arrives: it validates with the    *)
(* first and calculates with the last.                                     *)
Arrives(c, price) ==
    LET given == Append(got[c], [price |-> price.price, asOf |-> price.asOf, at |-> now])
    IN  IF Refused(c, given) THEN Throw(c)
        ELSE /\ got' = [got EXCEPT ![c] = given]
             /\ UNCHANGED amountOut
             /\ IF Len(given) < Len(PricesFor(c)) THEN UNCHANGED <<at, result>>
                ELSE /\ at' = [at EXCEPT ![c] = Outcome(c, given)[1]]
                     /\ result' = [result EXCEPT ![c] = Outcome(c, given)[2]]

Cached(coin) == cache[coin] # NotCached

GetTokenPrice(c) ==
    /\ Asking(c) /\ fetch[c] = NoFetch
    /\ IF Asked(c) \in STABLECOINS
       THEN Arrives(c, [price |-> Dollar, asOf |-> now]) /\ UNCHANGED fetch
       ELSE IF Cached(Asked(c))
       THEN Arrives(c, cache[Asked(c)]) /\ UNCHANGED fetch
       ELSE /\ fetch' = [fetch EXCEPT ![c] = [NoFetch EXCEPT !.start = now]]
            /\ UNCHANGED <<at, got, amountOut, result>>
    /\ UNCHANGED <<now, cache, session>>

(* A provider answers, or fails, times out or has no such price.           *)
ProviderAnswers(c, p) ==
    /\ fetch[c] # NoFetch /\ fetch[c].answers[p] = Awaited
    /\ \E answer \in {[price |-> price, asOf |-> now] : price \in MarketPrices} \cup {Failed} :
          fetch' = [fetch EXCEPT ![c].answers[p] = answer]
    /\ UNCHANGED <<now, cache, session, at, got, amountOut, result>>

RaceOver(c) ==
    fetch[c] # NoFetch /\ \A p \in Providers : fetch[c].answers[p] # Awaited

(* CoinGecko's price if there is one.                                      *)
Chosen(c) ==
    LET answers == fetch[c].answers
    IN  IF answers["coingecko"] # Failed THEN answers["coingecko"]
        ELSE answers["binance"]

(* Overwrites what a concurrent miss has stored, be it newer.              *)
Store(c) ==
    /\ RaceOver(c) /\ Chosen(c) # Failed
    /\ cache' = [cache EXCEPT ![Asked(c)] =
                    [price |-> Chosen(c).price, asOf |-> Chosen(c).asOf, since |-> now]]
    /\ Arrives(c, Chosen(c))
    /\ fetch' = [fetch EXCEPT ![c] = NoFetch]
    /\ UNCHANGED <<now, session>>

(* Both providers failed; the worker puts its record back to PENDING.      *)
AllProvidersFailed(c) ==
    /\ RaceOver(c) /\ Chosen(c) = Failed
    /\ Throw(c)
    /\ fetch' = [fetch EXCEPT ![c] = NoFetch]
    /\ UNCHANGED <<now, cache, session>>

(* NearService.requestQuote; the worker gives up without an offer.         *)
RequestQuote(c) ==
    /\ at[c] = "prices" /\ Request[c].kind = "rebalance"
    /\ Len(got[c]) = 1 /\ amountOut[c] = Never
    /\ \/ \E out \in AmountsOut :
             amountOut' = [amountOut EXCEPT ![c] = out] /\ UNCHANGED <<at, got, result>>
       \/ Throw(c)
    /\ UNCHANGED <<now, cache, session, fetch>>

(* An indicative quote saves its session, a commitment its trade.          *)
Reply(c) ==
    /\ at[c] = "quoted"
    /\ at' = [at EXCEPT ![c] = "done"]
    /\ session' = IF IsCommitment(c) THEN session
                  ELSE [session EXCEPT ![Request[c].session] = now]
    /\ UNCHANGED <<now, cache, got, fetch, amountOut, result>>

(* A query, a request to Redis or the token list fails on the way.         *)
Throws(c) ==
    /\ at[c] \in {"prices", "quoted"} /\ fetch[c] = NoFetch
    /\ Throw(c)
    /\ UNCHANGED <<now, cache, session, fetch>>

CallStep(c) ==
    \/ Begin(c) \/ GetTokenPrice(c) \/ Store(c) \/ AllProvidersFailed(c)
    \/ \E p \in Providers : ProviderAnswers(c, p)
    \/ RequestQuote(c) \/ Reply(c) \/ Throws(c)

Next == Tick \/ \E c \in Calls : CallStep(c)

Spec == Init /\ [][Next]_vars
-----------------------------------------------------------------------------
(* Properties                                                              *)

(* What each variable may hold.                                            *)
TypeOK ==
    /\ now \in 0 .. MaxTime
    /\ \A k \in Coins : cache[k].since \in Never .. now /\ cache[k].asOf <= cache[k].since
    /\ session \in [Sessions -> Never .. MaxTime]
    /\ at \in [Calls -> {"start", "prices", "quoted", "rejected", "done", "thrown"}]
    /\ \A c \in Calls :
          /\ Len(got[c]) <= Len(PricesFor(c))
          /\ \A i \in DOMAIN got[c] : got[c][i].asOf <= got[c][i].at
          /\ fetch[c] # NoFetch => at[c] = "prices" /\ now <= fetch[c].start + Timeout
    /\ amountOut \in [Calls -> AmountsOut \cup {Never}]
    /\ \A c \in Calls : result[c] \in Int

(* A price that is used then is no older than its time in the cache and    *)
(* the given number of timeouts of providers.                              *)
Recent(given, used, timeouts) == used < given.asOf + TTL + timeouts * Timeout

Fraction(c) == IF IsCommitment(c) THEN CommitmentBps ELSE IndicativeBps

(* However calls share the cache, however late the providers answer and    *)
(* whichever of two concurrent misses stores its price last, a quote is    *)
(* never more than the configured fraction of what the user gives, at      *)
(* prices that are, when it is calculated, no older than the cache keeps   *)
(* them and a provider's timeout for the second one, two timeouts for the  *)
(* first one, which is kept while the second is awaited                    *)
(* (TokenService.calculateBestQuote, TokenRemoteRepository.getTokenPrice). *)
QuoteIsBacked ==
    \A c \in Calls : IsQuote(c) /\ at[c] \in {"quoted", "done"} =>
        LET from == got[c][2]
            to   == got[c][3]
        IN  /\ Recent(from, to.at, 2) /\ Recent(to, to.at, 1)
            /\ result[c] * MicroUsd(to.price) * Unit[Request[c].from] * Bps
                  <= Request[c].amount * MicroUsd(from.price)
                        * Unit[Request[c].to] * Fraction(c)

(* The soft cap bounds what a commitment promises to pay, at the price it  *)
(* is calculated with, but for the rounding to cents and micro-USD; a      *)
(* price that was replaced between the validation and the quote is the one *)
(* way past it (QuoteService.getCommitmentQuote fetches the price twice).  *)
CapHoldsAtOnePrice ==
    \A c \in Calls : IsCommitment(c) /\ at[c] \in {"quoted", "done"}
                     /\ got[c][1].price = got[c][2].price =>
        2 * result[c] * MicroUsd(got[c][3].price) * Unit[Request[c].from] * Bps
            <= CommitmentBps * Unit[Request[c].to] *
                 ((2 * SoftCap + 1) * MicroPerCent * Unit[Request[c].from] + Request[c].amount)

(* An offer NEAR makes is accepted only if it loses at most the threshold, *)
(* and less than one basis point of rounding, against the BTC the PMM got  *)
(* at a price the market had that recently, although the price is asked    *)
(* for twice around NEAR's answer.  What the PMM got is taken from the     *)
(* transaction, and is right as far as OutputsAssumption holds.            *)
AcceptedIsFair ==
    \A c \in Calls : Request[c].kind = "rebalance" /\ at[c] = "done" =>
        LET expected == ExpectedUsd(Received, got[c][2].price)
        IN  /\ Recent(got[c][2], got[c][2].at, 1)
            /\ \/ expected = 0
               \/ expected * (Bps - ThresholdBps - 1) < amountOut[c] * Bps
=============================================================================
