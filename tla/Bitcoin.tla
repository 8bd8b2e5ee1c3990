------------------------------- MODULE Bitcoin -------------------------------
(***************************************************************************)
(* The PMM's Bitcoin wallet: BitcoinService.sendBtc as the two workers     *)
(* that pay from it use it, the BTC transfer worker of the settlement and  *)
(* the rebalance transfer worker.  Both spend every output of one address, *)
(* they know nothing of each other, and each of them asks two providers    *)
(* and takes the first answer.  The providers' nodes and the chain are     *)
(* external: a node keeps its own mempool, takes a transaction whose       *)
(* inputs it sees unspent (or replaces a cheaper one), and passes it on.   *)
(***************************************************************************)
EXTENDS Integers, Sequences, FiniteSets, FiniteSetsExt

CONSTANTS
    Payouts,        \* calls of BTCTransferStrategy.transfer
    Deposits,       \* calls of sendBtc by the rebalance transfer worker
    Amount,         \* the satoshis each call sends
    Received,       \* values of the outputs the wallet receives, in order
    InitialOutputs, \* how many of them it has at the start
    Estimates,      \* fastest fee estimates in sat/vB; 0 is an empty answer
    MaxFeeRate,     \* pmm.btc.maxFeeRate
    SkipConfirm,    \* bitcoin.skipConfirm
    MaxRetries,     \* bitcoin.maxRetries
    MaxTxs,         \* bound: transactions built
    MaxFaults,      \* bound: requests that fail, or whose answer is lost
    NoCall

Calls == Payouts \cup Deposits

ASSUME BitcoinAssumption ==
    /\ Payouts \cap Deposits = {} /\ NoCall \notin Calls
    /\ Amount \in [Calls -> Nat \ {0}]
    /\ Received \in Seq(Nat \ {0}) /\ InitialOutputs \in 0 .. Len(Received)
    /\ Estimates \subseteq Nat /\ MaxFeeRate \in Nat \ {0}
    /\ SkipConfirm \in BOOLEAN /\ MaxRetries \in Nat \ {0}
    /\ MaxTxs \in Nat /\ MaxFaults \in Nat

Workers == {"settlement", "rebalance"}

CallsOf == [settlement |-> Payouts, rebalance |-> Deposits]

Providers == {"mempool", "blockstream"}

DUST_THRESHOLD == 546
P2TR_OUTPUT_SIZE == 42

VARIABLES
    txs,            \* transactions built, in order
    arrived,        \* how many outputs of Received are in blocks
    mempool,        \* unconfirmed transactions each provider's node holds
    mined,          \* transactions in blocks
    asked,          \* broadcast requests under way: <<transaction, provider>>
    worker,         \* sendBtc under way in each worker
    outcome,        \* what became of each call
    raced,          \* history: coins were chosen beside a payment under way
    faults

vars == <<txs, arrived, mempool, mined, asked, worker, outcome, raced, faults>>

TxIds == 1 .. Len(txs)

(* An output of the wallet: the i-th received one is -i, the change of     *)
(* transaction t is t.                                                     *)
Value(coin) == IF coin < 0 THEN Received[-coin] ELSE txs[coin].change

TotalValue(coins) == MapThenSumSet(Value, coins)

Idle == [at |-> "idle", call |-> NoCall, coins |-> {}, tx |-> 0, attempt |-> 0,
         failed |-> {}]

Init ==
    /\ txs = <<>>
    /\ arrived = InitialOutputs
    /\ mempool = [p \in Providers |-> {}]
    /\ mined = {}
    /\ asked = {}
    /\ worker = [w \in Workers |-> Idle]
    /\ outcome = [c \in Calls |-> "none"]
    /\ raced = FALSE
    /\ faults = 0

Fault == faults < MaxFaults /\ faults' = faults + 1

-----------------------------------------------------------------------------
(* The nodes and the chain                                                 *)

Known(p) == mined \cup mempool[p]

Spent(ts) == UNION {txs[t].inputs : t \in ts}

Unspent(p) ==
    ({-i : i \in 1 .. arrived} \cup {t \in Known(p) : txs[t].change > 0})
        \ Spent(Known(p))

Conflicts(t, ts) == {u \in ts \ {t} : txs[u].inputs \cap txs[t].inputs # {}}

Spenders(ts, pool) == {u \in pool : txs[u].inputs \cap ts # {}}

(* A transaction leaves a mempool with those that spend its change, those  *)
(* that spend theirs, and so on.                                           *)
Descendants(ts, pool) ==
    {u \in ts \cup pool : \A D \in SUBSET (ts \cup pool) :
        ts \cup Spenders(D, pool) \subseteq D => u \in D}

(* A node takes t: its inputs are there, and what conflicts with it is     *)
(* unconfirmed and pays less.                                              *)
Acceptable(t, p) ==
    /\ t \notin Known(p)
    /\ txs[t].inputs \subseteq {-i : i \in 1 .. arrived} \cup Known(p)
    /\ \A u \in Conflicts(t, Known(p)) : u \notin mined /\ txs[u].fee < txs[t].fee

Taken(t, p) ==
    [mempool EXCEPT ![p] = {t} \cup (@ \ Descendants(Conflicts(t, @), @))]

Gossip(t, p) ==
    /\ \E q \in Providers : t \in mempool[q]
    /\ Acceptable(t, p)
    /\ mempool' = Taken(t, p)
    /\ UNCHANGED <<txs, arrived, mined, asked, worker, outcome, raced, faults>>

Mine(t) ==
    /\ \E p \in Providers : t \in mempool[p]
    /\ txs[t].inputs \subseteq {-i : i \in 1 .. arrived} \cup mined
    /\ Conflicts(t, mined) = {}
    /\ mined' = mined \cup {t}
    /\ mempool' = [p \in Providers |->
         mempool[p] \ ({t} \cup Descendants(Conflicts(t, mempool[p]), mempool[p]))]
    /\ UNCHANGED <<txs, arrived, asked, worker, outcome, raced, faults>>

(* An output that others pay is seen once it is in a block.  With          *)
(* skipConfirm a pending one would be spent too, which is left out.        *)
Receive ==
    /\ arrived < Len(Received)
    /\ arrived' = arrived + 1
    /\ UNCHANGED <<txs, mempool, mined, asked, worker, outcome, raced, faults>>

-----------------------------------------------------------------------------
(* sendBtc, in worker w                                                    *)

BeyondWorkers == UNCHANGED <<arrived, mempool, mined>>

Throw(w) ==
    /\ worker' = [worker EXCEPT ![w] = Idle]
    /\ outcome' = [outcome EXCEPT ![worker[w].call] = "thrown"]

(* getUtxos, answered by provider p.                                       *)
Utxos(p) ==
    IF SkipConfirm THEN Unspent(p)
    ELSE {coin \in Unspent(p) : coin < 0 \/ coin \in mined}

(* The strategy checks the balance first, the rebalance worker does not.   *)
Begin(w, c) ==
    /\ worker[w].at = "idle" /\ outcome[c] = "none"
    /\ worker' = [worker EXCEPT ![w] =
         [Idle EXCEPT !.at = IF c \in Payouts THEN "balance" ELSE "coins", !.call = c]]
    /\ UNCHANGED <<txs, asked, outcome, raced, faults>> /\ BeyondWorkers

CheckBalance(w, p) ==
    /\ worker[w].at = "balance"
    /\ IF TotalValue(Utxos(p)) < Amount[worker[w].call] THEN Throw(w)
       ELSE worker' = [worker EXCEPT ![w].at = "coins"] /\ UNCHANGED outcome
    /\ UNCHANGED <<txs, asked, raced, faults>> /\ BeyondWorkers

(* A payment under way that provider p does not know of.                   *)
HiddenFrom(w, p) ==
    \/ \E v \in Workers \ {w} : worker[v].at = "fee"
    \/ \E t \in TxIds \ Known(p) :
         \E q \in Providers : t \in mempool[q] \/ <<t, q>> \in asked

(* sendBtc spends all there is.                                            *)
SelectCoins(w, p) ==
    /\ worker[w].at = "coins"
    /\ IF Utxos(p) = {} THEN Throw(w)
       ELSE /\ worker' = [worker EXCEPT ![w].at = "fee", ![w].coins = Utxos(p)]
            /\ UNCHANGED outcome
    /\ raced' = (raced \/ HiddenFrom(w, p))
    /\ UNCHANGED <<txs, asked, faults>> /\ BeyondWorkers

(* raceProviders gives up: every provider failed maxRetries times.         *)
QueryFails(w) ==
    /\ worker[w].at \in {"balance", "coins", "fee"}
    /\ Fault
    /\ Throw(w)
    /\ UNCHANGED <<txs, asked, raced>> /\ BeyondWorkers

(* Rates in eighths of a sat/vB: the buffer multiplies by 1.125.           *)
RecommendedFeeRate(estimate) == IF estimate = 0 THEN 8 * 5 ELSE 9 * estimate

(* Mutation: the rate is capped from below.                                *)
CappedFeeRateWrong(estimate) ==
    IF RecommendedFeeRate(estimate) > 8 * MaxFeeRate
    THEN RecommendedFeeRate(estimate) ELSE 8 * MaxFeeRate

CappedFeeRate(estimate) ==
    IF RecommendedFeeRate(estimate) < 8 * MaxFeeRate
    THEN RecommendedFeeRate(estimate) ELSE 8 * MaxFeeRate

(* calculateTxSize                                                         *)
TxSize(inputs, outputs, opReturn) ==
    10 + 107 * inputs + P2TR_OUTPUT_SIZE * outputs + (IF opReturn THEN 41 ELSE 0)

(* A payout carries an OP_RETURN, which is counted among its outputs too.  *)
FeeFor(coins, payout, estimate) ==
    (TxSize(Cardinality(coins), IF payout THEN 3 ELSE 2, payout)
        * CappedFeeRate(estimate) + 7) \div 8

(* The change output is left out when it would be dust.                    *)
Change(rest) == IF rest > DUST_THRESHOLD THEN rest ELSE 0

Build(w, estimate) ==
    LET c    == worker[w].call
        all  == worker[w].coins
        fee  == FeeFor(all, c \in Payouts, estimate)
        rest == TotalValue(all) - Amount[c] - fee
    IN
    /\ worker[w].at = "fee" /\ Len(txs) < MaxTxs
    /\ IF rest < 0
       THEN Throw(w) /\ UNCHANGED <<txs, asked>>
       ELSE /\ txs' = Append(txs, [call |-> c, inputs |-> all, fee |-> fee,
                                   change |-> Change(rest)])
            /\ asked' = asked \cup {<<Len(txs) + 1, p>> : p \in Providers}
            /\ worker' = [worker EXCEPT ![w] =
                 [@ EXCEPT !.at = "broadcast", !.tx = Len(txs) + 1, !.attempt = 1]]
            /\ UNCHANGED outcome
    /\ UNCHANGED <<raced, faults>> /\ BeyondWorkers

(* Mutation: the next attempt starts over with sendBtc.                    *)
RetryRebuilt(w) ==
    /\ worker' = [worker EXCEPT ![w].at = "coins", ![w].failed = {}]
    /\ UNCHANGED asked

(* raceProviders, next attempt: the same raw transaction to both.          *)
Retry(w) ==
    /\ worker' = [worker EXCEPT ![w].attempt = @ + 1, ![w].failed = {}]
    /\ asked' = (asked \ {<<worker[w].tx, p>> : p \in Providers})
                    \cup {<<worker[w].tx, p>> : p \in Providers}

Waits(w, t) == worker[w].at = "broadcast" /\ worker[w].tx = t

(* The first success ends the call; the other request goes on by itself.   *)
Answered(t, p) ==
    /\ asked' = asked \ {<<t, p>>}
    /\ \/ \E w \in Workers :
            /\ Waits(w, t)
            /\ worker' = [worker EXCEPT ![w] = Idle]
            /\ outcome' = [outcome EXCEPT ![worker[w].call] = "returned"]
       \/ /\ \A w \in Workers : ~Waits(w, t)
          /\ UNCHANGED <<worker, outcome>>

(* Mutation: one attempt too many.                                         *)
MayRetryOnceMore(w) == worker[w].attempt <= MaxRetries

MayRetry(w) == worker[w].attempt < MaxRetries

(* Mutation: the body of an error response is taken for the hash.          *)
RefusedAnswered(t, p) == Answered(t, p)

(* Promise.any rejects once both requests have.                            *)
Refused(t, p) ==
    \/ \E w \in Workers :
         /\ Waits(w, t)
         /\ IF worker[w].failed \cup {p} # Providers
            THEN /\ worker' = [worker EXCEPT ![w].failed = @ \cup {p}]
                 /\ asked' = asked \ {<<t, p>>} /\ UNCHANGED outcome
            ELSE IF MayRetry(w)
            THEN Retry(w) /\ UNCHANGED outcome
            ELSE Throw(w) /\ asked' = asked \ {<<t, p>>}
    \/ /\ \A w \in Workers : ~Waits(w, t)
       /\ asked' = asked \ {<<t, p>>} /\ UNCHANGED <<worker, outcome>>

(* The node of provider p gets the request: it takes the transaction,      *)
(* calls it known or refuses it, and its answer may be lost.               *)
Deliver(t, p) ==
    /\ <<t, p>> \in asked
    /\ \/ /\ Acceptable(t, p)
          /\ mempool' = Taken(t, p)
          /\ \/ Answered(t, p) /\ UNCHANGED faults
             \/ Refused(t, p) /\ Fault
       \/ /\ t \in Known(p)
          /\ Answered(t, p) \/ Refused(t, p)
          /\ UNCHANGED <<mempool, faults>>
       \/ /\ t \notin Known(p)
          /\ Refused(t, p)
          /\ IF Acceptable(t, p) THEN Fault ELSE UNCHANGED faults
          /\ UNCHANGED mempool
    /\ UNCHANGED <<txs, arrived, mined, raced>>

WorkerStep(w) ==
    \/ \E c \in CallsOf[w] : Begin(w, c)
    \/ \E p \in Providers : CheckBalance(w, p) \/ SelectCoins(w, p)
    \/ QueryFails(w)
    \/ \E e \in Estimates : Build(w, e)

Next ==
    \/ \E w \in Workers : WorkerStep(w)
    \/ \E t \in TxIds, p \in Providers : Deliver(t, p) \/ Gossip(t, p)
    \/ \E t \in TxIds : Mine(t)
    \/ Receive

Spec == Init /\ [][Next]_vars

-----------------------------------------------------------------------------
(* Properties                                                              *)

Coins == (-Len(Received) .. -1) \cup TxIds

TypeOK ==
    /\ Len(txs) <= MaxTxs
    /\ \A t \in TxIds :
         /\ txs[t].call \in Calls /\ txs[t].inputs \in (SUBSET Coins) \ {{}}
         /\ txs[t].fee \in Nat /\ txs[t].change \in Nat
    /\ arrived \in 0 .. Len(Received)
    /\ mempool \in [Providers -> SUBSET TxIds]
    /\ mined \subseteq TxIds
    /\ asked \subseteq TxIds \X Providers
    /\ worker \in [Workers ->
         [at : {"idle", "balance", "coins", "fee", "broadcast"},
          call : Calls \cup {NoCall}, coins : SUBSET Coins, tx : 0 .. MaxTxs,
          attempt : 0 .. MaxRetries, failed : SUBSET Providers]]
    /\ outcome \in [Calls -> {"none", "returned", "thrown"}]
    /\ raced \in BOOLEAN /\ faults \in 0 .. MaxFaults

(* What a transaction leaves to the miners.                                *)
FeePaid(t) == TotalValue(txs[t].inputs) - Amount[txs[t].call] - txs[t].change

(* The size of the transaction, with each output it has counted once.      *)
BuiltSize(t) ==
    TxSize(Cardinality(txs[t].inputs), IF txs[t].change > 0 THEN 2 ELSE 1,
           txs[t].call \in Payouts)

(* What the wallet leaves to the miners is at least the fee that sendBtc   *)
(* reports, and at most maxFeeRate for the size of the transaction, for    *)
(* the OP_RETURN of a payout a second time and for a change output that is *)
(* left out; of change up to the dust threshold it leaves that too.        *)
(* Whichever coins and estimate it met, no change is lost otherwise, and   *)
(* none is paid out twice.                                                 *)
FeeWithinCap ==
    \A t \in TxIds :
        /\ FeePaid(t) >= txs[t].fee
        /\ FeePaid(t) <=
             MaxFeeRate * (BuiltSize(t)
                 + (IF txs[t].call \in Payouts THEN P2TR_OUTPUT_SIZE ELSE 0)
                 + (IF txs[t].change = 0 THEN P2TR_OUTPUT_SIZE ELSE 0))
               + (IF txs[t].change = 0 THEN DUST_THRESHOLD ELSE 0)

(* A call of sendBtc takes money from the wallet once, however often it    *)
(* broadcasts, whatever answers are lost, and whether it returns or throws *)
(* (raceProviders repeats the request, not the payment).                   *)
OnePaymentPerCall ==
    \A t, u \in mined : txs[t].call = txs[u].call => t = u

(* Neither worker waits for the other, and the coins of a pending payment  *)
(* are kept from the next one only by the provider that answers getUtxos.  *)
(* As long as that provider knew of every payment under way when coins     *)
(* were chosen, the hash sendBtc returned, which is reported to the solver *)
(* or to NEAR, names a transaction that is in a block or still pending.    *)
ReturnedIsNotDisplaced ==
    ~raced => \A c \in Calls : outcome[c] = "returned" =>
        \E t \in TxIds : /\ txs[t].call = c
                         /\ \E p \in Providers : t \in Known(p)
=============================================================================
