# Formal models of the Optimex PMM

This directory models the private market maker (PMM) of this repository in
TLA+. TLC checks the models on small instances; TLAPS proves the main safety
results of the rebalancing pipeline, the settlement, its monitor, the EVM and the
Bitcoin wallet, the quotes and the dependency script for every instance. Paths are relative to `src/`;
`apps/api-server/src` is shortened to `api`.

## 1. The system

The PMM quotes trades over HTTP, pays the user on the destination chain when
the solver says so, reports the payment, and, for lending (liquidation) trades,
swaps the BTC it receives back to USDC through the NEAR 1-click API. It is one
Nest process with a Postgres database, Redis (plain lists and BullMQ queues) and
remote chains. The repository also holds the scripts its developers run.

| part | state it keeps | operations | talks to |
|---|---|---|---|
| quote API (`libs/quote`) | row of the trade, session cache | indicative, commitment and liquidation quote | token prices, trade rows |
| token prices and quote arithmetic (`libs/token`) | price cache | price of a symbol, limits, best quote | two price providers, Redis |
| settlement API (`libs/settlement`) | row of the trade | signature (COMMITTED), ack (SELECTED/FAILED), signal (push, SETTLING) | router contract, Redis list |
| transfer monitors (`api/monitors`) | the batch popped | pop ten messages a second, add a job for each | Redis list, BullMQ |
| transfer workers (`api/processors/*-transfer-settlement`) | active job, retryCount in its data | check selection and deadline, pay, hand over to submit, retry by a new job | chains, trade rows, BullMQ |
| transfer strategies (`libs/settlement`) | none | EVM, EVM liquidation, BTC, Solana payment | transaction service, bitcoin service |
| submit worker | active job | sign and report the payment | solver |
| settlement monitor (`api/schedulers/settlement-monitor`) | snapshot of SETTLING trades | complete or fail a trade, create its rebalancing record | SDK, database |
| pending scan (`rebalance-pending`) | snapshot of PENDING records | verify the BTC transaction, queue, mark STUCK | Bitcoin API, BullMQ |
| quote worker (`rebalance.processor`) | active job | NEAR quote, slippage check, queue the transfer | NEAR, prices, BullMQ |
| transfer worker (`rebalance-transfer.processor`) | active job | send BTC to the deposit address, record it | Bitcoin, NEAR |
| status poll (`rebalance-near-status`) | snapshot of polled records | apply NEAR's status | NEAR, database |
| nonce manager, transaction service (`libs/blockchain`) | cached `NonceManager` per network, reset lock | approve and send with gas and nonce handling, refresh every minute | EVM node |
| bitcoin service (`libs/bitcoin`) | none | UTXOs, fee, build, broadcast through several providers | Bitcoin APIs |
| balance monitor (`api/schedulers/balance-monitor`) | none | compare the wallet's value with a minimum, alert | one provider, prices, Telegram |
| dependency script (`scripts/sync-package-deps.ts`) | the manifests | bring `package.json` in line with imports, compare versions | file system |
| HTTP client, configuration, logging, contract bindings | no protocol state | | |

What is hard about it:

* No handler runs in a transaction, and every update of a row is
  unconditional. A status is read, other services are awaited, and a status is
  written: any other handler may have written in between.
* Cron jobs are started again although the last run has not ended, and each run
  works on a snapshot of the rows.
* Money moves before it is recorded. A crash, a lost reply or a failing write in
  between leaves a job or a row that suggests paying again.
* BullMQ hands out a job again when its process died (once), drops an `add`
  under a known `jobId`, keeps finished jobs for 24 hours and, without
  `attempts`, never runs a job again because it threw.
* The solver repeats calls, and a new quote deletes the row of its trade.
* Nothing waits for a block: allowances, gas, nonces and coins are read from a
  state in which earlier transactions are still pending, and two workers spend
  one Bitcoin wallet without knowing of each other.
* Two nodes or two price providers race, and they do not agree.
* Prices come from a cache, and a quote asks for several of them in turn.

What makes the parts correct: the BTC of a record is sent once, to one address,
and a record ends; a trade is paid only if the PMM was chosen and only as often
as something accounts for; a payment is reported; a transaction that was
reported is one that will be mined and does not revert; fees stay within their
cap; a quote is worth less than what the user gives; statuses mean what they say.

## 2. Modules

* `JobQueue` - what the code relies on of a BullMQ job under a `jobId`: absent,
  waiting, active or finished; added only when absent; after a crash waiting
  again up to `MaxStalls` times. External behaviour, modelled from its use.
* `Payout` - the abstract specification of both pipelines: granted, then paid,
  then claimed.
* `Rebalancing` (EXTENDS `JobQueue`) - the pipeline from a PENDING record to
  COMPLETED, STUCK or REFUNDED: two schedulers, two workers, NEAR, time, crashes
  and faults. Implements `Payout`.
* `Settlement` (EXTENDS `JobQueue`) - a trade from its commitment quote to the
  payment and its report, on three networks. Implements `Payout`.
* `SettlementMonitor` - what becomes of a SETTLING row, up to the record that
  `Rebalancing` starts from.
* `Wallet` - the EVM account under every EVM payment: nonces, retry, refresh.
* `Gas` - gas limit and gas price, pure.
* `EvmPayment` (EXTENDS `Wallet`, `Gas`) - the EVM payment on top of them:
  approvals, allowance, gas, and jobs that follow one another without a block.
* `Bitcoin` - the Bitcoin wallet under both workers, with two providers' nodes.
* `BalanceMonitor` (EXTENDS `Bitcoin`) - the monitor that reads that wallet.
* `Pricing` - limits, quote, slippage and `extractRealAmount`, pure.
* `Quotes` (EXTENDS `Pricing`) - who uses prices: calls, price cache, providers,
  sessions, the slippage check.
* `PackageSync` - the dependency script and the developers around it.
* `MC...` - what TLC runs; the cfgs give the constants.
* `RebalancingProofs`, `SettlementProofs`, `SettlementMonitorProofs`,
  `WalletProofs`, `EvmPaymentProofs`, `BitcoinProofs` (also about
  `BalanceMonitor`), `QuotesProofs` (also about `Pricing`), `PackageSyncProofs` -
  theorems.

### Rebalancing and the code

A handler is split at each `await` whose effect others can see: every database
write and every `queue.add` is an action of its own. `scan[s]`, `poll[p]`,
`quoter` and `payer` hold the local variables and the position of the handlers.

| actions | code |
|---|---|
| `ScanStart`, `ScanPick`, `ScanVerify`, `ScanQueue`, `ScanMarkStuck`, ... | `rebalance-pending.scheduler.ts`: the `findPending` snapshot, the branch of `verifyAndQueueRebalancing`, write of MEMPOOL_VERIFIED, `add`, STUCK |
| `Quote...` | `rebalance.processor.ts`: load and skip, NEAR quote and write, slippage verdict, accept and `add`, or back to PENDING |
| `Pay...` | `rebalance-transfer.processor.ts`: load, `sendBtc`, write DEPOSIT_SUBMITTED, or back to QUOTE_ACCEPTED |
| `Poll...` | `rebalance-near-status.scheduler.ts`: snapshot, `getStatus`, the write of its `switch` |
| `Create` | `settlement-monitor.scheduler.ts`, `createRebalancingIfEligible` |
| `NearAdvances`, `RetryTimeUp`, `Crash` | the surroundings |

`deposits` is a history variable: BTC transactions broadcast per address. The
`jobId`s hold `retryCount`, which nothing increments, so a record has one quote
job and one transfer job. Numbers are abstracted to the branch they decide; the
verdict itself is calculated in `Quotes`, the sending in `Bitcoin`.
`KNOWN_DEPOSIT_TX` is treated by the code like PROCESSING and is not
distinguished. A record without `txId` cannot exist
(`createRebalancingIfEligible` requires one), so that branch of the scan is not
an action. Redis forgets finished jobs after 24 hours; the retry limit is 6 or 8
hours in `config/`, so within a record's life they are kept.

### Settlement and the code

`row` is the trade's status; `request[q]` a call under way; `list`, `hand`,
`waiting`, `worker`, `reports`, `reporter` follow a message from Redis list to
report. `Sends` is the solver: it goes through quote, sign, ack, signal in
order, repeats a call that failed and those in `Resent` even if they succeeded.
`TradeExistsGuard` loads the row when a call starts; the writes come later. The
trade it looks up by the URL is taken to be the one the body names; the code does
not compare them.
`payments`, `signals`, `chosen` and `reported` are histories.

Each network has its list, its cron job and its worker; what the three workers
share is modelled once, and `EvmTransferToken`, `BtcTransferToken` and
`SolanaTransferToken` are what they do not share. The liquidation strategy
returns an error code in place of a hash (`LiquidationReverts`) or after a
transaction that is out (`LiquidationUnsure`), and the worker reports it as a
hash. A Solana payment is sent again up to `MaxSends` times while it is not
confirmed; each of these transactions may land at any time, also after the
worker gave up. The program (external) creates a payment receipt, whose address
`getPaymentReceiptPda` derives from the trade and its terms: receiver, amount,
protocol fee and token (`Terms`; the payer is always the PMM). Of the sends under
the same terms only the first one pays. The terms are not stored: every run of the
job asks the router for them again, so `SolanaSend` picks any of `Terms`, and the
comment at `solana.utils.ts:50` means several payments per trade to be possible. The
target contracts' own protection against a second payment on the EVM is not in
this repository and not modelled. What follows SETTLING is `SettlementMonitor`.

### SettlementMonitor and the code

`run[m]` is an invocation of `monitorSettlingTrades`: `Start` takes the snapshot
of `findSettlingTrades` (`Snapshots`: lending, SETTLING, younger than three days,
the oldest `take` by `createdAt`, where `take` is the code's 50 on a small scale
and may be anything up to `MaxTake`), `Ask` calls the SDK and picks the branch, `Complete`,
`Exists`, `Create` and `Fail` are the queries, each of which may throw, with or
without its effect (`QueryFails`). Against it, `QuoteDeletes`, `QuoteCreates` and
`Signal` write the same rows as the handlers in `Settlement` do, seen only as
far as the monitor can tell: QUOTE stands for every status before SETTLING. The
row's status is never read again after the snapshot. The SDK's answers are kept
apart as the code does: confirmed with a release transaction, confirmed without,
refunded, anything else; a final answer does not change any more. Rebalancing is
taken to be enabled in the configuration; if not, no record is ever created.

### Wallet, Gas, EvmPayment and the code

`cached` is the entry of `nonceManagers` and `lock` that of `nonceLocks`;
`sender` is `executeTransaction`, whose retry is `Reset`, `ResetDone` or the
wait for a refresh. `TakeNonce` and the broadcast are apart, because ethers'
`NonceManager` (external) takes base + delta first and sends after further
awaits; it asks for the pending count once, at its first send, keeps the promise
also when it rejects, and counts a failed send too. A sender whose manager is
replaced in between keeps the old one (`own`). The node (external) holds
one call's transaction per nonce. There is one sender because every EVM payment
and approval runs in the one EVM transfer worker. A second refresh that finds one
under way waits for it and does nothing, so it is not an action.

`EvmPayment` gives the calls their meaning. `HandleTokenApproval` reads the
allowance of the latest block and decides which of reset, approve and pay are
to do (`todo`); each is estimated (`EstimateGas`, on the latest or the pending
state), priced (`GetOptimalGasPrice`, with the base fee moving between the
awaits) and sent through `Wallet`; the next job may begin as soon as the last
call returned. The token refuses to change an allowance that is not zero, as
USDT does: the code resets first because of it. What a pending transaction does
to the allowance follows from its nonce (`AllowanceAt`). `stale` remembers that
an allowance was read which a pending transaction takes away.

### Bitcoin, BalanceMonitor and the code

`SendBtc` is split where it awaits: outputs from the provider that answers first
(`GetUtxos`), the fee estimate, the build, the race of the broadcast with its
retries. Every call spends all outputs of the one address. A provider's node
takes a transaction whose inputs it sees unspent, or replaces a cheaper one
(replace by fee), passes it on, and its answer may be lost. The second worker
knows nothing of the first. Fee and change are calculated in sats with the
code's sizes, its 1.125 buffer (rates are in eighths of a sat/vB), its cap and
the dust limit of 546. What others pay to the wallet arrives in a block; with
`skipConfirm` the code would spend such an output while it is pending, which is not
modelled. In `BalanceMonitor` a run of the cron job asks one provider, which counts
confirmed coins, or takes the balance for zero when every provider fails.

### Pricing, Quotes and the code

Prices are integers in the finest step a provider gives; token amounts integers
in smallest units. The code's BigInt divisions truncate, its rounding of a
floating point price to six decimals is `MicroUsd`, its two decimals of a BTC
amount in dollars are not used for money. In `Quotes` a tick is the lifetime
unit of the cache: Redis and the process are fast relative to it, the providers
and NEAR are not, so time passes in a call only while it waits for one of those.
Within `calculateBestQuote` that is the wait for the second price, during which the
first grows old; other calls and late answers come at any time. Both providers are asked at once; CoinGecko's
answer is taken if it comes in time; a price is stored over whatever a
concurrent miss has stored. BTC stands for all coins with a price, and stable
coins are one dollar as in the code.

### PackageSync and the code

`Start` is a run with its flags (mode, `--dry-run`, `--module`,
`--check-versions`), `UpdatePackageJson` the work on one module (the manifest is
read, computed and written without an await), `Interrupt` ends a run between two
modules, and developers edit sources and manifests in between. Recognising an
import in a file's text, the order of entries and the report are left out.

## 3. What is checked

| run | instance | shows |
|---|---|---|
| `rebalance_crash` | 1 record, 2 scans, 1 poll, 2 addresses, 2 crashes, 1 fault, failing sends | `DepositsWithinRuns`, `OneAddressPaid`, `HandedOverIsFunded`, `PolledAddressFunded`, `ImplementsPayout`, `TypeOK` |
| `rebalance_live` | 1 record, 1 scan, 2 polls, nothing fails | `EventuallySettled`, `SettledAtRest` |
| `rebalance_requeue` | 1 record, nothing fails | violated: a requeued record gets no job |
| `rebalance_transfer_retry` | 1 record, sends may fail | violated: a failed transfer is never retried |
| `settle_crash` | 1 trade of any type on any network, 2 calls at once, signal repeated, 2 sets of terms, 1 crash, 1 fault | `PaymentsAccounted`, `PaidWasChosen`, `SolanaPaidOncePerTerms`, `ImplementsPayout`, `TypeOK` |
| `settle_live` | a swap on Solana and a lending trade on EVM, 1 call at a time, 2 monitors, repeated quote and signal, nothing fails | `PaidAtMostOnce`, `SignalWorkedOff` |
| `settle_report_retry` | 1 trade, 1 fault | violated: a failed report is not retried |
| `monitor` | 2 lending trades, batches of 1 or 2, 2 runs at once, 2 quotes, 1 crash, 1 fault | `RecordIsReleased`, `LostRecordsAccounted`, `ConfirmedLeavesSettling`, `TypeOK` |
| `bitcoin` | 2 payouts (the second may be the retry of the first), 1 deposit, 2 providers, 3 transactions, 1 fault | `FeeWithinCap`, `OnePaymentPerCall`, `ReturnedIsNotDisplaced`, `AlertIsTrue`, `SilenceIsTrue`, `TypeOK` |
| `evm_payment` | 2 payments (token, or token and lending), 1 retry, 2 bad answers, 1 crash, a base fee that doubles or halves | `ReturnedPays`, `OfferHolds`, `CopiesAccounted`, `ReturnedIsPending`, `PoisonedIsReplaced`, `PaymentTypeOK` |
| `quotes` | an indicative quote, a liquidation quote and a rebalancing run, 3 ticks, scaled-down units | `QuoteIsBacked`, `CapHoldsAtOnePrice`, `AcceptedIsFair`, `TypeOK` |
| `package_sync` | 2 modules, 5 packages, 3 edits (2 of manifests, of any package but the module's own, with any version or `*`), all modes | `SyncedIsComplete`, `SecondRunIsQuiet`, `DeclaredIsKept`, `ConsistentMeansOne`, `TypeOK` |

What the runs teach.

* *Rebalancing.* The only protection against paying a record twice is BullMQ's
  memory of the `jobId`: statuses fall back freely, and a stale scan or poll may
  overwrite any of them. `PolledAddressFunded` holds with a failing write but not
  across a crash, and is stated so: a quote job that stalled obtains a second
  address, which is stored while the first is paid. `SettledAtRest` says that a
  record reported settled moves no more BTC even while a stale poll still
  overwrites its status; `EventuallySettled`, that such overwrites heal.
* *Settlement.* A trade is paid again exactly when a failure or a crash falls
  between the payment and its record, or when two signals race;
  `PaymentsAccounted` counts them, and `PaidAtMostOnce` shows that calls repeated
  one at a time alone do not (the solver is taken to repeat a quote or a signal,
  but not an ack that succeeded: that would put a SETTLING row back to
  SELECTED). Two signals that race both reach the list and both may be paid; no
  property forbids it, because nothing in the code does. On Solana the receipt makes
  it once for the same terms whatever happens (`SolanaPaidOncePerTerms`), for all
  the resends and retries; a router that answers differently to two runs of the job
  opens the way to a second payment, which TLC reaches with two sets of terms. Nothing outside `Payout`'s steps can
  happen on any network (`ImplementsPayout`).
* *Monitor.* It completes a row before it creates the record and never looks at a
  completed row again: `LostRecordsAccounted` shows that overlapping runs, new
  quotes and late signals lose no record by themselves, a failing query or a
  crash in between does. A trade that ended on chain leaves SETTLING
  (`ConfirmedLeavesSettling`), unless it is three days old first or as many older
  trades as a batch holds stay open and crowd it out.
* *EVM.* Resets during a send are harmless because a new manager asks the node
  only at its first send (`ReturnedIsPending`), unless a nonce was taken that
  never reached the node: it leaves a gap, after which a later payment may
  replace one already reported. An approval need not be awaited (`ReturnedPays`):
  the nonce orders it before its payment; only an allowance read while a pending
  transaction is about to use it up misleads (`stale`). Twice the base fee
  outlasts a doubling between reading and sending (`OfferHolds`).
* *Bitcoin.* A retry sends the same bytes, so a call pays once. Without a lock
  between the two workers a payment whose hash was returned may still be
  displaced, but only if its coins were chosen beside another payment under way,
  which `ReturnedIsNotDisplaced` says. What a transaction leaves to the miners is
  more than the capped rate for its size (`FeeWithinCap` says by how much): a payout's
  OP_RETURN is charged twice, an output that is left out as dust is charged, and the
  dust is left too. An alert of the balance monitor may be false while a payment is
  pending, whose change the provider does not count, and when all providers fail,
  because `getBtcBalance` then answers zero (`AlertIsTrue`); a run may be silent
  wrongly only about a payment its provider has not heard of (`SilenceIsTrue`). A
  payout above the cap of the fee rate, an
  output of exactly dust and a wallet too small for the second payout occur.
* *Quotes.* A quote is priced from up to three prices of different age. When it is
  calculated, the to price is less than a cache lifetime and a timeout old, the from
  price, which was fetched first and kept, less than a lifetime and two timeouts
  (`QuoteIsBacked`; with one timeout TLC refutes it). The soft cap is kept when the
  price did not change between its check and its use (`CapHoldsAtOnePrice`); when it
  did, a commitment may exceed it.
* *Dependency script.* Idempotent in either mode. What is declared keeps its
  version, but the script gives an imported package of the repository the wildcard
  whatever was pinned, and `--strict` drops what is not needed, dev-only packages also
  against `.keep-deps` (`DeclaredIsKept`, section 5). A version check that passes
  misses a package that one module declares in both sections and a package declared
  with the wildcard, which it skips (`ConsistentMeansOne`).

**Bounds.** Records share only the order of the queues and of the loops, which
the models leave open, so one record shows the interleavings; two overlapping
runs are what two snapshots need. Two addresses are the first and a later quote;
two crashes exceed the one stall BullMQ allows; two retries show a first and a
last; two signals are the least that can pay twice. In `Settlement` the order of
the Redis list matters between trades: `settle_live` has two. In
`SettlementMonitor` two trades are needed for an order in the snapshot and two
runs for an overlap; a batch holds both or only the older one, which may crowd
the other out. In `EvmPayment` the
second payment meets the allowance, the nonce and the gap the first leaves, and
each payment is up to three calls. In `Bitcoin` three transactions are two
payments under way and a retry; the amounts are chosen so that change is dust,
the rate meets its cap and the wallet runs out. In `Quotes` the cache lives two
ticks, a provider has one and time is three, so a price expires, is fetched again
and is used late. In `PackageSync` three edits change a source, a manifest and
the source back, or the manifests of both modules and a source. `MaxCrashes`,
`MaxFaults`, `MaxQuotes`, `MaxSignals`, `MaxTxs`, `MaxTime`, `MaxEdits`,
`MaxManifestEdits` and `MaxTake` are the bounds. Two sets of terms are what two
payments of one trade on Solana need; `settle_live` has one, as nothing fails in it. The base fees of
`evm_payment` are at most twice each other and a call takes at most the buffer
more than its estimate (`BufferAssumption`): beyond that no buffer is enough.
Deadlock is not checked: the systems stop when every record has settled, the
solver sends nothing more, no call is left or the time is over. `bitcoin` uses
the symmetry of the two payouts, which are alike and occur in no liveness property.

**Fairness.** In `rebalance_live`: weak fairness of each cron run and of each
worker (Nest starts cron jobs for ever, BullMQ workers run until the process
ends), that time passes, that NEAR brings a funded address to a final status, and
strong fairness of an answered poll (NEAR may fail to answer, not for ever). In
`settle_live`: weak fairness of monitors, of each network's worker and of the
reporter. In `monitor`: of each run of the cron job. In `evm_payment`: of the
sender once it has begun, and of the refresh and its answer (a request to the
node is answered or times out). Nothing is assumed of record creation, quotes,
HTTP calls, jobs, mining, Solana transactions landing, crashes or faults.

## 4. What is proved

`RebalancingProofs` proves, for every set of records, scans and polls and all
bounds:

* `TypeCorrect` - `Spec => []TypeOK`
* `DepositsBounded` - `Spec => []DepositsWithinRuns`
* `SingleAddress` - `Spec => []OneAddressPaid`
* `HandedOverFunded` - `Spec => []HandedOverIsFunded`
* `PipelineIsPayout` - `Spec => ImplementsPayout`
* `PolledIsFunded` - `Spec => []PolledAddressFunded`
* `SettledRests` - `Undisturbed` implies `Spec => SettledAtRest`

The first five follow from `InductiveInvariant`, `Spec => []IInv`. None of the
three safety properties is inductive: what bounds the deposits is spread over
the job, the position of the worker and the snapshots of the polls. `IInv` is

* `TypeOK` and `LocalInv`: a quote worker, scan or poll that is not idle refers to
  a record, an address and an answer that exist;
* `PaymentInv`: the transfer worker's job is active exactly while it works on it
  and holds the address it pays (`PayerInv`, `JobData`); deposits exist only at
  that address (`PaidByJob`); they number at most the stalls of the job and one
  more once the current run may have sent (`RunsCounted`); a worker at `record`
  has paid (`RecordFunded`);
* `HandedOverIsFunded`, and `PollFunded`: a poll about to write, or with the
  record in its snapshot, holds a funded record.

The refinement needs no more: the worker pays only with an active job, which is
`Payout`'s grant, and a status is claimed only of a funded record. The proof has
a step for each action; what an action leaves alone is dealt with by lemmas on
the unchanged variables.

`PolledIsFunded` rests on `AddressInv`: until the first crash a record's quote job
runs once, so the address in the record, in the quote worker's hand and in the
transfer job is the same one. `SettledRests` is stated under `Undisturbed`, the
assumptions of `rebalance_live` (one scan at a time, no crash, no failing write),
for any number of records and polls. TLC finds a counterexample if any of the
three is dropped: an overlapping scan, a lost reply of `queue.add` and a crash each
let the code report as STUCK what is still queued. `RestInv` says why it holds
otherwise: before the quote job exists only the scan touches a record
(`UnqueuedInv`), its snapshot holds each record once (`SnapshotInv`), and a record
that is new, requeued or settled has no job that still may send (`QuietInv`).

`QuotesProofs` proves the lemmas on truncating and rounding division and the
bounds `Pricing` gives: `QuoteBacked` (a quote is worth at most its fraction of the
amount), `LimitHolds` (what passes the limits is at most the cap) and
`AcceptedLoss` (an acceptable slippage loses less than the threshold and a basis
point). It lifts them to the calls, for every configuration, any
number of calls, symbols and sessions, any delay of the providers and any prices:

* `QuotesTypeCorrect` - `Spec => []TypeOK`
* `QuotesAreBacked` - `Spec => []QuoteIsBacked`
* `CommitmentsAreCapped` - `Spec => []CapHoldsAtOnePrice`
* `AcceptedOffersAreFair` - `Spec => []AcceptedIsFair`

from `InductiveInvariantQuotes`: the prices a call holds, the answers it waits
for and the entries of the cache are typed and no older than their time allows
(`CacheInv`, `FetchInv`, `GotInv`), the first of two prices grows old only while the
second is awaited (`PairInv`), and a result is the one its prices give
(`ResultInv`).

`SettlementProofs` proves, for any trades on the three networks, any number of
calls, monitors, signals, resends, crashes and faults:

* `SettlementTypeCorrect` - `Spec => []TypeOK`
* `ChosenArePaid` - `Spec => []PaidWasChosen`
* `PaidOncePerTermsOnSolana` - `Spec => []SolanaPaidOncePerTerms`
* `SettlementIsPayout` - `Spec => ImplementsPayout`
* `PaymentsHaveACause` - `Spec => []PaymentsAccounted`
* `PaidOnce` - `Undisturbed` implies `Spec => []PaidAtMostOnce`

Who was chosen is forgotten by the row as soon as a new quote replaces it; what is
on its way must remember. So the invariant follows a trade: a row or a call past
the ack is of a chosen trade (`ApiInv`), and so is every message in a list, in a
monitor's hand or in a job (`QueueInv`) and every worker's trade (`WorkInv`); the
Solana receipts, one for each set of terms, count the payments, and a flying
transaction is of a chosen trade (`PaidInv`); a hash on its way to the solver is of a payment that was made
(`ReportInv`).

`PaymentsAccounted` counts over every list, hand, queue and worker at once. The
proof names what is counted: a claim of a trade is a place in a list or in a hand,
a waiting job, a worker that may still pay, or a payment made, and `Claims(t)` is
the set of them. `AccountInv` bounds its cardinality by signals, faults and crashes:
a step moves a claim, gives one up, or adds one together with a signal, a fault or
a crash. Trades on Solana are left to the receipt. `PaidOnce` assumes what
`settle_live` does (one call at a time, nothing fails or crashes, a successful ack
is not sent again), for any trades, monitors and other repeated calls: then a trade
has one signal (`OnceInv`), and the count gives the rest.

`SettlementMonitorProofs` proves, for any trades, runs and batch size:

* `MonitorTypeCorrect` - `Spec => []TypeOK`
* `RecordsAreReleased` - `Spec => []RecordIsReleased`
* `LossesAreAccounted` - `Spec => []LostRecordsAccounted`

A run has nothing but its snapshot and an answer of the chain; the invariant says
that the answer is still true (`BranchInv`) and that only ended trades are
completed (`CompletedInv`). The last theorem counts a set from one state to the
next: a fault loses at most one record, a crash at most one per run.

`WalletProofs` proves, for any calls, retries, refreshes, bad answers and crashes:

* `WalletTypeCorrect` - `Spec => []TypeOK`
* `CopiesAreAccounted` - `Spec => []CopiesAccounted`
* `ReturnedArePending` - `Spec => []ReturnedIsPending`

`SenderInv` says which manager the sender holds (the cached one, or one that a
reset has replaced by a fresh one); `CountInv` bounds the nonces by the attempts,
so that they do not run out; `PrefixInv` is the argument for the last theorem:
without a skipped nonce the node's nonces have no gap, and a manager that knows
its base points at the first free one.

`EvmPaymentProofs` carries them to the payments and adds, under
`BufferAssumption`:

* `PaymentIsWallet` - `PaymentSpec => Spec`; with it `PaymentCopiesAreAccounted`
  and `PaymentReturnedArePending`
* `PaymentTypeCorrect` - `PaymentSpec => []PaymentTypeOK`
* `OffersHold` - `PaymentSpec => []OfferHolds`
* `ReturnedPaymentsPay` - `PaymentSpec => []ReturnedPays`

`OfferInv`: from its estimate on a call has gas enough, from its pricing on a price
above any base fee it may meet. Both survive retries and resets, because a retry
prices anew and keeps the limit. `ReturnedPaymentsPay` is the argument why no
approval is awaited: payments take turns (`TurnInv`), and each call finds the
allowance it was chosen for at its own nonce, with everything before it still
pending (`AllowanceInv`). `AllowanceAt` is a recursive function of the nonces; it
is taken apart by showing that a function with its recursion exists and is the
only one (`ChainOf`).

`BitcoinProofs` proves, for any coins, amounts, estimates, providers' answers,
retries, replacements and conflicting payments:

* `CallsPayOnce` - `Spec => []OnePaymentPerCall`
* `BitcoinTypeCorrect` - `Spec => []TypeOK`
* `FeesWithinCap` - `Spec => []FeeWithinCap`
* `ReturnedStay` - `Spec => []ReturnedIsNotDisplaced`
* `MonitoredWallet`, `MonitoredWalletSafe` - all of these under `MonitoredSpec`
* `AlertsAreTrue` - `MonitoredSpec => AlertIsTrue`
* `SilencesAreTrue` - `MonitoredSpec => []SilenceIsTrue`

A call has a transaction only from its broadcast on (`BuiltInv`), and its worker
never goes back from there (`BusyInv`). `PayInv` carries the fee with the
transaction: what was charged, that all of the change is there unless it is dust, and
that the charge is within the cap for the size it was made from (`FeeInv`);
`ChargeBounds` compares that size with the one that was built. `PlaceInv` is why a returned hash stays: a broadcast waits for every
provider that has not refused (`WaitInv`), and while nobody chose coins beside a
payment the provider did not know of, live transactions share no coin (`ApartInv`),
so no node gives one up for another (`HeldInv`). `NodesInv` is about the nodes: the
chain and each node's view spend no coin twice and none that is not there
(`Sound`), and coins are chosen from one such view (`Choosable`), so a replacement
never spends the change of what it evicts, with all that descends from it. Of two
such views the larger one holds less, by the fees and payments it knows of beyond
the smaller one; the balance read and what any other node holds are two such views.
The sum over a set of coins is recursive too: that it is what remains plus what is
taken away is shown by a smallest counterexample.

`PackageSyncProofs` proves, for any modules, packages, versions, edits, runs and
interruptions:

* `SyncTypeCorrect` - `Spec => []TypeOK`
* `SyncCompletes` - `Spec => []SyncedIsComplete`
* `ConsistentIsOne` - `Spec => []ConsistentMeansOne`
* `SecondSyncQuiet` - `Spec => SecondRunIsQuiet`
* `SyncKeepsDeclared` - `Spec => DeclaredIsKept`

The invariant is that a module which was synchronised has nothing left to do in
that mode (`DoneInv`) and that a check which passed still finds no mismatch in the
manifests as they are (`CheckedInv`). A quiet run leaves them alone, so a verdict
outlives it. Nobody is taken to write a module's own package into its manifest. The
argument is that a lookup is stable: a
version that was found is found in the manifest from then on, so what is imported
is declared after the write exactly if it was found before (`WrittenStable`).
Completeness is a consequence of having nothing left to do (`DoneIsComplete`).

The assumptions are the `ASSUME`s of the modules, which TLC evaluates in every
run; of them two are about the world: `BufferAssumption` and `OutputsAssumption`:
the transaction that settles a liquidation pays the PMM the most of what does not
return to the vault, and where the vault's address is not known (the code's
fallback) the most of all. `extractRealAmount` relies on it and checks nothing of
the kind; where it does not hold the amount is wrong, and `AcceptedIsFair` says
nothing. The rest type the constants and keep values apart.
The inductive invariants were checked with TLC on the instances above before they
were proved.

What is counted or summed is defined by recursive functions or cardinalities.
Induction over data is not to be had from the prover; where a proof needs it, a
set of counterexamples among the naturals has a smallest element, which the step
from it to its predecessor contradicts.

Only model-checked is what the prover cannot do, liveness under fairness:
`EventuallySettled`, `SignalWorkedOff`, `ConfirmedLeavesSettling` and
`PoisonedIsReplaced`. What the three violating runs refute is not provable, of
course; every other property that a run checks is stated by a theorem.

## 5. Disagreements with comments in the code

Three runs expect a violation; PROJECT.json quotes the lines.
`RequeuedRecordRuns` (comment on `retryCount` in the jobId),
`AcceptedTransferCanRun` (comment "transfer can be retried") and
`FailedReportIsRetried` ("re-throw the error for the queue to handle").

Two more were met on the way and have no run. `sync-package-deps.ts:28` says that
the packages in `.keep-deps` should always be kept, but `--strict` drops one that
is dev-only and not imported (`DeclaredIsKept` is stated with that exception);
and `:23` that dev-only packages should only be in devDependencies, but `--strict`
does not count their removal as a change and writes nothing if it is the only
one (so `SyncedIsComplete` asks for their section in the default mode only). The
comment on `calculateTxSize` (`bitcoin.service.ts:348`) excludes the OP_RETURN
from the outputs it is given; a payout's call includes it, so its size is
counted twice, as in the model.

## 6. Not modelled

* *Solana balance check* of the balance monitor: the same code as for Bitcoin over
  one RPC call; a copy of `BalanceMonitor` without its interest.
* *Liquidator contract client, contract bindings, IDL*: encoding, signing and
  decoding, or generated; no choices of the program. What a liquidation's error
  does to the worker is in `Settlement`.
* *HTTP client, interceptors, middleware, configuration, logging, database
  client*: plumbing. A query or a request that fails is a fault of the module
  that makes it.
* *Unused code detector*: a report over text; no state.
* *Wire formats* of Binance, CoinGecko, NEAR, mempool.space and Blockstream: an
  answer is a value or a failure.
* *One composition of all modules.* `SettlementMonitor` ends where `Rebalancing`
  begins (`Create` of a record), `Settlement`'s `transfer` is `EvmPayment` and
  `Bitcoin` in detail, and the interfaces are a single action each; a product of
  them is beyond what TLC can explore in reasonable time, and no property needs
  more than one side.
* *Hazards without a property* (PROJECT.json gives the reasons): most of them are in
  the models, where they happen, and nothing in the code or its docs is against them,
  so that a property could only except them: a record left in MEMPOOL_VERIFIED by a
  failing `add`, two signals that race, a batch lost between Redis and BullMQ, an
  error code reported as a hash, a displaced Bitcoin payment after a race of the two
  workers, a cap checked at another price. What `extractRealAmount` finds in an
  unusual transaction is assumed away.
