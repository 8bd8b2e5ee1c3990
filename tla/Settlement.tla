----------------------------- MODULE Settlement ------------------------------
(***************************************************************************)
(* A trade from its commitment quote to the payment and its report.        *)
(*                                                                         *)
(*   HTTP handlers (QuoteService, SettlementService) write the trade row   *)
(*   and, on signal-payment, push the trade onto a Redis list;             *)
(*   a monitor pops the list every second and adds a BullMQ job per trade; *)
(*   the transfer worker pays on chain, retries by adding a new job, and   *)
(*   hands the payment to the submit worker, which tells the solver.       *)
(*                                                                         *)
(* The row is the only thing the handlers share and no handler runs in a   *)
(* transaction: Requests are the calls that may be under way at once.  The *)
(* networks have a Redis list, a cron job and a worker each, copies of one *)
(* another up to the strategy that pays.                                   *)
(***************************************************************************)
EXTENDS JobQueue, Sequences, FiniteSets

CONSTANTS
    Trades,
    Requests,       \* HTTP calls the solver may have under way
    Monitors,       \* invocations of the per-second cron jobs under way
    Kinds,          \* network and type the trades may have
    Resent,         \* calls the solver may send again once they succeeded
    BatchSize,      \* messages a monitor pops at a time (10 in the code)
    MaxRetries,     \* MAX_RETRIES of the transfer processors (60 in the code)
    MaxSends,       \* maxRetryCount of sendTransactionWithRetry (10 in the code)
    Terms,          \* receiver, amount, token and fee a trade may be paid under
    MaxSignals,     \* bound: accepted signal-payment calls per trade
    MaxCrashes,     \* bound: crashes of the process
    MaxFaults,      \* bound: calls that throw, or take effect and throw
    NoTrade

(* getQueueNameByNetworkType: TBTC tokens go with BTC.                     *)
Networks == {"EVM", "BTC", "SOLANA"}

Calls == {"quote", "sign", "ack", "signal"}

ASSUME SettlementAssumption ==
    /\ NoTrade \notin Trades
    /\ Resent \subseteq Calls
    /\ Kinds \subseteq [network : [Trades -> Networks], lending : SUBSET Trades]
    /\ BatchSize \in Nat \ {0}
    /\ MaxRetries \in Nat \ {0}
    /\ MaxSends \in Nat \ {0}
    /\ IsFiniteSet(Terms) /\ Terms # {}
    /\ MaxSignals \in Nat /\ MaxCrashes \in Nat /\ MaxFaults \in Nat

VARIABLES
    row,            \* status of the trade's row, "absent" when there is none
    expired,        \* tradeDeadline has passed
    request,        \* local state of each call
    answered,       \* calls of a trade the solver got a success for
    kind,           \* networks of the tokens the trades are paid in, and the
                    \* trades of type lending (the others are swaps)
    list,           \* the Redis list of each network, oldest message first
    hand,           \* messages a monitor has popped and not yet added
    waiting,        \* transfer jobs, waiting or delayed: how many of each kind
    worker,         \* the transfer worker of each network and its active job
    solana,         \* the Solana transactions of a trade, by their terms
    reports,        \* submit jobs waiting: how many of each kind
    reporter,       \* the submit worker and its active job
    chosen,         \* history: trades acknowledged with chosen = true
    signals,        \* history: messages pushed for a trade
    payments,       \* history: payments made on chain for a trade
    reported,       \* history: hashes the solver accepted for a trade
    crashes, faults

apiVars    == <<row, request, answered, chosen>>
reportVars == <<reports, reporter, reported>>
bounds     == <<crashes, faults>>
vars == <<apiVars, expired, kind, list, hand, waiting, worker, solana,
          reportVars, signals, payments, bounds>>

Rows == {"absent", "PENDING", "QUOTE_PROVIDED", "COMMITTED", "SELECTED",
         "FAILED", "SETTLING"}

(* A transfer job: {tradeId, retryCount} and how often it has stalled.     *)
TransferJobs ==
    [trade : Trades, retry : 0 .. MaxRetries - 1, stalls : 0 .. MaxStalls]

(* What a submit job reports: the hash of a payment, or, for a lending     *)
(* trade whose payment reverted, an error code in place of the hash.       *)
Hashes == {"payment", "errorCode"}

ReportJobs == [trade : Trades, hash : Hashes, stalls : 0 .. MaxStalls]

(* terms and executed are those of the Solana transaction just sent.       *)
WorkerStates ==
    [at : {"idle", "check", "transfer", "confirm", "submit", "retry", "done"},
     trade : Trades \cup {NoTrade}, retry : 0 .. MaxRetries - 1,
     stalls : 0 .. MaxStalls, hash : Hashes, sends : 0 .. MaxSends,
     terms : Terms, executed : BOOLEAN]

(* The terms a trade has been sent under, those of transactions that were  *)
(* given up and may land yet, and those of its payments.                   *)
SolanaStates == [sent : SUBSET Terms, flying : SUBSET Terms, landed : SUBSET Terms]

NothingSent == [sent |-> {}, flying |-> {}, landed |-> {}]

ReporterStates ==
    [at : {"idle", "report", "done"}, trade : Trades \cup {NoTrade},
     hash : Hashes, stalls : 0 .. MaxStalls]

RequestStates ==
    [at : {"idle", "delete", "create", "price", "sign", "select", "refuse",
           "push", "mark"},
     trade : Trades \cup {NoTrade}]

IdleCall     == [at |-> "idle", trade |-> NoTrade]
IdleWorker   == [at |-> "idle", trade |-> NoTrade, retry |-> 0, stalls |-> 0,
                 hash |-> "payment", sends |-> 0,
                 terms |-> CHOOSE c \in Terms : TRUE, executed |-> FALSE]
IdleReporter == [at |-> "idle", trade |-> NoTrade, hash |-> "payment",
                 stalls |-> 0]

Init ==
    /\ row = [t \in Trades |-> "absent"]
    /\ expired = [t \in Trades |-> FALSE]
    /\ request = [q \in Requests |-> IdleCall]
    /\ answered = [t \in Trades |-> {}]
    /\ kind \in Kinds
    /\ list = [n \in Networks |-> <<>>]
    /\ hand = [m \in Monitors |-> <<>>]
    /\ waiting = [j \in TransferJobs |-> 0]
    /\ worker = [n \in Networks |-> IdleWorker]
    /\ solana = [t \in Trades |-> NothingSent]
    /\ reports = [j \in ReportJobs |-> 0]
    /\ reporter = IdleReporter
    /\ chosen = {}
    /\ signals = [t \in Trades |-> 0]
    /\ payments = [t \in Trades |-> 0]
    /\ reported = [t \in Trades |-> {}]
    /\ crashes = 0
    /\ faults = 0

Fault ==
    /\ faults < MaxFaults
    /\ faults' = faults + 1
    /\ UNCHANGED crashes

-----------------------------------------------------------------------------
(* The HTTP handlers                                                       *)

BeyondApi ==
    UNCHANGED <<expired, kind, hand, waiting, worker, solana, reportVars, payments>>

(* The solver goes through the calls in order and waits for an answer; it  *)
(* repeats a call that failed, and one of Resent even if it succeeded.     *)
Before(call) ==
    CASE call = "quote"  -> {}
      [] call = "sign"   -> {"quote"}
      [] call = "ack"    -> {"quote", "sign"}
      [] call = "signal" -> {"quote", "sign", "ack"}

Sends(q, t, call) ==
    /\ request[q].at = "idle"
    /\ Before(call) \subseteq answered[t]
    /\ call \notin answered[t] \/ call \in Resent

Continue(q, at) == request' = [request EXCEPT ![q].at = at]

Begin(q, t, at) == request' = [request EXCEPT ![q] = [at |-> at, trade |-> t]]

(* The handler throws: the solver gets an error.                           *)
Throw(q) ==
    /\ request' = [request EXCEPT ![q] = IdleCall]
    /\ UNCHANGED answered

Answer(q, call) ==
    /\ request' = [request EXCEPT ![q] = IdleCall]
    /\ answered' = [answered EXCEPT ![request[q].trade] = @ \cup {call}]

(* db.trade.update({where: {tradeId}}): throws when there is no such row.  *)
UpdateRow(q, status, call) ==
    LET t == request[q].trade IN
    IF row[t] = "absent" THEN UNCHANGED row /\ Throw(q)
    ELSE row' = [row EXCEPT ![t] = status] /\ Answer(q, call)

(* getCommitmentQuote, getLiquidationQuote: session, tokens and amount are *)
(* in order.                                                               *)
QuoteStart(q, t) ==
    /\ Sends(q, t, "quote")
    /\ Begin(q, t, "delete")
    /\ UNCHANGED <<row, answered, chosen, list, signals, bounds>> /\ BeyondApi

(* deleteTrade: whatever its status.                                       *)
QuoteDelete(q) ==
    /\ request[q].at = "delete"
    /\ row' = [row EXCEPT ![request[q].trade] = "absent"]
    /\ Continue(q, "create")
    /\ UNCHANGED <<answered, chosen, list, signals, bounds>> /\ BeyondApi

(* createTrade, after the await of calculateBestQuote; tradeId is unique.  *)
QuoteCreate(q) ==
    LET t == request[q].trade IN
    /\ request[q].at = "create"
    /\ IF row[t] = "absent"
       THEN /\ row' = [row EXCEPT ![t] = "PENDING"]
            /\ Continue(q, "price") /\ UNCHANGED answered
       ELSE UNCHANGED row /\ Throw(q)
    /\ UNCHANGED <<chosen, list, signals, bounds>> /\ BeyondApi

QuotePrice(q) ==
    /\ request[q].at = "price"
    /\ UpdateRow(q, "QUOTE_PROVIDED", "quote")
    /\ UNCHANGED <<chosen, list, signals, bounds>> /\ BeyondApi

(* TradeExistsGuard finds the trade, then the handler awaits the router,   *)
(* the tokens and the signer before it writes.  The URL's trade, which     *)
(* the guard loads, is taken to be the body's.                             *)
SignStart(q, t) ==
    /\ Sends(q, t, "sign")
    /\ row[t] # "absent"
    /\ Begin(q, t, "sign")
    /\ UNCHANGED <<row, answered, chosen, list, signals, bounds>> /\ BeyondApi

SignCommit(q) ==
    /\ request[q].at = "sign"
    /\ UpdateRow(q, "COMMITTED", "sign")
    /\ UNCHANGED <<chosen, list, signals, bounds>> /\ BeyondApi

AckStart(q, t) ==
    /\ Sends(q, t, "ack")
    /\ row[t] # "absent"
    /\ \E at \in {"select", "refuse"} : Begin(q, t, at)
    /\ UNCHANGED <<row, answered, chosen, list, signals, bounds>> /\ BeyondApi

AckSelect(q) ==
    LET t == request[q].trade IN
    /\ request[q].at = "select"
    /\ UpdateRow(q, "SELECTED", "ack")
    /\ chosen' = IF row[t] = "absent" THEN chosen ELSE chosen \cup {t}
    /\ UNCHANGED <<list, signals, bounds>> /\ BeyondApi

AckRefuse(q) ==
    /\ request[q].at = "refuse"
    /\ UpdateRow(q, "FAILED", "ack")
    /\ UNCHANGED <<chosen, list, signals, bounds>> /\ BeyondApi

(* Calls that may still push: the bound is on messages.                    *)
Pushing(t) == {q \in Requests : request[q] = [at |-> "push", trade |-> t]}

MaySignal(t) == signals[t] + Cardinality(Pushing(t)) < MaxSignals

(* Mutation: the status is not tested.                                     *)
SignalStartUnguarded(q, t) ==
    /\ Sends(q, t, "signal") /\ MaySignal(t)
    /\ row[t] # "absent"
    /\ Begin(q, t, "push")
    /\ UNCHANGED <<row, answered, chosen, list, signals, bounds>> /\ BeyondApi

(* The status that signalPayment tests is the one the guard has loaded;    *)
(* any other status is answered with 400.                                  *)
SignalStart(q, t) ==
    /\ Sends(q, t, "signal") /\ MaySignal(t)
    /\ row[t] = "SELECTED"
    /\ Begin(q, t, "push")
    /\ UNCHANGED <<row, answered, chosen, list, signals, bounds>> /\ BeyondApi

(* The list of the network the trade's toTokenId is on.                    *)
SignalPush(q) ==
    /\ request[q].at = "push"
    /\ list' = [list EXCEPT ![kind.network[request[q].trade]] = Append(@, request[q].trade)]
    /\ signals' = [signals EXCEPT ![request[q].trade] = @ + 1]
    /\ Continue(q, "mark")
    /\ UNCHANGED <<row, answered, chosen, bounds>> /\ BeyondApi

(* Mutation: SETTLING is not written.                                      *)
SignalMarkForgotten(q) ==
    /\ request[q].at = "mark"
    /\ Answer(q, "signal")
    /\ UNCHANGED <<row, chosen, list, signals, bounds>> /\ BeyondApi

SignalMark(q) ==
    /\ request[q].at = "mark"
    /\ UpdateRow(q, "SETTLING", "signal")
    /\ UNCHANGED <<chosen, list, signals, bounds>> /\ BeyondApi

(* A query, a push or a remote call of the handler throws.                 *)
CallFails(q) ==
    /\ request[q].at # "idle"
    /\ Fault
    /\ Throw(q)
    /\ UNCHANGED <<row, chosen, list, signals>> /\ BeyondApi

ApiStep(q) ==
    \/ \E t \in Trades : \/ QuoteStart(q, t) \/ SignStart(q, t)
                         \/ AckStart(q, t)   \/ SignalStart(q, t)
    \/ QuoteDelete(q) \/ QuoteCreate(q) \/ QuotePrice(q)
    \/ SignCommit(q)
    \/ AckSelect(q)   \/ AckRefuse(q)
    \/ SignalPush(q)  \/ SignalMark(q)
    \/ CallFails(q)

-----------------------------------------------------------------------------
(* tradeDeadline passes                                                    *)

DeadlinePasses(t) ==
    /\ ~expired[t]
    /\ expired' = [expired EXCEPT ![t] = TRUE]
    /\ UNCHANGED <<apiVars, kind, list, hand, waiting, worker, solana,
                   reportVars, signals, payments, bounds>>

-----------------------------------------------------------------------------
(* processTransferSettlementEvents of a monitor service, invocation m      *)

BeyondMonitor ==
    UNCHANGED <<apiVars, expired, kind, worker, solana, reportVars, signals, payments>>

Batch(n) == IF Len(list[n]) < BatchSize THEN Len(list[n]) ELSE BatchSize

(* Mutation: the batch is read and left on the list.                       *)
MonitorPopPeeks(m, n) ==
    /\ hand[m] = <<>> /\ list[n] # <<>>
    /\ hand' = [hand EXCEPT ![m] = SubSeq(list[n], 1, Batch(n))]
    /\ UNCHANGED <<list, waiting, bounds>> /\ BeyondMonitor

(* popFromQueue: the batch leaves Redis before any job is added.           *)
MonitorPop(m, n) ==
    /\ hand[m] = <<>> /\ list[n] # <<>>
    /\ hand' = [hand EXCEPT ![m] = SubSeq(list[n], 1, Batch(n))]
    /\ list' = [list EXCEPT ![n] = SubSeq(@, Batch(n) + 1, Len(@))]
    /\ UNCHANGED <<waiting, bounds>> /\ BeyondMonitor

(* transferQueue.add without a jobId: every message becomes a job.         *)
FirstJob(t) == [trade |-> t, retry |-> 0, stalls |-> 0]

MonitorAdd(m) ==
    /\ hand[m] # <<>>
    /\ waiting' = [waiting EXCEPT ![FirstJob(Head(hand[m]))] = @ + 1]
    /\ hand' = [hand EXCEPT ![m] = Tail(@)]
    /\ UNCHANGED <<list, bounds>> /\ BeyondMonitor

(* add throws, having taken effect or not; processTransfer rethrows and    *)
(* the rest of the batch is gone.                                          *)
MonitorAddFails(m) ==
    /\ hand[m] # <<>>
    /\ Fault
    /\ \/ UNCHANGED waiting
       \/ waiting' = [waiting EXCEPT ![FirstJob(Head(hand[m]))] = @ + 1]
    /\ hand' = [hand EXCEPT ![m] = <<>>]
    /\ UNCHANGED list /\ BeyondMonitor

EvmMonitorPop(m)    == MonitorPop(m, "EVM")
BtcMonitorPop(m)    == MonitorPop(m, "BTC")
SolanaMonitorPop(m) == MonitorPop(m, "SOLANA")

MonitorStep(m) ==
    \/ EvmMonitorPop(m) \/ BtcMonitorPop(m) \/ SolanaMonitorPop(m)
    \/ MonitorAdd(m)    \/ MonitorAddFails(m)

-----------------------------------------------------------------------------
(* process of a transfer processor, the only worker of its network's queue *)

BeyondWorker == UNCHANGED <<apiVars, expired, kind, list, hand, reporter,
                            reported, signals>>

WorkGoesTo(n, at) == worker' = [worker EXCEPT ![n].at = at]

(* The queue of network n holds the jobs of the trades paid there.         *)
WorkTake(n, j) ==
    /\ worker[n].at = "idle" /\ waiting[j] > 0 /\ kind.network[j.trade] = n
    /\ waiting' = [waiting EXCEPT ![j] = @ - 1]
    /\ worker' = [worker EXCEPT ![n] =
         [IdleWorker EXCEPT !.at = "check", !.trade = j.trade,
                            !.retry = j.retry, !.stalls = j.stalls]]
    /\ UNCHANGED <<reports, payments, solana, bounds>> /\ BeyondWorker

(* Another PMM was selected, or the deadline has passed: the job is done.  *)
WorkDeclines(n) ==
    /\ worker[n].at = "check"
    /\ WorkGoesTo(n, "done")
    /\ UNCHANGED <<waiting, reports, payments, solana, bounds>> /\ BeyondWorker

(* findTradeById throws NotFound, which is retried like any other error;   *)
(* the status of the row is not looked at.                                 *)
WorkCheck(n) ==
    /\ worker[n].at = "check"
    /\ IF row[worker[n].trade] = "absent" THEN WorkGoesTo(n, "retry")
       ELSE ~expired[worker[n].trade] /\ WorkGoesTo(n, "transfer")
    /\ UNCHANGED <<waiting, reports, payments, solana, bounds>> /\ BeyondWorker

(* A router, token or database read throws.                                *)
WorkCheckFails(n) ==
    /\ worker[n].at = "check"
    /\ Fault
    /\ WorkGoesTo(n, "retry")
    /\ UNCHANGED <<waiting, reports, payments, solana>> /\ BeyondWorker

(* getStrategy: lending trades are paid on EVM networks only.              *)
HasStrategy(t) == kind.network[t] = "EVM" \/ t \notin kind.lending

Transferring(n) == worker[n].at = "transfer" /\ HasStrategy(worker[n].trade)

WorkNoStrategy(n) ==
    /\ worker[n].at = "transfer" /\ ~HasStrategy(worker[n].trade)
    /\ WorkGoesTo(n, "retry")
    /\ UNCHANGED <<waiting, reports, payments, solana, bounds>> /\ BeyondWorker

(* Mutation: a failed transfer is submitted like a successful one.         *)
WorkTransferFailsSubmits(n) ==
    /\ Transferring(n)
    /\ WorkGoesTo(n, "submit")
    /\ UNCHANGED <<waiting, reports, payments, solana, bounds>> /\ BeyondWorker

(* The strategy throws and nothing has been sent.                          *)
WorkTransferFails(n) ==
    /\ Transferring(n)
    /\ WorkGoesTo(n, "retry")
    /\ UNCHANGED <<waiting, reports, payments, solana, bounds>> /\ BeyondWorker

Pay(t) == payments' = [payments EXCEPT ![t] = @ + 1]

(* The EVM and BTC strategies: they return once the node has the           *)
(* transaction.                                                            *)
WorkTransfer(n) ==
    /\ Transferring(n)
    /\ Pay(worker[n].trade)
    /\ WorkGoesTo(n, "submit")
    /\ UNCHANGED <<waiting, reports, solana, bounds>> /\ BeyondWorker

(* The transaction is out and the strategy throws.                         *)
WorkTransferUnsure(n) ==
    /\ Transferring(n)
    /\ Fault
    /\ Pay(worker[n].trade)
    /\ WorkGoesTo(n, "retry")
    /\ UNCHANGED <<waiting, reports, solana>> /\ BeyondWorker

(* No approval, no balance, no provider, a nonce error that lasts.         *)
EvmRefuses == WorkTransferFails("EVM")

EvmPays == WorkTransfer("EVM")

(* checkBalance answers false, also when it fails itself; no UTXOs, or not *)
(* enough for amount and fee.                                              *)
BtcRefuses == WorkTransferFails("BTC")

BtcPays == WorkTransfer("BTC")

ReportsError(n) ==
    worker' = [worker EXCEPT ![n].at = "submit", ![n].hash = "errorCode"]

(* handleTransferError of the liquidation strategy: the revert code is     *)
(* reported in place of a hash.                                            *)
LiquidationReverts ==
    /\ Transferring("EVM") /\ worker["EVM"].trade \in kind.lending
    /\ ReportsError("EVM")
    /\ UNCHANGED <<waiting, reports, payments, solana, bounds>> /\ BeyondWorker

(* ... also when the error carries data and the transaction is out.        *)
LiquidationUnsure ==
    /\ Transferring("EVM") /\ worker["EVM"].trade \in kind.lending
    /\ Fault
    /\ Pay(worker["EVM"].trade)
    /\ ReportsError("EVM")
    /\ UNCHANGED <<waiting, reports, solana>> /\ BeyondWorker

-----------------------------------------------------------------------------
(* SolanaTransferStrategy and the payment program                          *)

Sol == worker["SOLANA"]

(* checkBalance answers false, also when it fails itself; getFeeDetails or *)
(* the lookup of the recipient's token account throws.                     *)
SolanaRefuses == WorkTransferFails("SOLANA")

(* sendAndConfirmTransaction, each time under a new blockhash.  Every run  *)
(* of the job asks the router for the terms, and the sends of a run keep   *)
(* them; the terms of an earlier run are not looked at.                    *)
SolanaSend ==
    /\ Transferring("SOLANA")
    /\ \E c \in Terms :
         /\ Sol.sends > 0 => c = Sol.terms
         /\ solana' = [solana EXCEPT ![Sol.trade].sent = @ \cup {c}]
         /\ worker' = [worker EXCEPT !["SOLANA"] =
              [Sol EXCEPT !.at = "confirm", !.sends = Sol.sends + 1, !.terms = c,
                          !.executed = FALSE]]
    /\ UNCHANGED <<waiting, reports, payments, bounds>> /\ BeyondWorker

(* Mutation: the receipt's seeds contain something that is new each time,  *)
(* such as the deadline.                                                   *)
ReceiptExistsNever(t, c) == FALSE

(* getPaymentReceiptPda: its seeds are the trade and the terms.            *)
ReceiptExists(t, c) == c \in solana[t].landed

(* The transaction of t just sent, whose confirmation is awaited.          *)
Awaited(t, c) ==
    Sol.at = "confirm" /\ Sol.trade = t /\ Sol.terms = c /\ ~Sol.executed

(* The program executes a payment: it creates the receipt, which fails if  *)
(* there is one.  Nothing of the PMM needs to be running.                  *)
SolanaLands(t) ==
    /\ \E c \in Terms :
         /\ ~ReceiptExists(t, c)
         /\ \/ c \in solana[t].flying /\ UNCHANGED worker
            \/ Awaited(t, c) /\ worker' = [worker EXCEPT !["SOLANA"].executed = TRUE]
         /\ solana' = [solana EXCEPT ![t].flying = @ \ {c},
                                     ![t].landed = @ \cup {c}]
    /\ Pay(t)
    /\ UNCHANGED <<apiVars, expired, kind, list, hand, waiting,
                   reportVars, signals, bounds>>

(* Nobody awaits the transaction just sent any more; it may land yet.      *)
NoLongerAwaited ==
    solana' = [t \in Trades |-> [solana[t] EXCEPT !.flying =
                 @ \cup {c \in Terms : Awaited(t, c) /\ ~ReceiptExists(t, c)}]]

SolanaConfirmed ==
    /\ Sol.at = "confirm" /\ Sol.executed
    /\ WorkGoesTo("SOLANA", "submit")
    /\ UNCHANGED <<waiting, reports, payments, solana, bounds>> /\ BeyondWorker

(* The catch block of sendTransactionWithRetry: another send, or throw     *)
(* after the last one or when the block height has moved on.               *)
SendAgain == Sol.sends < MaxSends /\ WorkGoesTo("SOLANA", "transfer")

GiveUp == WorkGoesTo("SOLANA", "retry")

(* The transaction failed or its blockhash expired: it will not land.      *)
SolanaFails ==
    /\ Sol.at = "confirm" /\ ~Sol.executed
    /\ SendAgain \/ GiveUp
    /\ UNCHANGED <<waiting, reports, payments, solana, bounds>> /\ BeyondWorker

(* The confirmation is not heard of.                                       *)
SolanaUnsure ==
    /\ Sol.at = "confirm"
    /\ Fault
    /\ NoLongerAwaited
    /\ SendAgain \/ GiveUp
    /\ UNCHANGED <<waiting, reports, payments>> /\ BeyondWorker

-----------------------------------------------------------------------------
(* The end of process: the report, the catch block and its retry           *)

AddReport(n) ==
    LET j == [trade |-> worker[n].trade, hash |-> worker[n].hash, stalls |-> 0]
    IN  reports' = [reports EXCEPT ![j] = @ + 1]

WorkSubmit(n) ==
    /\ worker[n].at = "submit"
    /\ AddReport(n)
    /\ WorkGoesTo(n, "done")
    /\ UNCHANGED <<waiting, payments, solana, bounds>> /\ BeyondWorker

(* submitSettlementQueue.add throws, having taken effect or not: the try   *)
(* block ends in the same catch as a failed transfer.                      *)
WorkSubmitFails(n) ==
    /\ worker[n].at = "submit"
    /\ Fault
    /\ AddReport(n) \/ UNCHANGED reports
    /\ WorkGoesTo(n, "retry")
    /\ UNCHANGED <<waiting, payments, solana>> /\ BeyondWorker

RetryJob(n, retry) == [trade |-> worker[n].trade, retry |-> retry, stalls |-> 0]

(* Mutation: retryCount is not carried over to the new job.                *)
WorkRetryUncounted(n) ==
    /\ worker[n].at = "retry"
    /\ waiting' = [waiting EXCEPT ![RetryJob(n, worker[n].retry)] = @ + 1]
    /\ WorkGoesTo(n, "done")
    /\ UNCHANGED <<reports, payments, solana, bounds>> /\ BeyondWorker

(* Mutation: the limit on retries is off by one.                           *)
WorkRetryForever(n) ==
    LET j == RetryJob(n, worker[n].retry + 1) IN
    /\ worker[n].at = "retry"
    /\ IF worker[n].retry < MaxRetries
       THEN waiting' = [k \in TransferJobs \cup {j} |->
                           (IF k \in TransferJobs THEN waiting[k] ELSE 0)
                               + (IF k = j THEN 1 ELSE 0)]
       ELSE UNCHANGED waiting
    /\ WorkGoesTo(n, "done")
    /\ UNCHANGED <<reports, payments, solana, bounds>> /\ BeyondWorker

(* The catch block: a new, delayed job, or, after the last retry, throw.   *)
WorkRetry(n) ==
    /\ worker[n].at = "retry"
    /\ IF worker[n].retry < MaxRetries - 1
       THEN waiting' = [waiting EXCEPT ![RetryJob(n, worker[n].retry + 1)] = @ + 1]
       ELSE UNCHANGED waiting
    /\ WorkGoesTo(n, "done")
    /\ UNCHANGED <<reports, payments, solana, bounds>> /\ BeyondWorker

(* The add of the retry throws: the job fails and nothing is left of it.   *)
WorkRetryFails(n) ==
    /\ worker[n].at = "retry" /\ worker[n].retry < MaxRetries - 1
    /\ Fault
    /\ WorkGoesTo(n, "done")
    /\ UNCHANGED <<waiting, reports, payments, solana>> /\ BeyondWorker

WorkFinish(n) ==
    /\ worker[n].at = "done"
    /\ worker' = [worker EXCEPT ![n] = IdleWorker]
    /\ UNCHANGED <<waiting, reports, payments, solana, bounds>> /\ BeyondWorker

(* What the processors have in common.                                     *)
WorkStep(n) ==
    \/ \E j \in TransferJobs : WorkTake(n, j)
    \/ WorkDeclines(n)      \/ WorkCheck(n)       \/ WorkCheckFails(n)
    \/ WorkNoStrategy(n)
    \/ WorkSubmit(n)        \/ WorkSubmitFails(n)
    \/ WorkRetry(n)         \/ WorkRetryFails(n)
    \/ WorkFinish(n)

(* transferToken of each processor, from await to await.                   *)
EvmTransferToken ==
    \/ EvmRefuses \/ EvmPays \/ WorkTransferUnsure("EVM")
    \/ LiquidationReverts \/ LiquidationUnsure

BtcTransferToken == BtcRefuses \/ BtcPays \/ WorkTransferUnsure("BTC")

SolanaTransferToken ==
    SolanaRefuses \/ SolanaSend \/ SolanaConfirmed \/ SolanaFails \/ SolanaUnsure

EvmWorkStep == WorkStep("EVM") \/ EvmTransferToken

BtcWorkStep == WorkStep("BTC") \/ BtcTransferToken

SolanaWorkStep == WorkStep("SOLANA") \/ SolanaTransferToken

-----------------------------------------------------------------------------
(* SubmitSettlementProcessor.process, the only worker of the submit queue  *)

BeyondReporter == UNCHANGED <<apiVars, expired, kind, list, hand, waiting,
                              worker, solana, signals, payments>>

ReportTake(j) ==
    /\ reporter.at = "idle" /\ reports[j] > 0
    /\ reports' = [reports EXCEPT ![j] = @ - 1]
    /\ reporter' = [at |-> "report", trade |-> j.trade, hash |-> j.hash,
                    stalls |-> j.stalls]
    /\ UNCHANGED <<reported, bounds>> /\ BeyondReporter

ReportAccepted ==
    /\ reporter.at = "report"
    /\ reported' = [reported EXCEPT ![reporter.trade] = @ \cup {reporter.hash}]
    /\ reporter' = [reporter EXCEPT !.at = "done"]
    /\ UNCHANGED <<reports, bounds>> /\ BeyondReporter

(* The handler throws and the job has no further attempt.                  *)
ReportFails ==
    /\ reporter.at = "report"
    /\ Fault
    /\ reporter' = [reporter EXCEPT !.at = "done"]
    /\ UNCHANGED <<reports, reported>> /\ BeyondReporter

ReportFinish ==
    /\ reporter.at = "done"
    /\ reporter' = IdleReporter
    /\ UNCHANGED <<reports, reported, bounds>> /\ BeyondReporter

ReportStep ==
    \/ \E j \in ReportJobs : ReportTake(j)
    \/ ReportAccepted \/ ReportFails \/ ReportFinish

-----------------------------------------------------------------------------
(* The process dies: requests and popped messages are gone; the jobs that  *)
(* were active are found stalled and handed out again, once each.          *)
Stalled(n) == worker[n].at # "idle" /\ worker[n].stalls < MaxStalls

StalledJob(n) == [trade |-> worker[n].trade, retry |-> worker[n].retry,
                  stalls |-> worker[n].stalls + 1]

StalledReport == [trade |-> reporter.trade, hash |-> reporter.hash,
                  stalls |-> reporter.stalls + 1]

Crash ==
    /\ crashes < MaxCrashes
    /\ crashes' = crashes + 1
    /\ request' = [q \in Requests |-> IdleCall]
    /\ hand' = [m \in Monitors |-> <<>>]
    /\ waiting' = [j \in TransferJobs |-> waiting[j] +
         Cardinality({n \in Networks : Stalled(n) /\ StalledJob(n) = j})]
    /\ reports' = IF reporter.at # "idle" /\ reporter.stalls < MaxStalls
                  THEN [reports EXCEPT ![StalledReport] = @ + 1] ELSE reports
    /\ worker' = [n \in Networks |-> IdleWorker]
    /\ NoLongerAwaited
    /\ reporter' = IdleReporter
    /\ UNCHANGED <<row, answered, chosen, expired, kind, list, reported,
                   signals, payments, faults>>

Next ==
    \/ \E q \in Requests : ApiStep(q)
    \/ \E t \in Trades : DeadlinePasses(t) \/ SolanaLands(t)
    \/ \E m \in Monitors : MonitorStep(m)
    \/ EvmWorkStep \/ BtcWorkStep \/ SolanaWorkStep
    \/ ReportStep
    \/ Crash

Spec == Init /\ [][Next]_vars

(* The cron service keeps popping and the workers keep running (weak       *)
(* fairness of each); nothing is assumed of the solver, of HTTP calls and  *)
(* of what lands on Solana.                                                *)
Fairness ==
    /\ \A m \in Monitors : WF_vars(MonitorStep(m))
    /\ WF_vars(EvmWorkStep) /\ WF_vars(BtcWorkStep) /\ WF_vars(SolanaWorkStep)
    /\ WF_vars(ReportStep)

FairSpec == Spec /\ Fairness

-----------------------------------------------------------------------------
(* Properties                                                              *)

TypeOK ==
    /\ row \in [Trades -> Rows]
    /\ expired \in [Trades -> BOOLEAN]
    /\ request \in [Requests -> RequestStates]
    /\ answered \in [Trades -> SUBSET Calls]
    /\ kind \in Kinds
    /\ list \in [Networks -> Seq(Trades)]
    /\ hand \in [Monitors -> Seq(Trades)]
    /\ waiting \in [TransferJobs -> Nat]
    /\ worker \in [Networks -> WorkerStates]
    /\ solana \in [Trades -> SolanaStates]
    /\ reports \in [ReportJobs -> Nat]
    /\ reporter \in ReporterStates
    /\ chosen \subseteq Trades
    /\ signals \in [Trades -> Nat]
    /\ payments \in [Trades -> Nat]
    /\ reported \in [Trades -> SUBSET Hashes]
    /\ crashes \in 0 .. MaxCrashes
    /\ faults \in 0 .. MaxFaults

(* A trade is paid only if the solver has acknowledged, at some time, that *)
(* this PMM was chosen: the transfer worker does not look at the status,   *)
(* so this rests on the guard of signalPayment, however the row has been   *)
(* deleted and written again since and whatever was retried.               *)
PaidWasChosen == \A t \in Trades : payments[t] > 0 => t \in chosen

PayoutOf == INSTANCE Payout WITH
    Payees  <- Trades,
    granted <- chosen,
    paid    <- {t \in Trades : payments[t] > 0},
    claimed <- {t \in Trades : "payment" \in reported[t]}

(* The settlement is a payout: a trade is paid only after the solver chose *)
(* this PMM, and its payment is reported only after it was made, however   *)
(* often the transfer job is retried or stalls and whatever it hands on.   *)
ImplementsPayout == PayoutOf!Spec

(* No payment without a cause: a trade is paid at most once per message    *)
(* pushed, and once more for every failure or crash, although each retry   *)
(* is a new job and a job that stalls runs from the start.                 *)
PaymentsAccounted ==
    \A t \in Trades : payments[t] <= signals[t] + faults + crashes

(* A trade on Solana is paid at most once under the same terms, whatever   *)
(* fails, however often its transaction is sent again and although each    *)
(* send may land after it was given up, in another run of the job or for   *)
(* another signal: those sends meet at one payment receipt.  Only a router *)
(* that changes its answer between two runs opens the way to a second      *)
(* payment.                                                                *)
SolanaPaidOncePerTerms ==
    \A t \in Trades : kind.network[t] = "SOLANA" =>
        payments[t] <= Cardinality(solana[t].sent)

(* When calls come one at a time and nothing fails, a trade is paid once,  *)
(* even if the solver repeats its signal or its quote request.             *)
PaidAtMostOnce == \A t \in Trades : payments[t] <= 1

Pending(t) ==
    \/ \E n \in Networks : worker[n].trade = t \/ \E i \in 1 .. Len(list[n]) : list[n][i] = t
    \/ \E m \in Monitors : \E i \in 1 .. Len(hand[m]) : hand[m][i] = t
    \/ \E j \in TransferJobs : waiting[j] > 0 /\ j.trade = t
    \/ reporter.trade = t \/ \E j \in ReportJobs : reports[j] > 0 /\ j.trade = t

(* A signalled trade comes to an end when nothing fails: its messages, jobs*)
(* and retries are used up, and a payment made has been reported.          *)
SignalWorkedOff ==
    \A t \in Trades : signals[t] > 0 ~>
        (~Pending(t) /\ (payments[t] > 0 => "payment" \in reported[t]))

(* submit-settlement.processor.ts:150, "Re-throw the error for the queue   *)
(* to handle" (processor-helper.ts:39, "Re-throw for queue retry"): a      *)
(* failed submission is left to a job that will run again.                 *)
FailedReportIsRetried ==
    [][ReportFails => \E j \in ReportJobs :
            reports'[j] > 0 /\ j.trade = reporter.trade]_vars
=============================================================================
