----------------------------- MODULE Rebalancing -----------------------------
(***************************************************************************)
(* The rebalancing pipeline: a record in the database is carried from      *)
(* PENDING to COMPLETED by two schedulers and two queue workers that share *)
(* nothing but that record and two BullMQ queues.                          *)
(*                                                                         *)
(*   scan (RebalancePendingScheduler)   PENDING -> MEMPOOL_VERIFIED, queue *)
(*   quote worker (RebalanceProcessor)  -> QUOTE_REQUESTED -> QUOTE_ACCEPTED*)
(*   transfer worker (RebalanceTransferProcessor)  sends BTC ->            *)
(*                                      DEPOSIT_SUBMITTED                  *)
(*   poll (RebalanceNearStatusScheduler)  -> SWAP_PROCESSING -> COMPLETED, *)
(*                                      REFUNDED or back to PENDING        *)
(*                                                                         *)
(* Every handler is split where it awaits, so that each database write and *)
(* each queue.add is an action of its own and lands between the steps of   *)
(* the others.  Nest starts a cron job again although its last run has not *)
(* ended: Scans and Polls are the invocations that may be under way.       *)
(***************************************************************************)
EXTENDS JobQueue, FiniteSets

CONSTANTS
    Records,        \* rebalancing records
    Scans,          \* invocations of processPendingRebalancing under way
    Polls,          \* invocations of pollNearStatus under way
    MaxQuotes,      \* bound: deposit addresses NEAR hands out per record
    MaxCrashes,     \* bound: crashes of the process
    MaxFaults,      \* bound: failing database writes and queue.adds
    SendFaults,     \* whether sendBtc may fail
    NoRecord        \* no record: the local variable of an idle worker

ASSUME RebalancingAssumption ==
    /\ NoRecord \notin Records
    /\ MaxQuotes \in Nat \ {0}
    /\ MaxCrashes \in Nat
    /\ MaxFaults \in Nat
    /\ SendFaults \in BOOLEAN

VARIABLES
    status,         \* rebalancing.status; "none" before the record exists
    amountKnown,    \* rebalancing.realAmount is set
    address,        \* rebalancing.depositAddress; 0 is null
    overdue,        \* maxRetryDurationHours have passed since tradeCompletedAt
    quoteJob,       \* the job rebalance-quote-<rebalancingId>-<retryCount>
    transferJob,    \* the job rebalance-transfer-<rebalancingId>-<retryCount>
    payTo,          \* depositAddress in the data of the transfer job
    quotes,         \* deposit addresses NEAR has handed out
    scan, poll,     \* local state of the scheduler invocations
    quoter, payer,  \* local state of the two workers
    deposits,       \* history: BTC transactions broadcast to each address
    near,           \* NEAR's status of each deposit address
    crashes, faults

recordVars == <<status, amountKnown, address>>
queueVars  == <<quoteJob, transferJob, payTo>>
outside    == <<overdue, quotes, deposits, near>>
bounds     == <<crashes, faults>>
vars == <<recordVars, queueVars, outside, scan, poll, quoter, payer, bounds>>

Statuses == {"PENDING", "MEMPOOL_VERIFIED", "QUOTE_REQUESTED", "QUOTE_ACCEPTED",
             "DEPOSIT_SUBMITTED", "SWAP_PROCESSING", "COMPLETED", "STUCK",
             "REFUNDED"}

(* The statuses RebalanceNearStatusScheduler polls.                        *)
Polled == {"DEPOSIT_SUBMITTED", "SWAP_PROCESSING"}

Addresses == 1 .. MaxQuotes

(* NEAR's statuses; PROCESSING also stands for KNOWN_DEPOSIT_TX, which the *)
(* poll treats alike.                                                      *)
NearStatuses == {"PENDING_DEPOSIT", "INCOMPLETE_DEPOSIT", "PROCESSING",
                 "SUCCESS", "FAILED", "REFUNDED"}

AnyRecord == Records \cup {NoRecord}

IdleScan   == [at |-> "idle", rest |-> {}, known |-> {}, rec |-> NoRecord]
IdlePoll   == [at |-> "idle", rest |-> {}, swapping |-> {}, rec |-> NoRecord,
               paid |-> [r \in Records |-> 0], answer |-> "none"]
IdleQuoter == [at |-> "idle", rec |-> NoRecord, to |-> 0]
IdlePayer  == [at |-> "idle", rec |-> NoRecord]

Init ==
    /\ status = [r \in Records |-> "none"]
    /\ amountKnown = [r \in Records |-> FALSE]
    /\ address = [r \in Records |-> 0]
    /\ overdue = [r \in Records |-> FALSE]
    /\ quoteJob = [r \in Records |-> NoJob]
    /\ transferJob = [r \in Records |-> NoJob]
    /\ payTo = [r \in Records |-> 0]
    /\ quotes = [r \in Records |-> 0]
    /\ scan = [s \in Scans |-> IdleScan]
    /\ poll = [p \in Polls |-> IdlePoll]
    /\ quoter = IdleQuoter
    /\ payer = IdlePayer
    /\ deposits = [r \in Records |-> [a \in Addresses |-> 0]]
    /\ near = [r \in Records |-> [a \in Addresses |-> "PENDING_DEPOSIT"]]
    /\ crashes = 0
    /\ faults = 0

(* A write or queue.add that fails; the bound is on their number.          *)
Fault ==
    /\ faults < MaxFaults
    /\ faults' = faults + 1
    /\ UNCHANGED crashes

(* rebalancingService.updateStatus(id, s): an unconditional write.         *)
UpdateStatus(r, s) == status' = [status EXCEPT ![r] = s]

-----------------------------------------------------------------------------
(* The surroundings: records appear, time passes, NEAR sees deposits.      *)

(* SettlementMonitorScheduler.createRebalancing, with the txId it requires. *)
Create(r) ==
    /\ status[r] = "none"
    /\ UpdateStatus(r, "PENDING")
    /\ UNCHANGED <<amountKnown, address, queueVars, outside, scan, poll, quoter,
                   payer, bounds>>

RetryTimeUp(r) ==
    /\ status[r] # "none" /\ ~overdue[r]
    /\ overdue' = [overdue EXCEPT ![r] = TRUE]
    /\ UNCHANGED <<recordVars, queueVars, quotes, deposits, near, scan, poll,
                   quoter, payer, bounds>>

(* NEAR moves a deposit address on, and past PENDING_DEPOSIT only once BTC *)
(* has arrived there; SUCCESS, FAILED and REFUNDED are final.              *)
NearAdvances(r, a) ==
    /\ deposits[r][a] > 0
    /\ \/ /\ near[r][a] = "PENDING_DEPOSIT"
          /\ \E n \in {"INCOMPLETE_DEPOSIT", "PROCESSING"} :
                near' = [near EXCEPT ![r][a] = n]
       \/ /\ near[r][a] \in {"INCOMPLETE_DEPOSIT", "PROCESSING"}
          /\ \E n \in {"SUCCESS", "FAILED", "REFUNDED"} :
                near' = [near EXCEPT ![r][a] = n]
    /\ UNCHANGED <<recordVars, queueVars, overdue, quotes, deposits, scan, poll,
                   quoter, payer, bounds>>

-----------------------------------------------------------------------------
(* RebalancePendingScheduler.processPendingRebalancing, invocation s       *)

ScanGoesTo(s, at) ==
    scan' = [scan EXCEPT ![s].at = at,
                         ![s].rec = IF at = "loop" THEN NoRecord ELSE @]

ScanElsewhere == UNCHANGED <<outside, poll, quoter, payer>>

(* Mutation: the scan also takes records left in MEMPOOL_VERIFIED.         *)
ScanStartTakesVerified(s) ==
    LET pending == {r \in Records : status[r] \in {"PENDING", "MEMPOOL_VERIFIED"}} IN
    /\ scan[s].at = "idle"
    /\ pending # {}
    /\ scan' = [scan EXCEPT ![s] =
         [at |-> "loop", rest |-> pending, rec |-> NoRecord,
          known |-> {r \in pending : amountKnown[r]}]]
    /\ UNCHANGED <<recordVars, queueVars, bounds>> /\ ScanElsewhere

(* findPending(): one query; what the loop works on is this snapshot.      *)
ScanStart(s) ==
    LET pending == {r \in Records : status[r] = "PENDING"} IN
    /\ scan[s].at = "idle"
    /\ pending # {}
    /\ scan' = [scan EXCEPT ![s] =
         [at |-> "loop", rest |-> pending, rec |-> NoRecord,
          known |-> {r \in pending : amountKnown[r]}]]
    /\ UNCHANGED <<recordVars, queueVars, bounds>> /\ ScanElsewhere

(* Mutation: the retry duration is not checked.                            *)
ScanPickForever(s, r) ==
    /\ scan[s].at = "loop" /\ r \in scan[s].rest
    /\ scan' = [scan EXCEPT ![s] =
         [at |-> IF r \in scan[s].known THEN "queue" ELSE "verify",
          rest |-> scan[s].rest \ {r}, known |-> scan[s].known \ {r}, rec |-> r]]
    /\ UNCHANGED <<recordVars, queueVars, bounds>> /\ ScanElsewhere

(* The branch verifyAndQueueRebalancing takes for the next record of the   *)
(* snapshot: the clock is read now, realAmount comes from the snapshot.    *)
ScanPick(s, r) ==
    /\ scan[s].at = "loop" /\ r \in scan[s].rest
    /\ scan' = [scan EXCEPT ![s] =
         [at |-> IF overdue[r] THEN "stuck"
                 ELSE IF r \in scan[s].known THEN "queue" ELSE "verify",
          rest |-> scan[s].rest \ {r}, known |-> scan[s].known \ {r}, rec |-> r]]
    /\ UNCHANGED <<recordVars, queueVars, bounds>> /\ ScanElsewhere

ScanMarkStuck(s) ==
    /\ scan[s].at = "stuck"
    /\ UpdateStatus(scan[s].rec, "STUCK")
    /\ ScanGoesTo(s, "loop")
    /\ UNCHANGED <<amountKnown, address, queueVars, bounds>> /\ ScanElsewhere

(* markAsStuck is called outside the try: an error ends the whole run.     *)
ScanMarkStuckFails(s) ==
    /\ scan[s].at = "stuck"
    /\ Fault
    /\ scan' = [scan EXCEPT ![s] = IdleScan]
    /\ UNCHANGED <<recordVars, queueVars>> /\ ScanElsewhere

(* The settlement transaction is confirmed and its amount was extracted.   *)
ScanVerify(s) ==
    /\ scan[s].at = "verify"
    /\ UpdateStatus(scan[s].rec, "MEMPOOL_VERIFIED")
    /\ amountKnown' = [amountKnown EXCEPT ![scan[s].rec] = TRUE]
    /\ ScanGoesTo(s, "queue")
    /\ UNCHANGED <<address, queueVars, bounds>> /\ ScanElsewhere

(* Not found, not confirmed, or no amount in it: return.                   *)
ScanUnconfirmed(s) ==
    /\ scan[s].at = "verify"
    /\ ScanGoesTo(s, "loop")
    /\ UNCHANGED <<recordVars, queueVars, bounds>> /\ ScanElsewhere

(* queueForProcessing: the retryCount in the jobId is the record's, and    *)
(* nothing in the repository ever calls incrementRetryCount.               *)
ScanQueue(s) ==
    /\ scan[s].at = "queue"
    /\ quoteJob' = [quoteJob EXCEPT ![scan[s].rec] = JobAdded(@)]
    /\ ScanGoesTo(s, "loop")
    /\ UNCHANGED <<recordVars, transferJob, payTo, bounds>> /\ ScanElsewhere

(* The write or the add fails: caught, logged, and the loop goes on.       *)
ScanFails(s) ==
    /\ scan[s].at \in {"verify", "queue"}
    /\ Fault
    /\ ScanGoesTo(s, "loop")
    /\ UNCHANGED <<recordVars, queueVars>> /\ ScanElsewhere

ScanEnd(s) ==
    /\ scan[s].at = "loop" /\ scan[s].rest = {}
    /\ scan' = [scan EXCEPT ![s] = IdleScan]
    /\ UNCHANGED <<recordVars, queueVars, bounds>> /\ ScanElsewhere

ScanStep(s) ==
    \/ ScanStart(s)     \/ \E r \in Records : ScanPick(s, r)
    \/ ScanMarkStuck(s) \/ ScanMarkStuckFails(s)
    \/ ScanVerify(s)    \/ ScanUnconfirmed(s)
    \/ ScanQueue(s)     \/ ScanFails(s)
    \/ ScanEnd(s)

-----------------------------------------------------------------------------
(* RebalanceProcessor.process, the only worker of the quote queue          *)

QuoterElsewhere == UNCHANGED <<overdue, deposits, near, scan, poll, payer>>

QuoterGoesTo(at) == quoter' = [quoter EXCEPT !.at = at]

QuoteTake(r) ==
    /\ quoter.at = "idle" /\ quoteJob[r].state = "waiting"
    /\ quoteJob' = [quoteJob EXCEPT ![r] = JobTaken(@)]
    /\ quoter' = [at |-> "load", rec |-> r, to |-> 0]
    /\ UNCHANGED <<recordVars, transferJob, payTo, quotes, bounds>>
    /\ QuoterElsewhere

(* findById: only COMPLETED and STUCK stop the job here.                   *)
QuoteLoad ==
    /\ quoter.at = "load"
    /\ QuoterGoesTo(IF status[quoter.rec] \in {"COMPLETED", "STUCK"}
                    THEN "done" ELSE "ask")
    /\ UNCHANGED <<recordVars, queueVars, quotes, bounds>> /\ QuoterElsewhere

(* No BTC price, or NEAR gives no quote: handleFailure.                    *)
QuoteUnavailable ==
    /\ quoter.at \in {"ask", "slippage"}
    /\ QuoterGoesTo("failed")
    /\ UNCHANGED <<recordVars, queueVars, quotes, bounds>> /\ QuoterElsewhere

(* NEAR quotes with a fresh deposit address and the record takes it.       *)
QuoteStore ==
    /\ quoter.at = "ask"
    /\ quotes[quoter.rec] < MaxQuotes
    /\ quotes' = [quotes EXCEPT ![quoter.rec] = @ + 1]
    /\ UpdateStatus(quoter.rec, "QUOTE_REQUESTED")
    /\ address' = [address EXCEPT ![quoter.rec] = quotes[quoter.rec] + 1]
    /\ quoter' = [quoter EXCEPT !.at = "slippage", !.to = quotes[quoter.rec] + 1]
    /\ UNCHANGED <<amountKnown, queueVars, bounds>> /\ QuoterElsewhere

(* checkSlippage, whose verdict is written under QUOTE_REQUESTED again.    *)
QuoteMeasure ==
    /\ quoter.at = "slippage"
    /\ UpdateStatus(quoter.rec, "QUOTE_REQUESTED")
    /\ \E verdict \in {"accept", "reject"} : QuoterGoesTo(verdict)
    /\ UNCHANGED <<amountKnown, address, queueVars, quotes, bounds>>
    /\ QuoterElsewhere

QuoteReject ==
    /\ quoter.at = "reject"
    /\ UpdateStatus(quoter.rec, "PENDING")
    /\ QuoterGoesTo("done")
    /\ UNCHANGED <<amountKnown, address, queueVars, quotes, bounds>>
    /\ QuoterElsewhere

QuoteAccept ==
    /\ quoter.at = "accept"
    /\ UpdateStatus(quoter.rec, "QUOTE_ACCEPTED")
    /\ QuoterGoesTo("enqueue")
    /\ UNCHANGED <<amountKnown, address, queueVars, quotes, bounds>>
    /\ QuoterElsewhere

(* Mutation: the data of an existing job is replaced.                      *)
AddTransferReplacing(r, a) ==
    /\ transferJob' = [transferJob EXCEPT ![r] = JobAdded(@)]
    /\ payTo' = [payTo EXCEPT ![r] = a]

(* transferQueue.add: under a jobId that exists the data is not replaced.  *)
AddTransfer(r, a) ==
    /\ transferJob' = [transferJob EXCEPT ![r] = JobAdded(@)]
    /\ payTo' = [payTo EXCEPT ![r] = IF transferJob[r].state = "absent"
                                     THEN a ELSE @]

QuoteEnqueue ==
    /\ quoter.at = "enqueue"
    /\ AddTransfer(quoter.rec, quoter.to)
    /\ QuoterGoesTo("done")
    /\ UNCHANGED <<recordVars, quoteJob, quotes, bounds>> /\ QuoterElsewhere

(* Redis took the job and the reply was lost.                              *)
QuoteEnqueueUnsure ==
    /\ quoter.at = "enqueue"
    /\ Fault
    /\ AddTransfer(quoter.rec, quoter.to)
    /\ QuoterGoesTo("failed")
    /\ UNCHANGED <<recordVars, quoteJob, quotes>> /\ QuoterElsewhere

(* A read, a write or the add throws: the catch block calls handleFailure. *)
QuoteError ==
    /\ quoter.at \in {"load", "ask", "slippage", "accept", "reject", "enqueue"}
    /\ Fault
    /\ QuoterGoesTo("failed")
    /\ UNCHANGED <<recordVars, queueVars, quotes>> /\ QuoterElsewhere

QuoteFailure ==
    /\ quoter.at = "failed"
    /\ UpdateStatus(quoter.rec, "PENDING")
    /\ QuoterGoesTo("done")
    /\ UNCHANGED <<amountKnown, address, queueVars, quotes, bounds>>
    /\ QuoterElsewhere

(* handleFailure throws as well: the job fails, the record stays as it is. *)
QuoteFailureLost ==
    /\ quoter.at = "failed"
    /\ Fault
    /\ QuoterGoesTo("done")
    /\ UNCHANGED <<recordVars, queueVars, quotes>> /\ QuoterElsewhere

QuoteFinish ==
    /\ quoter.at = "done"
    /\ quoteJob' = [quoteJob EXCEPT ![quoter.rec] = JobFinished(@)]
    /\ quoter' = IdleQuoter
    /\ UNCHANGED <<recordVars, transferJob, payTo, quotes, bounds>>
    /\ QuoterElsewhere

QuoteStep ==
    \/ \E r \in Records : QuoteTake(r)
    \/ QuoteLoad    \/ QuoteUnavailable \/ QuoteStore
    \/ QuoteMeasure \/ QuoteReject      \/ QuoteAccept
    \/ QuoteEnqueue \/ QuoteEnqueueUnsure
    \/ QuoteError   \/ QuoteFailure     \/ QuoteFailureLost
    \/ QuoteFinish

-----------------------------------------------------------------------------
(* RebalanceTransferProcessor.process, the only worker of the transfer queue *)

PayerElsewhere ==
    UNCHANGED <<amountKnown, address, overdue, quoteJob, payTo, quotes, near,
                scan, poll, quoter>>

PayerGoesTo(at) == payer' = [payer EXCEPT !.at = at]

PayTake(r) ==
    /\ payer.at = "idle" /\ transferJob[r].state = "waiting"
    /\ transferJob' = [transferJob EXCEPT ![r] = JobTaken(@)]
    /\ payer' = [at |-> "load", rec |-> r]
    /\ UNCHANGED <<status, deposits, bounds>> /\ PayerElsewhere

(* Mutation: DEPOSIT_SUBMITTED is written before the BTC is sent.          *)
PayLoadRecordsFirst ==
    /\ payer.at = "load"
    /\ IF status[payer.rec] = "QUOTE_ACCEPTED"
       THEN UpdateStatus(payer.rec, "DEPOSIT_SUBMITTED") /\ PayerGoesTo("send")
       ELSE UNCHANGED status /\ PayerGoesTo("done")
    /\ UNCHANGED <<transferJob, deposits, bounds>> /\ PayerElsewhere

(* Only a record in QUOTE_ACCEPTED is paid for.                            *)
PayLoad ==
    /\ payer.at = "load"
    /\ PayerGoesTo(IF status[payer.rec] = "QUOTE_ACCEPTED" THEN "send" ELSE "done")
    /\ UNCHANGED <<status, transferJob, deposits, bounds>> /\ PayerElsewhere

Broadcast(r, a) == deposits' = [deposits EXCEPT ![r][a] = @ + 1]

(* sendBtc; submitDeposit follows, and its failure is swallowed.           *)
PaySend ==
    /\ payer.at = "send"
    /\ Broadcast(payer.rec, payTo[payer.rec])
    /\ PayerGoesTo("record")
    /\ UNCHANGED <<status, transferJob, bounds>> /\ PayerElsewhere

(* sendBtc throws: no funds, no provider.                                  *)
PaySendFails ==
    /\ SendFaults
    /\ payer.at = "send"
    /\ PayerGoesTo("failed")
    /\ UNCHANGED <<status, transferJob, deposits, bounds>> /\ PayerElsewhere

(* sendBtc throws although a provider relayed the transaction.             *)
PaySendUnsure ==
    /\ SendFaults
    /\ payer.at = "send"
    /\ Broadcast(payer.rec, payTo[payer.rec])
    /\ PayerGoesTo("failed")
    /\ UNCHANGED <<status, transferJob, bounds>> /\ PayerElsewhere

PayRecord ==
    /\ payer.at = "record"
    /\ UpdateStatus(payer.rec, "DEPOSIT_SUBMITTED")
    /\ PayerGoesTo("done")
    /\ UNCHANGED <<transferJob, deposits, bounds>> /\ PayerElsewhere

PayError ==
    /\ payer.at \in {"load", "record"}
    /\ Fault
    /\ PayerGoesTo("failed")
    /\ UNCHANGED <<status, transferJob, deposits>> /\ PayerElsewhere

(* handleFailure: back to QUOTE_ACCEPTED, and the job completes.           *)
PayFailure ==
    /\ payer.at = "failed"
    /\ UpdateStatus(payer.rec, "QUOTE_ACCEPTED")
    /\ PayerGoesTo("done")
    /\ UNCHANGED <<transferJob, deposits, bounds>> /\ PayerElsewhere

PayFailureLost ==
    /\ payer.at = "failed"
    /\ Fault
    /\ PayerGoesTo("done")
    /\ UNCHANGED <<status, transferJob, deposits>> /\ PayerElsewhere

PayFinish ==
    /\ payer.at = "done"
    /\ transferJob' = [transferJob EXCEPT ![payer.rec] = JobFinished(@)]
    /\ payer' = IdlePayer
    /\ UNCHANGED <<status, deposits, bounds>> /\ PayerElsewhere

PayStep ==
    \/ \E r \in Records : PayTake(r)
    \/ PayLoad   \/ PaySend  \/ PaySendFails \/ PaySendUnsure
    \/ PayRecord \/ PayError \/ PayFailure   \/ PayFailureLost
    \/ PayFinish

-----------------------------------------------------------------------------
(* RebalanceNearStatusScheduler.pollNearStatus, invocation p               *)

PollElsewhere ==
    UNCHANGED <<amountKnown, address, queueVars, outside, scan, quoter, payer>>

(* findByStatuses(): status and depositAddress are those of the snapshot.  *)
PollStart(p) ==
    LET polled == {r \in Records : status[r] \in Polled} IN
    /\ poll[p].at = "idle"
    /\ polled # {}
    /\ poll' = [poll EXCEPT ![p] =
         [at |-> "loop", rest |-> polled, rec |-> NoRecord, answer |-> "none",
          swapping |-> {r \in polled : status[r] = "SWAP_PROCESSING"},
          paid |-> address]]
    /\ UNCHANGED <<status, bounds>> /\ PollElsewhere

(* getStatus(depositAddress) answers.                                      *)
PollAsk(p, r) ==
    /\ poll[p].at = "loop" /\ r \in poll[p].rest
    /\ poll[p].paid[r] # 0
    /\ poll' = [poll EXCEPT ![p].at = "apply", ![p].rest = @ \ {r}, ![p].rec = r,
                            ![p].answer = near[r][poll[p].paid[r]]]
    /\ UNCHANGED <<status, bounds>> /\ PollElsewhere

(* No answer: logged, the next record is polled.                           *)
PollNoAnswer(p, r) ==
    /\ poll[p].at = "loop" /\ r \in poll[p].rest
    /\ poll' = [poll EXCEPT ![p].rest = @ \ {r}]
    /\ UNCHANGED <<status, bounds>> /\ PollElsewhere

(* The status a poll writes for NEAR's answer; an answer that writes       *)
(* nothing is not in the domain.                                           *)
StatusFor == [SUCCESS |-> "COMPLETED", FAILED |-> "PENDING",
              REFUNDED |-> "REFUNDED", PROCESSING |-> "SWAP_PROCESSING",
              PENDING_DEPOSIT |-> "SWAP_PROCESSING"]

PollWrites(p) ==
    /\ poll[p].answer # "INCOMPLETE_DEPOSIT"
    /\ StatusFor[poll[p].answer] = "SWAP_PROCESSING"
          => poll[p].rec \notin poll[p].swapping

PollNext(p) ==
    poll' = [poll EXCEPT ![p].at = "loop", ![p].rec = NoRecord,
                         ![p].answer = "none"]

PollApply(p) ==
    /\ poll[p].at = "apply"
    /\ IF PollWrites(p) THEN UpdateStatus(poll[p].rec, StatusFor[poll[p].answer])
                        ELSE UNCHANGED status
    /\ PollNext(p)
    /\ UNCHANGED bounds /\ PollElsewhere

PollApplyFails(p) ==
    /\ poll[p].at = "apply" /\ PollWrites(p)
    /\ Fault
    /\ PollNext(p)
    /\ UNCHANGED status /\ PollElsewhere

PollEnd(p) ==
    /\ poll[p].at = "loop" /\ poll[p].rest = {}
    /\ poll' = [poll EXCEPT ![p] = IdlePoll]
    /\ UNCHANGED <<status, bounds>> /\ PollElsewhere

PollStep(p) ==
    \/ PollStart(p)
    \/ \E r \in Records : PollAsk(p, r) \/ PollNoAnswer(p, r)
    \/ PollApply(p) \/ PollApplyFails(p)
    \/ PollEnd(p)

-----------------------------------------------------------------------------
(* The process dies: what was in memory is gone, the database and Redis    *)
(* stay, and the jobs that were active are found stalled.                  *)
Crash ==
    /\ crashes < MaxCrashes
    /\ crashes' = crashes + 1
    /\ scan' = [s \in Scans |-> IdleScan]
    /\ poll' = [p \in Polls |-> IdlePoll]
    /\ quoter' = IdleQuoter
    /\ payer' = IdlePayer
    /\ quoteJob' = [r \in Records |-> JobAfterCrash(quoteJob[r])]
    /\ transferJob' = [r \in Records |-> JobAfterCrash(transferJob[r])]
    /\ UNCHANGED <<recordVars, payTo, outside, faults>>

Outside ==
    \E r \in Records :
        \/ Create(r) \/ RetryTimeUp(r)
        \/ \E a \in Addresses : NearAdvances(r, a)

Next ==
    \/ Outside
    \/ \E s \in Scans : ScanStep(s)
    \/ QuoteStep
    \/ PayStep
    \/ \E p \in Polls : PollStep(p)
    \/ Crash

Spec == Init /\ [][Next]_vars

(* The cron service and the workers keep running (weak fairness of each),  *)
(* NEAR answers some of the polls it is asked and comes to a final status, *)
(* and time passes.  Nothing is assumed of creation, quotes or crashes.    *)
Fairness ==
    /\ \A s \in Scans : WF_vars(ScanStep(s))
    /\ WF_vars(QuoteStep)
    /\ WF_vars(PayStep)
    /\ \A p \in Polls : WF_vars(PollStep(p))
    /\ \A p \in Polls, r \in Records : SF_vars(PollAsk(p, r))
    /\ \A r \in Records :
         /\ WF_vars(RetryTimeUp(r))
         /\ \A a \in Addresses : WF_vars(NearAdvances(r, a))

FairSpec == Spec /\ Fairness

-----------------------------------------------------------------------------
(* Properties                                                              *)

ScanState == [at : {"idle", "loop", "stuck", "verify", "queue"},
              rest : SUBSET Records, known : SUBSET Records, rec : AnyRecord]

PollState == [at : {"idle", "loop", "apply"}, rest : SUBSET Records,
              swapping : SUBSET Records, rec : AnyRecord,
              paid : [Records -> 0 .. MaxQuotes],
              answer : NearStatuses \cup {"none"}]

QuoterState == [at : {"idle", "load", "ask", "slippage", "accept", "reject",
                      "enqueue", "failed", "done"},
                rec : AnyRecord, to : 0 .. MaxQuotes]

PayerState == [at : {"idle", "load", "send", "record", "failed", "done"},
               rec : AnyRecord]

TypeOK ==
    /\ status \in [Records -> Statuses \cup {"none"}]
    /\ amountKnown \in [Records -> BOOLEAN]
    /\ address \in [Records -> 0 .. MaxQuotes]
    /\ overdue \in [Records -> BOOLEAN]
    /\ quoteJob \in [Records -> Job]
    /\ transferJob \in [Records -> Job]
    /\ payTo \in [Records -> 0 .. MaxQuotes]
    /\ quotes \in [Records -> 0 .. MaxQuotes]
    /\ scan \in [Scans -> ScanState]
    /\ poll \in [Polls -> PollState]
    /\ quoter \in QuoterState
    /\ payer \in PayerState
    /\ deposits \in [Records -> [Addresses -> Nat]]
    /\ near \in [Records -> [Addresses -> NearStatuses]]
    /\ crashes \in 0 .. MaxCrashes
    /\ faults \in 0 .. MaxFaults

Funded(r) == \E a \in Addresses : deposits[r][a] > 0

(* However scans and polls overlap, whatever NEAR answers, and however     *)
(* often a record falls back to PENDING, the BTC of a record is sent once  *)
(* per run of its single transfer job: once, and once more for each time   *)
(* the job stalled (rebalance-transfer.processor.ts has no other guard     *)
(* than the status it read).                                               *)
DepositsWithinRuns ==
    \A r \in Records, a \in Addresses :
        deposits[r][a] <= JobRuns(transferJob[r])

(* All the BTC of a record goes to one deposit address, the one in the     *)
(* transfer job, although a repeated quote job obtains a second address.   *)
OneAddressPaid ==
    \A r \in Records, a \in Addresses : deposits[r][a] > 0 => a = payTo[r]

(* A record the pipeline reports as handed to NEAR, completed or refunded  *)
(* is one whose BTC was broadcast: no stale poll and no stale scan can     *)
(* produce these statuses from nothing.                                    *)
HandedOver == Polled \cup {"COMPLETED", "REFUNDED"}

HandedOverIsFunded ==
    \A r \in Records : status[r] \in HandedOver => Funded(r)

PayoutOf == INSTANCE Payout WITH
    Payees  <- Records,
    granted <- {r \in Records : payTo[r] # 0},
    paid    <- {r \in Records : Funded(r)},
    claimed <- {r \in Records : status[r] \in HandedOver}

(* The pipeline is a payout: BTC leaves for a record only after a transfer *)
(* job was added for it, and a status says so only after it has left, one  *)
(* record at a time, whatever scans, workers, polls and crashes do between.*)
ImplementsPayout == PayoutOf!Spec

(* Unless the process has crashed, the address the poll asks NEAR about is *)
(* the one the BTC went to, although writes and adds fail and stale        *)
(* snapshots overwrite statuses.  (A quote job that runs again after a     *)
(* crash stores another address while the transfer job has the first.)     *)
PolledAddressFunded ==
    crashes = 0 => \A r \in Records : status[r] \in Polled =>
        /\ address[r] # 0
        /\ deposits[r][address[r]] > 0

Settled == {"COMPLETED", "STUCK", "REFUNDED"}

(* A settled record is left at rest: while it is completed, refunded or    *)
(* reported as stuck, no deposit address is asked for it and no BTC leaves *)
(* for it, although overlapping polls may still overwrite its status.      *)
SettledAtRest ==
    [][\A r \in Records : status[r] \in Settled =>
          quotes'[r] = quotes[r] /\ deposits'[r] = deposits[r]]_vars

(* Every record ends, for good: completed, refunded, or reported as stuck. *)
EventuallySettled ==
    \A r \in Records :
        (status[r] # "none") ~> [](status[r] \in Settled)

(* rebalance-pending.scheduler.ts:206, "Include retryCount in jobId to     *)
(* allow retry attempts": queueing a record again gives it a job to run.   *)
RequeuedRecordRuns ==
    [][\A s \in Scans : ScanQueue(s) => Live(quoteJob'[scan[s].rec])]_vars

(* rebalance-transfer.processor.ts:179, "Set back to QUOTE_ACCEPTED for    *)
(* retry (transfer can be retried)": a record left in QUOTE_ACCEPTED has   *)
(* a transfer job that will run, or the quote worker is about to add it.   *)
AcceptedTransferCanRun ==
    \A r \in Records : status[r] = "QUOTE_ACCEPTED" =>
        \/ Live(transferJob[r])
        \/ quoter.rec = r
=============================================================================
