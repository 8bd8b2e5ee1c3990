-------------------------- MODULE RebalancingProofs --------------------------
(***************************************************************************)
(* Proofs about Rebalancing, for any set of records, any number of         *)
(* overlapping scheduler invocations, quotes, crashes and faults.          *)
(***************************************************************************)
EXTENDS Rebalancing, TLAPS

USE RebalancingAssumption, MaxStallsAssumption

-----------------------------------------------------------------------------
(* The inductive invariant                                                 *)

(* What the local states of workers and schedulers refer to.               *)
LocalInv ==
    /\ quoter.at # "idle" => quoter.rec \in Records
    /\ quoter.at \in {"slippage", "accept", "enqueue"} => quoter.to \in Addresses
    /\ \A s \in Scans :
         scan[s].at \in {"stuck", "verify", "queue"} => scan[s].rec \in Records
    /\ \A p \in Polls :
         poll[p].at = "apply" =>
             poll[p].rec \in Records /\ poll[p].answer # "none"

(* The transfer worker is busy with r exactly while r's job is active.     *)
PayerInv ==
    /\ payer.at # "idle" =>
         payer.rec \in Records /\ transferJob[payer.rec].state = "active"
    /\ \A r \in Records : transferJob[r].state = "active" =>
         payer.at # "idle" /\ payer.rec = r

(* A transfer job names a deposit address from the day it is added.        *)
JobData ==
    \A r \in Records : transferJob[r].state # "absent" => payTo[r] \in Addresses

(* BTC goes where the transfer job says, and only once there is a job.     *)
PaidByJob ==
    \A r \in Records, a \in Addresses :
        deposits[r][a] > 0 => a = payTo[r] /\ transferJob[r].state # "absent"

(* The current run of r's transfer job may have sent the BTC already.      *)
MaySent(r) ==
    \/ transferJob[r].state = "finished"
    \/ /\ transferJob[r].state = "active"
       /\ payer.at \in {"record", "failed", "done"}

(* Each earlier run, one per stall, sent at most once, and so did this one.*)
RunsCounted ==
    \A r \in Records, a \in Addresses :
        deposits[r][a] <= transferJob[r].stalls + (IF MaySent(r) THEN 1 ELSE 0)

(* What the transfer worker is about to record has been sent.              *)
RecordFunded == payer.at = "record" => Funded(payer.rec)

(* The part of the invariant about jobs and deposits.                      *)
PaymentInv ==
    /\ PayerInv
    /\ JobData
    /\ PaidByJob
    /\ RunsCounted
    /\ RecordFunded

(* A poll works on records that were in a polled status, hence funded,     *)
(* when it took its snapshot.                                              *)
PollFunded ==
    \A p \in Polls :
        /\ \A r \in poll[p].rest : Funded(r)
        /\ poll[p].at = "apply" => Funded(poll[p].rec)

IInv ==
    /\ TypeOK
    /\ LocalInv
    /\ PaymentInv
    /\ HandedOverIsFunded
    /\ PollFunded

-----------------------------------------------------------------------------
(* Types                                                                   *)

LEMMA JobTypes ==
    ASSUME NEW j \in Job
    PROVE  /\ NoJob \in Job
           /\ JobAdded(j) \in Job /\ JobTaken(j) \in Job
           /\ JobFinished(j) \in Job /\ JobAfterCrash(j) \in Job
BY DEF Job, NoJob, JobStates, JobAdded, JobTaken, JobFinished, JobAfterCrash

LEMMA FaultType ==
    ASSUME faults \in 0 .. MaxFaults, Fault
    PROVE  faults' \in 0 .. MaxFaults /\ crashes' = crashes
BY DEF Fault

(* One more transaction to a, and nothing else.                            *)
LEMMA BroadcastEffect ==
    ASSUME deposits \in [Records -> [Addresses -> Nat]],
           NEW r \in Records, NEW a \in Addresses, Broadcast(r, a)
    PROVE  /\ deposits' \in [Records -> [Addresses -> Nat]]
           /\ deposits'[r][a] = deposits[r][a] + 1
           /\ \A x \in Records, y \in Addresses :
                x # r \/ y # a => deposits'[x][y] = deposits[x][y]
<1> DEFINE new == [deposits[r] EXCEPT ![a] = @ + 1]
<1>1. deposits' = [deposits EXCEPT ![r] = new]
  BY DEF Broadcast
<1>2. new \in [Addresses -> Nat]
  OBVIOUS
<1> QED
  BY <1>1, <1>2

LEMMA TypeInit == Init => TypeOK
BY JobTypes DEF Init, TypeOK, Statuses, Addresses, NearStatuses, ScanState,
   PollState, QuoterState, PayerState, IdleScan, IdlePoll, IdleQuoter, IdlePayer,
   AnyRecord, Job, NoJob, JobStates

LEMMA ScanGoesToType ==
    ASSUME scan \in [Scans -> ScanState], NEW s \in Scans,
           NEW at \in {"loop", "queue"}, ScanGoesTo(s, at)
    PROVE  /\ scan' \in [Scans -> ScanState]
           /\ \A x \in Scans : x # s => scan'[x] = scan[x]
           /\ scan'[s].at = at
           /\ at = "queue" => scan'[s].rec = scan[s].rec
<1>1. DEFINE sc == scan[s]
             new == [sc EXCEPT !.at = at,
                               !.rec = IF at = "loop" THEN NoRecord ELSE sc.rec]
<1>2. new \in ScanState
  BY DEF ScanState, AnyRecord
<1>3. scan' = [scan EXCEPT ![s] = new]
  BY DEF ScanGoesTo
<1> QED
  BY <1>2, <1>3 DEF ScanState

LEMMA TypeScan ==
    ASSUME TypeOK, LocalInv, NEW s \in Scans, ScanStep(s)
    PROVE  TypeOK'
<1> USE DEF TypeOK, ScanElsewhere, outside, recordVars, queueVars, bounds
<1>1. CASE ScanStart(s)
  BY <1>1 DEF ScanStart, ScanState, AnyRecord
<1>2. ASSUME NEW r \in Records, ScanPick(s, r)
      PROVE  TypeOK'
  BY <1>2 DEF ScanPick, ScanState, AnyRecord
<1>3. CASE ScanMarkStuck(s)
  BY <1>3, ScanGoesToType DEF ScanMarkStuck, UpdateStatus, Statuses
<1>4. CASE ScanMarkStuckFails(s)
  BY <1>4 DEF ScanMarkStuckFails, Fault, IdleScan, ScanState, AnyRecord
<1>5. CASE ScanVerify(s)
  BY <1>5, ScanGoesToType DEF ScanVerify, UpdateStatus, Statuses
<1>6. CASE ScanUnconfirmed(s)
  BY <1>6, ScanGoesToType DEF ScanUnconfirmed
<1>7. CASE ScanQueue(s)
  BY <1>7, JobTypes, ScanGoesToType DEF ScanQueue
<1>8. CASE ScanFails(s)
  BY <1>8, ScanGoesToType DEF ScanFails, Fault
<1>9. CASE ScanEnd(s)
  BY <1>9 DEF ScanEnd, IdleScan, ScanState, AnyRecord
<1> QED
  BY <1>1, <1>2, <1>3, <1>4, <1>5, <1>6, <1>7, <1>8, <1>9 DEF ScanStep

LEMMA AddTransferType ==
    ASSUME transferJob \in [Records -> Job], payTo \in [Records -> 0 .. MaxQuotes],
           NEW r \in Records, NEW a \in Addresses, AddTransfer(r, a)
    PROVE  /\ transferJob' \in [Records -> Job]
           /\ payTo' \in [Records -> 0 .. MaxQuotes]
<1>1. JobAdded(transferJob[r]) \in Job
  BY JobTypes
<1> QED
  BY <1>1 DEF AddTransfer, Addresses

LEMMA TypeQuote ==
    ASSUME TypeOK, LocalInv, QuoteStep
    PROVE  TypeOK'
<1> USE DEF TypeOK, QuoterElsewhere, QuoterGoesTo, UpdateStatus, Statuses,
            QuoterState, recordVars, queueVars, bounds
<1>1. ASSUME NEW r \in Records, QuoteTake(r)
      PROVE  TypeOK'
  BY <1>1, JobTypes DEF QuoteTake, AnyRecord
<1>2. CASE QuoteLoad
  BY <1>2 DEF QuoteLoad
<1>3. CASE QuoteUnavailable
  BY <1>3 DEF QuoteUnavailable
<1>4. CASE QuoteStore
  <2>1. quotes[quoter.rec] + 1 \in 0 .. MaxQuotes
    BY <1>4 DEF QuoteStore, LocalInv
  <2> QED
    BY <1>4, <2>1 DEF QuoteStore, LocalInv
<1>5. CASE QuoteMeasure
  BY <1>5 DEF QuoteMeasure
<1>6. CASE QuoteReject
  BY <1>6 DEF QuoteReject
<1>7. CASE QuoteAccept
  BY <1>7 DEF QuoteAccept
<1>8. CASE QuoteEnqueue
  BY <1>8, AddTransferType DEF QuoteEnqueue, LocalInv
<1>9. CASE QuoteEnqueueUnsure
  BY <1>9, JobTypes, AddTransferType, FaultType DEF QuoteEnqueueUnsure, LocalInv
<1>10. CASE QuoteError
  BY <1>10, FaultType DEF QuoteError
<1>11. CASE QuoteFailure
  BY <1>11 DEF QuoteFailure
<1>12. CASE QuoteFailureLost
  BY <1>12, FaultType DEF QuoteFailureLost
<1>13. CASE QuoteFinish
  BY <1>13, JobTypes DEF QuoteFinish, IdleQuoter, LocalInv, AnyRecord
<1> QED
  BY <1>1, <1>2, <1>3, <1>4, <1>5, <1>6, <1>7, <1>8, <1>9, <1>10, <1>11,
     <1>12, <1>13 DEF QuoteStep

LEMMA TypePay ==
    ASSUME TypeOK, PayerInv, JobData, PayStep
    PROVE  TypeOK'
<1> USE DEF TypeOK, PayerElsewhere, PayerGoesTo, UpdateStatus, Statuses,
            PayerState, bounds
<1>1. ASSUME NEW r \in Records, PayTake(r)
      PROVE  TypeOK'
  BY <1>1, JobTypes DEF PayTake, AnyRecord
<1>2. CASE PayLoad
  BY <1>2 DEF PayLoad
<1>3. CASE PaySend
  <2>1. payer.rec \in Records /\ payTo[payer.rec] \in Addresses
    BY <1>3 DEF PaySend, PayerInv, JobData
  <2> QED
    BY <1>3, <2>1, BroadcastEffect DEF PaySend
<1>4. CASE PaySendFails
  BY <1>4 DEF PaySendFails
<1>5. CASE PaySendUnsure
  <2>1. payer.rec \in Records /\ payTo[payer.rec] \in Addresses
    BY <1>5 DEF PaySendUnsure, PayerInv, JobData
  <2> QED
    BY <1>5, <2>1, BroadcastEffect DEF PaySendUnsure
<1>6. CASE PayRecord
  BY <1>6 DEF PayRecord
<1>7. CASE PayError
  BY <1>7, FaultType DEF PayError
<1>8. CASE PayFailure
  BY <1>8 DEF PayFailure
<1>9. CASE PayFailureLost
  BY <1>9, FaultType DEF PayFailureLost
<1>10. CASE PayFinish
  BY <1>10, JobTypes DEF PayFinish, IdlePayer, PayerInv, AnyRecord
<1> QED
  BY <1>1, <1>2, <1>3, <1>4, <1>5, <1>6, <1>7, <1>8, <1>9, <1>10 DEF PayStep

LEMMA PollFields ==
    ASSUME NEW q \in PollState, NEW rest \in SUBSET Records,
           NEW at \in {"idle", "loop", "apply"}, NEW r \in AnyRecord,
           NEW n \in NearStatuses \cup {"none"}
    PROVE  /\ [q EXCEPT !.rest = rest] \in PollState
           /\ [q EXCEPT !.at = at, !.rec = r, !.answer = n] \in PollState
           /\ [q EXCEPT !.at = at, !.rest = rest, !.rec = r, !.answer = n]
                \in PollState
BY DEF PollState

LEMMA PollNextType ==
    ASSUME poll \in [Polls -> PollState], NEW p \in Polls, PollNext(p)
    PROVE  /\ poll' \in [Polls -> PollState]
           /\ poll' = [poll EXCEPT ![p] = [poll[p] EXCEPT !.at = "loop",
                                       !.rec = NoRecord, !.answer = "none"]]
<1> DEFINE new == [poll[p] EXCEPT !.at = "loop", !.rec = NoRecord,
                                  !.answer = "none"]
<1>1. new \in PollState
  <2>1. poll[p] \in PollState /\ poll[p].rest \in SUBSET Records
    BY DEF PollState
  <2> QED
    BY <2>1, PollFields DEF AnyRecord
<1>2. poll' = [poll EXCEPT ![p] = new]
  BY DEF PollNext
<1> QED
  BY <1>1, <1>2

(* The new local state of a poll that has asked NEAR about r, or has not.  *)
LEMMA PollLoopType ==
    ASSUME TypeOK, NEW p \in Polls, NEW r \in Records,
           PollAsk(p, r) \/ PollNoAnswer(p, r)
    PROVE  poll' \in [Polls -> PollState]
<1>1. /\ poll \in [Polls -> PollState] /\ poll[p] \in PollState
      /\ poll[p].rest \ {r} \in SUBSET Records
      /\ poll[p].paid[r] \in 0 .. MaxQuotes
  BY DEF TypeOK, PollState
<1>2. CASE PollAsk(p, r)
  <2> DEFINE n == near[r][poll[p].paid[r]]
             new == [poll[p] EXCEPT !.at = "apply", !.rest = poll[p].rest \ {r},
                                    !.rec = r, !.answer = n]
  <2>1. n \in NearStatuses
    BY <1>1, <1>2 DEF PollAsk, Addresses, TypeOK
  <2>2. new \in PollState
    BY <1>1, <2>1, PollFields DEF AnyRecord
  <2>3. poll' = [poll EXCEPT ![p] = new]
    BY <1>2 DEF PollAsk
  <2> QED
    BY <1>1, <2>2, <2>3
<1>3. CASE PollNoAnswer(p, r)
  <2> DEFINE new == [poll[p] EXCEPT !.rest = poll[p].rest \ {r}]
  <2>1. new \in PollState
    <3>1. NoRecord \in AnyRecord /\ "none" \in NearStatuses \cup {"none"}
      BY DEF AnyRecord
    <3> QED
      BY <1>1, <3>1, PollFields
  <2>2. poll' = [poll EXCEPT ![p] = new]
    BY <1>3 DEF PollNoAnswer
  <2> QED
    BY <1>1, <2>1, <2>2
<1> QED
  BY <1>2, <1>3

(* What a poll writes is a status.                                         *)
LEMMA StatusForType ==
    ASSUME NEW n \in NearStatuses, n # "INCOMPLETE_DEPOSIT"
    PROVE  StatusFor[n] \in Statuses
<1>1. CASE n = "SUCCESS"
  BY <1>1 DEF StatusFor, Statuses
<1>2. CASE n = "FAILED"
  BY <1>2 DEF StatusFor, Statuses
<1>3. CASE n = "REFUNDED"
  BY <1>3 DEF StatusFor, Statuses
<1>4. CASE n \in {"PROCESSING", "PENDING_DEPOSIT"}
  BY <1>4 DEF StatusFor, Statuses
<1> QED
  BY <1>1, <1>2, <1>3, <1>4 DEF NearStatuses

LEMMA TypePoll ==
    ASSUME TypeOK, LocalInv, NEW p \in Polls, PollStep(p)
    PROVE  TypeOK'
<1> USE DEF TypeOK, PollElsewhere, recordVars, queueVars, outside, bounds
<1>1. CASE PollStart(p)
  BY <1>1 DEF PollStart, PollState, AnyRecord
<1>2. ASSUME NEW r \in Records, PollAsk(p, r)
      PROVE  TypeOK'
  BY <1>2, PollLoopType DEF PollAsk
<1>3. ASSUME NEW r \in Records, PollNoAnswer(p, r)
      PROVE  TypeOK'
  BY <1>3, PollLoopType DEF PollNoAnswer
<1>4. CASE PollApply(p)
  <2>1. poll[p].answer \in NearStatuses /\ poll[p].rec \in Records
    BY <1>4 DEF PollApply, LocalInv, PollState
  <2>2. PollWrites(p) => StatusFor[poll[p].answer] \in Statuses
    BY <2>1, StatusForType DEF PollWrites
  <2> QED
    BY <1>4, <2>1, <2>2, PollNextType DEF PollApply, UpdateStatus
<1>5. CASE PollApplyFails(p)
  BY <1>5, FaultType, PollNextType DEF PollApplyFails
<1>6. CASE PollEnd(p)
  BY <1>6 DEF PollEnd, IdlePoll, PollState, AnyRecord
<1> QED
  BY <1>1, <1>2, <1>3, <1>4, <1>5, <1>6 DEF PollStep

LEMMA TypeRest ==
    ASSUME TypeOK, Outside \/ Crash
    PROVE  TypeOK'
<1> USE DEF TypeOK, recordVars, queueVars, outside, bounds
<1>1. ASSUME NEW r \in Records, Create(r)
      PROVE  TypeOK'
  BY <1>1 DEF Create, UpdateStatus, Statuses
<1>2. ASSUME NEW r \in Records, RetryTimeUp(r)
      PROVE  TypeOK'
  BY <1>2 DEF RetryTimeUp
<1>3. ASSUME NEW r \in Records, NEW a \in Addresses, NearAdvances(r, a)
      PROVE  TypeOK'
  <2>1. PICK n \in NearStatuses : near' = [near EXCEPT ![r][a] = n]
    BY <1>3 DEF NearAdvances, NearStatuses
  <2>2. [near[r] EXCEPT ![a] = n] \in [Addresses -> NearStatuses]
    OBVIOUS
  <2>3. near' \in [Records -> [Addresses -> NearStatuses]]
    BY <2>1, <2>2
  <2> QED
    BY <1>3, <2>3 DEF NearAdvances
<1>4. CASE Crash
  BY <1>4, JobTypes DEF Crash, IdleScan, IdlePoll, IdleQuoter, IdlePayer,
     ScanState, PollState, QuoterState, PayerState, AnyRecord
<1> QED
  BY <1>1, <1>2, <1>3, <1>4 DEF Outside

-----------------------------------------------------------------------------
(* What each component does to the rest of the system                      *)

(* Only records that change to a status of S change their status.          *)
MovesTo(S) ==
    \A r \in Records : status'[r] # status[r] => status'[r] \in S

LEMMA ScanEffect ==
    ASSUME TypeOK, LocalInv, NEW s \in Scans, ScanStep(s)
    PROVE  /\ UNCHANGED <<transferJob, payTo, deposits, poll, quoter, payer>>
           /\ MovesTo({"STUCK", "MEMPOOL_VERIFIED"})
           /\ LocalInv'
<1> USE DEF ScanElsewhere, outside, recordVars, queueVars, MovesTo, LocalInv
<1>0. scan \in [Scans -> ScanState] /\ status \in [Records -> Statuses \cup {"none"}]
  BY DEF TypeOK
<1>1. CASE ScanStart(s)
  BY <1>0, <1>1 DEF ScanStart
<1>2. ASSUME NEW r \in Records, ScanPick(s, r)
      PROVE  /\ UNCHANGED <<transferJob, payTo, deposits, poll, quoter, payer>>
             /\ MovesTo({"STUCK", "MEMPOOL_VERIFIED"})
             /\ LocalInv'
  BY <1>0, <1>2 DEF ScanPick
<1>3. CASE ScanMarkStuck(s)
  BY <1>0, <1>3, ScanGoesToType DEF ScanMarkStuck, UpdateStatus
<1>4. CASE ScanMarkStuckFails(s)
  BY <1>0, <1>4 DEF ScanMarkStuckFails, IdleScan
<1>5. CASE ScanVerify(s)
  BY <1>0, <1>5, ScanGoesToType DEF ScanVerify, UpdateStatus
<1>6. CASE ScanUnconfirmed(s)
  BY <1>0, <1>6, ScanGoesToType DEF ScanUnconfirmed
<1>7. CASE ScanQueue(s)
  BY <1>0, <1>7, ScanGoesToType DEF ScanQueue
<1>8. CASE ScanFails(s)
  BY <1>0, <1>8, ScanGoesToType DEF ScanFails
<1>9. CASE ScanEnd(s)
  BY <1>0, <1>9 DEF ScanEnd, IdleScan
<1> QED
  BY <1>1, <1>2, <1>3, <1>4, <1>5, <1>6, <1>7, <1>8, <1>9 DEF ScanStep

(* The quote worker adds transfer jobs and leaves existing ones alone.     *)
JobsOnlyAdded ==
    \A r \in Records :
        \/ transferJob'[r] = transferJob[r] /\ payTo'[r] = payTo[r]
        \/ /\ transferJob[r].state = "absent"
           /\ transferJob'[r].state = "waiting"
           /\ transferJob'[r].stalls = transferJob[r].stalls
           /\ payTo'[r] \in Addresses

LEMMA AddTransferEffect ==
    ASSUME transferJob \in [Records -> Job], payTo \in [Records -> 0 .. MaxQuotes],
           NEW r \in Records, NEW a \in Addresses, AddTransfer(r, a)
    PROVE  JobsOnlyAdded
BY DEF AddTransfer, JobAdded, JobsOnlyAdded, Job

LEMMA QuoteEffect ==
    ASSUME TypeOK, LocalInv, QuoteStep
    PROVE  /\ UNCHANGED <<deposits, scan, poll, payer>>
           /\ MovesTo({"QUOTE_REQUESTED", "QUOTE_ACCEPTED", "PENDING"})
           /\ JobsOnlyAdded
           /\ LocalInv'
<1> DEFINE Goal == /\ UNCHANGED <<deposits, scan, poll, payer>>
                   /\ MovesTo({"QUOTE_REQUESTED", "QUOTE_ACCEPTED", "PENDING"})
                   /\ JobsOnlyAdded
                   /\ LocalInv'
<1> USE DEF QuoterElsewhere, QuoterGoesTo, UpdateStatus, recordVars, queueVars,
            MovesTo, LocalInv
<1>0. /\ status \in [Records -> Statuses \cup {"none"}]
      /\ quoter \in QuoterState
      /\ transferJob \in [Records -> Job] /\ payTo \in [Records -> 0 .. MaxQuotes]
      /\ quotes \in [Records -> 0 .. MaxQuotes]
  BY DEF TypeOK
<1>a. UNCHANGED <<transferJob, payTo>> => JobsOnlyAdded
  BY DEF JobsOnlyAdded
<1>1. ASSUME NEW r \in Records, QuoteTake(r)
      PROVE  Goal
  BY <1>0, <1>a, <1>1 DEF QuoteTake
<1>2. CASE QuoteLoad
  BY <1>0, <1>a, <1>2 DEF QuoteLoad, QuoterState
<1>3. CASE QuoteUnavailable
  BY <1>0, <1>a, <1>3 DEF QuoteUnavailable, QuoterState
<1>4. CASE QuoteStore
  <2>1. quotes[quoter.rec] + 1 \in Addresses
    BY <1>0, <1>4 DEF QuoteStore, Addresses
  <2> QED
    BY <1>0, <1>a, <1>4, <2>1 DEF QuoteStore, QuoterState
<1>5. CASE QuoteMeasure
  BY <1>0, <1>a, <1>5 DEF QuoteMeasure, QuoterState
<1>6. CASE QuoteReject
  BY <1>0, <1>a, <1>6 DEF QuoteReject, QuoterState
<1>7. CASE QuoteAccept
  BY <1>0, <1>a, <1>7 DEF QuoteAccept, QuoterState
<1>8. CASE QuoteEnqueue
  BY <1>0, <1>8, AddTransferEffect DEF QuoteEnqueue, QuoterState
<1>9. CASE QuoteEnqueueUnsure
  BY <1>0, <1>9, AddTransferEffect DEF QuoteEnqueueUnsure, QuoterState
<1>10. CASE QuoteError
  BY <1>0, <1>a, <1>10 DEF QuoteError, QuoterState
<1>11. CASE QuoteFailure
  BY <1>0, <1>a, <1>11 DEF QuoteFailure, QuoterState
<1>12. CASE QuoteFailureLost
  BY <1>0, <1>a, <1>12 DEF QuoteFailureLost, QuoterState
<1>13. CASE QuoteFinish
  BY <1>0, <1>a, <1>13 DEF QuoteFinish, IdleQuoter
<1> QED
  BY <1>1, <1>2, <1>3, <1>4, <1>5, <1>6, <1>7, <1>8, <1>9, <1>10, <1>11,
     <1>12, <1>13 DEF QuoteStep

(* A poll gives a status that was true of the record to a funded record.   *)
LEMMA PollEffect ==
    ASSUME TypeOK, LocalInv, PollFunded, HandedOverIsFunded,
           NEW p \in Polls, PollStep(p)
    PROVE  /\ UNCHANGED <<transferJob, payTo, deposits, scan, quoter, payer>>
           /\ \A r \in Records : status'[r] # status[r] => Funded(r)
           /\ LocalInv' /\ PollFunded'
<1> DEFINE Goal == /\ UNCHANGED <<transferJob, payTo, deposits, scan, quoter, payer>>
                   /\ \A r \in Records : status'[r] # status[r] => Funded(r)
                   /\ LocalInv' /\ PollFunded'
<1> USE DEF PollElsewhere, recordVars, queueVars, outside, LocalInv, PollFunded,
            Funded
<1>0. /\ poll \in [Polls -> PollState] /\ near \in [Records -> [Addresses -> NearStatuses]]
      /\ status \in [Records -> Statuses \cup {"none"}]
  BY DEF TypeOK
<1>1. CASE PollStart(p)
  BY <1>0, <1>1 DEF PollStart, HandedOverIsFunded, HandedOver
<1>2. ASSUME NEW r \in Records, PollAsk(p, r)
      PROVE  Goal
  <2> DEFINE n == near[r][poll[p].paid[r]]
             new == [poll[p] EXCEPT !.at = "apply", !.rest = poll[p].rest \ {r},
                                    !.rec = r, !.answer = n]
  <2>1. n \in NearStatuses
    BY <1>0, <1>2 DEF PollAsk, Addresses, PollState
  <2>2. n # "none"
    BY <2>1 DEF NearStatuses
  <2>3. poll' = [poll EXCEPT ![p] = new]
    BY <1>2 DEF PollAsk
  <2>4. /\ new.at = "apply" /\ new.rest = poll[p].rest \ {r} /\ new.rec = r
        /\ new.answer = n
    BY <1>0 DEF PollState
  <2>5. Funded(r)
    BY <1>2 DEF PollAsk
  <2> HIDE DEF new, n
  <2> QED
    BY <1>0, <1>2, <2>2, <2>3, <2>4, <2>5 DEF PollAsk
<1>3. ASSUME NEW r \in Records, PollNoAnswer(p, r)
      PROVE  Goal
  <2> DEFINE new == [poll[p] EXCEPT !.rest = poll[p].rest \ {r}]
  <2>1. poll' = [poll EXCEPT ![p] = new]
    BY <1>3 DEF PollNoAnswer
  <2>2. /\ new.at = poll[p].at /\ new.rest = poll[p].rest \ {r}
        /\ new.rec = poll[p].rec /\ new.answer = poll[p].answer
    BY <1>0 DEF PollState
  <2> HIDE DEF new
  <2> QED
    BY <1>0, <1>3, <2>1, <2>2 DEF PollNoAnswer
<1>4. ASSUME PollNext(p), UNCHANGED <<deposits, scan, quoter>>
      PROVE  LocalInv' /\ PollFunded'
  <2> DEFINE new == [poll[p] EXCEPT !.at = "loop", !.rec = NoRecord, !.answer = "none"]
  <2>1. poll' = [poll EXCEPT ![p] = new]
    BY <1>0, <1>4, PollNextType
  <2>2. new.at = "loop" /\ new.rest = poll[p].rest
    BY <1>0 DEF PollState
  <2> HIDE DEF new
  <2> QED
    BY <1>0, <1>4, <2>1, <2>2
<1>5. CASE PollApply(p)
  BY <1>0, <1>4, <1>5 DEF PollApply, UpdateStatus
<1>6. CASE PollApplyFails(p)
  BY <1>0, <1>4, <1>6 DEF PollApplyFails
<1>7. CASE PollEnd(p)
  BY <1>0, <1>7 DEF PollEnd, IdlePoll
<1> QED
  BY <1>1, <1>2, <1>3, <1>5, <1>6, <1>7 DEF PollStep

-----------------------------------------------------------------------------
(* Each component preserves the invariant                                  *)

FundedKept == \A r \in Records : Funded(r) => Funded(r)'

(* Nothing of the payment invariant depends on anything else.              *)
LEMMA PaymentFrame ==
    ASSUME PaymentInv, UNCHANGED <<transferJob, payTo, deposits, payer>>
    PROVE  PaymentInv' /\ FundedKept
BY DEF PaymentInv, PayerInv, JobData, PaidByJob, RunsCounted, MaySent,
   RecordFunded, Funded, FundedKept

LEMMA PaymentQuote ==
    ASSUME TypeOK, PaymentInv, JobsOnlyAdded, UNCHANGED <<deposits, payer>>
    PROVE  PaymentInv' /\ FundedKept
<1> USE DEF JobsOnlyAdded
<1>1. PayerInv'
  BY DEF PaymentInv, PayerInv
<1>2. JobData'
  BY DEF PaymentInv, JobData
<1>3. PaidByJob'
  BY DEF PaymentInv, PaidByJob
<1>4. RunsCounted'
  BY DEF PaymentInv, RunsCounted, MaySent
<1>5. RecordFunded' /\ FundedKept
  BY DEF PaymentInv, RecordFunded, Funded, FundedKept
<1> QED
  BY <1>1, <1>2, <1>3, <1>4, <1>5 DEF PaymentInv

(* sendBtc: the first transaction of this run of the job.                  *)
LEMMA PaymentSend ==
    ASSUME TypeOK, PaymentInv, payer.at = "send",
           Broadcast(payer.rec, payTo[payer.rec]),
           payer' = [payer EXCEPT !.at = "record"]
             \/ payer' = [payer EXCEPT !.at = "failed"],
           UNCHANGED <<transferJob, payTo>>
    PROVE  PaymentInv' /\ FundedKept
<1>0. PICK r \in Records : r = payer.rec
  BY DEF PaymentInv, PayerInv
<1>a. PICK a \in Addresses : a = payTo[r]
  BY <1>0 DEF PaymentInv, PayerInv, JobData
<1>1. /\ transferJob[r].state = "active"
      /\ payer'.rec = r /\ payer'.at \in {"record", "failed"}
  BY <1>0 DEF PaymentInv, PayerInv, TypeOK, PayerState
<1>2. /\ deposits' \in [Records -> [Addresses -> Nat]]
      /\ deposits'[r][a] = deposits[r][a] + 1
      /\ \A x \in Records, y \in Addresses :
           x # r \/ y # a => deposits'[x][y] = deposits[x][y]
  BY <1>0, <1>a, BroadcastEffect DEF TypeOK
<1>3. deposits \in [Records -> [Addresses -> Nat]] /\ transferJob \in [Records -> Job]
  BY DEF TypeOK
<1>4. PayerInv' /\ JobData'
  BY <1>0, <1>1 DEF PaymentInv, PayerInv, JobData
<1>5. PaidByJob'
  BY <1>a, <1>1, <1>2 DEF PaymentInv, PaidByJob
<1>6. RunsCounted'
  <2>1. ~MaySent(r) /\ MaySent(r)'
    BY <1>0, <1>1 DEF MaySent
  <2>2. \A x \in Records : x # r => (MaySent(x) <=> MaySent(x)')
    BY <1>0, <1>1 DEF MaySent, PaymentInv, PayerInv
  <2>3. \A x \in Records : transferJob[x].stalls \in Nat
    BY <1>3 DEF Job
  <2> QED
    BY <1>1, <1>2, <1>3, <2>1, <2>2, <2>3 DEF PaymentInv, RunsCounted
<1>7. Funded(r)'
  BY <1>1, <1>2, <1>3 DEF Funded
<1>8. FundedKept
  BY <1>1, <1>2, <1>3 DEF FundedKept, Funded
<1> QED
  BY <1>1, <1>4, <1>5, <1>6, <1>7, <1>8 DEF PaymentInv, RecordFunded

(* A step of the transfer worker that sends nothing.                       *)
LEMMA PaymentWorks ==
    ASSUME TypeOK, PaymentInv, PayStep, UNCHANGED deposits
    PROVE  PaymentInv' /\ FundedKept
<1> USE DEF PayerElsewhere, PayerGoesTo
<1>0. /\ payer \in PayerState /\ transferJob \in [Records -> Job]
      /\ deposits \in [Records -> [Addresses -> Nat]]
  BY DEF TypeOK
<1>1. FundedKept
  BY DEF FundedKept, Funded
<1>2. ASSUME NEW r \in Records, PayTake(r)
      PROVE  PaymentInv'
  <2>1. /\ payer' = [at |-> "load", rec |-> r] /\ payer.at = "idle"
        /\ transferJob[r].state = "waiting" /\ transferJob'[r].state = "active"
        /\ transferJob'[r].stalls = transferJob[r].stalls
        /\ \A x \in Records : x # r => transferJob'[x] = transferJob[x]
        /\ UNCHANGED payTo
    BY <1>0, <1>2 DEF PayTake, JobTaken, Job
  <2>2. PayerInv' /\ JobData' /\ RecordFunded'
    BY <2>1 DEF PaymentInv, PayerInv, JobData, RecordFunded
  <2>3. PaidByJob'
    BY <2>1 DEF PaymentInv, PaidByJob
  <2>4. RunsCounted'
    BY <2>1 DEF PaymentInv, RunsCounted, MaySent, PayerInv
  <2> QED
    BY <2>2, <2>3, <2>4 DEF PaymentInv
<1>3. CASE PayFinish
  <2>1. PICK r \in Records : r = payer.rec
    BY <1>3 DEF PayFinish, PaymentInv, PayerInv
  <2>2. /\ payer.at = "done" /\ payer'.at = "idle"
        /\ transferJob[r].state = "active" /\ transferJob'[r].state = "finished"
        /\ transferJob'[r].stalls = transferJob[r].stalls
        /\ \A x \in Records : x # r => transferJob'[x] = transferJob[x]
        /\ UNCHANGED payTo
    BY <1>0, <1>3, <2>1 DEF PayFinish, JobFinished, Job, IdlePayer, PaymentInv,
       PayerInv
  <2>3. PayerInv' /\ JobData' /\ RecordFunded'
    BY <2>1, <2>2 DEF PaymentInv, PayerInv, JobData, RecordFunded
  <2>4. PaidByJob'
    BY <2>2 DEF PaymentInv, PaidByJob
  <2>5. RunsCounted'
    BY <2>1, <2>2 DEF PaymentInv, RunsCounted, MaySent, PayerInv
  <2> QED
    BY <1>1, <2>3, <2>4, <2>5 DEF PaymentInv
<1>4. ASSUME UNCHANGED <<transferJob, payTo>>, payer.at # "idle",
             payer'.rec = payer.rec, payer'.at \in {"send", "failed", "done"},
             payer.at \in {"load", "send"} \/ payer'.at \in {"failed", "done"}
      PROVE  PaymentInv'
  <2>1. PayerInv' /\ JobData' /\ RecordFunded' /\ PaidByJob'
    BY <1>4 DEF PaymentInv, PayerInv, JobData, RecordFunded, PaidByJob
  <2>2. \A r \in Records : MaySent(r) => MaySent(r)'
    BY <1>4 DEF MaySent
  <2>3. RunsCounted'
    BY <1>0, <1>4, <2>2 DEF PaymentInv, RunsCounted, Job
  <2> QED
    BY <2>1, <2>3 DEF PaymentInv
<1>5. CASE PayLoad
  BY <1>0, <1>1, <1>4, <1>5 DEF PayLoad, PayerState
<1>6. CASE PaySendFails
  BY <1>0, <1>1, <1>4, <1>6 DEF PaySendFails, PayerState
<1>7. CASE PayRecord
  BY <1>0, <1>1, <1>4, <1>7 DEF PayRecord, PayerState
<1>8. CASE PayError
  BY <1>0, <1>1, <1>4, <1>8 DEF PayError, PayerState
<1>9. CASE PayFailure
  BY <1>0, <1>1, <1>4, <1>9 DEF PayFailure, PayerState
<1>10. CASE PayFailureLost
  BY <1>0, <1>1, <1>4, <1>10 DEF PayFailureLost, PayerState
<1>11. ~PaySend /\ ~PaySendUnsure
  <2>1. SUFFICES ASSUME payer.at = "send",
                        Broadcast(payer.rec, payTo[payer.rec])
                 PROVE  FALSE
    BY DEF PaySend, PaySendUnsure
  <2>2. PICK r \in Records : r = payer.rec
    BY <2>1 DEF PaymentInv, PayerInv
  <2>3. PICK a \in Addresses : a = payTo[r]
    BY <2>1, <2>2 DEF PaymentInv, PayerInv, JobData
  <2>4. deposits'[r][a] = deposits[r][a] + 1 /\ deposits[r][a] \in Nat
    BY <1>0, <2>1, <2>2, <2>3, BroadcastEffect
  <2> QED
    BY <2>4
<1> QED
  BY <1>1, <1>2, <1>3, <1>5, <1>6, <1>7, <1>8, <1>9, <1>10, <1>11 DEF PayStep

(* The transfer worker reports what it has sent, or falls back.            *)
LEMMA PayEffect ==
    ASSUME TypeOK, PaymentInv, PayStep
    PROVE  /\ UNCHANGED <<scan, poll, quoter>>
           /\ PaymentInv' /\ FundedKept
           /\ \A r \in Records : status'[r] # status[r] =>
                Funded(r) \/ status'[r] = "QUOTE_ACCEPTED"
<1> USE DEF PayerElsewhere, PayerGoesTo, UpdateStatus
<1>0. status \in [Records -> Statuses \cup {"none"}]
  BY DEF TypeOK
<1>1. UNCHANGED <<scan, poll, quoter>>
  BY DEF PayStep, PayTake, PayLoad, PaySend, PaySendFails, PaySendUnsure,
     PayRecord, PayError, PayFailure, PayFailureLost, PayFinish
<1>2. PaymentInv' /\ FundedKept
  <2>1. CASE PaySend \/ PaySendUnsure
    BY <2>1, PaymentSend DEF PaySend, PaySendUnsure
  <2>2. CASE ~(PaySend \/ PaySendUnsure)
    <3>1. UNCHANGED deposits
      BY <2>2 DEF PayStep, PayTake, PayLoad, PaySendFails, PayRecord, PayError,
         PayFailure, PayFailureLost, PayFinish
    <3> QED
      BY <3>1, PaymentWorks
  <2> QED
    BY <2>1, <2>2
<1>3. CASE PayRecord
  BY <1>0, <1>1, <1>2, <1>3 DEF PayRecord, PaymentInv, RecordFunded
<1>4. CASE PayFailure
  BY <1>0, <1>1, <1>2, <1>4 DEF PayFailure
<1>5. CASE ~PayRecord /\ ~PayFailure
  <2>1. UNCHANGED status
    BY <1>5 DEF PayStep, PayTake, PayLoad, PaySend, PaySendFails, PaySendUnsure,
       PayError, PayFailureLost, PayFinish
  <2> QED
    BY <1>1, <1>2, <2>1
<1> QED
  BY <1>3, <1>4, <1>5

LEMMA PaymentCrash ==
    ASSUME TypeOK, PaymentInv, Crash
    PROVE  PaymentInv' /\ FundedKept /\ LocalInv' /\ PollFunded'
<1>0. /\ transferJob \in [Records -> Job]
      /\ deposits \in [Records -> [Addresses -> Nat]]
  BY DEF TypeOK
<1>1. /\ payer' = IdlePayer /\ UNCHANGED <<payTo, deposits>>
      /\ \A r \in Records :
           \/ transferJob[r].state # "active" /\ transferJob'[r] = transferJob[r]
           \/ /\ transferJob[r].state = "active" /\ transferJob'[r].state = "waiting"
              /\ transferJob'[r].stalls = transferJob[r].stalls + 1
           \/ /\ transferJob[r].state = "active" /\ transferJob'[r].state = "finished"
              /\ transferJob'[r].stalls = transferJob[r].stalls
  BY <1>0 DEF Crash, JobAfterCrash, JobFinished, Job, outside
<1>2. PayerInv' /\ JobData' /\ RecordFunded'
  BY <1>1 DEF PaymentInv, PayerInv, JobData, RecordFunded, IdlePayer
<1>3. PaidByJob'
  BY <1>1 DEF PaymentInv, PaidByJob
<1>4. RunsCounted'
  BY <1>0, <1>1 DEF PaymentInv, RunsCounted, MaySent, IdlePayer, Job
<1>5. FundedKept
  BY <1>1 DEF FundedKept, Funded
<1>6. LocalInv' /\ PollFunded'
  BY DEF Crash, IdleScan, IdlePoll, IdleQuoter, LocalInv, PollFunded
<1> QED
  BY <1>2, <1>3, <1>4, <1>5, <1>6 DEF PaymentInv

-----------------------------------------------------------------------------
(* The invariant is inductive                                              *)

(* A record is funded when it gets a status that says so, and stays funded.*)
LEMMA HandedOverKept ==
    ASSUME HandedOverIsFunded, FundedKept,
           \A r \in Records : status'[r] # status[r] =>
               \/ Funded(r)
               \/ status'[r] \notin Polled \cup {"COMPLETED", "REFUNDED"}
    PROVE  HandedOverIsFunded'
BY DEF HandedOverIsFunded, HandedOver, FundedKept, Polled

LEMMA PollFundedKept ==
    ASSUME TypeOK, LocalInv, PollFunded, FundedKept, UNCHANGED poll
    PROVE  PollFunded'
<1>1. \A p \in Polls : poll[p].rest \subseteq Records
  BY DEF TypeOK, PollState
<1> QED
  BY <1>1 DEF LocalInv, PollFunded, FundedKept

LEMMA InvInit == Init => IInv
<1> SUFFICES ASSUME Init
             PROVE  IInv
  OBVIOUS
<1>1. TypeOK
  BY TypeInit
<1>2. LocalInv /\ PollFunded
  BY DEF Init, LocalInv, PollFunded, IdleScan, IdlePoll, IdleQuoter
<1>3. PayerInv /\ JobData /\ RecordFunded
  BY DEF Init, PayerInv, JobData, RecordFunded, IdlePayer, NoJob
<1>4. PaidByJob /\ RunsCounted
  BY DEF Init, PaidByJob, RunsCounted, MaySent, NoJob
<1>5. HandedOverIsFunded
  BY DEF Init, HandedOverIsFunded, HandedOver, Polled
<1> QED
  BY <1>1, <1>2, <1>3, <1>4, <1>5 DEF IInv, PaymentInv

LEMMA InvOutside ==
    ASSUME IInv, Outside
    PROVE  IInv'
<1> USE DEF IInv, recordVars, queueVars, outside
<1>1. TypeOK'
  BY TypeRest
<1>2. UNCHANGED <<transferJob, payTo, deposits, scan, poll, quoter, payer>>
  BY DEF Outside, Create, RetryTimeUp, NearAdvances
<1>3. PaymentInv' /\ FundedKept
  BY <1>2, PaymentFrame
<1>4. \A r \in Records : status'[r] # status[r] => status'[r] = "PENDING"
  BY DEF Outside, Create, RetryTimeUp, NearAdvances, UpdateStatus, TypeOK
<1>5. HandedOverIsFunded'
  BY <1>3, <1>4, HandedOverKept DEF Polled
<1>6. LocalInv'
  BY <1>2 DEF LocalInv
<1>7. PollFunded'
  BY <1>2, <1>3, PollFundedKept
<1> QED
  BY <1>1, <1>3, <1>5, <1>6, <1>7

LEMMA InvScan ==
    ASSUME IInv, NEW s \in Scans, ScanStep(s)
    PROVE  IInv'
<1> USE DEF IInv
<1>1. TypeOK'
  BY TypeScan
<1>2. PaymentInv' /\ FundedKept
  BY ScanEffect, PaymentFrame
<1>3. HandedOverIsFunded'
  BY <1>2, ScanEffect, HandedOverKept DEF MovesTo, Polled
<1>4. PollFunded'
  BY <1>2, ScanEffect, PollFundedKept
<1> QED
  BY <1>1, <1>2, <1>3, <1>4, ScanEffect

LEMMA InvQuote ==
    ASSUME IInv, QuoteStep
    PROVE  IInv'
<1> USE DEF IInv
<1>1. TypeOK'
  BY TypeQuote
<1>2. PaymentInv' /\ FundedKept
  BY QuoteEffect, PaymentQuote
<1>3. HandedOverIsFunded'
  BY <1>2, QuoteEffect, HandedOverKept DEF MovesTo, Polled
<1>4. PollFunded'
  BY <1>2, QuoteEffect, PollFundedKept
<1> QED
  BY <1>1, <1>2, <1>3, <1>4, QuoteEffect

LEMMA InvPay ==
    ASSUME IInv, PayStep
    PROVE  IInv'
<1> USE DEF IInv
<1>1. TypeOK'
  BY TypePay DEF PaymentInv
<1>2. HandedOverIsFunded'
  BY PayEffect, HandedOverKept DEF Polled
<1>3. LocalInv'
  BY PayEffect DEF LocalInv
<1>4. PollFunded'
  BY PayEffect, PollFundedKept
<1> QED
  BY <1>1, <1>2, <1>3, <1>4, PayEffect

LEMMA InvPoll ==
    ASSUME IInv, NEW p \in Polls, PollStep(p)
    PROVE  IInv'
<1> USE DEF IInv
<1>1. TypeOK'
  BY TypePoll
<1>2. PaymentInv' /\ FundedKept
  BY PollEffect, PaymentFrame
<1>3. HandedOverIsFunded'
  BY <1>2, PollEffect, HandedOverKept
<1> QED
  BY <1>1, <1>2, <1>3, PollEffect

LEMMA InvCrash ==
    ASSUME IInv, Crash
    PROVE  IInv'
<1> USE DEF IInv
<1>1. TypeOK'
  BY TypeRest
<1>2. HandedOverIsFunded'
  BY PaymentCrash, HandedOverKept DEF Crash, recordVars
<1> QED
  BY <1>1, <1>2, PaymentCrash

LEMMA InvStutter ==
    ASSUME IInv, UNCHANGED vars
    PROVE  IInv'
<1> USE DEF IInv, vars, recordVars, queueVars, outside, bounds
<1>1. TypeOK'
  BY DEF TypeOK
<1>2. PaymentInv' /\ FundedKept
  BY PaymentFrame
<1>3. LocalInv'
  BY DEF LocalInv
<1>4. HandedOverIsFunded'
  BY <1>2, HandedOverKept
<1>5. PollFunded'
  BY <1>2, PollFundedKept
<1> QED
  BY <1>1, <1>2, <1>3, <1>4, <1>5

THEOREM InductiveInvariant == Spec => []IInv
<1>1. IInv /\ [Next]_vars => IInv'
  BY InvOutside, InvScan, InvQuote, InvPay, InvPoll, InvCrash, InvStutter DEF Next
<1> QED
  BY <1>1, InvInit, PTL DEF Spec

-----------------------------------------------------------------------------
(* What follows from it                                                    *)

(* Every variable keeps its type; in particular a job never stalls more    *)
(* than MaxStalls times and no handler runs without a record.              *)
THEOREM TypeCorrect == Spec => []TypeOK
BY InductiveInvariant, PTL DEF IInv

(* rebalance-transfer.processor.ts sends the BTC of a record at most once  *)
(* per run of its transfer job, for any interleaving, quotes and crashes.  *)
THEOREM DepositsBounded == Spec => []DepositsWithinRuns
<1>1. IInv => DepositsWithinRuns
  BY DEF IInv, PaymentInv, RunsCounted, DepositsWithinRuns, JobRuns, TypeOK, Job
<1> QED
  BY <1>1, InductiveInvariant, PTL

(* All transactions of a record pay the address in its transfer job.       *)
THEOREM SingleAddress == Spec => []OneAddressPaid
<1>1. IInv => OneAddressPaid
  BY DEF IInv, PaymentInv, PaidByJob, OneAddressPaid
<1> QED
  BY <1>1, InductiveInvariant, PTL

(* No record is reported as handed over, completed or refunded unfunded.   *)
THEOREM HandedOverFunded == Spec => []HandedOverIsFunded
BY InductiveInvariant, PTL DEF IInv

-----------------------------------------------------------------------------
(* The pipeline implements Payout                                          *)

PayoutStep == [PayoutOf!Next]_PayoutOf!vars

(* At most one record changes its status, and nobody is granted or paid.   *)
LEMMA StatusRefines ==
    ASSUME NEW r \in Records, \A x \in Records : x # r => status'[x] = status[x],
           UNCHANGED <<payTo, deposits>>, HandedOverIsFunded'
    PROVE  PayoutStep
<1> DEFINE granted(pt) == {x \in Records : pt[x] # 0}
           claimed(st) == {x \in Records : st[x] \in HandedOver}
           funded == {x \in Records : Funded(x)}
<1>1. /\ granted(payTo') = granted(payTo)
      /\ {x \in Records : Funded(x)'} = funded
  BY DEF Funded
<1>2. CASE status'[r] \in HandedOver
  <2>1. r \in funded
    BY <1>2 DEF HandedOverIsFunded, Funded
  <2>2. claimed(status') = claimed(status) \cup {r}
    BY <1>2
  <2>3. PayoutOf!Claim(r)
    BY <1>1, <2>1, <2>2 DEF PayoutOf!Claim, Funded
  <2> QED
    BY <2>3 DEF PayoutStep, PayoutOf!Next
<1>3. CASE status'[r] \notin HandedOver
  <2>1. claimed(status') = claimed(status) \ {r}
    BY <1>3
  <2>2. PayoutOf!Retract(r)
    BY <1>1, <2>1 DEF PayoutOf!Retract, Funded
  <2> QED
    BY <2>2 DEF PayoutStep, PayoutOf!Next
<1> QED
  BY <1>2, <1>3

(* A transfer job is added, or is there already.                           *)
LEMMA GrantRefines ==
    ASSUME TypeOK, NEW r \in Records, NEW a \in Addresses, AddTransfer(r, a),
           UNCHANGED <<status, deposits>>
    PROVE  PayoutStep
<1>1. \A x \in Records : x # r => payTo'[x] = payTo[x]
  BY DEF AddTransfer, TypeOK
<1>2. payTo'[r] = IF transferJob[r].state = "absent" THEN a ELSE payTo[r]
  BY DEF AddTransfer, TypeOK
<1>3. a # 0
  BY DEF Addresses
<1>4. /\ {x \in Records : Funded(x)'} = {x \in Records : Funded(x)}
      /\ {x \in Records : status'[x] \in HandedOver} = {x \in Records : status[x] \in HandedOver}
  BY DEF Funded
<1>5. CASE payTo'[r] # 0
  <2>1. {x \in Records : payTo'[x] # 0} = {x \in Records : payTo[x] # 0} \cup {r}
    BY <1>1, <1>5
  <2>2. PayoutOf!Grant(r)
    BY <1>4, <2>1 DEF PayoutOf!Grant, Funded
  <2> QED
    BY <2>2 DEF PayoutStep, PayoutOf!Next
<1>6. CASE payTo'[r] = 0
  <2>1. {x \in Records : payTo'[x] # 0} = {x \in Records : payTo[x] # 0}
    BY <1>1, <1>2, <1>3, <1>6
  <2>2. UNCHANGED PayoutOf!vars
    BY <1>4, <2>1 DEF PayoutOf!vars, Funded
  <2> QED
    BY <2>2 DEF PayoutStep
<1> QED
  BY <1>5, <1>6

(* BTC leaves for the record of the active transfer job.                   *)
LEMMA PayRefines ==
    ASSUME TypeOK, NEW r \in Records, payTo[r] \in Addresses,
           Broadcast(r, payTo[r]), UNCHANGED <<status, payTo>>
    PROVE  PayoutStep
<1>1. /\ deposits' \in [Records -> [Addresses -> Nat]]
      /\ deposits'[r][payTo[r]] = deposits[r][payTo[r]] + 1
      /\ \A x \in Records, y \in Addresses :
           x # r \/ y # payTo[r] => deposits'[x][y] = deposits[x][y]
  BY BroadcastEffect DEF TypeOK
<1>2. deposits[r][payTo[r]] \in Nat /\ payTo[r] # 0
  BY DEF TypeOK, Addresses
<1>3. Funded(r)'
  BY <1>1, <1>2 DEF Funded
<1>4. \A x \in Records : x # r => (Funded(x)' <=> Funded(x))
  BY <1>1 DEF Funded
<1>5. {x \in Records : Funded(x)'} = {x \in Records : Funded(x)} \cup {r}
  BY <1>3, <1>4
<1>6. PayoutOf!Pay(r)
  BY <1>2, <1>5 DEF PayoutOf!Pay, Funded
<1> QED
  BY <1>6 DEF PayoutStep, PayoutOf!Next

LEMMA IdleRefines ==
    ASSUME UNCHANGED <<status, payTo, deposits>>
    PROVE  PayoutStep
BY DEF PayoutStep, PayoutOf!vars, Funded

(* Each write of a status names one record.                                *)
OneStatus == \E r \in Records : \A x \in Records : x # r => status'[x] = status[x]

LEMMA UpdateOne ==
    ASSUME TypeOK, NEW r \in Records, NEW s, UpdateStatus(r, s)
    PROVE  OneStatus
BY DEF UpdateStatus, TypeOK, OneStatus

LEMMA ScanRefines ==
    ASSUME IInv, IInv', NEW s \in Scans, ScanStep(s)
    PROVE  PayoutStep
<1> USE DEF IInv
<1>1. UNCHANGED <<payTo, deposits>>
  BY ScanEffect
<1>2. CASE ScanMarkStuck(s) \/ ScanVerify(s)
  <2>1. OneStatus
    BY <1>2, UpdateOne DEF ScanMarkStuck, ScanVerify, LocalInv
  <2> QED
    BY <1>1, <2>1, StatusRefines DEF OneStatus
<1>3. CASE ~(ScanMarkStuck(s) \/ ScanVerify(s))
  <2>1. UNCHANGED status
    BY <1>3 DEF ScanStep, ScanStart, ScanPick, ScanMarkStuckFails, ScanUnconfirmed,
       ScanQueue, ScanFails, ScanEnd, recordVars
  <2> QED
    BY <1>1, <2>1, IdleRefines
<1> QED
  BY <1>2, <1>3

LEMMA QuoteRefines ==
    ASSUME IInv, IInv', QuoteStep
    PROVE  PayoutStep
<1> USE DEF IInv
<1>1. UNCHANGED deposits
  BY QuoteEffect
<1>2. CASE QuoteEnqueue \/ QuoteEnqueueUnsure
  <2>1. /\ quoter.rec \in Records /\ quoter.to \in Addresses
        /\ AddTransfer(quoter.rec, quoter.to) /\ UNCHANGED status
    BY <1>2 DEF QuoteEnqueue, QuoteEnqueueUnsure, LocalInv, recordVars
  <2> QED
    BY <1>1, <2>1, GrantRefines
<1>3. CASE QuoteStore \/ QuoteMeasure \/ QuoteReject \/ QuoteAccept \/ QuoteFailure
  <2>1. quoter.rec \in Records /\ UNCHANGED payTo
    BY <1>3 DEF QuoteStore, QuoteMeasure, QuoteReject, QuoteAccept, QuoteFailure,
       LocalInv, queueVars
  <2>2. OneStatus
    BY <1>3, <2>1, UpdateOne DEF QuoteStore, QuoteMeasure, QuoteReject, QuoteAccept,
       QuoteFailure
  <2> QED
    BY <1>1, <2>1, <2>2, StatusRefines DEF OneStatus
<1>4. CASE \/ \E r \in Records : QuoteTake(r)
          \/ QuoteLoad \/ QuoteUnavailable \/ QuoteError \/ QuoteFailureLost
          \/ QuoteFinish
  <2>1. UNCHANGED <<status, payTo>>
    BY <1>4 DEF QuoteTake, QuoteLoad, QuoteUnavailable, QuoteError, QuoteFailureLost,
       QuoteFinish, recordVars, queueVars
  <2> QED
    BY <1>1, <2>1, IdleRefines
<1> QED
  BY <1>2, <1>3, <1>4 DEF QuoteStep

LEMMA PayerRefines ==
    ASSUME IInv, IInv', PayStep
    PROVE  PayoutStep
<1> USE DEF IInv
<1>1. UNCHANGED payTo
  BY DEF PayStep, PayTake, PayLoad, PaySend, PaySendFails, PaySendUnsure,
     PayRecord, PayError, PayFailure, PayFailureLost, PayFinish, PayerElsewhere
<1>2. CASE PaySend \/ PaySendUnsure
  <2>1. /\ payer.rec \in Records /\ payTo[payer.rec] \in Addresses
        /\ Broadcast(payer.rec, payTo[payer.rec]) /\ UNCHANGED status
    BY <1>2 DEF PaySend, PaySendUnsure, PaymentInv, PayerInv, JobData
  <2> QED
    BY <1>1, <2>1, PayRefines
<1>3. CASE PayRecord \/ PayFailure
  <2>1. OneStatus /\ UNCHANGED deposits
    BY <1>3, UpdateOne DEF PayRecord, PayFailure, PaymentInv, PayerInv
  <2> QED
    BY <1>1, <2>1, StatusRefines DEF OneStatus
<1>4. CASE ~(PaySend \/ PaySendUnsure \/ PayRecord \/ PayFailure)
  <2>1. UNCHANGED <<status, deposits>>
    BY <1>4 DEF PayStep, PayTake, PayLoad, PaySendFails, PayError, PayFailureLost,
       PayFinish
  <2> QED
    BY <1>1, <2>1, IdleRefines
<1> QED
  BY <1>2, <1>3, <1>4

LEMMA PollRefines ==
    ASSUME IInv, IInv', NEW p \in Polls, PollStep(p)
    PROVE  PayoutStep
<1> USE DEF IInv
<1>1. UNCHANGED <<payTo, deposits>>
  BY PollEffect
<1>2. CASE PollApply(p) /\ PollWrites(p)
  <2>1. OneStatus
    BY <1>2, UpdateOne DEF PollApply, LocalInv
  <2> QED
    BY <1>1, <2>1, StatusRefines DEF OneStatus
<1>3. CASE ~(PollApply(p) /\ PollWrites(p))
  <2>1. UNCHANGED status
    BY <1>3 DEF PollStep, PollStart, PollAsk, PollNoAnswer, PollApply, PollApplyFails,
       PollEnd
  <2> QED
    BY <1>1, <2>1, IdleRefines
<1> QED
  BY <1>2, <1>3

LEMMA RestRefines ==
    ASSUME IInv, IInv', Outside \/ Crash
    PROVE  PayoutStep
<1> USE DEF IInv, recordVars, queueVars, outside
<1>1. ASSUME NEW r \in Records, Create(r)
      PROVE  PayoutStep
  <2>1. OneStatus /\ UNCHANGED <<payTo, deposits>>
    BY <1>1, UpdateOne DEF Create
  <2> QED
    BY <2>1, StatusRefines DEF OneStatus
<1>2. CASE \E r \in Records : RetryTimeUp(r) \/ \E a \in Addresses : NearAdvances(r, a)
  BY <1>2, IdleRefines DEF RetryTimeUp, NearAdvances
<1>3. CASE Crash
  BY <1>3, IdleRefines DEF Crash
<1> QED
  BY <1>1, <1>2, <1>3 DEF Outside

(* Every step of the pipeline is one record being granted, paid, claimed   *)
(* or retracted, or no step of Payout at all: whatever overlaps, no BTC    *)
(* leaves without a transfer job and no status claims what has not left.   *)
THEOREM PipelineIsPayout == Spec => ImplementsPayout
<1>1. Init => PayoutOf!Init
  BY DEF Init, PayoutOf!Init, HandedOver, Polled, Funded, Addresses
<1>2. ASSUME IInv, IInv', [Next]_vars
      PROVE  PayoutStep
  <2>1. CASE Next
    BY <1>2, <2>1, ScanRefines, QuoteRefines, PayerRefines, PollRefines, RestRefines
       DEF Next
  <2>2. CASE UNCHANGED vars
    BY <2>2, IdleRefines DEF vars, recordVars, queueVars, outside
  <2> QED
    BY <1>2, <2>1, <2>2
<1> QED
  BY <1>1, <1>2, InductiveInvariant, PTL DEF Spec, ImplementsPayout, PayoutOf!Spec, PayoutStep

-----------------------------------------------------------------------------
(* One address per record while the process runs                           *)

(* The quote worker is busy with r exactly while r's quote job is active.  *)
QuoterInv ==
    /\ quoter.at # "idle" =>
         quoter.rec \in Records /\ quoteJob[quoter.rec].state = "active"
    /\ \A r \in Records : quoteJob[r].state = "active" =>
         quoter.at # "idle" /\ quoter.rec = r

(* The quote job of r has asked for no deposit address yet.                *)
BeforeQuote(r) ==
    \/ quoteJob[r].state \in {"absent", "waiting"}
    \/ quoteJob[r].state = "active" /\ quoter.at \in {"load", "ask"}

(* The quote job of r has an address and has not handed it on.             *)
HoldsQuote(r) ==
    /\ quoteJob[r].state = "active"
    /\ quoter.at \in {"slippage", "accept", "reject", "enqueue"}

(* While no job was run a second time, the address in the record is the    *)
(* one in hand, and then the one in the transfer job.                      *)
FirstQuote ==
    \A r \in Records :
        /\ BeforeQuote(r) => transferJob[r].state = "absent"
        /\ HoldsQuote(r) =>
             transferJob[r].state = "absent" /\ address[r] = quoter.to
        /\ transferJob[r].state # "absent" => payTo[r] = address[r]

AddressInv ==
    /\ QuoterInv
    /\ crashes = 0 => FirstQuote

LEMMA AddressInit == Init => AddressInv
BY DEF Init, AddressInv, QuoterInv, FirstQuote, BeforeQuote, HoldsQuote, IdleQuoter,
   NoJob

(* Quote jobs may be added, and transfer jobs that exist may run.          *)
JobsKept ==
    \A r \in Records :
        /\ \/ quoteJob'[r].state = quoteJob[r].state
           \/ quoteJob[r].state = "absent" /\ quoteJob'[r].state = "waiting"
        /\ transferJob'[r].state = "absent" <=> transferJob[r].state = "absent"

LEMMA AddressFrame ==
    ASSUME LocalInv, AddressInv, JobsKept, UNCHANGED <<address, quoter, payTo, crashes>>
    PROVE  AddressInv'
<1>1. QuoterInv'
  BY DEF AddressInv, QuoterInv, JobsKept, LocalInv
<1>2. ASSUME crashes = 0
      PROVE  FirstQuote'
  BY <1>2 DEF AddressInv, FirstQuote, BeforeQuote, HoldsQuote, JobsKept
<1> QED
  BY <1>1, <1>2 DEF AddressInv

LEMMA ScanJobs ==
    ASSUME TypeOK, NEW s \in Scans, ScanStep(s)
    PROVE  JobsKept /\ UNCHANGED <<address, quoter, payTo, crashes>>
<1> USE DEF ScanElsewhere, recordVars, queueVars, bounds, JobsKept
<1>1. CASE ScanQueue(s)
  BY <1>1 DEF ScanQueue, JobAdded, TypeOK, Job
<1>2. CASE ~ScanQueue(s)
  BY <1>2 DEF ScanStep, ScanStart, ScanPick, ScanMarkStuck, ScanMarkStuckFails,
     ScanVerify, ScanUnconfirmed, ScanFails, ScanEnd, Fault
<1> QED
  BY <1>1, <1>2

LEMMA PayJobs ==
    ASSUME TypeOK, PayerInv, PayStep
    PROVE  /\ JobsKept
           /\ UNCHANGED <<amountKnown, address, quoteJob, quotes, quoter, scan, poll,
                          payTo, crashes>>
<1> USE DEF PayerElsewhere, bounds, JobsKept
<1>1. ASSUME NEW r \in Records, PayTake(r)
      PROVE  JobsKept /\ UNCHANGED crashes
  BY <1>1 DEF PayTake, JobTaken, TypeOK, Job
<1>2. CASE PayFinish
  BY <1>2 DEF PayFinish, JobFinished, TypeOK, Job, PayerInv
<1>3. CASE PayLoad \/ PaySend \/ PaySendFails \/ PaySendUnsure \/ PayRecord
             \/ PayError \/ PayFailure \/ PayFailureLost
  BY <1>3 DEF PayLoad, PaySend, PaySendFails, PaySendUnsure, PayRecord, PayError,
     PayFailure, PayFailureLost, Fault
<1>4. UNCHANGED <<amountKnown, address, quoteJob, quotes, quoter, scan, poll, payTo>>
  BY DEF PayStep, PayTake, PayLoad, PaySend, PaySendFails, PaySendUnsure, PayRecord,
     PayError, PayFailure, PayFailureLost, PayFinish
<1> QED
  BY <1>1, <1>2, <1>3, <1>4 DEF PayStep

(* The quote worker moves on with the job it has, and changes no job.      *)
LEMMA AddressMoves ==
    ASSUME TypeOK, LocalInv, AddressInv, quoter.at # "idle",
           quoter'.rec = quoter.rec, quoter'.to = quoter.to,
           quoter'.at \in {"ask", "failed", "done"} \/ HoldsQuote(quoter.rec),
           quoter'.at \in {"ask", "failed", "done", "accept", "reject", "enqueue"},
           quoter'.at = "ask" => quoter.at = "load",
           UNCHANGED <<address, quoteJob, transferJob, payTo, crashes>>
    PROVE  AddressInv'
<1>1. QuoterInv'
  BY DEF AddressInv, QuoterInv
<1>2. ASSUME crashes = 0
      PROVE  FirstQuote'
  BY <1>2 DEF AddressInv, QuoterInv, FirstQuote, BeforeQuote, HoldsQuote
<1> QED
  BY <1>1, <1>2 DEF AddressInv

LEMMA AddressQuote ==
    ASSUME TypeOK, LocalInv, AddressInv, QuoteStep
    PROVE  AddressInv'
<1> USE DEF QuoterElsewhere, QuoterGoesTo, recordVars, queueVars, bounds
<1>0. /\ quoter \in QuoterState /\ quoteJob \in [Records -> Job]
      /\ transferJob \in [Records -> Job] /\ address \in [Records -> 0 .. MaxQuotes]
      /\ payTo \in [Records -> 0 .. MaxQuotes] /\ quotes \in [Records -> 0 .. MaxQuotes]
  BY DEF TypeOK
<1>1. ASSUME NEW r \in Records, QuoteTake(r)
      PROVE  AddressInv'
  <2>1. /\ quoter.at = "idle" /\ quoteJob[r].state = "waiting"
        /\ quoter' = [at |-> "load", rec |-> r, to |-> 0]
        /\ quoteJob'[r].state = "active"
        /\ \A x \in Records : x # r => quoteJob'[x] = quoteJob[x]
        /\ UNCHANGED <<address, transferJob, payTo, crashes>>
    BY <1>0, <1>1 DEF QuoteTake, JobTaken, Job
  <2>2. QuoterInv'
    BY <2>1 DEF AddressInv, QuoterInv
  <2>3. ASSUME crashes = 0
        PROVE  FirstQuote'
    BY <2>1, <2>3 DEF AddressInv, QuoterInv, FirstQuote, BeforeQuote, HoldsQuote
  <2> QED
    BY <2>1, <2>2, <2>3 DEF AddressInv
<1>2. CASE QuoteLoad \/ QuoteUnavailable \/ QuoteError \/ QuoteFailure
             \/ QuoteFailureLost
  <2>1. /\ quoter.at # "idle" /\ quoter'.rec = quoter.rec /\ quoter'.to = quoter.to
        /\ quoter'.at \in {"ask", "failed", "done"}
        /\ quoter'.at = "ask" => quoter.at = "load"
        /\ UNCHANGED <<address, quoteJob, transferJob, payTo, crashes>>
    BY <1>0, <1>2 DEF QuoteLoad, QuoteUnavailable, QuoteError, QuoteFailure,
       QuoteFailureLost, QuoterState, Fault
  <2> QED
    BY <2>1, AddressMoves
<1>3. CASE QuoteMeasure \/ QuoteReject \/ QuoteAccept
  <2>1. /\ quoter.at \in {"slippage", "reject", "accept"}
        /\ quoter'.rec = quoter.rec /\ quoter'.to = quoter.to
        /\ quoter'.at \in {"done", "accept", "reject", "enqueue"}
        /\ UNCHANGED <<address, quoteJob, transferJob, payTo, crashes>>
    BY <1>0, <1>3 DEF QuoteMeasure, QuoteReject, QuoteAccept, QuoterState
  <2>2. HoldsQuote(quoter.rec)
    BY <2>1 DEF AddressInv, QuoterInv, HoldsQuote
  <2> QED
    BY <2>1, <2>2, AddressMoves
<1>4. CASE QuoteStore
  <2>1. PICK r \in Records : r = quoter.rec
    BY <1>4 DEF QuoteStore, LocalInv
  <2>2. /\ quoter.at = "ask" /\ quoter'.at = "slippage" /\ quoter'.rec = r
        /\ quoter'.to = quotes[r] + 1 /\ address'[r] = quotes[r] + 1
        /\ \A x \in Records : x # r => address'[x] = address[x]
        /\ UNCHANGED <<quoteJob, transferJob, payTo, crashes>>
    BY <1>0, <1>4, <2>1 DEF QuoteStore, QuoterState
  <2>3. QuoterInv'
    BY <2>1, <2>2 DEF AddressInv, QuoterInv
  <2>4. ASSUME crashes = 0
        PROVE  FirstQuote'
    BY <2>1, <2>2, <2>4 DEF AddressInv, QuoterInv, FirstQuote, BeforeQuote, HoldsQuote
  <2> QED
    BY <2>2, <2>3, <2>4 DEF AddressInv
<1>5. CASE QuoteEnqueue \/ QuoteEnqueueUnsure
  <2>1. PICK r \in Records : r = quoter.rec
    BY <1>5 DEF QuoteEnqueue, QuoteEnqueueUnsure, LocalInv
  <2>2. /\ quoter.at = "enqueue" /\ quoter'.at \in {"failed", "done"}
        /\ quoter'.rec = r /\ AddTransfer(r, quoter.to)
        /\ UNCHANGED <<address, quoteJob, crashes>>
    BY <1>0, <1>5, <2>1 DEF QuoteEnqueue, QuoteEnqueueUnsure, QuoterState, Fault
  <2>3. /\ transferJob'[r].state # "absent"
        /\ transferJob[r].state = "absent" => payTo'[r] = quoter.to
        /\ transferJob[r].state # "absent" => payTo'[r] = payTo[r]
        /\ \A x \in Records : x # r =>
             transferJob'[x] = transferJob[x] /\ payTo'[x] = payTo[x]
    BY <1>0, <2>2 DEF AddTransfer, JobAdded, Job
  <2>4. QuoterInv'
    BY <2>1, <2>2 DEF AddressInv, QuoterInv
  <2>5. ASSUME crashes = 0
        PROVE  FirstQuote'
    <3>1. HoldsQuote(r)
      BY <2>1, <2>2 DEF AddressInv, QuoterInv, HoldsQuote
    <3>2. payTo'[r] = address[r]
      BY <2>3, <2>5, <3>1 DEF AddressInv, FirstQuote
    <3> QED
      BY <2>1, <2>2, <2>3, <2>5, <3>2 DEF AddressInv, QuoterInv, FirstQuote,
         BeforeQuote, HoldsQuote
  <2> QED
    BY <2>2, <2>4, <2>5 DEF AddressInv
<1>6. CASE QuoteFinish
  <2>1. PICK r \in Records : r = quoter.rec
    BY <1>6 DEF QuoteFinish, LocalInv
  <2>2. /\ quoter.at = "done" /\ quoter'.at = "idle"
        /\ quoteJob'[r].state = "finished"
        /\ \A x \in Records : x # r => quoteJob'[x] = quoteJob[x]
        /\ UNCHANGED <<address, transferJob, payTo, crashes>>
    BY <1>0, <1>6, <2>1 DEF QuoteFinish, JobFinished, Job, IdleQuoter
  <2>3. QuoterInv'
    BY <2>1, <2>2 DEF AddressInv, QuoterInv
  <2>4. ASSUME crashes = 0
        PROVE  FirstQuote'
    BY <2>1, <2>2, <2>4 DEF AddressInv, QuoterInv, FirstQuote, BeforeQuote, HoldsQuote
  <2> QED
    BY <2>2, <2>3, <2>4 DEF AddressInv
<1> QED
  BY <1>1, <1>2, <1>3, <1>4, <1>5, <1>6 DEF QuoteStep

LEMMA AddressCrash ==
    ASSUME TypeOK, Crash
    PROVE  AddressInv'
<1>1. crashes' # 0
  BY DEF Crash, TypeOK
<1>2. \A r \in Records : quoteJob'[r].state # "active"
  BY DEF Crash, JobAfterCrash, JobFinished, TypeOK, Job
<1>3. quoter'.at = "idle"
  BY DEF Crash, IdleQuoter
<1> QED
  BY <1>1, <1>2, <1>3 DEF AddressInv, QuoterInv

LEMMA AddressKeeps ==
    ASSUME IInv, AddressInv, [Next]_vars
    PROVE  AddressInv'
<1> USE DEF IInv
<1>1. ASSUME UNCHANGED <<address, quoter, payTo, crashes, quoteJob, transferJob>>
      PROVE  AddressInv'
  BY <1>1, AddressFrame DEF JobsKept
<1>2. CASE Outside
  BY <1>1, <1>2 DEF Outside, Create, RetryTimeUp, NearAdvances, recordVars, queueVars,
     bounds
<1>3. ASSUME NEW s \in Scans, ScanStep(s)
      PROVE  AddressInv'
  BY <1>3, ScanJobs, AddressFrame
<1>4. CASE QuoteStep
  BY <1>4, AddressQuote
<1>5. CASE PayStep
  BY <1>5, PayJobs, AddressFrame DEF PaymentInv
<1>6. ASSUME NEW p \in Polls, PollStep(p)
      PROVE  AddressInv'
  BY <1>1, <1>6 DEF PollStep, PollStart, PollAsk, PollNoAnswer, PollApply,
     PollApplyFails, PollEnd, PollElsewhere, queueVars, bounds, Fault
<1>7. CASE Crash
  BY <1>7, AddressCrash
<1>8. CASE UNCHANGED vars
  BY <1>1, <1>8 DEF vars, recordVars, queueVars, bounds
<1> QED
  BY <1>2, <1>3, <1>4, <1>5, <1>6, <1>7, <1>8 DEF Next

(* In every reachable state: while no process has crashed, the record, the *)
(* job and the worker of a rebalancing agree on one deposit address, which *)
(* a single run of its quote job has stored.                               *)
THEOREM AddressInvariant == Spec => []AddressInv
<1>1. IInv /\ AddressInv /\ [Next]_vars => AddressInv'
  BY AddressKeeps
<1> QED
  BY <1>1, AddressInit, InductiveInvariant, PTL DEF Spec

(* Until the process crashes, the poll asks NEAR about the address the BTC *)
(* went to: a quote job runs once and stores one address, the transfer job *)
(* takes that one, and no failing write or stale scan puts another there.  *)
THEOREM PolledIsFunded == Spec => []PolledAddressFunded
<1>1. IInv /\ AddressInv => PolledAddressFunded
  <2>1. SUFFICES ASSUME IInv, AddressInv, crashes = 0,
                        NEW r \in Records, status[r] \in Polled
                 PROVE  address[r] # 0 /\ deposits[r][address[r]] > 0
    BY DEF PolledAddressFunded
  <2>2. PICK a \in Addresses : deposits[r][a] > 0
    BY <2>1 DEF IInv, HandedOverIsFunded, HandedOver, Funded
  <2>3. a = payTo[r] /\ transferJob[r].state # "absent"
    BY <2>1, <2>2 DEF IInv, PaymentInv, PaidByJob
  <2>4. address[r] = a
    BY <2>1, <2>3 DEF AddressInv, FirstQuote
  <2> QED
    BY <2>2, <2>4 DEF Addresses
<1> QED
  BY <1>1, InductiveInvariant, AddressInvariant, PTL

-----------------------------------------------------------------------------
(* A settled record is at rest                                             *)

(* What the theorem about SettledAtRest assumes, as the run that checks it *)
(* does: no crash, no failing write, and no two scans at a time.           *)
Undisturbed ==
    /\ MaxCrashes = 0
    /\ MaxFaults = 0
    /\ \A s, t \in Scans : s = t

(* A scan works through its snapshot record by record.                     *)
SnapshotInv ==
    \A s \in Scans :
        /\ scan[s].at \in {"stuck", "verify", "queue"} =>
             scan[s].rec \notin scan[s].rest
        /\ scan[s].known \subseteq scan[s].rest
        /\ \A r \in scan[s].known : amountKnown[r]

(* Scan s has yet to decide about r, or has r in hand.                     *)
Pending(s, r) ==
    \/ r \in scan[s].rest
    \/ scan[s].at \in {"stuck", "verify"} /\ scan[s].rec = r

Handed(s, r) == Pending(s, r) \/ (scan[s].at = "queue" /\ scan[s].rec = r)

(* Nothing but the scan touches a record before its quote job is added.    *)
UnqueuedInv ==
    \A r \in Records : quoteJob[r].state = "absent" =>
        /\ amountKnown[r] => status[r] = "MEMPOOL_VERIFIED"
        /\ \A s \in Scans :
             /\ Pending(s, r) => status[r] = "PENDING"
             /\ scan[s].at = "queue" /\ scan[s].rec = r =>
                  status[r] = "MEMPOOL_VERIFIED"

(* No job of r will ask for an address any more, and none will pay.        *)
Quiet(r) ==
    /\ \/ quoteJob[r].state \in {"absent", "finished"}
       \/ quoteJob[r].state = "active" /\ quoter.at \in {"failed", "done"}
    /\ transferJob[r].state = "absent" \/ MaySent(r)

(* A record that is new, back in PENDING, settled or in the hands of a     *)
(* scan is quiet.                                                          *)
QuietInv ==
    \A r \in Records :
        \/ status[r] \in {"none", "PENDING"} \cup Settled
        \/ \E s \in Scans : Handed(s, r)
        => Quiet(r)

(* A quote job that failed added no transfer job, and no job stalled.      *)
NoSecondRun ==
    \A r \in Records :
        /\ quoteJob[r].state = "active" /\ quoter.at = "failed" =>
             transferJob[r].state = "absent"
        /\ transferJob[r].stalls = 0

RestInv ==
    /\ AddressInv
    /\ SnapshotInv
    /\ UnqueuedInv
    /\ QuietInv
    /\ NoSecondRun

LEMMA Unfailing ==
    ASSUME Undisturbed, TypeOK
    PROVE  ~Fault /\ ~Crash /\ crashes = 0
BY DEF Undisturbed, TypeOK, Fault, Crash

LEMMA RestInit == Init => RestInv
BY AddressInit DEF Init, RestInv, SnapshotInv, UnqueuedInv, QuietInv, NoSecondRun,
   Pending, Handed, Quiet, IdleScan, IdleQuoter, NoJob

(* Deposits of a record that no job ran twice for: both its jobs are done  *)
(* with it.                                                                *)
LEMMA FundedIsQuiet ==
    ASSUME IInv, RestInv, crashes = 0, NEW r \in Records, Funded(r)
    PROVE  Quiet(r)
<1>1. PICK a \in Addresses : deposits[r][a] > 0
  BY DEF Funded
<1>2. transferJob[r].state # "absent"
  BY <1>1 DEF IInv, PaymentInv, PaidByJob
<1>3. deposits[r][a] <= 0 + (IF MaySent(r) THEN 1 ELSE 0)
  BY DEF IInv, PaymentInv, RunsCounted, RestInv, NoSecondRun
<1>4. MaySent(r)
  BY <1>1, <1>3 DEF IInv, TypeOK
<1>5. quoteJob[r] \in Job /\ quoter \in QuoterState
  BY DEF IInv, TypeOK
<1>6. ~BeforeQuote(r) /\ ~HoldsQuote(r)
  BY <1>2 DEF RestInv, AddressInv, FirstQuote
<1>7. quoteJob[r].state = "active" => quoter.at \in {"failed", "done"}
  BY <1>5, <1>6 DEF BeforeQuote, HoldsQuote, QuoterState, RestInv, AddressInv, QuoterInv
<1>8. quoteJob[r].state \in {"absent", "finished", "active"}
  BY <1>5, <1>6 DEF BeforeQuote, Job, JobStates
<1> QED
  BY <1>4, <1>7, <1>8 DEF Quiet

(* What a step that is not the scan's may do to a record.                  *)
Gentle ==
    \A r \in Records :
        /\ quoteJob'[r].state = "absent" =>
             /\ quoteJob[r].state = "absent"
             /\ status'[r] = status[r] \/ status[r] = "none"
        /\ Quiet(r) => Quiet(r)'
        /\ \/ status'[r] = status[r]
           \/ status'[r] \notin {"none", "PENDING"} \cup Settled
           \/ Quiet(r)'

LEMMA GentleKeeps ==
    ASSUME TypeOK, SnapshotInv, UnqueuedInv, QuietInv, Gentle,
           UNCHANGED <<scan, amountKnown>>
    PROVE  SnapshotInv' /\ UnqueuedInv' /\ QuietInv'
<1>1. SnapshotInv'
  BY DEF SnapshotInv
<1>2. UnqueuedInv'
  BY DEF UnqueuedInv, Pending, Gentle
<1>3. \A s \in Scans, r \in Records : Handed(s, r)' <=> Handed(s, r)
  BY DEF Handed, Pending
<1>4. QuietInv'
  BY <1>3 DEF QuietInv, Gentle
<1> QED
  BY <1>1, <1>2, <1>4

LEMMA RestOutside ==
    ASSUME IInv, RestInv, Outside
    PROVE  SnapshotInv' /\ UnqueuedInv' /\ QuietInv' /\ NoSecondRun'
<1>1. UNCHANGED <<scan, amountKnown, quoteJob, transferJob, quoter, payer>>
  BY DEF Outside, Create, RetryTimeUp, NearAdvances, recordVars, queueVars
<1>2. \A r \in Records : Quiet(r)' <=> Quiet(r)
  BY <1>1 DEF Quiet, MaySent
<1>3. \A r \in Records : status'[r] = status[r] \/ status[r] = "none"
  BY DEF Outside, Create, RetryTimeUp, NearAdvances, recordVars, UpdateStatus, IInv,
     TypeOK
<1>4. \A r \in Records : status[r] = "none" => Quiet(r)
  BY DEF RestInv, QuietInv
<1>5. Gentle
  BY <1>1, <1>2, <1>3, <1>4 DEF Gentle
<1> QED
  BY <1>1, <1>5, GentleKeeps DEF IInv, RestInv, NoSecondRun

LEMMA RestPay ==
    ASSUME IInv, RestInv, crashes = 0, PayStep
    PROVE  SnapshotInv' /\ UnqueuedInv' /\ QuietInv' /\ NoSecondRun'
<1> USE DEF PayerElsewhere, PayerGoesTo, UpdateStatus
<1>0. /\ payer \in PayerState /\ transferJob \in [Records -> Job]
      /\ status \in [Records -> Statuses \cup {"none"}]
      /\ TypeOK /\ PayerInv
  BY DEF IInv, TypeOK, PaymentInv
<1>1. UNCHANGED <<scan, amountKnown, quoteJob, quoter>> /\ JobsKept
  BY <1>0, PayJobs
<1>2. \A r \in Records : status'[r] = status[r] \/
          /\ status'[r] \in {"DEPOSIT_SUBMITTED", "QUOTE_ACCEPTED"}
          /\ transferJob[r].state = "active"
  BY <1>0 DEF PayerInv, PayStep, PayTake, PayLoad, PaySend, PaySendFails, PaySendUnsure,
     PayRecord, PayError, PayFailure, PayFailureLost, PayFinish
<1>3. \A r \in Records : transferJob[r].state = "active" => quoteJob[r].state # "absent"
  BY DEF RestInv, AddressInv, FirstQuote, BeforeQuote
<1>4. \A r \in Records : MaySent(r) => MaySent(r)'
  <2>1. ASSUME NEW x \in Records, PayTake(x)
        PROVE  \A r \in Records : MaySent(r) => MaySent(r)'
    BY <1>0, <2>1 DEF PayTake, MaySent, PayerInv
  <2>2. CASE PayFinish
    BY <1>0, <2>2 DEF PayFinish, MaySent, PayerInv, JobFinished, Job
  <2>3. CASE PayLoad \/ PaySend \/ PaySendFails \/ PaySendUnsure \/ PayRecord
               \/ PayError \/ PayFailure \/ PayFailureLost
    BY <1>0, <2>3 DEF PayLoad, PaySend, PaySendFails, PaySendUnsure, PayRecord,
       PayError, PayFailure, PayFailureLost, MaySent, PayerState
  <2> QED
    BY <2>1, <2>2, <2>3 DEF PayStep
<1>5. \A r \in Records : Quiet(r) => Quiet(r)'
  BY <1>1, <1>4 DEF Quiet, JobsKept
<1>6. Gentle
  BY <1>1, <1>2, <1>3, <1>5 DEF Gentle, Settled
<1>7. \A r \in Records : transferJob'[r].stalls = transferJob[r].stalls
  BY <1>0 DEF PayStep, PayTake, PayLoad, PaySend, PaySendFails, PaySendUnsure,
     PayRecord, PayError, PayFailure, PayFailureLost, PayFinish, JobTaken, JobFinished,
     Job
<1>8. NoSecondRun'
  BY <1>1, <1>7 DEF RestInv, NoSecondRun, JobsKept
<1> QED
  BY <1>0, <1>1, <1>6, <1>8, GentleKeeps DEF RestInv

LEMMA RestPoll ==
    ASSUME IInv, RestInv, crashes = 0, NEW p \in Polls, PollStep(p)
    PROVE  SnapshotInv' /\ UnqueuedInv' /\ QuietInv' /\ NoSecondRun'
<1>1. UNCHANGED <<scan, amountKnown, quoteJob, transferJob, quoter, payer>>
  BY DEF PollStep, PollStart, PollAsk, PollNoAnswer, PollApply, PollApplyFails, PollEnd,
     PollElsewhere, queueVars
<1>2. \A r \in Records : Quiet(r)' <=> Quiet(r)
  BY <1>1 DEF Quiet, MaySent
<1>3. \A r \in Records : status'[r] # status[r] => Funded(r)
  BY PollEffect DEF IInv
<1>4. \A r \in Records : Funded(r) => Quiet(r) /\ quoteJob[r].state # "absent"
  <2>1. \A r \in Records : Funded(r) => transferJob[r].state # "absent"
    BY DEF Funded, IInv, PaymentInv, PaidByJob
  <2> QED
    BY <2>1, FundedIsQuiet DEF RestInv, AddressInv, FirstQuote, BeforeQuote
<1>5. Gentle
  BY <1>1, <1>2, <1>3, <1>4 DEF Gentle
<1> QED
  BY <1>1, <1>5, GentleKeeps DEF IInv, RestInv, NoSecondRun

LEMMA ScanGoesToFields ==
    ASSUME scan \in [Scans -> ScanState], NEW s \in Scans,
           NEW at \in {"loop", "queue"}, ScanGoesTo(s, at)
    PROVE  /\ scan'[s].at = at
           /\ scan'[s].rest = scan[s].rest /\ scan'[s].known = scan[s].known
           /\ at = "queue" => scan'[s].rec = scan[s].rec
<1> DEFINE sc == scan[s]
           new == [sc EXCEPT !.at = at,
                             !.rec = IF at = "loop" THEN NoRecord ELSE sc.rec]
<1>1. scan' = [scan EXCEPT ![s] = new]
  BY DEF ScanGoesTo
<1>2. /\ new.at = at /\ new.rest = sc.rest /\ new.known = sc.known
      /\ at = "queue" => new.rec = sc.rec
  BY DEF ScanState
<1> HIDE DEF new
<1> QED
  BY <1>1, <1>2

(* The only scan takes records that are quiet, and leaves a record whose   *)
(* quote job it adds in MEMPOOL_VERIFIED.                                  *)
LEMMA RestScan ==
    ASSUME Undisturbed, IInv, RestInv, NEW s \in Scans, ScanStep(s)
    PROVE  SnapshotInv' /\ UnqueuedInv' /\ QuietInv' /\ NoSecondRun'
<1> DEFINE Goal == SnapshotInv' /\ UnqueuedInv' /\ QuietInv'
<1> USE DEF ScanElsewhere, recordVars, queueVars
<1>0. /\ scan \in [Scans -> ScanState] /\ status \in [Records -> Statuses \cup {"none"}]
      /\ amountKnown \in [Records -> BOOLEAN] /\ quoteJob \in [Records -> Job]
      /\ \A t \in Scans : t = s
      /\ ~Fault
      /\ scan[s].at \in {"stuck", "verify", "queue"} => scan[s].rec \in Records
  BY Unfailing DEF IInv, TypeOK, Undisturbed, LocalInv
<1>a. UNCHANGED <<transferJob, quoter, payer>>
  BY ScanEffect DEF IInv
<1>b. UNCHANGED quoteJob => \A r \in Records : Quiet(r)' <=> Quiet(r)
  BY <1>a DEF Quiet, MaySent
<1>c. /\ scan[s].at \in {"stuck", "verify", "queue"} => scan[s].rec \notin scan[s].rest
      /\ scan[s].known \subseteq scan[s].rest
      /\ \A r \in scan[s].known : amountKnown[r]
  BY DEF RestInv, SnapshotInv
<1>d. \A r \in Records : quoteJob[r].state = "absent" =>
        /\ amountKnown[r] => status[r] = "MEMPOOL_VERIFIED"
        /\ Pending(s, r) => status[r] = "PENDING"
        /\ scan[s].at = "queue" /\ scan[s].rec = r => status[r] = "MEMPOOL_VERIFIED"
  BY DEF RestInv, UnqueuedInv
<1>e. \A r \in Records :
        status[r] \in {"none", "PENDING"} \cup Settled \/ Handed(s, r) => Quiet(r)
  BY DEF RestInv, QuietInv
<1>f. NoSecondRun'
  <2>1. \A r \in Records : quoteJob'[r].state = "active" => quoteJob[r].state = "active"
    BY ScanJobs DEF IInv, JobsKept
  <2> QED
    BY <1>a, <2>1 DEF RestInv, NoSecondRun
<1>g. ASSUME /\ scan'[s].at \in {"stuck", "verify", "queue"} =>
                  scan'[s].rec \notin scan'[s].rest
             /\ scan'[s].known \subseteq scan'[s].rest
             /\ \A r \in scan'[s].known : amountKnown'[r],
             NEW r \in Records
      PROVE  SnapshotInv'
  BY <1>0, <1>g DEF SnapshotInv
<1>h. ASSUME \A r \in Records : quoteJob'[r].state = "absent" =>
               /\ amountKnown'[r] => status'[r] = "MEMPOOL_VERIFIED"
               /\ Pending(s, r)' => status'[r] = "PENDING"
               /\ scan'[s].at = "queue" /\ scan'[s].rec = r =>
                    status'[r] = "MEMPOOL_VERIFIED"
      PROVE  UnqueuedInv'
  BY <1>0, <1>h DEF UnqueuedInv, Pending
<1>i. ASSUME \A r \in Records :
               status'[r] \in {"none", "PENDING"} \cup Settled \/ Handed(s, r)'
                 => Quiet(r)'
      PROVE  QuietInv'
  BY <1>0, <1>i DEF QuietInv, Handed, Pending
<1>1. ASSUME ScanStart(s)
      PROVE  Goal
  BY <1>0, <1>b, <1>d, <1>e, <1>h, <1>i, <1>1 DEF ScanStart, Pending, Handed, SnapshotInv
<1>2. ASSUME NEW r \in Records, ScanPick(s, r)
      PROVE  Goal
  <2>1. /\ r \in scan[s].rest
        /\ scan'[s].at \in {"stuck", "verify", "queue"}
        /\ scan'[s].at = "queue" => r \in scan[s].known
        /\ scan'[s].rest = scan[s].rest \ {r} /\ scan'[s].known = scan[s].known \ {r}
        /\ scan'[s].rec = r
        /\ UNCHANGED <<status, amountKnown, quoteJob>>
    BY <1>0, <1>2 DEF ScanPick
  <2>2. SnapshotInv'
    BY <1>0, <1>c, <2>1 DEF SnapshotInv
  <2>3. UnqueuedInv'
    BY <1>c, <1>d, <1>h, <2>1 DEF Pending
  <2>4. QuietInv'
    BY <1>b, <1>e, <1>i, <2>1 DEF Pending, Handed
  <2> QED
    BY <2>2, <2>3, <2>4
<1>3. ASSUME ScanMarkStuck(s)
      PROVE  Goal
  <2>1. /\ scan[s].at = "stuck" /\ scan'[s].at = "loop"
        /\ scan'[s].rest = scan[s].rest /\ scan'[s].known = scan[s].known
        /\ status' = [status EXCEPT ![scan[s].rec] = "STUCK"]
        /\ UNCHANGED <<amountKnown, quoteJob>>
    BY <1>0, <1>3, ScanGoesToFields DEF ScanMarkStuck, UpdateStatus
  <2>2. SnapshotInv'
    BY <1>0, <1>c, <2>1 DEF SnapshotInv
  <2>3. UnqueuedInv'
    BY <1>0, <1>c, <1>d, <1>h, <2>1 DEF Pending
  <2>4. QuietInv'
    BY <1>0, <1>b, <1>c, <1>e, <1>i, <2>1 DEF Pending, Handed
  <2> QED
    BY <2>2, <2>3, <2>4
<1>4. ASSUME ScanVerify(s)
      PROVE  Goal
  <2>1. /\ scan[s].at = "verify" /\ scan'[s].at = "queue"
        /\ scan'[s].rest = scan[s].rest /\ scan'[s].known = scan[s].known
        /\ scan'[s].rec = scan[s].rec
        /\ status' = [status EXCEPT ![scan[s].rec] = "MEMPOOL_VERIFIED"]
        /\ amountKnown' = [amountKnown EXCEPT ![scan[s].rec] = TRUE]
        /\ UNCHANGED quoteJob
    BY <1>0, <1>4, ScanGoesToFields DEF ScanVerify, UpdateStatus
  <2>2. SnapshotInv'
    <3>1. \A r \in scan[s].known : amountKnown'[r]
      BY <1>0, <1>c, <2>1 DEF ScanState
    <3> QED
      BY <1>0, <1>c, <2>1, <3>1 DEF SnapshotInv
  <2>3. UnqueuedInv'
    BY <1>0, <1>c, <1>d, <1>h, <2>1 DEF Pending
  <2>4. QuietInv'
    BY <1>0, <1>b, <1>c, <1>e, <1>i, <2>1 DEF Pending, Handed, Settled
  <2> QED
    BY <2>2, <2>3, <2>4
<1>5. ASSUME ScanUnconfirmed(s)
      PROVE  Goal
  <2>1. /\ scan'[s].at = "loop"
        /\ scan'[s].rest = scan[s].rest /\ scan'[s].known = scan[s].known
        /\ UNCHANGED <<status, amountKnown, quoteJob>>
    BY <1>0, <1>5, ScanGoesToFields DEF ScanUnconfirmed
  <2>2. SnapshotInv'
    BY <1>0, <1>c, <2>1 DEF SnapshotInv
  <2>3. UnqueuedInv'
    BY <1>d, <1>h, <2>1 DEF Pending
  <2>4. QuietInv'
    BY <1>b, <1>e, <1>i, <2>1 DEF Pending, Handed
  <2> QED
    BY <2>2, <2>3, <2>4
<1>6. ASSUME ScanQueue(s)
      PROVE  Goal
  <2> DEFINE q == scan[s].rec
  <2>1. /\ scan[s].at = "queue" /\ scan'[s].at = "loop" /\ q \in Records
        /\ scan'[s].rest = scan[s].rest /\ scan'[s].known = scan[s].known
        /\ quoteJob'[q] = JobAdded(quoteJob[q])
        /\ \A r \in Records : r # q => quoteJob'[r] = quoteJob[r]
        /\ UNCHANGED <<status, amountKnown>>
    BY <1>0, <1>6, ScanGoesToFields DEF ScanQueue
  <2>2. /\ quoteJob[q].state = "absent" => quoteJob'[q].state = "waiting"
        /\ quoteJob[q].state # "absent" => quoteJob'[q] = quoteJob[q]
    BY <1>0, <2>1 DEF JobAdded, Job
  <2>3. SnapshotInv'
    BY <1>0, <1>c, <2>1 DEF SnapshotInv
  <2>4. UnqueuedInv'
    BY <1>d, <1>h, <2>1, <2>2 DEF Pending
  <2>5. \A r \in Records : r # q \/ quoteJob[q].state # "absent" => (Quiet(r)' <=> Quiet(r))
    BY <1>a, <2>1, <2>2 DEF Quiet, MaySent
  <2>6. q \notin scan'[s].rest
    BY <1>c, <2>1
  <2>7. quoteJob[q].state = "absent" => status[q] \notin {"none", "PENDING"} \cup Settled
    BY <1>d, <2>1 DEF Settled
  <2>8. QuietInv'
    BY <1>e, <1>i, <2>1, <2>5, <2>6, <2>7 DEF Pending, Handed
  <2> QED
    BY <2>3, <2>4, <2>8
<1>7. ASSUME ScanEnd(s)
      PROVE  Goal
  <2>1. /\ scan'[s] = IdleScan
        /\ UNCHANGED <<status, amountKnown, quoteJob>>
    BY <1>0, <1>7 DEF ScanEnd
  <2>2. SnapshotInv'
    BY <1>0, <2>1 DEF SnapshotInv, IdleScan
  <2>3. UnqueuedInv'
    BY <1>d, <1>h, <2>1 DEF Pending, IdleScan
  <2>4. QuietInv'
    BY <1>b, <1>e, <1>i, <2>1 DEF Pending, Handed, IdleScan
  <2> QED
    BY <2>2, <2>3, <2>4
<1> QED
  BY <1>0, <1>f, <1>1, <1>2, <1>3, <1>4, <1>5, <1>6, <1>7
     DEF ScanStep, ScanMarkStuckFails, ScanFails

(* The quote worker leaves a record in PENDING only when it is done with   *)
(* it, and hands a transfer job on only for one that is not quiet.         *)
LEMMA RestQuote ==
    ASSUME Undisturbed, IInv, RestInv, QuoteStep
    PROVE  SnapshotInv' /\ UnqueuedInv' /\ QuietInv' /\ NoSecondRun'
<1> DEFINE Goal == Gentle /\ NoSecondRun'
<1> USE DEF QuoterElsewhere, QuoterGoesTo, UpdateStatus, recordVars, queueVars
<1>0. /\ quoter \in QuoterState /\ quoteJob \in [Records -> Job]
      /\ transferJob \in [Records -> Job]
      /\ status \in [Records -> Statuses \cup {"none"}]
      /\ ~Fault /\ FirstQuote /\ QuoterInv /\ NoSecondRun
  BY Unfailing DEF IInv, TypeOK, RestInv, AddressInv
<1>1. UNCHANGED <<scan, amountKnown, payer>>
  BY DEF QuoteStep, QuoteTake, QuoteLoad, QuoteUnavailable, QuoteStore, QuoteMeasure,
     QuoteReject, QuoteAccept, QuoteEnqueue, QuoteEnqueueUnsure, QuoteError,
     QuoteFailure, QuoteFailureLost, QuoteFinish
<1>2. ASSUME NEW r \in Records, QuoteTake(r)
      PROVE  Goal
  <2>1. /\ quoter.at = "idle" /\ quoteJob[r].state = "waiting"
        /\ quoter'.at = "load" /\ quoteJob'[r].state = "active"
        /\ \A x \in Records : x # r => quoteJob'[x] = quoteJob[x]
        /\ UNCHANGED <<status, transferJob>>
    BY <1>0, <1>2 DEF QuoteTake, JobTaken, Job
  <2> QED
    BY <1>0, <1>1, <2>1 DEF Gentle, NoSecondRun, Quiet, MaySent, QuoterInv
<1>3. ASSUME QuoteFinish
      PROVE  Goal
  <2>1. PICK r \in Records : r = quoter.rec
    BY <1>0, <1>3 DEF QuoteFinish, QuoterInv
  <2>2. /\ quoteJob[r].state = "active" /\ quoteJob'[r].state = "finished"
        /\ quoter'.at = "idle" /\ quoter.at = "done"
        /\ \A x \in Records : x # r => quoteJob'[x] = quoteJob[x]
        /\ UNCHANGED <<status, transferJob>>
    BY <1>0, <1>3, <2>1 DEF QuoteFinish, JobFinished, Job, IdleQuoter, QuoterInv
  <2> QED
    BY <1>0, <1>1, <2>1, <2>2 DEF Gentle, NoSecondRun, Quiet, MaySent, QuoterInv
<1>4. ASSUME QuoteEnqueue
      PROVE  Goal
  <2>1. PICK r \in Records : r = quoter.rec
    BY <1>0, <1>4 DEF QuoteEnqueue, QuoterInv
  <2>2. /\ quoter.at = "enqueue" /\ quoter'.at = "done"
        /\ quoteJob[r].state = "active"
        /\ AddTransfer(r, quoter.to) /\ UNCHANGED <<status, quoteJob>>
    BY <1>0, <1>4, <2>1 DEF QuoteEnqueue, QuoterState, QuoterInv
  <2>3. /\ transferJob'[r].stalls = transferJob[r].stalls
        /\ \A x \in Records : x # r => transferJob'[x] = transferJob[x]
    BY <1>0, <2>2 DEF AddTransfer, JobAdded, Job
  <2>4. ~Quiet(r)
    BY <2>2 DEF Quiet
  <2>5. \A x \in Records : x # r => (Quiet(x) => Quiet(x)')
    BY <1>0, <1>1, <2>1, <2>2, <2>3 DEF Quiet, MaySent, QuoterInv
  <2> QED
    BY <1>0, <1>1, <2>2, <2>3, <2>4, <2>5 DEF Gentle, NoSecondRun
<1>5. ASSUME NEW r \in Records, r = quoter.rec, quoter.at # "idle",
             UNCHANGED <<quoteJob, transferJob>>,
             \A x \in Records : x # r => status'[x] = status[x],
             \/ status'[r] = status[r]
             \/ status'[r] \in {"QUOTE_REQUESTED", "QUOTE_ACCEPTED"}
             \/ quoter'.at = "done" /\ transferJob[r].state = "absent",
             quoter.at \in {"failed", "done"} => quoter'.at \in {"failed", "done"},
             quoter'.at = "failed" => transferJob[r].state = "absent"
      PROVE  Goal
  <2>1. quoteJob[r].state = "active"
    BY <1>0, <1>5 DEF QuoterInv
  <2>2. \A x \in Records : x # r => quoteJob[x].state # "active"
    BY <1>0, <1>5 DEF QuoterInv
  <2>3. \A x \in Records : Quiet(x) => Quiet(x)'
    BY <1>1, <1>5, <2>2 DEF Quiet, MaySent
  <2>4. \/ status'[r] = status[r]
        \/ status'[r] \notin {"none", "PENDING"} \cup Settled
        \/ Quiet(r)'
    BY <1>5, <2>1 DEF Quiet, Settled
  <2>5. Gentle
    BY <1>5, <2>1, <2>3, <2>4 DEF Gentle
  <2>6. NoSecondRun'
    BY <1>0, <1>5, <2>2 DEF NoSecondRun
  <2> QED
    BY <2>5, <2>6
<1>6. ASSUME \/ QuoteLoad \/ QuoteUnavailable \/ QuoteStore \/ QuoteMeasure
             \/ QuoteReject \/ QuoteAccept \/ QuoteFailure
      PROVE  Goal
  <2>1. PICK r \in Records : r = quoter.rec
    BY <1>0, <1>6 DEF QuoteLoad, QuoteUnavailable, QuoteStore, QuoteMeasure,
       QuoteReject, QuoteAccept, QuoteFailure, QuoterInv
  <2>2. quoter.at # "idle" /\ quoter.at # "done" /\ UNCHANGED <<quoteJob, transferJob>>
    BY <1>6 DEF QuoteLoad, QuoteUnavailable, QuoteStore, QuoteMeasure, QuoteReject,
       QuoteAccept, QuoteFailure
  <2>3. quoter.at \in {"ask", "slippage", "reject", "failed"} =>
          transferJob[r].state = "absent"
    BY <1>0, <2>1, <2>2 DEF FirstQuote, BeforeQuote, HoldsQuote, NoSecondRun, QuoterInv
  <2>4. \A x \in Records : x # r => status'[x] = status[x]
    BY <1>0, <1>6, <2>1 DEF QuoteLoad, QuoteUnavailable, QuoteStore, QuoteMeasure,
       QuoteReject, QuoteAccept, QuoteFailure
  <2>5. /\ \/ status'[r] = status[r]
           \/ status'[r] \in {"QUOTE_REQUESTED", "QUOTE_ACCEPTED"}
           \/ quoter'.at = "done" /\ quoter.at \in {"reject", "failed"}
        /\ quoter.at = "failed" => quoter'.at = "done"
        /\ quoter'.at = "failed" => quoter.at \in {"ask", "slippage"}
    BY <1>0, <1>6, <2>1 DEF QuoteLoad, QuoteUnavailable, QuoteStore, QuoteMeasure,
       QuoteReject, QuoteAccept, QuoteFailure, QuoterState
  <2> QED
    BY <1>5, <2>1, <2>2, <2>3, <2>4, <2>5
<1>7. Goal
  BY <1>0, <1>2, <1>3, <1>4, <1>6 DEF QuoteStep, QuoteEnqueueUnsure, QuoteError,
     QuoteFailureLost
<1> QED
  BY <1>1, <1>7, GentleKeeps DEF IInv, RestInv

LEMMA RestKeeps ==
    ASSUME Undisturbed, IInv, RestInv, [Next]_vars
    PROVE  RestInv'
<1>0. crashes = 0 /\ ~Crash
  BY Unfailing DEF IInv
<1>1. AddressInv'
  BY AddressKeeps DEF RestInv
<1>2. CASE UNCHANGED vars
  <2>1. UNCHANGED <<status, amountKnown, quoteJob, transferJob, scan, quoter, payer>>
    BY <1>2 DEF vars, recordVars, queueVars
  <2>2. \A r \in Records : Quiet(r)' <=> Quiet(r)
    BY <2>1 DEF Quiet, MaySent
  <2>3. Gentle
    BY <2>1, <2>2 DEF Gentle
  <2> QED
    BY <1>1, <2>1, <2>3, GentleKeeps DEF IInv, RestInv, NoSecondRun
<1> QED
  BY <1>0, <1>1, <1>2, RestOutside, RestScan, RestQuote, RestPay, RestPoll
     DEF Next, RestInv

(* Asking for an address and sending BTC are steps for a record that is    *)
(* not quiet.                                                              *)
LEMMA QuietRests ==
    ASSUME IInv, RestInv, Undisturbed, [Next]_vars,
           NEW r \in Records, status[r] \in Settled
    PROVE  quotes'[r] = quotes[r] /\ deposits'[r] = deposits[r]
<1>0. /\ Quiet(r) /\ ~Crash
      /\ quotes \in [Records -> 0 .. MaxQuotes]
      /\ QuoterInv /\ PayerInv
  BY Unfailing DEF RestInv, QuietInv, AddressInv, IInv, TypeOK, PaymentInv
<1>1. CASE QuoteStep
  <2>1. ~(quoter.at = "ask" /\ quoter.rec = r)
    BY <1>0 DEF Quiet, QuoterInv
  <2>2. deposits' = deposits
    BY <1>1, QuoteEffect DEF IInv
  <2>3. CASE QuoteStore
    BY <1>0, <2>1, <2>2, <2>3 DEF QuoteStore
  <2>4. CASE ~QuoteStore
    BY <1>1, <2>2, <2>4 DEF QuoteStep, QuoteTake, QuoteLoad, QuoteUnavailable,
       QuoteMeasure, QuoteReject, QuoteAccept, QuoteEnqueue, QuoteEnqueueUnsure,
       QuoteError, QuoteFailure, QuoteFailureLost, QuoteFinish
  <2> QED
    BY <2>3, <2>4
<1>2. CASE PayStep
  <2>1. ~(payer.at = "send" /\ payer.rec = r)
    BY <1>0 DEF Quiet, MaySent, PayerInv
  <2>2. quotes' = quotes
    BY <1>2, PayJobs DEF IInv, PaymentInv
  <2>3. CASE PaySend \/ PaySendUnsure
    BY <2>1, <2>2, <2>3 DEF PaySend, PaySendUnsure, Broadcast, IInv, TypeOK
  <2>4. CASE ~(PaySend \/ PaySendUnsure)
    BY <1>2, <2>2, <2>4 DEF PayStep, PayTake, PayLoad, PaySendFails, PayRecord,
       PayError, PayFailure, PayFailureLost, PayFinish
  <2> QED
    BY <2>3, <2>4
<1>3. CASE Outside
  BY <1>3 DEF Outside, Create, RetryTimeUp, NearAdvances, outside
<1>4. ASSUME NEW s \in Scans, ScanStep(s)
      PROVE  UNCHANGED <<quotes, deposits>>
  BY <1>4 DEF ScanStep, ScanStart, ScanPick, ScanMarkStuck, ScanMarkStuckFails,
     ScanVerify, ScanUnconfirmed, ScanQueue, ScanFails, ScanEnd, ScanElsewhere, outside
<1>5. ASSUME NEW p \in Polls, PollStep(p)
      PROVE  UNCHANGED <<quotes, deposits>>
  BY <1>5 DEF PollStep, PollStart, PollAsk, PollNoAnswer, PollApply, PollApplyFails,
     PollEnd, PollElsewhere, outside
<1>6. CASE UNCHANGED vars
  BY <1>6 DEF vars, outside
<1> QED
  BY <1>0, <1>1, <1>2, <1>3, <1>4, <1>5, <1>6 DEF Next

(* While no two scans overlap, nothing fails to be written and the process *)
(* does not crash, no deposit address is asked for and no BTC leaves for a *)
(* record that is completed, refunded or stuck.  Each of the three is      *)
(* needed: a second scan reports as stuck what the first has queued.       *)
THEOREM SettledRests ==
    ASSUME Undisturbed
    PROVE  Spec => SettledAtRest
<1>1. IInv /\ RestInv /\ [Next]_vars => RestInv'
  BY RestKeeps
<1>2. ASSUME IInv, RestInv, [Next]_vars
      PROVE  \A r \in Records : status[r] \in Settled =>
               quotes'[r] = quotes[r] /\ deposits'[r] = deposits[r]
  BY <1>2, QuietRests
<1> QED
  BY <1>1, <1>2, RestInit, InductiveInvariant, PTL DEF Spec, SettledAtRest
=============================================================================
