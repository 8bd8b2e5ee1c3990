-------------------------- MODULE SettlementMonitor --------------------------
(***************************************************************************)
(* SettlementMonitorScheduler.monitorSettlingTrades: every ten minutes it  *)
(* takes the lending trades in SETTLING, asks the SDK what became of them  *)
(* on chain, completes or fails their rows, and creates the rebalancing    *)
(* record of a completed one.  The row is completed first and the record   *)
(* created afterwards, in two more queries; runs may overlap, and the HTTP *)
(* handlers (module Settlement) write the same rows meanwhile.  The record *)
(* created here is the one module Rebalancing starts from (Create).        *)
(***************************************************************************)
EXTENDS Naturals, Sequences, FiniteSets, Functions

CONSTANTS
    Trades,
    Lending,        \* the trades of type lending
    Runs,           \* invocations of monitorSettlingTrades under way
    MaxTake,        \* bound: trades a run takes at most (50 in the code)
    MaxQuotes,      \* bound: quotes of all trades together
    MaxCrashes,     \* bound: crashes of the process
    MaxFaults,      \* bound: calls that throw, or take effect and throw
    NoTrade

ASSUME MonitorAssumption ==
    /\ NoTrade \notin Trades
    /\ Lending \subseteq Trades
    /\ IsFiniteSet(Trades) /\ IsFiniteSet(Runs)
    /\ MaxTake \in Nat \ {0}
    /\ MaxQuotes \in Nat /\ MaxCrashes \in Nat /\ MaxFaults \in Nat

VARIABLES
    take,           \* how many trades a run takes at most
    row,            \* status of the trade's row, "absent" when there is none
    createdAt,      \* when the row was created, in quotes
    old,            \* the row was created more than three days ago
    chain,          \* what the SDK says of the trade
    record,         \* there is a rebalancing record with this tradeHash
    run,            \* local state of each invocation
    completed,      \* history: trades whose row a run has set to COMPLETED
    quotes, crashes, faults

rows   == <<row, createdAt, old>>
bounds == <<crashes, faults>>
vars == <<take, rows, chain, record, run, completed, quotes, bounds>>

(* QUOTE stands for every status from PENDING to SELECTED.                 *)
Rows == {"absent", "QUOTE", "SETTLING", "COMPLETED", "FAILED"}

(* The SDK's status: SETTLEMENT_CONFIRMED, with the release transaction in *)
(* the ConfirmSettlement event or without, REFUNDED, or any other.         *)
ChainStates == {"open", "released", "confirmed", "refunded"}

IdleRun == [at |-> "idle", rest |-> <<>>, trade |-> NoTrade, released |-> FALSE]

Init ==
    /\ take \in 1 .. MaxTake
    /\ row = [t \in Trades |-> "absent"]
    /\ createdAt = [t \in Trades |-> 0]
    /\ old = [t \in Trades |-> FALSE]
    /\ chain = [t \in Trades |-> "open"]
    /\ record = [t \in Trades |-> FALSE]
    /\ run = [m \in Runs |-> IdleRun]
    /\ completed = {}
    /\ quotes = 0
    /\ crashes = 0
    /\ faults = 0

Fault ==
    /\ faults < MaxFaults
    /\ faults' = faults + 1
    /\ UNCHANGED crashes

-----------------------------------------------------------------------------
(* What the HTTP handlers, time and the chain do meanwhile                 *)

(* A new quote deletes the row, whatever its status, and creates it again. *)
QuoteDeletes(t) ==
    /\ row[t] # "absent"
    /\ quotes < MaxQuotes
    /\ row' = [row EXCEPT ![t] = "absent"]
    /\ createdAt' = [createdAt EXCEPT ![t] = 0]
    /\ old' = [old EXCEPT ![t] = FALSE]
    /\ UNCHANGED <<take, chain, record, run, completed, quotes, bounds>>

QuoteCreates(t) ==
    /\ row[t] = "absent"
    /\ quotes < MaxQuotes
    /\ quotes' = quotes + 1
    /\ row' = [row EXCEPT ![t] = "QUOTE"]
    /\ createdAt' = [createdAt EXCEPT ![t] = quotes']
    /\ UNCHANGED <<take, old, chain, record, run, completed, bounds>>

(* signalPayment writes SETTLING; a second signal may do so late, over a   *)
(* status that another handler or a run has written since.                 *)
Signal(t) ==
    /\ row[t] \notin {"absent", "SETTLING"}
    /\ row' = [row EXCEPT ![t] = "SETTLING"]
    /\ UNCHANGED <<take, createdAt, old, chain, record, run, completed, quotes, bounds>>

ThreeDaysPass(t) ==
    /\ row[t] # "absent" /\ ~old[t]
    /\ old' = [old EXCEPT ![t] = TRUE]
    /\ UNCHANGED <<take, row, createdAt, chain, record, run, completed, quotes, bounds>>

ChainSettles(t) ==
    /\ chain[t] = "open"
    /\ \E c \in ChainStates \ {"open"} : chain' = [chain EXCEPT ![t] = c]
    /\ UNCHANGED <<take, rows, record, run, completed, quotes, bounds>>

-----------------------------------------------------------------------------
(* monitorSettlingTrades, invocation m                                     *)

Elsewhere == UNCHANGED <<take, createdAt, old, chain, quotes>>

GoesTo(m, at) == run' = [run EXCEPT ![m].at = at]

(* Mutation: the loop goes on with the old trade still in hand.            *)
GoesOnHolding(m) == run' = [run EXCEPT ![m].at = "loop"]

(* The next trade of the loop: every catch ends here, too.                 *)
GoesOn(m) ==
    run' = [run EXCEPT ![m] = [IdleRun EXCEPT !.at = "loop", !.rest = run[m].rest]]

(* findSettlingTrades: lending, younger than three days, the oldest first. *)
Settling == {t \in Lending : row[t] = "SETTLING" /\ ~old[t]}

Snapshots ==
    LET n == IF Cardinality(Settling) < take THEN Cardinality(Settling) ELSE take IN
    {s \in [1 .. n -> Settling] :
        /\ \A i, j \in 1 .. n : i < j => createdAt[s[i]] < createdAt[s[j]]
        /\ \A t \in Settling \ Range(s), i \in 1 .. n : createdAt[s[i]] < createdAt[t]}

Start(m) ==
    /\ run[m].at = "idle"
    /\ Settling # {}
    /\ \E s \in Snapshots :
         run' = [run EXCEPT ![m] = [IdleRun EXCEPT !.at = "loop", !.rest = s]]
    /\ UNCHANGED <<row, record, completed, bounds>> /\ Elsewhere

(* Mutation: a confirmed trade is taken to have been released.             *)
AskConfirmedIsReleased(m) ==
    /\ run[m].at = "loop" /\ run[m].rest # <<>>
    /\ LET t == Head(run[m].rest)
           confirmed == chain[t] \in {"released", "confirmed"} IN
       run' = [run EXCEPT ![m] =
         [at |-> IF confirmed THEN "complete" ELSE "loop",
          rest |-> Tail(run[m].rest),
          trade |-> IF confirmed THEN t ELSE NoTrade, released |-> confirmed]]
    /\ UNCHANGED <<row, record, completed, bounds>> /\ Elsewhere

(* sdkTradeService.getTradeById and the branch its status decides; any     *)
(* other status, or none, leaves the trade to a later run.                 *)
Branch(t) ==
    CASE chain[t] \in {"released", "confirmed"} -> "complete"
      [] chain[t] = "refunded" -> "fail"
      [] OTHER -> "loop"

Ask(m) ==
    /\ run[m].at = "loop" /\ run[m].rest # <<>>
    /\ LET t == Head(run[m].rest) IN
       run' = [run EXCEPT ![m] =
         [at |-> Branch(t), rest |-> Tail(run[m].rest),
          trade |-> IF Branch(t) = "loop" THEN NoTrade ELSE t,
          released |-> chain[t] = "released"]]
    /\ UNCHANGED <<row, record, completed, bounds>> /\ Elsewhere

(* The SDK or findSettlingTrades throws: the trade waits for a later run.  *)
AskFails(m) ==
    /\ run[m].at = "loop" /\ run[m].rest # <<>>
    /\ Fault
    /\ run' = [run EXCEPT ![m].rest = Tail(@)]
    /\ UNCHANGED <<row, record, completed>> /\ Elsewhere

(* Mutation: a trade that has its record is not completed again.           *)
CompleteUnlessRecorded(m) ==
    LET t == run[m].trade IN
    /\ run[m].at = "complete"
    /\ IF row[t] = "absent" \/ record[t]
       THEN GoesOn(m) /\ UNCHANGED <<row, completed>>
       ELSE /\ row' = [row EXCEPT ![t] = "COMPLETED"]
            /\ completed' = completed \cup {t}
            /\ IF run[m].released THEN GoesTo(m, "exists") ELSE GoesOn(m)
    /\ UNCHANGED <<record, bounds>> /\ Elsewhere

(* updateTradeStatus(COMPLETED), whatever the row has become since the     *)
(* snapshot; without a row it throws.  No release transaction, no record.  *)
Complete(m) ==
    LET t == run[m].trade IN
    /\ run[m].at = "complete"
    /\ IF row[t] = "absent"
       THEN GoesOn(m) /\ UNCHANGED <<row, completed>>
       ELSE /\ row' = [row EXCEPT ![t] = "COMPLETED"]
            /\ completed' = completed \cup {t}
            /\ IF run[m].released THEN GoesTo(m, "exists") ELSE GoesOn(m)
    /\ UNCHANGED <<record, bounds>> /\ Elsewhere

Fail(m) ==
    LET t == run[m].trade IN
    /\ run[m].at = "fail"
    /\ row' = IF row[t] = "absent" THEN row ELSE [row EXCEPT ![t] = "FAILED"]
    /\ GoesOn(m)
    /\ UNCHANGED <<record, completed, bounds>> /\ Elsewhere

(* Mutation: a record of any trade counts as the trade's own.              *)
ExistsAny(m) ==
    /\ run[m].at = "exists"
    /\ IF \E t \in Trades : record[t] THEN GoesOn(m) ELSE GoesTo(m, "create")
    /\ UNCHANGED <<row, record, completed, bounds>> /\ Elsewhere

(* createRebalancingIfEligible: rebalancingService.exists(tradeId).        *)
Exists(m) ==
    /\ run[m].at = "exists"
    /\ IF record[run[m].trade] THEN GoesOn(m) ELSE GoesTo(m, "create")
    /\ UNCHANGED <<row, record, completed, bounds>> /\ Elsewhere

(* rebalancingService.create; tradeHash is unique, so a second create      *)
(* throws and changes nothing.                                             *)
Create(m) ==
    /\ run[m].at = "create"
    /\ record' = [record EXCEPT ![run[m].trade] = TRUE]
    /\ GoesOn(m)
    /\ UNCHANGED <<row, completed, bounds>> /\ Elsewhere

(* A query throws, its write done or not, and the catch goes on.           *)
QueryFails(m) ==
    LET t == run[m].trade IN
    /\ run[m].at \in {"complete", "fail", "exists", "create"}
    /\ Fault
    /\ \/ UNCHANGED <<row, record, completed>>
       \/ /\ run[m].at = "complete" /\ row[t] # "absent"
          /\ row' = [row EXCEPT ![t] = "COMPLETED"]
          /\ completed' = completed \cup {t}
          /\ UNCHANGED record
       \/ /\ run[m].at = "fail" /\ row[t] # "absent"
          /\ row' = [row EXCEPT ![t] = "FAILED"]
          /\ UNCHANGED <<record, completed>>
       \/ /\ run[m].at = "create"
          /\ record' = [record EXCEPT ![t] = TRUE]
          /\ UNCHANGED <<row, completed>>
    /\ GoesOn(m)
    /\ Elsewhere

End(m) ==
    /\ run[m].at = "loop" /\ run[m].rest = <<>>
    /\ run' = [run EXCEPT ![m] = IdleRun]
    /\ UNCHANGED <<row, record, completed, bounds>> /\ Elsewhere

RunStep(m) ==
    \/ Start(m)    \/ Ask(m)    \/ AskFails(m)
    \/ Complete(m) \/ Fail(m)
    \/ Exists(m)   \/ Create(m) \/ QueryFails(m)
    \/ End(m)

Crash ==
    /\ crashes < MaxCrashes
    /\ crashes' = crashes + 1
    /\ run' = [m \in Runs |-> IdleRun]
    /\ UNCHANGED <<take, rows, chain, record, completed, quotes, faults>>

Next ==
    \/ \E t \in Trades :
         \/ QuoteDeletes(t) \/ QuoteCreates(t) \/ Signal(t)
         \/ ThreeDaysPass(t) \/ ChainSettles(t)
    \/ \E m \in Runs : RunStep(m)
    \/ Crash

Spec == Init /\ [][Next]_vars

(* The cron service keeps running; nothing is assumed of the solver, the   *)
(* chain or the age of a trade.                                            *)
Fairness == \A m \in Runs : WF_vars(RunStep(m))

FairSpec == Spec /\ Fairness

-----------------------------------------------------------------------------
(* Properties                                                              *)

RunState == [at : {"idle", "loop", "complete", "fail", "exists", "create"},
             rest : Seq(Lending), trade : Lending \cup {NoTrade},
             released : BOOLEAN]

TypeOK ==
    /\ take \in 1 .. MaxTake
    /\ row \in [Trades -> Rows]
    /\ createdAt \in [Trades -> 0 .. MaxQuotes]
    /\ old \in [Trades -> BOOLEAN]
    /\ chain \in [Trades -> ChainStates]
    /\ record \in [Trades -> BOOLEAN]
    /\ run \in [Runs -> RunState]
    /\ \A m \in Runs : run[m].trade = NoTrade <=> run[m].at \in {"idle", "loop"}
    /\ completed \subseteq Lending
    /\ quotes \in 0 .. MaxQuotes
    /\ crashes \in 0 .. MaxCrashes
    /\ faults \in 0 .. MaxFaults

(* A record stands for BTC that was released to this PMM: its trade is a   *)
(* lending trade, confirmed on chain with a release transaction, although  *)
(* the row may have been quoted anew since the run took it.                *)
RecordIsReleased ==
    \A t \in Trades : record[t] => t \in Lending /\ chain[t] = "released"

(* A run has completed the trade's row and has yet to create its record.   *)
InHand(t) ==
    \E m \in Runs : run[m].trade = t /\ run[m].at \in {"exists", "create"}

(* Completed trades whose BTC was released and which no record will swap.  *)
Lost == {t \in completed : chain[t] = "released" /\ ~record[t] /\ ~InHand(t)}

(* A completed row is not looked at again, so a record is lost for good if *)
(* its creation fails.  That takes a failing query or a crash, and a crash *)
(* costs each run at most the one trade it is at: overlapping runs, new    *)
(* quotes and late signals alone never lose one.                           *)
LostRecordsAccounted ==
    Cardinality(Lost) <= faults + Cardinality(Runs) * crashes

(* As many older trades as a run takes are open before this one.           *)
CrowdedOut(t) ==
    Cardinality({u \in Settling : createdAt[u] < createdAt[t]}) >= take

(* A lending trade confirmed or refunded on chain leaves SETTLING, unless  *)
(* it passes the age up to which runs look at it, or a run's worth of      *)
(* older trades keeps it out of the snapshots.                             *)
ConfirmedLeavesSettling ==
    \A t \in Lending :
        (row[t] = "SETTLING" /\ chain[t] # "open")
            ~> (row[t] # "SETTLING" \/ old[t] \/ CrowdedOut(t))
=============================================================================
