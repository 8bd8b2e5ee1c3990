--------------------------- MODULE SettlementProofs ---------------------------
(***************************************************************************)
(* Proofs about Settlement, for any set of trades, any number of calls and *)
(* monitors under way, and any number of retries, crashes and faults.      *)
(***************************************************************************)
EXTENDS Settlement, FiniteSetTheorems, SequenceTheorems, TLAPS

-----------------------------------------------------------------------------
(* The inductive invariant                                                 *)

(* A row reaches SELECTED and SETTLING, and a call its push, only by way   *)
(* of an acknowledgement.                                                  *)
ApiInv ==
    /\ \A t \in Trades : row[t] \in {"SELECTED", "SETTLING"} => t \in chosen
    /\ \A q \in Requests :
         /\ request[q].at # "idle" => request[q].trade \in Trades
         /\ request[q].at \in {"push", "mark"} => request[q].trade \in chosen

(* The trades a payment may be under way for: acknowledged, and signalled. *)
Due == {t \in chosen : signals[t] > 0}

(* What is on its way to a worker is due.                                  *)
QueueInv ==
    /\ \A n \in Networks : list[n] \in Seq(Due)
    /\ \A m \in Monitors : hand[m] \in Seq(Due)
    /\ \A j \in TransferJobs : waiting[j] > 0 => j.trade \in Due

(* A worker is busy with a due trade of its own network, and submits a     *)
(* payment only if there was one.                                          *)
WorkInv ==
    \A n \in Networks :
        /\ worker[n].at # "idle" =>
             worker[n].trade \in Due /\ kind.network[worker[n].trade] = n
        /\ worker[n].at \in {"check", "transfer"} => worker[n].sends < MaxSends
        /\ worker[n].at = "confirm" => n = "SOLANA"
        /\ worker[n].at = "submit" /\ worker[n].hash = "payment" =>
             payments[worker[n].trade] > 0

(* Who is paid, and how the receipts on Solana count the payments.         *)
PaidInv ==
    \A t \in Trades :
        /\ payments[t] > 0 => t \in Due
        /\ solana[t].sent # {} => t \in Due /\ kind.network[t] = "SOLANA"
        /\ solana[t].flying \cup solana[t].landed \subseteq solana[t].sent
        /\ solana[t].landed # {} => payments[t] > 0
        /\ kind.network[t] = "SOLANA" =>
             payments[t] <= Cardinality(solana[t].landed)

(* The transaction awaited was sent, and has its receipt once executed.    *)
SolInv ==
    Sol.at = "confirm" =>
        /\ Sol.terms \in solana[Sol.trade].sent
        /\ Sol.executed => Sol.terms \in solana[Sol.trade].landed

(* A payment is on its way to the solver only if there was one.            *)
ReportInv ==
    /\ \A j \in ReportJobs : reports[j] > 0 /\ j.hash = "payment" => payments[j.trade] > 0
    /\ reporter.at # "idle" =>
         /\ reporter.trade \in Trades
         /\ reporter.hash = "payment" => payments[reporter.trade] > 0
    /\ \A t \in Trades : "payment" \in reported[t] => payments[t] > 0

IInv ==
    /\ TypeOK
    /\ ApiInv
    /\ QueueInv
    /\ WorkInv
    /\ PaidInv
    /\ SolInv
    /\ ReportInv

-----------------------------------------------------------------------------
(* Sequences and sets                                                      *)

LEMMA SeqGrows ==
    ASSUME NEW S, NEW T, S \subseteq T, NEW s \in Seq(S)
    PROVE  s \in Seq(T)
OBVIOUS

LEMMA SeqParts ==
    ASSUME NEW S, NEW s \in Seq(S)
    PROVE  /\ s # <<>> => Head(s) \in S /\ Tail(s) \in Seq(S)
           /\ \A k \in 0 .. Len(s) : SubSeq(s, 1, k) \in Seq(S)
                                    /\ SubSeq(s, k + 1, Len(s)) \in Seq(S)
BY SubSeqProperties, HeadTailProperties

-----------------------------------------------------------------------------
(* The HTTP handlers                                                       *)

LEMMA ConstantTypes ==
    /\ NoTrade \notin Trades /\ BatchSize \in Nat \ {0}
    /\ MaxRetries \in Nat \ {0} /\ MaxSends \in Nat \ {0}
    /\ MaxStalls \in Nat /\ MaxCrashes \in Nat /\ MaxFaults \in Nat
    /\ IsFiniteSet(Terms) /\ (CHOOSE c \in Terms : TRUE) \in Terms
BY SettlementAssumption, MaxStallsAssumption

LEMMA KindTypes ==
    ASSUME TypeOK, NEW t \in Trades
    PROVE  kind.network[t] \in Networks
BY SettlementAssumption DEF TypeOK

LEMMA FaultType ==
    ASSUME TypeOK, Fault
    PROVE  faults' \in 0 .. MaxFaults /\ crashes' \in 0 .. MaxCrashes
BY ConstantTypes DEF Fault, TypeOK

LEMMA UpdateRowEffect ==
    ASSUME TypeOK, NEW q \in Requests, request[q].trade \in Trades,
           NEW status \in Rows, NEW call \in Calls, UpdateRow(q, status, call)
    PROVE  /\ row' \in [Trades -> Rows] /\ answered' \in [Trades -> SUBSET Calls]
           /\ request' = [request EXCEPT ![q] = IdleCall]
           /\ \A t \in Trades : \/ row'[t] = row[t]
                               \/ /\ t = request[q].trade /\ row[t] # "absent"
                                  /\ row'[t] = status
<1> DEFINE t == request[q].trade
<1> USE DEF UpdateRow, TypeOK
<1>1. CASE row[t] = "absent"
  BY <1>1 DEF Throw
<1>2. CASE row[t] # "absent"
  <2>1. row' = [row EXCEPT ![t] = status] /\ Answer(q, call)
    BY <1>2
  <2>2. answered[t] \cup {call} \in SUBSET Calls
    OBVIOUS
  <2>3. answered' \in [Trades -> SUBSET Calls]
    BY <2>1, <2>2 DEF Answer
  <2> QED
    BY <1>2, <2>1, <2>3 DEF Answer
<1> QED
  BY <1>1, <1>2

LEMMA RequestKept ==
    ASSUME TypeOK, NEW q \in Requests, NEW r \in RequestStates,
           request' = [request EXCEPT ![q] = r]
    PROVE  /\ request' \in [Requests -> RequestStates] /\ request'[q] = r
           /\ \A x \in Requests : x # q => request'[x] = request[x]
BY DEF TypeOK

LEMMA RequestMoves ==
    ASSUME TypeOK, NEW q \in Requests,
           NEW at \in {"create", "price", "mark"}, Continue(q, at)
    PROVE  /\ request' \in [Requests -> RequestStates]
           /\ request'[q].at = at /\ request'[q].trade = request[q].trade
           /\ \A x \in Requests : x # q => request'[x] = request[x]
BY DEF TypeOK, Continue, RequestStates

LEMMA ApiType ==
    ASSUME TypeOK, BeyondApi,
           row' \in [Trades -> Rows], request' \in [Requests -> RequestStates],
           answered' \in [Trades -> SUBSET Calls], chosen' \subseteq Trades,
           list' \in [Networks -> Seq(Trades)], signals' \in [Trades -> Nat],
           crashes' \in 0 .. MaxCrashes, faults' \in 0 .. MaxFaults
    PROVE  TypeOK'
BY DEF TypeOK, BeyondApi, reportVars

LEMMA Begins ==
    ASSUME TypeOK, NEW q \in Requests, NEW t \in Trades,
           NEW at \in {"delete", "sign", "select", "refuse", "push"}, Begin(q, t, at)
    PROVE  /\ request' \in [Requests -> RequestStates]
           /\ request'[q].at = at /\ request'[q].trade = t
           /\ \A x \in Requests : x # q => request'[x] = request[x]
BY DEF Begin, TypeOK, RequestStates

LEMMA Answers ==
    ASSUME TypeOK, NEW q \in Requests, request' = [request EXCEPT ![q] = IdleCall]
    PROVE  /\ request' \in [Requests -> RequestStates]
           /\ request'[q].at = "idle"
           /\ \A x \in Requests : x # q => request'[x] = request[x]
BY DEF IdleCall, TypeOK, RequestStates

(* An answered call leaves a row that is acknowledged if it says so.       *)
LEMMA ApiUpdated ==
    ASSUME ApiInv, NEW q \in Requests, request'[q].at = "idle",
           \A x \in Requests : x # q => request'[x] = request[x],
           chosen \subseteq chosen',
           \A t \in Trades : row'[t] # row[t] =>
               (row'[t] \in {"SELECTED", "SETTLING"} => t \in chosen')
    PROVE  ApiInv'
BY DEF ApiInv

(* What a step of a handler does, seen from outside of it.                 *)
LEMMA ApiEffect ==
    ASSUME IInv, NEW q \in Requests, ApiStep(q)
    PROVE  /\ TypeOK' /\ ApiInv'
           /\ Due \subseteq Due'
           /\ \A n \in Networks : list'[n] \in Seq(Due')
           /\ BeyondApi
<1> DEFINE Effect == /\ TypeOK' /\ ApiInv'
                     /\ Due \subseteq Due'
                     /\ \A n \in Networks : list'[n] \in Seq(Due')
                     /\ BeyondApi
<1>s. SUFFICES Effect
  BY DEF Effect
<1> HIDE DEF Effect
<1> USE DEF bounds
<1>i. /\ TypeOK /\ ApiInv
      /\ request[q].at # "idle" => request[q].trade \in Trades
      /\ \A n \in Networks : list[n] \in Seq(Due)
  BY DEF IInv, ApiInv, QueueInv
<1>t. /\ row \in [Trades -> Rows] /\ request \in [Requests -> RequestStates]
      /\ answered \in [Trades -> SUBSET Calls] /\ chosen \subseteq Trades
      /\ list \in [Networks -> Seq(Trades)] /\ signals \in [Trades -> Nat]
      /\ crashes \in 0 .. MaxCrashes /\ faults \in 0 .. MaxFaults
  BY <1>i DEF TypeOK
<1>1. ASSUME NEW u \in Trades, QuoteStart(q, u) \/ SignStart(q, u) \/ AckStart(q, u)
      PROVE  Effect
  <2>1. PICK at \in {"delete", "sign", "select", "refuse"} :
            Begin(q, u, at) /\ BeyondApi
              /\ UNCHANGED <<row, answered, chosen, list, signals, crashes, faults>>
    BY <1>1 DEF QuoteStart, SignStart, AckStart
  <2>2. TypeOK'
    BY <1>i, <1>t, <2>1, Begins, ApiType DEF ApiInv, Effect
  <2>3. ApiInv'
    BY <1>i, <2>1, Begins DEF ApiInv
  <2> QED
    BY <1>i, <2>1, <2>2, <2>3 DEF Effect, Due
<1>2. ASSUME NEW u \in Trades, SignalStart(q, u)
      PROVE  Effect
  <2>1. /\ Begin(q, u, "push") /\ BeyondApi /\ u \in chosen
        /\ UNCHANGED <<row, answered, chosen, list, signals, crashes, faults>>
    BY <1>i, <1>2 DEF SignalStart, ApiInv
  <2>2. TypeOK'
    BY <1>i, <1>t, <2>1, Begins, ApiType DEF ApiInv, Effect
  <2>3. ApiInv'
    BY <1>i, <2>1, Begins DEF ApiInv
  <2> QED
    BY <1>i, <2>1, <2>2, <2>3 DEF Effect, Due
<1>3. CASE QuoteDelete(q)
  <2>1. /\ row' = [row EXCEPT ![request[q].trade] = "absent"]
        /\ Continue(q, "create") /\ BeyondApi /\ request[q].at = "delete"
        /\ UNCHANGED <<answered, chosen, list, signals, crashes, faults>>
    BY <1>3 DEF QuoteDelete
  <2>2. row' \in [Trades -> Rows] /\ \A t \in Trades : row'[t] \in {row[t], "absent"}
    BY <1>i, <1>t, <2>1 DEF Rows
  <2> QED
    BY <1>i, <1>t, <2>1, <2>2, RequestMoves, ApiType DEF ApiInv, Effect, Due
<1>4. CASE QuoteCreate(q)
  <2>1. /\ BeyondApi /\ request[q].at = "create"
        /\ UNCHANGED <<chosen, list, signals, crashes, faults>>
    BY <1>4 DEF QuoteCreate
  <2>2. CASE row[request[q].trade] = "absent"
    <3>1. /\ row' = [row EXCEPT ![request[q].trade] = "PENDING"]
          /\ Continue(q, "price") /\ UNCHANGED answered
      BY <1>4, <2>2 DEF QuoteCreate
    <3>2. row' \in [Trades -> Rows] /\ \A t \in Trades : row'[t] \in {row[t], "PENDING"}
      BY <1>i, <1>t, <2>1, <3>1 DEF Rows
    <3> QED
      BY <1>i, <1>t, <2>1, <3>1, <3>2, RequestMoves, ApiType DEF ApiInv, Effect, Due
  <2>3. CASE row[request[q].trade] # "absent"
    <3>1. UNCHANGED row /\ Throw(q)
      BY <1>4, <2>3 DEF QuoteCreate
    <3> QED
      BY <1>i, <1>t, <2>1, <3>1, Answers, ApiType DEF Throw, ApiInv, Effect, Due
  <2> QED
    BY <2>2, <2>3 DEF Effect
<1>5. ASSUME NEW status \in Rows \ {"SELECTED", "SETTLING"}, NEW call \in Calls,
             UpdateRow(q, status, call), request[q].at # "idle", BeyondApi,
             UNCHANGED <<chosen, list, signals, bounds>>
      PROVE  Effect
  <2>1. TypeOK'
    BY <1>i, <1>t, <1>5, UpdateRowEffect, Answers, ApiType DEF ApiInv, Effect
  <2>2. ApiInv'
    BY <1>i, <1>5, UpdateRowEffect, Answers, ApiUpdated
  <2> QED
    BY <1>i, <1>5, <2>1, <2>2 DEF Effect, Due
<1>6. CASE QuotePrice(q) \/ SignCommit(q) \/ AckRefuse(q)
  BY <1>5, <1>6 DEF QuotePrice, SignCommit, AckRefuse, Rows, Calls
<1>7. CASE AckSelect(q)
  <2>1. /\ UpdateRow(q, "SELECTED", "ack") /\ request[q].at # "idle" /\ BeyondApi
        /\ UNCHANGED <<list, signals, crashes, faults>>
        /\ chosen' = IF row[request[q].trade] = "absent" THEN chosen
                     ELSE chosen \cup {request[q].trade}
    BY <1>7 DEF AckSelect
  <2>2. chosen \subseteq chosen' /\ chosen' \subseteq Trades
    BY <1>i, <1>t, <2>1
  <2>b. Due \subseteq Due'
    BY <2>1, <2>2 DEF Due
  <2>3. \A n \in Networks : list'[n] \in Seq(Due')
    BY <1>i, <2>1, <2>b, SeqGrows
  <2>4. "SELECTED" \in Rows /\ "ack" \in Calls
    BY DEF Rows, Calls
  <2>5. TypeOK'
    BY <1>i, <1>t, <2>1, <2>2, <2>4, UpdateRowEffect, Answers, ApiType DEF ApiInv, Effect
  <2>6. ApiInv'
    BY <1>i, <2>1, <2>2, <2>4, UpdateRowEffect, Answers, ApiUpdated
  <2> QED
    BY <2>1, <2>b, <2>3, <2>5, <2>6 DEF Effect
<1>8. CASE SignalPush(q)
  <2> DEFINE t == request[q].trade
             n == kind.network[t]
  <2>1. /\ list' = [list EXCEPT ![n] = Append(list[n], t)]
        /\ signals' = [signals EXCEPT ![t] = signals[t] + 1]
        /\ Continue(q, "mark") /\ BeyondApi /\ t \in chosen
        /\ UNCHANGED <<row, answered, chosen, crashes, faults>>
    BY <1>i, <1>8 DEF SignalPush, ApiInv
  <2>a. t \in Due' /\ Due \subseteq Due' /\ Due' \subseteq Trades
    BY <1>i, <1>t, <2>1 DEF Due
  <2>2. /\ n \in Networks /\ Append(list[n], t) \in Seq(Due')
        /\ \A x \in Networks : list[x] \in Seq(Due')
    BY <1>i, <1>t, <2>1, <2>a, KindTypes, SeqGrows, AppendProperties
  <2>3. \A x \in Networks : list'[x] \in Seq(Due')
    BY <1>t, <2>1, <2>2
  <2>4. list' \in [Networks -> Seq(Trades)]
    BY <1>i, <1>t, <2>1, <2>2, <2>a, SeqGrows
  <2>5. signals' \in [Trades -> Nat]
    BY <1>i, <1>t, <2>1
  <2> QED
    BY <1>i, <1>t, <2>1, <2>3, <2>4, <2>5, <2>a, RequestMoves, ApiType DEF ApiInv, Effect
<1>9. CASE SignalMark(q)
  <2>1. /\ UpdateRow(q, "SETTLING", "signal") /\ request[q].at = "mark" /\ BeyondApi
        /\ UNCHANGED <<chosen, list, signals, crashes, faults>>
        /\ request[q].trade \in chosen
    BY <1>i, <1>9 DEF SignalMark, ApiInv
  <2>2. "SETTLING" \in Rows /\ "signal" \in Calls
    BY DEF Rows, Calls
  <2>3. TypeOK'
    BY <1>i, <1>t, <2>1, <2>2, UpdateRowEffect, Answers, ApiType DEF ApiInv, Effect
  <2>4. ApiInv'
    BY <1>i, <2>1, <2>2, UpdateRowEffect, Answers, ApiUpdated
  <2> QED
    BY <1>i, <2>1, <2>3, <2>4 DEF Effect, Due
<1>10. CASE CallFails(q)
  <2>1. /\ Fault /\ Throw(q) /\ BeyondApi
        /\ UNCHANGED <<row, chosen, list, signals>>
    BY <1>10 DEF CallFails
  <2> QED
    BY <1>i, <1>t, <2>1, FaultType, Answers, ApiType DEF Throw, ApiInv, Effect, Due
<1>11. CASE \E t \in Trades : \/ QuoteStart(q, t) \/ SignStart(q, t)
                               \/ AckStart(q, t)   \/ SignalStart(q, t)
  <2>1. PICK t \in Trades : \/ QuoteStart(q, t) \/ SignStart(q, t)
                            \/ AckStart(q, t)   \/ SignalStart(q, t)
    BY <1>11
  <2> QED
    BY <1>1, <1>2, <2>1
<1> QED
  BY <1>3, <1>4, <1>6, <1>7, <1>8, <1>9, <1>10, <1>11 DEF ApiStep

LEMMA ApiKeeps ==
    ASSUME IInv, NEW q \in Requests, ApiStep(q)
    PROVE  IInv'
<1>1. /\ TypeOK' /\ ApiInv' /\ Due \subseteq Due' /\ BeyondApi
      /\ \A n \in Networks : list'[n] \in Seq(Due')
  BY ApiEffect
<1>2. QueueInv'
  BY <1>1, SeqGrows DEF IInv, QueueInv, BeyondApi
<1>3. WorkInv'
  BY <1>1 DEF IInv, WorkInv, BeyondApi
<1>4. PaidInv' /\ SolInv'
  BY <1>1 DEF IInv, PaidInv, SolInv, Sol, BeyondApi
<1>5. ReportInv'
  BY <1>1 DEF IInv, ReportInv, BeyondApi, reportVars
<1> QED
  BY <1>1, <1>2, <1>3, <1>4, <1>5 DEF IInv

-----------------------------------------------------------------------------
(* The monitors                                                            *)

LEMMA MonitorFrame ==
    ASSUME IInv, BeyondMonitor,
           list' \in [Networks -> Seq(Due)], hand' \in [Monitors -> Seq(Due)],
           waiting' \in [TransferJobs -> Nat],
           \A j \in TransferJobs : waiting'[j] > 0 => j.trade \in Due,
           crashes' \in 0 .. MaxCrashes, faults' \in 0 .. MaxFaults
    PROVE  IInv'
<1>1. Due \subseteq Trades
  BY DEF IInv, TypeOK, Due
<1>2. list' \in [Networks -> Seq(Trades)] /\ hand' \in [Monitors -> Seq(Trades)]
  BY <1>1, SeqGrows
<1>3. TypeOK'
  BY <1>2 DEF IInv, TypeOK, BeyondMonitor, apiVars, reportVars
<1>4. ApiInv' /\ QueueInv'
  BY DEF IInv, ApiInv, QueueInv, BeyondMonitor, apiVars, Due
<1>5. WorkInv' /\ PaidInv' /\ SolInv' /\ ReportInv'
  BY DEF IInv, WorkInv, PaidInv, SolInv, Sol, ReportInv, BeyondMonitor, apiVars,
     reportVars, Due
<1> QED
  BY <1>3, <1>4, <1>5 DEF IInv

LEMMA MonitorKeeps ==
    ASSUME IInv, NEW m \in Monitors, MonitorStep(m)
    PROVE  IInv'
<1>t. /\ list \in [Networks -> Seq(Due)] /\ hand \in [Monitors -> Seq(Due)]
      /\ waiting \in [TransferJobs -> Nat] /\ Due \subseteq Trades
      /\ \A j \in TransferJobs : waiting[j] > 0 => j.trade \in Due
      /\ crashes \in 0 .. MaxCrashes /\ faults \in 0 .. MaxFaults
  BY DEF IInv, TypeOK, QueueInv, Due
<1>f. \A t \in Trades : FirstJob(t) \in TransferJobs /\ FirstJob(t).trade = t
  BY ConstantTypes DEF FirstJob, TransferJobs
<1>1. ASSUME NEW n \in Networks, MonitorPop(m, n)
      PROVE  IInv'
  <2>1. Batch(n) \in 0 .. Len(list[n])
    BY <1>t, ConstantTypes DEF Batch
  <2>2. /\ SubSeq(list[n], 1, Batch(n)) \in Seq(Due)
        /\ SubSeq(list[n], Batch(n) + 1, Len(list[n])) \in Seq(Due)
    BY <1>t, <2>1, SeqParts
  <2>3. /\ list' = [list EXCEPT ![n] = SubSeq(list[n], Batch(n) + 1, Len(list[n]))]
        /\ hand' = [hand EXCEPT ![m] = SubSeq(list[n], 1, Batch(n))]
        /\ UNCHANGED <<waiting, crashes, faults>> /\ BeyondMonitor
    BY <1>1 DEF MonitorPop, bounds
  <2>4. list' \in [Networks -> Seq(Due)] /\ hand' \in [Monitors -> Seq(Due)]
    BY <1>t, <2>2, <2>3
  <2> QED
    BY <1>t, <2>3, <2>4, MonitorFrame
<1>2. ASSUME hand[m] # <<>>,
             waiting' \in {waiting, [waiting EXCEPT ![FirstJob(Head(hand[m]))] = @ + 1]}
      PROVE  /\ waiting' \in [TransferJobs -> Nat] /\ Tail(hand[m]) \in Seq(Due)
             /\ \A j \in TransferJobs : waiting'[j] > 0 => j.trade \in Due
  <2> DEFINE first == FirstJob(Head(hand[m]))
  <2>1. Head(hand[m]) \in Due /\ Tail(hand[m]) \in Seq(Due)
    BY <1>t, <1>2, SeqParts
  <2>2. first \in TransferJobs /\ first.trade \in Due
    BY <1>t, <1>f, <2>1
  <2>3. waiting' = waiting \/ waiting' = [waiting EXCEPT ![first] = waiting[first] + 1]
    BY <1>2
  <2> HIDE DEF first
  <2>4. waiting' \in [TransferJobs -> Nat]
    BY <1>t, <2>2, <2>3
  <2>5. \A j \in TransferJobs : j # first => waiting'[j] = waiting[j]
    BY <1>t, <2>2, <2>3
  <2> QED
    BY <1>t, <2>1, <2>2, <2>4, <2>5
<1>3. CASE MonitorAdd(m)
  <2>1. /\ hand[m] # <<>> /\ waiting' = [waiting EXCEPT ![FirstJob(Head(hand[m]))] = @ + 1]
        /\ hand' = [hand EXCEPT ![m] = Tail(hand[m])]
        /\ UNCHANGED <<list, crashes, faults>> /\ BeyondMonitor
    BY <1>3 DEF MonitorAdd, bounds
  <2>2. hand' \in [Monitors -> Seq(Due)]
    BY <1>t, <1>2, <2>1
  <2> QED
    BY <1>t, <1>2, <2>1, <2>2, MonitorFrame
<1>4. CASE MonitorAddFails(m)
  <2>1. /\ hand[m] # <<>> /\ Fault
        /\ waiting' \in {waiting, [waiting EXCEPT ![FirstJob(Head(hand[m]))] = @ + 1]}
        /\ hand' = [hand EXCEPT ![m] = <<>>]
        /\ UNCHANGED list /\ BeyondMonitor
    BY <1>4 DEF MonitorAddFails
  <2>2. hand' \in [Monitors -> Seq(Due)]
    BY <1>t, <2>1, EmptySeq
  <2>3. faults' \in 0 .. MaxFaults /\ crashes' \in 0 .. MaxCrashes
    BY <2>1, FaultType DEF IInv
  <2> QED
    BY <1>t, <1>2, <2>1, <2>2, <2>3, MonitorFrame
<1> QED
  BY <1>1, <1>3, <1>4
     DEF MonitorStep, EvmMonitorPop, BtcMonitorPop, SolanaMonitorPop, Networks

-----------------------------------------------------------------------------
(* The transfer workers                                                    *)

(* A worker on its way: what WorkInv and TypeOK ask of one.                *)
WorkerOK(n, w) ==
    /\ w \in WorkerStates
    /\ w.at # "idle" => w.trade \in Due /\ kind.network[w.trade] = n
    /\ w.at \in {"check", "transfer"} => w.sends < MaxSends
    /\ w.at = "confirm" => n = "SOLANA"

LEMMA WorkFrame ==
    ASSUME IInv, NEW n \in Networks, NEW w, BeyondWorker,
           worker' = [worker EXCEPT ![n] = w], WorkerOK(n, w),
           w.at = "submit" /\ w.hash = "payment" => payments'[w.trade] > 0,
           waiting' \in [TransferJobs -> Nat],
           \A j \in TransferJobs : waiting'[j] > 0 => j.trade \in Due,
           reports' \in [ReportJobs -> Nat],
           \A j \in ReportJobs :
               reports'[j] > 0 /\ j.hash = "payment" => payments'[j.trade] > 0,
           payments' \in [Trades -> Nat],
           \A t \in Trades : payments[t] <= payments'[t],
           solana' \in [Trades -> SolanaStates], PaidInv', SolInv',
           crashes' \in 0 .. MaxCrashes, faults' \in 0 .. MaxFaults
    PROVE  IInv'
<1>1. TypeOK'
  BY DEF IInv, TypeOK, BeyondWorker, apiVars, WorkerOK
<1>2. ApiInv' /\ QueueInv'
  BY DEF IInv, ApiInv, QueueInv, BeyondWorker, apiVars, Due
<1>3. ASSUME NEW t \in Trades, payments[t] > 0
      PROVE  payments'[t] > 0
  BY <1>3 DEF IInv, TypeOK
<1>4. WorkInv'
  <2>1. /\ worker'[n] = w /\ Due' = Due /\ kind' = kind
        /\ \A x \in Networks : x # n => worker'[x] = worker[x]
        /\ \A x \in Networks : worker[x].at = "submit" => worker[x].trade \in Trades
    BY DEF IInv, TypeOK, WorkInv, BeyondWorker, apiVars, Due
  <2> QED
    BY <1>3, <2>1 DEF IInv, WorkInv, WorkerOK
<1>5. ReportInv'
  <2>1. reporter' = reporter /\ reported' = reported
    BY DEF BeyondWorker
  <2> QED
    BY <1>3, <2>1 DEF IInv, ReportInv
<1> QED
  BY <1>1, <1>2, <1>4, <1>5 DEF IInv

(* A worker that does not go on to await a confirmation.                   *)
LEMMA NotAwaiting ==
    ASSUME IInv, NEW n \in Networks, NEW w, worker' = [worker EXCEPT ![n] = w],
           w.at # "confirm", UNCHANGED solana
    PROVE  SolInv'
<1>1. /\ "SOLANA" \in Networks /\ worker \in [Networks -> WorkerStates]
  BY DEF IInv, TypeOK, Networks
<1>2. worker'["SOLANA"] = (IF n = "SOLANA" THEN w ELSE worker["SOLANA"])
  BY <1>1
<1> QED
  BY <1>2 DEF IInv, SolInv, Sol

(* A step that pays nothing and leaves the Solana transactions alone.      *)
LEMMA WorkQuiet ==
    ASSUME IInv, NEW n \in Networks, NEW w, BeyondWorker, UNCHANGED <<payments, solana>>,
           worker' = [worker EXCEPT ![n] = w], WorkerOK(n, w), w.at # "confirm",
           w.at = "submit" /\ w.hash = "payment" => payments[w.trade] > 0,
           waiting' \in [TransferJobs -> Nat],
           \A j \in TransferJobs : waiting'[j] > 0 => j.trade \in Due,
           reports' \in [ReportJobs -> Nat],
           \A j \in ReportJobs :
               reports'[j] > 0 /\ j.hash = "payment" => payments[j.trade] > 0,
           crashes' \in 0 .. MaxCrashes, faults' \in 0 .. MaxFaults
    PROVE  IInv'
<1>1. /\ payments' \in [Trades -> Nat] /\ \A t \in Trades : payments[t] <= payments'[t]
      /\ solana' \in [Trades -> SolanaStates]
  BY DEF IInv, TypeOK
<1>2. PaidInv' /\ SolInv'
  BY NotAwaiting DEF IInv, PaidInv, BeyondWorker, apiVars, Due
<1> QED
  BY <1>1, <1>2, WorkFrame

(* ... and neither adds nor takes a job.                                   *)
LEMMA WorkMoves ==
    ASSUME IInv, NEW n \in Networks, BeyondWorker,
           UNCHANGED <<payments, solana, waiting, reports>>,
           NEW at, WorkGoesTo(n, at), worker[n].at # "idle",
           \/ at \in {"transfer", "retry", "done"}
           \/ at = "submit" /\ payments[worker[n].trade] > 0,
           at = "transfer" => worker[n].sends < MaxSends,
           \/ UNCHANGED bounds
           \/ Fault
    PROVE  IInv'
<1> DEFINE w == [worker[n] EXCEPT !.at = at]
<1>1. worker' = [worker EXCEPT ![n] = w]
  BY DEF WorkGoesTo
<1>2. worker[n] \in WorkerStates
  BY DEF IInv, TypeOK
<1>3. /\ w \in WorkerStates /\ w.at = at /\ w.trade = worker[n].trade
      /\ w.hash = worker[n].hash /\ w.sends = worker[n].sends
  BY <1>2 DEF WorkerStates
<1>4. WorkerOK(n, w)
  BY <1>3 DEF WorkerOK, IInv, WorkInv
<1>5. crashes' \in 0 .. MaxCrashes /\ faults' \in 0 .. MaxFaults
  BY FaultType DEF IInv, TypeOK, bounds
<1>6. /\ waiting' \in [TransferJobs -> Nat] /\ reports' \in [ReportJobs -> Nat]
      /\ \A j \in TransferJobs : waiting'[j] > 0 => j.trade \in Due
      /\ \A j \in ReportJobs :
           reports'[j] > 0 /\ j.hash = "payment" => payments[j.trade] > 0
  BY DEF IInv, TypeOK, QueueInv, ReportInv
<1> HIDE DEF w
<1> QED
  BY <1>1, <1>3, <1>4, <1>5, <1>6, WorkQuiet

LEMMA AddReportEffect ==
    ASSUME IInv, NEW n \in Networks, worker[n].at = "submit", AddReport(n)
    PROVE  /\ reports' \in [ReportJobs -> Nat]
           /\ \A j \in ReportJobs :
                reports'[j] > 0 /\ j.hash = "payment" => payments[j.trade] > 0
<1> DEFINE job == [trade |-> worker[n].trade, hash |-> worker[n].hash, stalls |-> 0]
<1>1. reports' = [reports EXCEPT ![job] = reports[job] + 1]
  BY DEF AddReport
<1>2. worker[n] \in WorkerStates /\ worker[n].trade \in Trades
  BY DEF IInv, TypeOK, WorkInv, Due
<1>3. job \in ReportJobs /\ (job.hash = "payment" => payments[job.trade] > 0)
  BY <1>2, ConstantTypes DEF IInv, WorkInv, ReportJobs, WorkerStates
<1> HIDE DEF job
<1>4. reports' \in [ReportJobs -> Nat] /\ \A j \in ReportJobs : j # job => reports'[j] = reports[j]
  BY <1>1, <1>3 DEF IInv, TypeOK
<1> QED
  BY <1>3, <1>4 DEF IInv, ReportInv

LEMMA RetryEffect ==
    ASSUME IInv, NEW n \in Networks, worker[n].at = "retry", worker[n].retry < MaxRetries - 1,
           waiting' = [waiting EXCEPT ![RetryJob(n, worker[n].retry + 1)] = @ + 1]
    PROVE  /\ waiting' \in [TransferJobs -> Nat]
           /\ \A j \in TransferJobs : waiting'[j] > 0 => j.trade \in Due
<1> DEFINE job == RetryJob(n, worker[n].retry + 1)
<1>1. waiting' = [waiting EXCEPT ![job] = waiting[job] + 1]
  OBVIOUS
<1>2. worker[n] \in WorkerStates /\ worker[n].trade \in Due /\ Due \subseteq Trades
  BY DEF IInv, TypeOK, WorkInv, Due
<1>3. job \in TransferJobs /\ job.trade \in Due
  BY <1>2, ConstantTypes DEF RetryJob, TransferJobs, WorkerStates
<1> HIDE DEF job
<1>4. waiting \in [TransferJobs -> Nat]
  BY DEF IInv, TypeOK
<1>5. /\ waiting' \in [TransferJobs -> Nat]
      /\ \A j \in TransferJobs : j # job => waiting'[j] = waiting[j]
  BY <1>1, <1>3, <1>4
<1> QED
  BY <1>3, <1>4, <1>5 DEF IInv, QueueInv

LEMMA WorkKeeps ==
    ASSUME IInv, NEW n \in Networks, WorkStep(n)
    PROVE  IInv'
<1>t. /\ worker[n] \in WorkerStates /\ Due \subseteq Trades
      /\ waiting \in [TransferJobs -> Nat] /\ reports \in [ReportJobs -> Nat]
      /\ \A j \in TransferJobs : waiting[j] > 0 => j.trade \in Due
      /\ \A j \in ReportJobs :
           reports[j] > 0 /\ j.hash = "payment" => payments[j.trade] > 0
      /\ crashes \in 0 .. MaxCrashes /\ faults \in 0 .. MaxFaults
  BY DEF IInv, TypeOK, QueueInv, ReportInv, Due
<1>w. worker[n].at \in {"check", "transfer"} => worker[n].sends < MaxSends
  BY DEF IInv, WorkInv
<1>1. ASSUME NEW j \in TransferJobs, WorkTake(n, j)
      PROVE  IInv'
  <2> DEFINE w == [IdleWorker EXCEPT !.at = "check", !.trade = j.trade,
                                     !.retry = j.retry, !.stalls = j.stalls]
  <2>1. /\ waiting[j] > 0 /\ kind.network[j.trade] = n
        /\ waiting' = [waiting EXCEPT ![j] = waiting[j] - 1]
        /\ worker' = [worker EXCEPT ![n] = w]
        /\ UNCHANGED <<reports, payments, solana, crashes, faults>> /\ BeyondWorker
    BY <1>1 DEF WorkTake, bounds
  <2>e. IdleWorker \in WorkerStates
    BY ConstantTypes DEF WorkerStates, Hashes, IdleWorker
  <2>2. w \in WorkerStates
    BY <2>e DEF WorkerStates, TransferJobs
  <2>3. j.trade \in Due /\ MaxSends > 0
    BY <1>t, <2>1, ConstantTypes
  <2>6. /\ w.at = "check" /\ w.trade = j.trade /\ w.sends = 0
    BY DEF IdleWorker
  <2>4. WorkerOK(n, w)
    BY <2>1, <2>2, <2>3, <2>6 DEF WorkerOK
  <2>5. /\ waiting' \in [TransferJobs -> Nat]
        /\ \A x \in TransferJobs : waiting'[x] > 0 => x.trade \in Due
    BY <1>t, <2>1, <2>3
  <2> HIDE DEF w
  <2> QED
    BY <1>t, <2>1, <2>4, <2>5, <2>6, WorkQuiet
<1>2. CASE \/ WorkDeclines(n) \/ WorkCheck(n) \/ WorkCheckFails(n)
           \/ WorkNoStrategy(n) \/ WorkRetryFails(n)
  <2>1. PICK at \in {"transfer", "retry", "done"} :
          /\ WorkGoesTo(n, at) /\ worker[n].at # "idle"
          /\ at = "transfer" => worker[n].at = "check"
          /\ UNCHANGED bounds \/ Fault
          /\ UNCHANGED <<payments, solana, waiting, reports>> /\ BeyondWorker
    BY <1>2 DEF WorkDeclines, WorkCheck, WorkCheckFails, WorkNoStrategy, WorkRetryFails
  <2> QED
    BY <1>w, <2>1, WorkMoves
<1> DEFINE done == [worker[n] EXCEPT !.at = "done"]
           retry == [worker[n] EXCEPT !.at = "retry"]
<1>3. /\ worker[n].at # "idle" => WorkerOK(n, done) /\ WorkerOK(n, retry)
      /\ done.at = "done" /\ retry.at = "retry"
  BY <1>t DEF WorkerOK, IInv, WorkInv, WorkerStates
<1>4. CASE WorkSubmit(n)
  <2>1. /\ worker[n].at = "submit" /\ AddReport(n) /\ worker' = [worker EXCEPT ![n] = done]
        /\ UNCHANGED <<waiting, payments, solana, crashes, faults>> /\ BeyondWorker
    BY <1>4 DEF WorkSubmit, WorkGoesTo, bounds
  <2> HIDE DEF done
  <2> QED
    BY <1>t, <1>3, <2>1, AddReportEffect, WorkQuiet
<1>5. CASE WorkSubmitFails(n)
  <2>1. /\ worker[n].at = "submit" /\ Fault /\ worker' = [worker EXCEPT ![n] = retry]
        /\ AddReport(n) \/ UNCHANGED reports
        /\ UNCHANGED <<waiting, payments, solana>> /\ BeyondWorker
    BY <1>5 DEF WorkSubmitFails, WorkGoesTo
  <2>2. faults' \in 0 .. MaxFaults /\ crashes' \in 0 .. MaxCrashes
    BY <2>1, FaultType DEF IInv
  <2>3. /\ reports' \in [ReportJobs -> Nat]
        /\ \A j \in ReportJobs :
             reports'[j] > 0 /\ j.hash = "payment" => payments[j.trade] > 0
    BY <1>t, <2>1, AddReportEffect
  <2> HIDE DEF retry
  <2> QED
    BY <1>t, <1>3, <2>1, <2>2, <2>3, WorkQuiet
<1>6. CASE WorkRetry(n)
  <2>1. /\ worker[n].at = "retry" /\ worker' = [worker EXCEPT ![n] = done]
        /\ UNCHANGED <<reports, payments, solana, crashes, faults>> /\ BeyondWorker
        /\ \/ /\ worker[n].retry < MaxRetries - 1
              /\ waiting' = [waiting EXCEPT ![RetryJob(n, worker[n].retry + 1)] = @ + 1]
           \/ UNCHANGED waiting
    BY <1>6 DEF WorkRetry, WorkGoesTo, bounds
  <2>2. /\ waiting' \in [TransferJobs -> Nat]
        /\ \A j \in TransferJobs : waiting'[j] > 0 => j.trade \in Due
    BY <1>t, <2>1, RetryEffect
  <2> HIDE DEF done
  <2> QED
    BY <1>t, <1>3, <2>1, <2>2, WorkQuiet
<1>7. CASE WorkFinish(n)
  <2>1. /\ worker' = [worker EXCEPT ![n] = IdleWorker]
        /\ UNCHANGED <<waiting, reports, payments, solana, crashes, faults>> /\ BeyondWorker
    BY <1>7 DEF WorkFinish, bounds
  <2>2. WorkerOK(n, IdleWorker) /\ IdleWorker.at = "idle"
    BY ConstantTypes DEF WorkerOK, IdleWorker, WorkerStates, Hashes
  <2> QED
    BY <1>t, <2>1, <2>2, WorkQuiet
<1> QED
  BY <1>1, <1>2, <1>4, <1>5, <1>6, <1>7 DEF WorkStep

-----------------------------------------------------------------------------
(* The strategies                                                          *)

LEMMA PayEffect ==
    ASSUME IInv, NEW t \in Trades, t \in Due, Pay(t)
    PROVE  /\ payments' \in [Trades -> Nat] /\ payments'[t] = payments[t] + 1
           /\ \A x \in Trades : x # t => payments'[x] = payments[x]
           /\ \A x \in Trades : payments[x] <= payments'[x]
           /\ \A x \in Trades : payments'[x] > 0 => x \in Due
<1>1. payments \in [Trades -> Nat] /\ payments' = [payments EXCEPT ![t] = payments[t] + 1]
  BY DEF Pay, IInv, TypeOK
<1> QED
  BY <1>1 DEF IInv, PaidInv

(* A worker of EVM or BTC pays, and goes on to w.                          *)
LEMMA WorkPays ==
    ASSUME IInv, NEW n \in {"EVM", "BTC"}, Transferring(n), Pay(worker[n].trade),
           BeyondWorker, UNCHANGED <<waiting, reports, solana>>,
           NEW at \in {"submit", "retry"}, NEW hash \in Hashes,
           worker' = [worker EXCEPT ![n] = [worker[n] EXCEPT !.at = at, !.hash = hash]],
           UNCHANGED bounds \/ Fault
    PROVE  IInv'
<1> DEFINE w == [worker[n] EXCEPT !.at = at, !.hash = hash]
           t == worker[n].trade
<1>1. /\ n \in Networks /\ worker[n] \in WorkerStates
      /\ t \in Due /\ t \in Trades /\ kind.network[t] = n
  BY DEF IInv, TypeOK, WorkInv, Transferring, Networks, Due
<1>2. w \in WorkerStates /\ w.at = at /\ w.trade = t
  BY <1>1 DEF WorkerStates
<1>3. WorkerOK(n, w)
  BY <1>1, <1>2 DEF WorkerOK
<1>4. /\ payments' \in [Trades -> Nat] /\ payments'[t] > 0
      /\ \A x \in Trades : payments[x] <= payments'[x]
      /\ \A x \in Trades : x # t => payments'[x] = payments[x]
      /\ \A x \in Trades : payments'[x] > 0 => x \in Due
  BY <1>1, PayEffect DEF IInv, TypeOK
<1>5. PaidInv'
  <2>1. Due' = Due /\ kind' = kind /\ solana' = solana /\ kind.network[t] # "SOLANA"
    BY <1>1 DEF BeyondWorker, apiVars, Due
  <2> QED
    BY <1>4, <2>1 DEF IInv, PaidInv
<1>6. crashes' \in 0 .. MaxCrashes /\ faults' \in 0 .. MaxFaults
  BY FaultType DEF IInv, TypeOK, bounds
<1>7. /\ waiting' \in [TransferJobs -> Nat] /\ reports' \in [ReportJobs -> Nat]
      /\ solana' \in [Trades -> SolanaStates]
      /\ \A j \in TransferJobs : waiting'[j] > 0 => j.trade \in Due
  BY DEF IInv, TypeOK, QueueInv
<1>8. ASSUME NEW j \in ReportJobs, reports'[j] > 0, j.hash = "payment"
      PROVE  payments'[j.trade] > 0
  <2>1. payments[j.trade] > 0 /\ j.trade \in Trades /\ payments \in [Trades -> Nat]
    BY <1>8 DEF IInv, TypeOK, ReportInv, ReportJobs
  <2> QED
    BY <1>4, <2>1
<1>9. worker' = [worker EXCEPT ![n] = w]
  OBVIOUS
<1> HIDE DEF w, t
<1>10. SolInv'
  BY <1>1, <1>2, <1>9, NotAwaiting
<1> QED
  BY <1>1, <1>2, <1>3, <1>4, <1>5, <1>6, <1>7, <1>8, <1>9, <1>10, WorkFrame

LEMMA TransferFailsKeeps ==
    ASSUME IInv, NEW n \in Networks, WorkTransferFails(n)
    PROVE  IInv'
BY WorkMoves DEF WorkTransferFails, Transferring

LEMMA TransferPaysKeeps ==
    ASSUME IInv, NEW n \in {"EVM", "BTC"}, WorkTransfer(n) \/ WorkTransferUnsure(n)
    PROVE  IInv'
<1>1. PICK at \in {"submit", "retry"} :
          /\ WorkGoesTo(n, at) /\ Transferring(n) /\ Pay(worker[n].trade) /\ BeyondWorker
          /\ UNCHANGED <<waiting, reports, solana>> /\ (UNCHANGED bounds \/ Fault)
  BY DEF WorkTransfer, WorkTransferUnsure
<1>2. n \in Networks /\ worker \in [Networks -> WorkerStates]
  BY DEF IInv, TypeOK, Networks
<1>3. /\ worker[n].hash \in Hashes
      /\ [worker[n] EXCEPT !.at = at] = [worker[n] EXCEPT !.at = at, !.hash = worker[n].hash]
  BY <1>2 DEF WorkerStates
<1>4. worker' = [worker EXCEPT ![n] = [worker[n] EXCEPT !.at = at, !.hash = worker[n].hash]]
  BY <1>1, <1>3 DEF WorkGoesTo
<1> QED
  BY <1>1, <1>3, <1>4, WorkPays

LEMMA EvmKeeps ==
    ASSUME IInv, EvmTransferToken
    PROVE  IInv'
<1> DEFINE w == [worker["EVM"] EXCEPT !.at = "submit", !.hash = "errorCode"]
<1>t. "EVM" \in Networks /\ "errorCode" \in Hashes /\ worker \in [Networks -> WorkerStates]
  BY DEF IInv, TypeOK, Networks, Hashes
<1>1. CASE EvmRefuses
  BY <1>1, <1>t, TransferFailsKeeps DEF EvmRefuses
<1>2. CASE EvmPays \/ WorkTransferUnsure("EVM")
  BY <1>2, TransferPaysKeeps DEF EvmPays
<1>3. ASSUME ReportsError("EVM")
      PROVE  worker' = [worker EXCEPT !["EVM"] = w]
  BY <1>3, <1>t DEF ReportsError, WorkerStates
<1>4. CASE LiquidationReverts
  <2>1. /\ Transferring("EVM") /\ worker' = [worker EXCEPT !["EVM"] = w] /\ BeyondWorker
        /\ UNCHANGED <<waiting, reports, payments, solana, crashes, faults>>
    BY <1>3, <1>4 DEF LiquidationReverts, bounds
  <2>2. w \in WorkerStates /\ w.at = "submit" /\ w.hash = "errorCode"
        /\ w.trade = worker["EVM"].trade
    BY <1>t DEF WorkerStates
  <2>3. WorkerOK("EVM", w)
    BY <1>t, <2>1, <2>2 DEF WorkerOK, Transferring, IInv, WorkInv
  <2>4. /\ waiting' \in [TransferJobs -> Nat] /\ reports' \in [ReportJobs -> Nat]
        /\ \A j \in TransferJobs : waiting'[j] > 0 => j.trade \in Due
        /\ \A j \in ReportJobs :
             reports'[j] > 0 /\ j.hash = "payment" => payments[j.trade] > 0
        /\ crashes' \in 0 .. MaxCrashes /\ faults' \in 0 .. MaxFaults
    BY <2>1 DEF IInv, TypeOK, QueueInv, ReportInv
  <2> HIDE DEF w
  <2> QED
    BY <1>t, <2>1, <2>2, <2>3, <2>4, WorkQuiet
<1>5. CASE LiquidationUnsure
  BY <1>t, <1>3, <1>5, WorkPays DEF LiquidationUnsure
<1> QED
  BY <1>1, <1>2, <1>4, <1>5 DEF EvmTransferToken

LEMMA BtcKeeps ==
    ASSUME IInv, BtcTransferToken
    PROVE  IInv'
BY TransferFailsKeeps, TransferPaysKeeps
   DEF BtcTransferToken, BtcRefuses, BtcPays, Networks

LEMMA SentOnceMore ==
    ASSUME NEW v \in WorkerStates, NEW k \in 0 .. MaxSends, NEW c \in Terms,
           NEW w, w = [v EXCEPT !.at = "confirm", !.sends = k, !.terms = c,
                                !.executed = FALSE]
    PROVE  /\ w \in WorkerStates /\ w.at = "confirm" /\ w.trade = v.trade
           /\ w.terms = c /\ ~w.executed
BY DEF WorkerStates

(* A transaction that is given up was sent.                                *)
LEMMA GivenUp ==
    ASSUME IInv, NoLongerAwaited, UNCHANGED <<payments, signals, chosen, kind>>
    PROVE  solana' \in [Trades -> SolanaStates] /\ PaidInv'
<1> DEFINE more(t) == {c \in Terms : Awaited(t, c) /\ ~ReceiptExists(t, c)}
<1>1. ASSUME NEW t \in Trades
      PROVE  /\ solana'[t] \in SolanaStates
             /\ solana'[t].sent = solana[t].sent /\ solana'[t].landed = solana[t].landed
             /\ solana'[t].flying \subseteq solana[t].flying \cup solana[t].sent
  <2>1. /\ more(t) \subseteq Terms /\ more(t) \subseteq solana[t].sent
    BY <1>1 DEF IInv, SolInv, Awaited
  <2>2. solana'[t] = [solana[t] EXCEPT !.flying = solana[t].flying \cup more(t)]
    BY <1>1 DEF NoLongerAwaited
  <2>3. solana[t] \in SolanaStates
    BY <1>1 DEF IInv, TypeOK
  <2> HIDE DEF more
  <2> QED
    BY <2>1, <2>2, <2>3 DEF SolanaStates
<1>2. solana' \in [Trades -> SolanaStates]
  BY <1>1 DEF NoLongerAwaited
<1>3. Due' = Due
  BY DEF Due
<1> QED
  BY <1>1, <1>2, <1>3 DEF IInv, PaidInv

LEMMA SolanaKeeps ==
    ASSUME IInv, SolanaTransferToken
    PROVE  IInv'
<1> DEFINE n == "SOLANA"
           t == Sol.trade
<1>t. /\ n \in Networks /\ Sol = worker[n] /\ Sol \in WorkerStates
      /\ worker \in [Networks -> WorkerStates] /\ solana \in [Trades -> SolanaStates]
      /\ Sol.at # "idle" => t \in Due /\ t \in Trades /\ kind.network[t] = n
      /\ Sol.at = "transfer" => Sol.sends < MaxSends
  BY DEF IInv, TypeOK, Networks, Sol, WorkInv, Due
<1>q. /\ waiting \in [TransferJobs -> Nat] /\ reports \in [ReportJobs -> Nat]
      /\ \A j \in TransferJobs : waiting[j] > 0 => j.trade \in Due
      /\ \A j \in ReportJobs :
           reports[j] > 0 /\ j.hash = "payment" => payments[j.trade] > 0
      /\ payments \in [Trades -> Nat]
      /\ crashes \in 0 .. MaxCrashes /\ faults \in 0 .. MaxFaults
  BY DEF IInv, TypeOK, QueueInv, ReportInv
<1>1. CASE SolanaRefuses
  BY <1>1, <1>t, TransferFailsKeeps DEF SolanaRefuses
<1>2. CASE SolanaConfirmed
  <2>1. /\ Sol.at = "confirm" /\ Sol.executed /\ WorkGoesTo(n, "submit")
        /\ UNCHANGED <<waiting, reports, payments, solana, bounds>> /\ BeyondWorker
    BY <1>2 DEF SolanaConfirmed
  <2>2. payments[t] > 0
    BY <1>t, <2>1 DEF IInv, PaidInv, SolInv
  <2> QED
    BY <1>t, <2>1, <2>2, WorkMoves
<1>3. CASE SolanaFails
  <2>1. PICK at \in {"transfer", "retry"} :
          /\ WorkGoesTo(n, at) /\ (at = "transfer" => Sol.sends < MaxSends)
          /\ Sol.at = "confirm"
          /\ UNCHANGED <<waiting, reports, payments, solana, bounds>> /\ BeyondWorker
    BY <1>3 DEF SolanaFails, SendAgain, GiveUp
  <2> QED
    BY <1>t, <2>1, WorkMoves
<1>4. ASSUME NEW w, WorkerOK(n, w), w.at # "submit", BeyondWorker,
             worker' = [worker EXCEPT ![n] = w],
             solana' \in [Trades -> SolanaStates], PaidInv', SolInv',
             UNCHANGED <<waiting, reports, payments>>, UNCHANGED bounds \/ Fault
      PROVE  IInv'
  <2>1. crashes' \in 0 .. MaxCrashes /\ faults' \in 0 .. MaxFaults
    BY <1>4, FaultType DEF IInv, TypeOK, bounds
  <2>2. \A x \in Trades : payments[x] <= payments'[x]
    BY <1>q, <1>4
  <2> QED
    BY <1>t, <1>q, <1>4, <2>1, <2>2, WorkFrame
<1>5. CASE SolanaSend
  <2>1. PICK c \in Terms :
          /\ Transferring(n) /\ BeyondWorker
          /\ solana' = [solana EXCEPT ![t].sent = @ \cup {c}]
          /\ worker' = [worker EXCEPT ![n] =
               [Sol EXCEPT !.at = "confirm", !.sends = Sol.sends + 1, !.terms = c,
                           !.executed = FALSE]]
          /\ UNCHANGED <<waiting, reports, payments, bounds>>
    BY <1>5, <1>t DEF SolanaSend
  <2> DEFINE w == [Sol EXCEPT !.at = "confirm", !.sends = Sol.sends + 1, !.terms = c,
                              !.executed = FALSE]
  <2>2. Sol.at = "transfer" /\ t \in Due /\ t \in Trades /\ kind.network[t] = n
    BY <1>t, <2>1 DEF Transferring
  <2>a. Sol.sends + 1 \in 0 .. MaxSends
    BY <1>t, <2>2, ConstantTypes DEF WorkerStates
  <2>3. /\ w \in WorkerStates /\ w.at = "confirm" /\ w.trade = t
        /\ w.terms = c /\ ~w.executed
    BY <1>t, <2>a, SentOnceMore
  <2>4. WorkerOK(n, w)
    BY <1>t, <2>2, <2>3 DEF WorkerOK
  <2>5. worker' = [worker EXCEPT ![n] = w]
    BY <2>1
  <2> HIDE DEF w
  <2>6. /\ solana' \in [Trades -> SolanaStates]
        /\ solana'[t] = [solana[t] EXCEPT !.sent = @ \cup {c}]
        /\ \A x \in Trades : x # t => solana'[x] = solana[x]
    BY <1>t, <2>1, <2>2 DEF SolanaStates
  <2>7. /\ solana'[t].sent = solana[t].sent \cup {c}
        /\ solana'[t].flying = solana[t].flying /\ solana'[t].landed = solana[t].landed
    BY <1>t, <2>2, <2>6 DEF SolanaStates
  <2>8. PaidInv'
    <3>1. Due' = Due /\ kind' = kind /\ payments' = payments
      BY <2>1 DEF BeyondWorker, apiVars, Due
    <3> QED
      BY <2>2, <2>6, <2>7, <3>1 DEF IInv, PaidInv
  <2>9. SolInv'
    <3>1. worker'[n] = w
      BY <1>t, <2>5
    <3> HIDE DEF t
    <3> QED
      BY <2>3, <2>7, <3>1 DEF SolInv, Sol
  <2> QED
    BY <1>4, <2>1, <2>3, <2>4, <2>5, <2>6, <2>8, <2>9
<1>6. CASE SolanaUnsure
  <2>1. PICK at \in {"transfer", "retry"} :
          /\ WorkGoesTo(n, at) /\ (at = "transfer" => Sol.sends < MaxSends)
          /\ Sol.at = "confirm" /\ Fault /\ NoLongerAwaited
          /\ UNCHANGED <<waiting, reports, payments>> /\ BeyondWorker
    BY <1>6 DEF SolanaUnsure, SendAgain, GiveUp
  <2> DEFINE w == [worker[n] EXCEPT !.at = at]
  <2>2. worker' = [worker EXCEPT ![n] = w]
    BY <1>t, <2>1 DEF WorkGoesTo
  <2>3. w \in WorkerStates /\ w.at = at /\ w.trade = t /\ w.sends = Sol.sends
    BY <1>t DEF WorkerStates
  <2>4. WorkerOK(n, w)
    BY <1>t, <2>1, <2>3 DEF WorkerOK
  <2>5. solana' \in [Trades -> SolanaStates] /\ PaidInv'
    BY <2>1, GivenUp DEF BeyondWorker, apiVars
  <2>6. SolInv'
    <3>1. worker'[n] = w
      BY <1>t, <2>2
    <3> HIDE DEF w
    <3> QED
      BY <2>3, <3>1 DEF SolInv, Sol
  <2> HIDE DEF w
  <2> QED
    BY <1>4, <2>1, <2>2, <2>3, <2>4, <2>5, <2>6
<1> QED
  BY <1>1, <1>2, <1>3, <1>5, <1>6 DEF SolanaTransferToken

(* The program executes a payment that was sent.                           *)
LEMMA LandsKeeps ==
    ASSUME IInv, NEW t \in Trades, SolanaLands(t)
    PROVE  IInv'
<1>t. /\ worker \in [Networks -> WorkerStates] /\ solana \in [Trades -> SolanaStates]
      /\ "SOLANA" \in Networks /\ payments \in [Trades -> Nat]
  BY DEF IInv, TypeOK, Networks
<1>1. PICK c \in Terms :
        /\ c \notin solana[t].landed
        /\ \/ c \in solana[t].flying /\ UNCHANGED worker
           \/ Awaited(t, c) /\ worker' = [worker EXCEPT !["SOLANA"].executed = TRUE]
        /\ solana' = [solana EXCEPT ![t].flying = @ \ {c}, ![t].landed = @ \cup {c}]
  BY DEF SolanaLands, ReceiptExists
<1>2. /\ Pay(t)
      /\ UNCHANGED <<row, request, answered, chosen, expired, kind, list, hand, waiting,
                     reports, reporter, reported, signals, crashes, faults>>
  BY DEF SolanaLands, apiVars, reportVars, bounds
<1>3. solana' = [solana EXCEPT ![t] = [solana[t] EXCEPT
                    !.flying = solana[t].flying \ {c},
                    !.landed = solana[t].landed \cup {c}]]
  BY <1>1, <1>t DEF SolanaStates
<1>4. /\ solana' \in [Trades -> SolanaStates]
      /\ solana'[t].landed = solana[t].landed \cup {c}
      /\ solana'[t].flying \subseteq solana[t].flying
      /\ solana'[t].sent = solana[t].sent
      /\ \A y \in Trades : y # t => solana'[y] = solana[y]
  BY <1>3, <1>t DEF SolanaStates
<1>5. c \in solana[t].sent
  BY <1>1 DEF IInv, PaidInv, SolInv, Awaited
<1>6. t \in Due /\ kind.network[t] = "SOLANA"
      /\ payments[t] <= Cardinality(solana[t].landed)
  BY <1>5 DEF IInv, PaidInv
<1>7. /\ payments' \in [Trades -> Nat] /\ payments'[t] = payments[t] + 1
      /\ \A y \in Trades : y # t => payments'[y] = payments[y]
      /\ \A y \in Trades : payments'[y] > 0 => y \in Due
  BY <1>2, <1>6, PayEffect DEF IInv, TypeOK
<1>8. \A y \in Trades : payments[y] > 0 => payments'[y] > 0
  BY <1>t, <1>7
<1>9. /\ worker' \in [Networks -> WorkerStates]
      /\ \A n \in Networks :
           /\ worker'[n].at = worker[n].at /\ worker'[n].trade = worker[n].trade
           /\ worker'[n].sends = worker[n].sends /\ worker'[n].hash = worker[n].hash
           /\ worker'[n].terms = worker[n].terms
           /\ worker'[n].executed # worker[n].executed => n = "SOLANA" /\ Awaited(t, c)
  <2>1. CASE UNCHANGED worker
    BY <1>t, <2>1
  <2>2. CASE Awaited(t, c) /\ worker' = [worker EXCEPT !["SOLANA"].executed = TRUE]
    BY <1>t, <2>2 DEF WorkerStates
  <2> QED
    BY <1>1, <2>1, <2>2
<1>10. TypeOK'
  BY <1>2, <1>4, <1>7, <1>9 DEF IInv, TypeOK
<1>11. ApiInv' /\ QueueInv'
  BY <1>2 DEF IInv, ApiInv, QueueInv, Due
<1>12. PaidInv'
  <2>1. Cardinality(solana'[t].landed) = Cardinality(solana[t].landed) + 1
    <3>1. IsFiniteSet(solana[t].landed)
      BY <1>t, ConstantTypes, FS_Subset DEF SolanaStates
    <3> QED
      BY <1>1, <1>4, <3>1, FS_AddElement
  <2>2. Due' = Due /\ kind' = kind
    BY <1>2 DEF Due
  <2>3. payments'[t] <= Cardinality(solana'[t].landed) /\ payments'[t] > 0
    <3>1. Cardinality(solana[t].landed) \in Nat
      BY <1>t, ConstantTypes, FS_Subset, FS_CardinalityType DEF SolanaStates
    <3> QED
      BY <1>t, <1>6, <1>7, <2>1, <3>1
  <2> QED
    BY <1>4, <1>5, <1>6, <1>7, <2>2, <2>3 DEF IInv, PaidInv
<1>13. WorkInv'
  <2>1. \A n \in Networks : worker[n].at = "submit" => worker[n].trade \in Trades
    BY DEF IInv, TypeOK, WorkInv, Due
  <2> QED
    BY <1>2, <1>8, <1>9, <2>1 DEF IInv, WorkInv, Due
<1>14. SolInv'
  <2> DEFINE u == Sol.trade
  <2>1. Sol.at = "confirm" => u \in Trades
    BY <1>t DEF IInv, TypeOK, WorkInv, Due, Sol
  <2>2. u \in Trades => solana'[u].sent = solana[u].sent
                          /\ solana[u].landed \subseteq solana'[u].landed
    BY <1>4
  <2>3. /\ Sol'.at = Sol.at /\ Sol'.trade = u /\ Sol'.terms = Sol.terms
        /\ Sol'.executed # Sol.executed => u = t /\ Sol.terms = c
    BY <1>t, <1>9 DEF Sol, Awaited
  <2>4. c \in solana'[t].landed
    BY <1>4
  <2> QED
    BY <2>1, <2>2, <2>3, <2>4 DEF IInv, SolInv
<1>15. ReportInv'
  BY <1>2, <1>8 DEF IInv, ReportInv, ReportJobs
<1> QED
  BY <1>10, <1>11, <1>12, <1>13, <1>14, <1>15 DEF IInv

LEMMA ReportKeeps ==
    ASSUME IInv, ReportStep
    PROVE  IInv'
<1>t. /\ reports \in [ReportJobs -> Nat] /\ reporter \in ReporterStates
      /\ reported \in [Trades -> SUBSET Hashes]
      /\ crashes \in 0 .. MaxCrashes /\ faults \in 0 .. MaxFaults
  BY DEF IInv, TypeOK
<1>1. ASSUME BeyondReporter, reports' \in [ReportJobs -> Nat], reporter' \in ReporterStates,
             reported' \in [Trades -> SUBSET Hashes],
             crashes' \in 0 .. MaxCrashes, faults' \in 0 .. MaxFaults,
             \A j \in ReportJobs : reports'[j] <= reports[j],
             reporter'.at # "idle" =>
                 /\ reporter'.trade \in Trades
                 /\ reporter'.hash = "payment" => payments[reporter'.trade] > 0,
             \A t \in Trades : "payment" \in reported'[t] => payments[t] > 0
      PROVE  IInv'
  <2>1. TypeOK'
    BY <1>1 DEF IInv, TypeOK, BeyondReporter, apiVars
  <2>2. ApiInv' /\ QueueInv' /\ WorkInv' /\ PaidInv' /\ SolInv'
    BY <1>1 DEF IInv, ApiInv, QueueInv, WorkInv, PaidInv, SolInv, Sol, BeyondReporter,
       apiVars, Due
  <2>3. \A j \in ReportJobs : reports'[j] > 0 => reports[j] > 0
    BY <1>t, <1>1
  <2>4. ReportInv'
    BY <1>1, <2>3 DEF IInv, ReportInv, BeyondReporter
  <2> QED
    BY <2>1, <2>2, <2>4 DEF IInv
<1>2. ASSUME NEW j \in ReportJobs, ReportTake(j)
      PROVE  IInv'
  <2> DEFINE new == [at |-> "report", trade |-> j.trade, hash |-> j.hash, stalls |-> j.stalls]
  <2>1. /\ reports' = [reports EXCEPT ![j] = reports[j] - 1] /\ reports[j] > 0
        /\ reporter' = new /\ BeyondReporter /\ UNCHANGED <<reported, crashes, faults>>
    BY <1>2 DEF ReportTake, bounds
  <2>2. /\ new \in ReporterStates /\ new.trade \in Trades
        /\ new.hash = "payment" => payments[new.trade] > 0
    BY <2>1 DEF ReporterStates, ReportJobs, IInv, ReportInv
  <2>3. /\ reports' \in [ReportJobs -> Nat]
        /\ \A x \in ReportJobs : reports'[x] <= reports[x]
    BY <1>t, <2>1
  <2>4. \A t \in Trades : "payment" \in reported[t] => payments[t] > 0
    BY DEF IInv, ReportInv
  <2> HIDE DEF new
  <2> QED
    BY <1>t, <1>1, <2>1, <2>2, <2>3, <2>4
<1>3. \A x \in ReportJobs : reports[x] <= reports[x]
  BY <1>t
<1> DEFINE done == [reporter EXCEPT !.at = "done"]
<1>4. done \in ReporterStates /\ done.trade = reporter.trade /\ done.hash = reporter.hash
  BY <1>t DEF ReporterStates
<1>5. CASE ReportAccepted
  <2>1. /\ reporter.at = "report" /\ reporter' = done /\ BeyondReporter
        /\ reported' = [reported EXCEPT ![reporter.trade] = @ \cup {reporter.hash}]
        /\ UNCHANGED <<reports, crashes, faults>>
    BY <1>5 DEF ReportAccepted, bounds
  <2>2. /\ reporter.trade \in Trades /\ reporter.hash \in Hashes
        /\ reporter.hash = "payment" => payments[reporter.trade] > 0
    BY <1>t, <2>1 DEF IInv, ReportInv, ReporterStates
  <2>3. reported' \in [Trades -> SUBSET Hashes]
    BY <1>t, <2>1, <2>2
  <2>4. \A t \in Trades : "payment" \in reported'[t] => payments[t] > 0
    BY <1>t, <2>1, <2>2 DEF IInv, ReportInv
  <2> HIDE DEF done
  <2> QED
    BY <1>t, <1>1, <1>3, <1>4, <2>1, <2>2, <2>3, <2>4
<1>6. CASE ReportFails
  <2>1. /\ reporter.at = "report" /\ reporter' = done /\ BeyondReporter /\ Fault
        /\ UNCHANGED <<reports, reported>>
    BY <1>6 DEF ReportFails
  <2>2. faults' \in 0 .. MaxFaults /\ crashes' \in 0 .. MaxCrashes
    BY <2>1, FaultType DEF IInv
  <2>3. /\ reporter.trade \in Trades
        /\ reporter.hash = "payment" => payments[reporter.trade] > 0
        /\ \A t \in Trades : "payment" \in reported[t] => payments[t] > 0
    BY <2>1 DEF IInv, ReportInv
  <2> HIDE DEF done
  <2> QED
    BY <1>t, <1>1, <1>3, <1>4, <2>1, <2>2, <2>3
<1>7. CASE ReportFinish
  <2>1. /\ reporter' = IdleReporter /\ BeyondReporter
        /\ UNCHANGED <<reports, reported, crashes, faults>>
    BY <1>7 DEF ReportFinish, bounds
  <2>2. IdleReporter \in ReporterStates /\ IdleReporter.at = "idle"
    BY ConstantTypes DEF IdleReporter, ReporterStates, Hashes
  <2>3. \A t \in Trades : "payment" \in reported[t] => payments[t] > 0
    BY DEF IInv, ReportInv
  <2> QED
    BY <1>t, <1>1, <1>3, <2>1, <2>2, <2>3
<1> QED
  BY <1>2, <1>5, <1>6, <1>7 DEF ReportStep

LEMMA DeadlineKeeps ==
    ASSUME IInv, NEW t \in Trades, DeadlinePasses(t)
    PROVE  IInv'
<1>1. /\ expired' = [expired EXCEPT ![t] = TRUE]
      /\ UNCHANGED <<row, request, answered, chosen, kind, list, hand, waiting, worker,
                     solana, reports, reporter, reported, signals, payments, crashes, faults>>
  BY DEF DeadlinePasses, apiVars, reportVars, bounds
<1>2. TypeOK' /\ ApiInv' /\ QueueInv'
  BY <1>1 DEF IInv, TypeOK, ApiInv, QueueInv, Due
<1>3. WorkInv' /\ PaidInv' /\ SolInv' /\ ReportInv'
  BY <1>1 DEF IInv, WorkInv, PaidInv, SolInv, Sol, ReportInv, Due
<1> QED
  BY <1>2, <1>3 DEF IInv

LEMMA NetworksFinite ==
    ASSUME NEW S \in SUBSET Networks
    PROVE  IsFiniteSet(S) /\ Cardinality(S) \in Nat /\ (Cardinality(S) > 0 => S # {})
<1>1. IsFiniteSet(((({} \cup {"EVM"}) \cup {"BTC"}) \cup {"SOLANA"}))
  BY FS_EmptySet, FS_AddElement
<1>2. Networks = ((({} \cup {"EVM"}) \cup {"BTC"}) \cup {"SOLANA"})
  BY DEF Networks
<1>3. IsFiniteSet(S)
  BY <1>1, <1>2, FS_Subset
<1> QED
  BY <1>3, FS_CardinalityType, FS_EmptySet

LEMMA CrashKeeps ==
    ASSUME IInv, Crash
    PROVE  IInv'
<1> DEFINE back(j) == {n \in Networks : Stalled(n) /\ StalledJob(n) = j}
<1>t. /\ worker \in [Networks -> WorkerStates] /\ reporter \in ReporterStates
      /\ waiting \in [TransferJobs -> Nat] /\ reports \in [ReportJobs -> Nat]
      /\ crashes \in 0 .. MaxCrashes /\ faults \in 0 .. MaxFaults
  BY DEF IInv, TypeOK
<1>1. /\ crashes' \in 0 .. MaxCrashes
      /\ request' = [q \in Requests |-> IdleCall]
      /\ hand' = [m \in Monitors |-> <<>>]
      /\ waiting' = [j \in TransferJobs |-> waiting[j] + Cardinality(back(j))]
      /\ worker' = [n \in Networks |-> IdleWorker] /\ reporter' = IdleReporter
      /\ NoLongerAwaited
      /\ UNCHANGED <<row, answered, chosen, expired, kind, list, reported,
                     signals, payments, faults>>
  BY <1>t, ConstantTypes DEF Crash
<1>2. \A j \in TransferJobs : /\ Cardinality(back(j)) \in Nat
                              /\ Cardinality(back(j)) > 0 => back(j) # {}
  BY NetworksFinite
<1>3. ASSUME NEW j \in TransferJobs, back(j) # {}
      PROVE  j.trade \in Due
  BY <1>3 DEF Stalled, StalledJob, IInv, WorkInv
<1> HIDE DEF back
<1>4. waiting' \in [TransferJobs -> Nat]
  BY <1>t, <1>1, <1>2
<1>5. ASSUME NEW j \in TransferJobs, waiting'[j] > 0
      PROVE  j.trade \in Due
  <2>1. waiting[j] > 0 \/ back(j) # {}
    BY <1>t, <1>1, <1>2, <1>5
  <2> QED
    BY <1>3, <2>1 DEF IInv, QueueInv
<1>6. /\ reports' \in [ReportJobs -> Nat]
      /\ \A j \in ReportJobs :
           reports'[j] > 0 /\ j.hash = "payment" => payments[j.trade] > 0
  <2>1. CASE reporter.at # "idle" /\ reporter.stalls < MaxStalls
    <3>1. reports' = [reports EXCEPT ![StalledReport] = reports[StalledReport] + 1]
      BY <2>1 DEF Crash
    <3>2. /\ StalledReport \in ReportJobs
          /\ StalledReport.hash = "payment" => payments[StalledReport.trade] > 0
      BY <1>t, <2>1, ConstantTypes
         DEF StalledReport, ReportJobs, ReporterStates, IInv, ReportInv
    <3>3. /\ reports' \in [ReportJobs -> Nat]
          /\ \A j \in ReportJobs : j # StalledReport => reports'[j] = reports[j]
      BY <1>t, <3>1, <3>2
    <3> QED
      BY <3>2, <3>3 DEF IInv, ReportInv
  <2>2. CASE ~(reporter.at # "idle" /\ reporter.stalls < MaxStalls)
    BY <1>t, <2>2 DEF Crash, IInv, ReportInv
  <2> QED
    BY <2>1, <2>2
<1>7. /\ IdleCall \in RequestStates /\ IdleWorker \in WorkerStates
      /\ IdleReporter \in ReporterStates
      /\ IdleCall.at = "idle" /\ IdleWorker.at = "idle" /\ IdleReporter.at = "idle"
  BY ConstantTypes DEF IdleCall, IdleWorker, IdleReporter, RequestStates, WorkerStates,
     ReporterStates, Hashes
<1>8. /\ request' \in [Requests -> RequestStates] /\ hand' \in [Monitors -> Seq(Trades)]
      /\ worker' \in [Networks -> WorkerStates]
      /\ \A m \in Monitors : hand'[m] \in Seq(Due)
      /\ \A q \in Requests : request'[q].at = "idle"
      /\ \A n \in Networks : worker'[n].at = "idle"
  BY <1>1, <1>7, EmptySeq
<1>p. solana' \in [Trades -> SolanaStates] /\ PaidInv'
  BY <1>1, GivenUp
<1>9. TypeOK'
  BY <1>1, <1>4, <1>6, <1>7, <1>8, <1>p DEF IInv, TypeOK
<1>10. ApiInv' /\ QueueInv'
  BY <1>1, <1>5, <1>8 DEF IInv, ApiInv, QueueInv, Due
<1>11. WorkInv' /\ SolInv'
  BY <1>1, <1>8 DEF IInv, WorkInv, SolInv, Sol, Networks, Due
<1>12. ReportInv'
  BY <1>1, <1>6, <1>7 DEF IInv, ReportInv
<1> QED
  BY <1>9, <1>10, <1>11, <1>12, <1>p DEF IInv

-----------------------------------------------------------------------------
(* The theorems                                                            *)

LEMMA InvInit == Init => IInv
<1> SUFFICES ASSUME Init PROVE IInv
  OBVIOUS
<1>1. /\ IdleCall \in RequestStates /\ IdleWorker \in WorkerStates
      /\ IdleReporter \in ReporterStates
      /\ IdleCall.at = "idle" /\ IdleWorker.at = "idle" /\ IdleReporter.at = "idle"
  BY ConstantTypes DEF IdleCall, IdleWorker, IdleReporter, RequestStates, WorkerStates,
     ReporterStates, Hashes
<1>2. TypeOK
  BY <1>1, ConstantTypes, EmptySeq DEF Init, TypeOK, Rows, SolanaStates, NothingSent
<1>3. ApiInv /\ QueueInv
  BY <1>1, EmptySeq DEF Init, ApiInv, QueueInv
<1>4. WorkInv /\ SolInv /\ ReportInv
  BY <1>1 DEF Init, WorkInv, SolInv, Sol, Networks, ReportInv
<1>5. PaidInv
  <2> SUFFICES ASSUME NEW t \in Trades
               PROVE  /\ payments[t] = 0 /\ solana[t] = NothingSent
                      /\ Cardinality(NothingSent.landed) = 0
    BY DEF PaidInv, NothingSent
  <2> QED
    BY FS_EmptySet DEF Init, NothingSent
<1> QED
  BY <1>2, <1>3, <1>4, <1>5 DEF IInv

LEMMA InvStutter ==
    ASSUME IInv, UNCHANGED vars
    PROVE  IInv'
<1>1. UNCHANGED <<row, request, answered, chosen, expired, kind, list, hand, waiting,
                  worker, solana, reports, reporter, reported, signals, payments,
                  crashes, faults>>
  BY DEF vars, apiVars, reportVars, bounds
<1>2. TypeOK' /\ ApiInv' /\ QueueInv'
  BY <1>1 DEF IInv, TypeOK, ApiInv, QueueInv, Due
<1>3. WorkInv' /\ PaidInv' /\ SolInv' /\ ReportInv'
  BY <1>1 DEF IInv, WorkInv, PaidInv, SolInv, Sol, ReportInv, Due
<1> QED
  BY <1>2, <1>3 DEF IInv

(* What is under way for a trade was chosen, what is reported was paid,    *)
(* and the receipt counts the payments on Solana, in every state of the    *)
(* settlement.                                                             *)
THEOREM InductiveInvariantSettlement == Spec => []IInv
<1>1. ASSUME IInv, Next
      PROVE  IInv'
  <2>1. CASE \E q \in Requests : ApiStep(q)
    BY <1>1, <2>1, ApiKeeps
  <2>2. CASE \E t \in Trades : DeadlinePasses(t) \/ SolanaLands(t)
    BY <1>1, <2>2, DeadlineKeeps, LandsKeeps
  <2>3. CASE \E m \in Monitors : MonitorStep(m)
    BY <1>1, <2>3, MonitorKeeps
  <2>4. CASE EvmWorkStep \/ BtcWorkStep \/ SolanaWorkStep
    <3>1. "EVM" \in Networks /\ "BTC" \in Networks /\ "SOLANA" \in Networks
      BY DEF Networks
    <3> QED
      BY <1>1, <2>4, <3>1, WorkKeeps, EvmKeeps, BtcKeeps, SolanaKeeps
         DEF EvmWorkStep, BtcWorkStep, SolanaWorkStep
  <2>5. CASE ReportStep \/ Crash
    BY <1>1, <2>5, ReportKeeps, CrashKeeps
  <2> QED
    BY <1>1, <2>1, <2>2, <2>3, <2>4, <2>5 DEF Next
<1> QED
  BY <1>1, InvInit, InvStutter, PTL DEF Spec

(* Every reachable state of the settlement is well typed.                  *)
THEOREM SettlementTypeCorrect == Spec => []TypeOK
BY InductiveInvariantSettlement, PTL DEF IInv

(* Only a trade that the solver acknowledged as chosen is ever paid,       *)
(* whatever becomes of its row and however often its job is retried.       *)
THEOREM ChosenArePaid == Spec => []PaidWasChosen
<1>1. IInv => PaidWasChosen
  BY DEF IInv, PaidInv, PaidWasChosen, Due
<1> QED
  BY <1>1, InductiveInvariantSettlement, PTL

(* On Solana a trade is paid at most once under the same terms, for any    *)
(* number of signals, retries, resends and crashes, and for any answers of *)
(* the router.                                                             *)
THEOREM PaidOncePerTermsOnSolana == Spec => []SolanaPaidOncePerTerms
<1>1. ASSUME IInv, NEW t \in Trades, kind.network[t] = "SOLANA"
      PROVE  payments[t] <= Cardinality(solana[t].sent)
  <2>1. /\ solana[t].landed \subseteq solana[t].sent /\ solana[t].sent \subseteq Terms
        /\ payments[t] <= Cardinality(solana[t].landed) /\ payments[t] \in Nat
    BY <1>1 DEF IInv, TypeOK, PaidInv, SolanaStates
  <2>2. /\ IsFiniteSet(solana[t].sent) /\ Cardinality(solana[t].sent) \in Nat
        /\ Cardinality(solana[t].landed) <= Cardinality(solana[t].sent)
        /\ Cardinality(solana[t].landed) \in Nat
    BY <2>1, ConstantTypes, FS_Subset, FS_CardinalityType
  <2> QED
    BY <2>1, <2>2
<1>2. IInv => SolanaPaidOncePerTerms
  BY <1>1 DEF SolanaPaidOncePerTerms
<1> QED
  BY <1>2, InductiveInvariantSettlement, PTL

-----------------------------------------------------------------------------
(* Settlement implements Payout                                            *)

PayoutStep == [PayoutOf!Next]_(PayoutOf!vars)

LEMMA IdleRefines ==
    ASSUME UNCHANGED <<chosen, payments, reported>>
    PROVE  PayoutStep
BY DEF PayoutStep, PayoutOf!vars

LEMMA GrantRefines ==
    ASSUME NEW t \in Trades, chosen' \in {chosen, chosen \cup {t}},
           UNCHANGED <<payments, reported>>
    PROVE  PayoutStep
<1>1. CASE chosen' = chosen
  BY <1>1, IdleRefines
<1>2. CASE chosen' = chosen \cup {t}
  <2>1. PayoutOf!Grant(t)
    BY <1>2 DEF PayoutOf!Grant
  <2> QED
    BY <2>1 DEF PayoutStep, PayoutOf!Next
<1> QED
  BY <1>1, <1>2

LEMMA PayRefines ==
    ASSUME IInv, NEW t \in Trades, t \in Due, Pay(t), UNCHANGED <<chosen, reported>>
    PROVE  PayoutStep
<1>1. /\ payments'[t] = payments[t] + 1 /\ payments[t] \in Nat
      /\ \A x \in Trades : x # t => payments'[x] = payments[x]
  BY PayEffect DEF IInv, TypeOK
<1>2. {x \in Trades : payments'[x] > 0} = {x \in Trades : payments[x] > 0} \cup {t}
  BY <1>1
<1>3. PayoutOf!Pay(t)
  BY <1>2 DEF PayoutOf!Pay, Due
<1> QED
  BY <1>3 DEF PayoutStep, PayoutOf!Next

LEMMA ClaimRefines ==
    ASSUME IInv, ReportAccepted
    PROVE  PayoutStep
<1>1. /\ reporter.trade \in Trades
      /\ reporter.hash = "payment" => payments[reporter.trade] > 0
      /\ reported \in [Trades -> SUBSET Hashes]
      /\ reported' = [reported EXCEPT ![reporter.trade] =
                         reported[reporter.trade] \cup {reporter.hash}]
      /\ UNCHANGED <<chosen, payments>>
  BY DEF ReportAccepted, BeyondReporter, apiVars, IInv, ReportInv, TypeOK
<1>2. PICK t \in Trades : t = reporter.trade
  BY <1>1
<1>3. CASE reporter.hash = "payment"
  <2>1. {x \in Trades : "payment" \in reported'[x]}
            = {x \in Trades : "payment" \in reported[x]} \cup {t}
    BY <1>1, <1>2, <1>3
  <2>2. PayoutOf!Claim(t)
    BY <1>1, <1>2, <1>3, <2>1 DEF PayoutOf!Claim
  <2> QED
    BY <2>2 DEF PayoutStep, PayoutOf!Next
<1>4. CASE reporter.hash # "payment"
  <2>1. {x \in Trades : "payment" \in reported'[x]}
            = {x \in Trades : "payment" \in reported[x]}
    BY <1>1, <1>4
  <2> QED
    BY <1>1, <2>1 DEF PayoutStep, PayoutOf!vars
<1> QED
  BY <1>3, <1>4

LEMMA ApiRefines ==
    ASSUME IInv, NEW q \in Requests, ApiStep(q)
    PROVE  PayoutStep
<1>1. UNCHANGED <<payments, reported>>
  BY ApiEffect DEF BeyondApi, reportVars
<1>2. CASE AckSelect(q)
  <2>1. /\ request[q].trade \in Trades
        /\ chosen' \in {chosen, chosen \cup {request[q].trade}}
    BY <1>2 DEF AckSelect, IInv, ApiInv
  <2> QED
    BY <1>1, <2>1, GrantRefines
<1>3. CASE ~AckSelect(q)
  <2>1. UNCHANGED chosen
    BY <1>3 DEF ApiStep, QuoteStart, SignStart, AckStart, SignalStart, QuoteDelete,
       QuoteCreate, QuotePrice, SignCommit, AckRefuse, SignalPush, SignalMark, CallFails
  <2> QED
    BY <1>1, <2>1, IdleRefines
<1> QED
  BY <1>2, <1>3

(* A worker pays the trade of its job or nobody.                           *)
LEMMA WorkRefines ==
    ASSUME IInv, EvmWorkStep \/ BtcWorkStep \/ SolanaWorkStep
    PROVE  PayoutStep
<1>1. \/ UNCHANGED <<chosen, payments, reported>>
      \/ \E n \in Networks : /\ Transferring(n) /\ Pay(worker[n].trade)
                             /\ UNCHANGED <<chosen, reported>>
  <2>1. ASSUME NEW n \in Networks, WorkStep(n)
        PROVE  UNCHANGED <<chosen, payments, reported>>
    BY <2>1 DEF WorkStep, WorkTake, WorkDeclines, WorkCheck, WorkCheckFails,
       WorkNoStrategy, WorkSubmit, WorkSubmitFails, WorkRetry, WorkRetryFails,
       WorkFinish, BeyondWorker, apiVars
  <2>2. ASSUME NEW n \in Networks, WorkTransferFails(n)
        PROVE  UNCHANGED <<chosen, payments, reported>>
    BY <2>2 DEF WorkTransferFails, BeyondWorker, apiVars
  <2>3. ASSUME NEW n \in Networks, WorkTransfer(n) \/ WorkTransferUnsure(n)
        PROVE  /\ Transferring(n) /\ Pay(worker[n].trade)
               /\ UNCHANGED <<chosen, reported>>
    BY <2>3 DEF WorkTransfer, WorkTransferUnsure, BeyondWorker, apiVars
  <2>4. CASE LiquidationUnsure
    BY <2>4 DEF LiquidationUnsure, BeyondWorker, apiVars, Networks
  <2>5. CASE LiquidationReverts \/ SolanaSend \/ SolanaConfirmed \/ SolanaFails
               \/ SolanaUnsure
    BY <2>5 DEF LiquidationReverts, SolanaSend, SolanaConfirmed, SolanaFails,
       SolanaUnsure, BeyondWorker, apiVars
  <2>6. "EVM" \in Networks /\ "BTC" \in Networks /\ "SOLANA" \in Networks
    BY DEF Networks
  <2> QED
    BY <2>1, <2>2, <2>3, <2>4, <2>5, <2>6
       DEF EvmWorkStep, BtcWorkStep, SolanaWorkStep, EvmTransferToken, BtcTransferToken,
           SolanaTransferToken, EvmRefuses, EvmPays, BtcRefuses, BtcPays, SolanaRefuses
<1>2. ASSUME NEW n \in Networks, Transferring(n), Pay(worker[n].trade),
             UNCHANGED <<chosen, reported>>
      PROVE  PayoutStep
  <2>1. worker[n].trade \in Due /\ Due \subseteq Trades
    BY <1>2 DEF Transferring, IInv, WorkInv, TypeOK, Due
  <2> QED
    BY <1>2, <2>1, PayRefines
<1> QED
  BY <1>1, <1>2, IdleRefines

LEMMA RestRefines ==
    ASSUME IInv, \/ \E t \in Trades : DeadlinePasses(t) \/ SolanaLands(t)
                 \/ \E m \in Monitors : MonitorStep(m)
                 \/ ReportStep \/ Crash
    PROVE  PayoutStep
<1>1. ASSUME NEW t \in Trades, SolanaLands(t)
      PROVE  PayoutStep
  <2>1. Pay(t) /\ UNCHANGED <<chosen, reported>>
    BY <1>1 DEF SolanaLands, apiVars, reportVars
  <2>a. PICK c \in Terms : c \in solana[t].flying \/ Awaited(t, c)
    BY <1>1 DEF SolanaLands
  <2>2. t \in Due
    BY <2>a DEF IInv, PaidInv, SolInv, Awaited
  <2> QED
    BY <2>1, <2>2, PayRefines
<1>2. CASE \E t \in Trades : DeadlinePasses(t)
  BY <1>2, IdleRefines DEF DeadlinePasses, apiVars, reportVars
<1>3. CASE \E m \in Monitors : MonitorStep(m)
  BY <1>3, IdleRefines DEF MonitorStep, EvmMonitorPop, BtcMonitorPop, SolanaMonitorPop,
     MonitorPop, MonitorAdd, MonitorAddFails, BeyondMonitor, apiVars, reportVars
<1>4. CASE ReportStep /\ ~ReportAccepted
  BY <1>4, IdleRefines DEF ReportStep, ReportTake, ReportFails, ReportFinish,
     BeyondReporter, apiVars
<1>5. CASE Crash
  BY <1>5, IdleRefines DEF Crash
<1> QED
  BY <1>1, <1>2, <1>3, <1>4, <1>5, ClaimRefines

(* Every step of the settlement is a trade being granted, paid or claimed, *)
(* or no step of Payout at all: no network pays without the solver's       *)
(* acknowledgement, and no payment is reported that was not made.          *)
THEOREM SettlementIsPayout == Spec => ImplementsPayout
<1>1. Init => PayoutOf!Init
  BY DEF Init, PayoutOf!Init
<1>2. ASSUME IInv, [Next]_vars
      PROVE  PayoutStep
  <2>1. CASE Next
    BY <1>2, <2>1, ApiRefines, WorkRefines, RestRefines DEF Next
  <2>2. CASE UNCHANGED vars
    BY <2>2, IdleRefines DEF vars, apiVars, reportVars
  <2> QED
    BY <1>2, <2>1, <2>2
<1> QED
  BY <1>1, <1>2, InductiveInvariantSettlement, PTL
     DEF Spec, ImplementsPayout, PayoutOf!Spec, PayoutStep
-----------------------------------------------------------------------------
(* Accounting for the payments                                             *)

(* A worker that may still pay: the transaction it waits for has not been  *)
(* executed.                                                               *)
Monies == {"check", "transfer", "retry"}

MayPay(w) == w.at \in Monies \/ (w.at = "confirm" /\ ~w.executed)

(* What a payment of t was made from or may still be made from: a message  *)
(* (those in hand are counted from the end, which popping leaves alone), a *)
(* job, a worker that has not paid yet, a Solana transaction that was given*)
(* up and may land yet, and each payment made.                             *)
Claim(t, at, key, k) ==
    \/ /\ at = "list" /\ key \in Networks
       /\ k \in 1 .. Len(list[key]) /\ list[key][k] = t
    \/ /\ at = "hand" /\ key \in Monitors
       /\ k \in 1 .. Len(hand[key]) /\ hand[key][Len(hand[key]) + 1 - k] = t
    \/ /\ at = "waiting" /\ key \in TransferJobs
       /\ key.trade = t /\ k \in 1 .. waiting[key]
    \/ /\ at = "work" /\ key \in Networks
       /\ worker[key].trade = t /\ MayPay(worker[key]) /\ k = 1
    \/ at = "flight" /\ key \in solana[t].flying /\ k = 1
    \/ at = "paid" /\ key = t /\ k \in 1 .. payments[t]

Places == {"list", "hand", "waiting", "work", "flight", "paid"}
              \X (Networks \cup Monitors \cup TransferJobs \cup Terms \cup Trades)
              \X Nat

Claims(t) == {x \in Places : Claim(t, x[1], x[2], x[3])}

Budget(t) == signals[t] + faults + crashes

Accounted(t) == IsFiniteSet(Claims(t)) /\ Cardinality(Claims(t)) <= Budget(t)

(* The payments of a trade, and those that may still be made without       *)
(* another signal, fault or crash, are within its budget.                  *)
AccountInv == \A t \in Trades : Accounted(t)

SameFlying == \A t \in Trades : solana'[t].flying = solana[t].flying

LEMMA OneMoved ==
    ASSUME NEW S, IsFiniteSet(S), NEW a \in S, NEW b, NEW T,
           T \subseteq (S \ {a}) \cup {b}
    PROVE  IsFiniteSet(T) /\ Cardinality(T) <= Cardinality(S)
<1>1. IsFiniteSet(S \ {a}) /\ Cardinality(S \ {a}) = Cardinality(S) - 1
  BY FS_RemoveElement
<1> DEFINE R == S \ {a}
<1>a. IsFiniteSet(R) /\ Cardinality(R) \in Nat
  BY <1>1, FS_CardinalityType
<1> HIDE DEF R
<1>b. IsFiniteSet(R \cup {b}) /\ Cardinality(R \cup {b}) <= Cardinality(R) + 1
  BY <1>a, FS_AddElement
<1>2. /\ IsFiniteSet((S \ {a}) \cup {b}) /\ Cardinality(S \ {a}) \in Nat
      /\ Cardinality((S \ {a}) \cup {b}) <= Cardinality(S \ {a}) + 1
  BY <1>a, <1>b DEF R
<1>3. IsFiniteSet(T) /\ Cardinality(T) <= Cardinality((S \ {a}) \cup {b})
  BY <1>2, FS_Subset
<1>4. /\ Cardinality(S) \in Nat /\ Cardinality(T) \in Nat
      /\ Cardinality((S \ {a}) \cup {b}) \in Nat
  BY <1>2, <1>3, FS_CardinalityType
<1> QED
  BY <1>1, <1>2, <1>3, <1>4

LEMMA OneMore ==
    ASSUME NEW S, IsFiniteSet(S), NEW b, NEW T, T \subseteq S \cup {b}
    PROVE  IsFiniteSet(T) /\ Cardinality(T) <= Cardinality(S) + 1
<1>1. /\ IsFiniteSet(S \cup {b}) /\ Cardinality(S) \in Nat
      /\ Cardinality(S \cup {b}) <= Cardinality(S) + 1
  BY FS_AddElement, FS_CardinalityType
<1>2. IsFiniteSet(T) /\ Cardinality(T) <= Cardinality(S \cup {b})
  BY <1>1, FS_Subset
<1>3. Cardinality(T) \in Nat /\ Cardinality(S \cup {b}) \in Nat
  BY <1>1, <1>2, FS_CardinalityType
<1> QED
  BY <1>1, <1>2, <1>3

(* A claim is a triple of its place, and nothing else is a claim.          *)
LEMMA ClaimIn ==
    ASSUME NEW t \in Trades, TypeOK, NEW at, NEW key, NEW k, Claim(t, at, key, k)
    PROVE  <<at, key, k>> \in Claims(t)
<1>1. \A n \in Networks : Len(list[n]) \in Nat
  BY DEF TypeOK
<1>2. \A m \in Monitors : Len(hand[m]) \in Nat
  BY DEF TypeOK
<1>3. /\ \A j \in TransferJobs : waiting[j] \in Nat
      /\ payments[t] \in Nat /\ solana[t].flying \subseteq Terms
  BY DEF TypeOK, SolanaStates
<1>4. <<at, key, k>> \in Places
  BY <1>1, <1>2, <1>3 DEF Claim, Places
<1> QED
  BY <1>4 DEF Claims

LEMMA ClaimsWithin ==
    ASSUME NEW t \in Trades, NEW S,
           \A at, key, k : Claim(t, at, key, k)' => <<at, key, k>> \in S
    PROVE  Claims(t)' \subseteq S
<1> SUFFICES ASSUME NEW x \in Places, Claim(t, x[1], x[2], x[3])' PROVE x \in S
  BY DEF Claims, Places
<1>1. x = <<x[1], x[2], x[3]>>
  BY DEF Places
<1> QED
  BY <1>1

(* The three ways a step may change the claims of a trade.                 *)
LEMMA ClaimsShrink ==
    ASSUME NEW t \in Trades, TypeOK, TypeOK', Accounted(t), Budget(t)' >= Budget(t),
           Claims(t)' \subseteq Claims(t)
    PROVE  Accounted(t)'
<1>1. IsFiniteSet(Claims(t)') /\ Cardinality(Claims(t)') <= Cardinality(Claims(t))
  BY FS_Subset DEF Accounted
<1>2. Cardinality(Claims(t)') \in Nat /\ Cardinality(Claims(t)) \in Nat
  BY <1>1, FS_CardinalityType DEF Accounted
<1>3. Budget(t) \in Nat /\ Budget(t)' \in Nat
  BY ConstantTypes DEF TypeOK, Budget
<1> QED
  BY <1>1, <1>2, <1>3 DEF Accounted

LEMMA ClaimMoves ==
    ASSUME NEW t \in Trades, TypeOK, TypeOK', Accounted(t), Budget(t)' >= Budget(t),
           NEW a \in Claims(t), NEW b, Claims(t)' \subseteq (Claims(t) \ {a}) \cup {b}
    PROVE  Accounted(t)'
<1>1. IsFiniteSet(Claims(t)') /\ Cardinality(Claims(t)') <= Cardinality(Claims(t))
  BY OneMoved DEF Accounted
<1>2. Cardinality(Claims(t)') \in Nat /\ Cardinality(Claims(t)) \in Nat
  BY <1>1, FS_CardinalityType DEF Accounted
<1>3. Budget(t) \in Nat /\ Budget(t)' \in Nat
  BY ConstantTypes DEF TypeOK, Budget
<1> QED
  BY <1>1, <1>2, <1>3 DEF Accounted

LEMMA ClaimAdded ==
    ASSUME NEW t \in Trades, TypeOK, TypeOK', Accounted(t), Budget(t)' >= Budget(t) + 1,
           NEW b, Claims(t)' \subseteq Claims(t) \cup {b}
    PROVE  Accounted(t)'
<1>1. IsFiniteSet(Claims(t)') /\ Cardinality(Claims(t)') <= Cardinality(Claims(t)) + 1
  BY OneMore DEF Accounted
<1>2. Cardinality(Claims(t)') \in Nat /\ Cardinality(Claims(t)) \in Nat
  BY <1>1, FS_CardinalityType DEF Accounted
<1>3. Budget(t) \in Nat /\ Budget(t)' \in Nat
  BY ConstantTypes DEF TypeOK, Budget
<1> QED
  BY <1>1, <1>2, <1>3 DEF Accounted

LEMMA ClaimMovesAndAdded ==
    ASSUME NEW t \in Trades, TypeOK, TypeOK', Accounted(t), Budget(t)' >= Budget(t) + 1,
           NEW a \in Claims(t), NEW b, NEW c,
           Claims(t)' \subseteq (Claims(t) \ {a}) \cup {b, c}
    PROVE  Accounted(t)'
<1> DEFINE S == Claims(t)
           R == (S \ {a}) \cup {b}
           T == Claims(t)'
<1>1. IsFiniteSet(S) /\ a \in S /\ T \subseteq R \cup {c}
  BY DEF Accounted
<1>b. Cardinality(S) <= Budget(t)
  BY DEF Accounted
<1> HIDE DEF S, T
<1>2. IsFiniteSet(R) /\ Cardinality(R) <= Cardinality(S)
  BY <1>1, OneMoved
<1> HIDE DEF R
<1>3. IsFiniteSet(T) /\ Cardinality(T) <= Cardinality(R) + 1
  BY <1>1, <1>2, OneMore
<1>4. Cardinality(T) \in Nat /\ Cardinality(S) \in Nat /\ Cardinality(R) \in Nat
  BY <1>1, <1>2, <1>3, FS_CardinalityType
<1>5. Budget(t) \in Nat /\ Budget(t)' \in Nat
  BY ConstantTypes DEF TypeOK, Budget
<1>6. Cardinality(T) <= Budget(t)'
  BY <1>b, <1>2, <1>3, <1>4, <1>5
<1> QED
  BY <1>3, <1>6 DEF Accounted, T

LEMMA SameClaims ==
    ASSUME NEW t \in Trades, TypeOK, TypeOK', Accounted(t), Budget(t)' >= Budget(t),
           UNCHANGED <<list, hand, waiting, worker, solana, payments>>
    PROVE  Accounted(t)'
<1>1. \A at, key, k : Claim(t, at, key, k)' => Claim(t, at, key, k)
  BY DEF Claim
<1>2. Claims(t)' \subseteq Claims(t)
  BY <1>1, ClaimIn, ClaimsWithin
<1> QED
  BY <1>2, ClaimsShrink

LEMMA FaultCounts ==
    ASSUME TypeOK, NEW t \in Trades, UNCHANGED signals
    PROVE  /\ Fault => Budget(t)' = Budget(t) + 1
           /\ UNCHANGED <<faults, crashes>> => Budget(t)' = Budget(t)
           /\ Budget(t) \in Nat
BY ConstantTypes DEF TypeOK, Fault, Budget

(* A message is pushed for the signal it counts.                           *)
LEMMA ApiAccounts ==
    ASSUME IInv, TypeOK', NEW q \in Requests, ApiStep(q),
           NEW t \in Trades, Accounted(t)
    PROVE  Accounted(t)'
<1>t. /\ TypeOK /\ UNCHANGED <<hand, waiting, worker, solana, payments>>
      /\ request[q].at # "idle" => request[q].trade \in Trades
  BY ApiEffect DEF BeyondApi, IInv, ApiInv
<1>1. CASE SignalPush(q)
  <2> DEFINE u == request[q].trade
             n == kind.network[u]
             b == <<"list", n, Len(list[n]) + 1>>
  <2>1. /\ list' = [list EXCEPT ![n] = Append(list[n], u)]
        /\ signals' = [signals EXCEPT ![u] = signals[u] + 1]
        /\ UNCHANGED <<crashes, faults>> /\ u \in Trades /\ n \in Networks
        /\ list \in [Networks -> Seq(Trades)]
    BY <1>t, <1>1, KindTypes DEF SignalPush, bounds, TypeOK
  <2>2. /\ Len(list'[n]) = Len(list[n]) + 1
        /\ \A k \in 1 .. Len(list[n]) : list'[n][k] = list[n][k]
        /\ list'[n][Len(list[n]) + 1] = u
        /\ \A x \in Networks : x # n => list'[x] = list[x]
        /\ Len(list[n]) \in Nat
    BY <2>1, AppendProperties
  <2>3. ASSUME NEW at, NEW key, NEW k, Claim(t, at, key, k)'
        PROVE  Claim(t, at, key, k) \/ (t = u /\ <<at, key, k>> = b)
    <3>1. CASE at = "list" /\ key = n
      BY <2>1, <2>2, <2>3, <3>1 DEF Claim
    <3>2. CASE ~(at = "list" /\ key = n)
      BY <1>t, <2>2, <2>3, <3>2 DEF Claim
    <3> QED
      BY <3>1, <3>2
  <2> HIDE DEF b, u, n
  <2>4. CASE t = u
    <3>a. \A at, key, k : Claim(t, at, key, k)' => <<at, key, k>> \in Claims(t) \cup {b}
      BY <1>t, <2>3, ClaimIn
    <3>1. Claims(t)' \subseteq Claims(t) \cup {b}
      BY <3>a, ClaimsWithin
    <3>2. Budget(t)' >= Budget(t) + 1
      BY <1>t, <2>1, <2>4, ConstantTypes DEF Budget, TypeOK
    <3> QED
      BY <1>t, <3>1, <3>2, ClaimAdded
  <2>5. CASE t # u
    <3>1. Claims(t)' \subseteq Claims(t)
      BY <1>t, <2>3, <2>5, ClaimIn, ClaimsWithin
    <3>2. Budget(t)' >= Budget(t)
      BY <1>t, <2>1, <2>5, ConstantTypes DEF Budget, TypeOK
    <3> QED
      BY <1>t, <3>1, <3>2, ClaimsShrink
  <2> QED
    BY <2>4, <2>5
<1>2. CASE ~SignalPush(q)
  <2>1. UNCHANGED <<list, signals>> /\ (UNCHANGED <<faults, crashes>> \/ Fault)
    BY <1>2 DEF ApiStep, QuoteStart, SignStart, AckStart, SignalStart, QuoteDelete,
       QuoteCreate, QuotePrice, SignCommit, AckSelect, AckRefuse, SignalMark, CallFails,
       bounds
  <2>2. Budget(t)' >= Budget(t)
    BY <1>t, <2>1, FaultCounts
  <2> QED
    BY <1>t, <2>1, <2>2, SameClaims
<1> QED
  BY <1>1, <1>2

(* Popping renames the claims of the batch; adding a job passes one on.    *)
LEMMA PopAccounts ==
    ASSUME IInv, TypeOK', NEW m \in Monitors, NEW n \in Networks, MonitorPop(m, n),
           NEW t \in Trades, Accounted(t)
    PROVE  Accounted(t)'
<1> DEFINE b == Batch(n)
           f == [x \in Claims(t)' |->
                    IF x[1] = "list" /\ x[2] = n THEN <<"list", n, x[3] + b>>
                    ELSE IF x[1] = "hand" /\ x[2] = m THEN <<"list", n, b + 1 - x[3]>>
                    ELSE x]
<1>t. TypeOK /\ list \in [Networks -> Seq(Trades)] /\ hand \in [Monitors -> Seq(Trades)]
  BY DEF IInv, TypeOK
<1>n. list[n] \in Seq(Trades) /\ Len(list[n]) \in Nat
  BY <1>t
<1>1. b \in Nat /\ b <= Len(list[n])
  BY <1>t, <1>n, ConstantTypes DEF Batch
<1>2. /\ list' = [list EXCEPT ![n] = SubSeq(list[n], b + 1, Len(list[n]))]
      /\ hand' = [hand EXCEPT ![m] = SubSeq(list[n], 1, b)] /\ hand[m] = <<>>
      /\ UNCHANGED <<waiting, worker, solana, payments, signals, crashes, faults>>
  BY DEF MonitorPop, BeyondMonitor, bounds
<1> HIDE DEF b
<1>3. /\ Len(list'[n]) = Len(list[n]) - b
      /\ \A k \in 1 .. Len(list[n]) - b : list'[n][k] = list[n][k + b]
      /\ \A x \in Networks : x # n => list'[x] = list[x]
  BY <1>t, <1>n, <1>1, <1>2, SubSeqProperties
<1>4. /\ Len(hand'[m]) = b
      /\ \A k \in 1 .. b : hand'[m][k] = list[n][k]
      /\ \A x \in Monitors : x # m => hand'[x] = hand[x]
  BY <1>t, <1>n, <1>1, <1>2, SubSeqProperties
<1>5. ASSUME NEW x \in Claims(t)'
      PROVE  /\ x = <<x[1], x[2], x[3]>> /\ x[3] \in Nat
             /\ Claim(t, x[1], x[2], x[3])'
  BY DEF Claims, Places
<1>6. ASSUME NEW x \in Claims(t)', x[1] = "list", x[2] = n
      PROVE  /\ f[x] = <<"list", n, x[3] + b>> /\ f[x] \in Claims(t)
             /\ x[3] + b > b /\ x[3] \in Nat
  <2>1. x[3] \in 1 .. Len(list[n]) - b /\ list[n][x[3] + b] = t
    BY <1>3, <1>5, <1>6 DEF Claim
  <2>2. Claim(t, "list", n, x[3] + b)
    BY <1>t, <1>n, <1>1, <2>1 DEF Claim
  <2> QED
    BY <1>t, <1>n, <1>1, <1>6, <2>1, <2>2, ClaimIn
<1>7. ASSUME NEW x \in Claims(t)', x[1] = "hand", x[2] = m
      PROVE  /\ f[x] = <<"list", n, b + 1 - x[3]>> /\ f[x] \in Claims(t)
             /\ b + 1 - x[3] <= b /\ x[3] \in Nat
  <2>a. x[3] \in 1 .. b /\ hand'[m][b + 1 - x[3]] = t
    BY <1>4, <1>5, <1>7 DEF Claim
  <2>b. b + 1 - x[3] \in 1 .. b
    BY <1>1, <2>a
  <2>1. x[3] \in 1 .. b /\ list[n][b + 1 - x[3]] = t
    BY <1>4, <2>a, <2>b
  <2>2. Claim(t, "list", n, b + 1 - x[3])
    BY <1>t, <1>n, <1>1, <2>1 DEF Claim
  <2> QED
    BY <1>t, <1>n, <1>1, <1>7, <2>1, <2>2, ClaimIn
<1>8. ASSUME NEW x \in Claims(t)', ~(x[1] = "list" /\ x[2] = n), ~(x[1] = "hand" /\ x[2] = m)
      PROVE  f[x] = x /\ x \in Claims(t)
  <2>1. Claim(t, x[1], x[2], x[3])
    BY <1>2, <1>3, <1>4, <1>5, <1>8 DEF Claim
  <2> QED
    BY <1>t, <1>n, <1>5, <1>8, <2>1, ClaimIn
<1>9. f \in [Claims(t)' -> Claims(t)]
  BY <1>6, <1>7, <1>8
<1>10. ASSUME NEW x \in Claims(t)', NEW y \in Claims(t)', f[x] = f[y]
       PROVE  x = y
  <2> HIDE DEF f
  <2>1. CASE x[1] = "list" /\ x[2] = n
    BY <1>1, <1>5, <1>6, <1>7, <1>8, <1>10, <2>1
  <2>2. CASE x[1] = "hand" /\ x[2] = m
    BY <1>1, <1>5, <1>6, <1>7, <1>8, <1>10, <2>2
  <2>3. CASE ~(x[1] = "list" /\ x[2] = n) /\ ~(x[1] = "hand" /\ x[2] = m)
    BY <1>1, <1>5, <1>6, <1>7, <1>8, <1>10, <2>3
  <2> QED
    BY <2>1, <2>2, <2>3
<1>11. f \in Injection(Claims(t)', Claims(t))
  BY <1>9, <1>10 DEF Injection, IsInjective
<1> HIDE DEF f
<1>12. IsFiniteSet(Claims(t)') /\ Cardinality(Claims(t)') <= Cardinality(Claims(t))
  BY <1>11, FS_Injection DEF Accounted
<1>13. Cardinality(Claims(t)') \in Nat /\ Cardinality(Claims(t)) \in Nat
  BY <1>12, FS_CardinalityType DEF Accounted
<1>14. Budget(t)' = Budget(t) /\ Budget(t) \in Nat
  BY <1>t, <1>n, <1>2, FaultCounts
<1> QED
  BY <1>12, <1>13, <1>14 DEF Accounted

LEMMA AddAccounts ==
    ASSUME IInv, TypeOK', NEW m \in Monitors, MonitorAdd(m) \/ MonitorAddFails(m),
           NEW t \in Trades, Accounted(t)
    PROVE  Accounted(t)'
<1> DEFINE u == Head(hand[m])
           L == Len(hand[m])
           first == FirstJob(u)
           a == <<"hand", m, L>>
           b == <<"waiting", first, waiting[first] + 1>>
<1>t. /\ TypeOK /\ hand \in [Monitors -> Seq(Trades)] /\ waiting \in [TransferJobs -> Nat]
  BY DEF IInv, TypeOK
<1>1. /\ hand[m] # <<>>
      /\ waiting' \in {waiting, [waiting EXCEPT ![first] = waiting[first] + 1]}
      /\ hand' \in {[hand EXCEPT ![m] = Tail(hand[m])], [hand EXCEPT ![m] = <<>>]}
      /\ UNCHANGED <<list, worker, solana, payments, signals>>
      /\ UNCHANGED <<faults, crashes>> \/ Fault
  BY DEF MonitorAdd, MonitorAddFails, BeyondMonitor, bounds
<1>2. Budget(t)' >= Budget(t)
  BY <1>t, <1>1, FaultCounts
<1>3. /\ L \in Nat \ {0} /\ hand[m][1] = u /\ u \in Trades
      /\ Len(Tail(hand[m])) = L - 1
      /\ \A k \in 1 .. L - 1 : Tail(hand[m])[k] = hand[m][k + 1]
  BY <1>t, <1>1, HeadTailProperties, EmptySeq
<1>4. first \in TransferJobs /\ first.trade = u
  BY <1>3, ConstantTypes DEF FirstJob, TransferJobs
<1> HIDE DEF first, u
<1>5. ASSUME NEW k, k \in 1 .. Len(hand'[m]), hand'[m][Len(hand'[m]) + 1 - k] = t
      PROVE  k \in 1 .. L - 1 /\ hand[m][L + 1 - k] = t
  <2>1. hand'[m] = Tail(hand[m]) \/ hand'[m] = <<>>
    BY <1>t, <1>1
  <2>a. hand'[m] # <<>>
    <3> SUFFICES ASSUME hand'[m] = <<>> PROVE FALSE
      OBVIOUS
    <3>1. Len(hand'[m]) = 0
      BY EmptySeq
    <3> QED
      BY <1>5, <3>1
  <2>2. hand'[m] = Tail(hand[m]) /\ k \in 1 .. L - 1
    BY <1>3, <1>5, <2>1, <2>a
  <2>3. L - k \in 1 .. L - 1 /\ Tail(hand[m])[L - k] = t
    BY <1>3, <1>5, <2>2
  <2> QED
    BY <1>3, <2>2, <2>3
<1>6. \A x \in Monitors : x # m => hand'[x] = hand[x]
  BY <1>t, <1>1
<1>7. /\ \A j \in TransferJobs : j # first => waiting'[j] = waiting[j]
      /\ waiting'[first] <= waiting[first] + 1
      /\ waiting[first] \in Nat /\ waiting'[first] \in Nat
  BY <1>t, <1>1, <1>4
<1>8. ASSUME NEW at, NEW key, NEW k, Claim(t, at, key, k)'
      PROVE  \/ Claim(t, at, key, k) /\ <<at, key, k>> # a
             \/ t = u /\ <<at, key, k>> = b
  <2>1. CASE at = "hand" /\ key = m
    <3>1. k \in 1 .. L - 1 /\ hand[m][L + 1 - k] = t
      BY <1>5, <1>8, <2>1 DEF Claim
    <3> QED
      BY <1>3, <2>1, <3>1 DEF Claim
  <2>2. CASE at = "waiting" /\ key = first
    <3>1. t = u /\ k \in 1 .. waiting'[first]
      BY <1>4, <1>8, <2>2 DEF Claim
    <3>2. k \in 1 .. waiting[first] \/ k = waiting[first] + 1
      BY <1>7, <3>1
    <3> QED
      BY <1>4, <2>2, <3>1, <3>2 DEF Claim
  <2>3. CASE ~(at = "hand" /\ key = m) /\ ~(at = "waiting" /\ key = first)
    BY <1>1, <1>6, <1>7, <1>8, <2>3 DEF Claim
  <2> QED
    BY <2>1, <2>2, <2>3
<1>9. CASE t = u
  <2>1. Claim(t, "hand", m, L)
    <3>1. L \in 1 .. L /\ L + 1 - L = 1
      BY <1>3
    <3> QED
      BY <1>3, <1>9, <3>1 DEF Claim
  <2>2. a \in Claims(t)
    BY <1>t, <2>1, ClaimIn
  <2> HIDE DEF a, b
  <2>3. \A at, key, k : Claim(t, at, key, k)' => <<at, key, k>> \in (Claims(t) \ {a}) \cup {b}
    BY <1>t, <1>8, ClaimIn
  <2>4. Claims(t)' \subseteq (Claims(t) \ {a}) \cup {b}
    BY <2>3, ClaimsWithin
  <2> QED
    BY <1>t, <1>2, <2>2, <2>4, ClaimMoves
<1>10. CASE t # u
  <2>1. Claims(t)' \subseteq Claims(t)
    BY <1>t, <1>8, <1>10, ClaimIn, ClaimsWithin
  <2> QED
    BY <1>t, <1>2, <2>1, ClaimsShrink
<1> QED
  BY <1>9, <1>10

(* A worker takes a job and the claim with it.                             *)
LEMMA TakeAccounts ==
    ASSUME IInv, TypeOK', NEW n \in Networks, NEW j \in TransferJobs, WorkTake(n, j),
           NEW t \in Trades, Accounted(t)
    PROVE  Accounted(t)'
<1> DEFINE a == <<"waiting", j, waiting[j]>>
           b == <<"work", n, 1>>
<1>t. /\ TypeOK /\ waiting \in [TransferJobs -> Nat] /\ worker \in [Networks -> WorkerStates]
  BY DEF IInv, TypeOK
<1>1. /\ waiting[j] > 0 /\ waiting' = [waiting EXCEPT ![j] = waiting[j] - 1]
      /\ \E w : w.trade = j.trade /\ worker' = [worker EXCEPT ![n] = w]
      /\ UNCHANGED <<list, hand, solana, payments, signals, faults, crashes>>
  BY DEF WorkTake, BeyondWorker, bounds, IdleWorker
<1>2. Budget(t)' >= Budget(t)
  BY <1>t, <1>1, FaultCounts
<1>3. /\ \A x \in TransferJobs : x # j => waiting'[x] = waiting[x]
      /\ waiting'[j] = waiting[j] - 1 /\ waiting[j] \in Nat
      /\ \A x \in Networks : x # n => worker'[x] = worker[x]
      /\ worker'[n].trade = j.trade
  BY <1>t, <1>1
<1>4. ASSUME NEW at, NEW key, NEW k, Claim(t, at, key, k)'
      PROVE  \/ Claim(t, at, key, k) /\ <<at, key, k>> # a
             \/ t = j.trade /\ <<at, key, k>> = b
  <2>1. CASE at = "waiting" /\ key = j
    <3>1. j.trade = t /\ k \in 1 .. waiting[j] - 1
      BY <1>3, <1>4, <2>1 DEF Claim
    <3>2. k \in 1 .. waiting[j] /\ k # waiting[j]
      BY <1>3, <3>1
    <3> QED
      BY <2>1, <3>1, <3>2 DEF Claim
  <2>2. CASE at = "work" /\ key = n
    BY <1>3, <1>4, <2>2 DEF Claim
  <2>3. CASE ~(at = "waiting" /\ key = j) /\ ~(at = "work" /\ key = n)
    BY <1>1, <1>3, <1>4, <2>3 DEF Claim
  <2> QED
    BY <2>1, <2>2, <2>3
<1>5. CASE t = j.trade
  <2>1. Claim(t, "waiting", j, waiting[j])
    BY <1>1, <1>3, <1>5 DEF Claim
  <2>2. a \in Claims(t)
    BY <1>t, <2>1, ClaimIn
  <2> HIDE DEF a, b
  <2>3. \A at, key, k : Claim(t, at, key, k)' => <<at, key, k>> \in (Claims(t) \ {a}) \cup {b}
    BY <1>t, <1>4, ClaimIn
  <2>4. Claims(t)' \subseteq (Claims(t) \ {a}) \cup {b}
    BY <2>3, ClaimsWithin
  <2> QED
    BY <1>t, <1>2, <2>2, <2>4, ClaimMoves
<1>6. CASE t # j.trade
  <2>1. Claims(t)' \subseteq Claims(t)
    BY <1>t, <1>4, <1>6, ClaimIn, ClaimsWithin
  <2> QED
    BY <1>t, <1>2, <2>1, ClaimsShrink
<1> QED
  BY <1>5, <1>6

(* A worker that moves on and neither pays nor adds a job: it keeps its    *)
(* claim or drops it.                                                      *)
LEMMA MoveAccounts ==
    ASSUME IInv, TypeOK', NEW n \in Networks, NEW w, worker' = [worker EXCEPT ![n] = w],
           MayPay(w) => MayPay(worker[n]) /\ w.trade = worker[n].trade,
           UNCHANGED <<list, hand, waiting, payments, signals>>, SameFlying,
           UNCHANGED <<faults, crashes>> \/ Fault,
           NEW t \in Trades, Accounted(t)
    PROVE  Accounted(t)'
<1>t. TypeOK /\ worker \in [Networks -> WorkerStates]
  BY DEF IInv, TypeOK
<1>1. Budget(t)' >= Budget(t)
  BY <1>t, FaultCounts
<1>2. worker'[n] = w /\ \A x \in Networks : x # n => worker'[x] = worker[x]
  BY <1>t
<1>3. \A at, key, k : Claim(t, at, key, k)' => Claim(t, at, key, k)
  BY <1>2 DEF Claim, SameFlying
<1>4. Claims(t)' \subseteq Claims(t)
  BY <1>t, <1>3, ClaimIn, ClaimsWithin
<1> QED
  BY <1>t, <1>1, <1>4, ClaimsShrink

(* A worker that is done with a job hands its claim on, to the retry that  *)
(* it adds or to the payment that it makes.                                *)
LEMMA HandOnAccounts ==
    ASSUME IInv, TypeOK', NEW n \in Networks, NEW w, worker' = [worker EXCEPT ![n] = w],
           MayPay(worker[n]), ~MayPay(w), UNCHANGED solana,
           \/ /\ UNCHANGED payments
              /\ \E j \in TransferJobs : /\ j.trade = worker[n].trade
                                         /\ waiting' = [waiting EXCEPT ![j] = @ + 1]
           \/ /\ UNCHANGED waiting
              /\ Pay(worker[n].trade) /\ worker[n].trade \in Trades,
           UNCHANGED <<list, hand, signals, faults, crashes>>,
           NEW t \in Trades, Accounted(t)
    PROVE  Accounted(t)'
<1> DEFINE u == worker[n].trade
           a == <<"work", n, 1>>
<1>t. /\ TypeOK /\ worker \in [Networks -> WorkerStates] /\ waiting \in [TransferJobs -> Nat]
      /\ payments \in [Trades -> Nat]
  BY DEF IInv, TypeOK
<1>1. Budget(t)' >= Budget(t)
  BY <1>t, FaultCounts
<1>2. worker'[n] = w /\ \A x \in Networks : x # n => worker'[x] = worker[x]
  BY <1>t
<1>3. \E b : \A at, key, k : Claim(t, at, key, k)' =>
          \/ Claim(t, at, key, k) /\ <<at, key, k>> # a
          \/ t = u /\ <<at, key, k>> = b
  <2>1. ASSUME UNCHANGED payments, NEW j \in TransferJobs, j.trade = u,
               waiting' = [waiting EXCEPT ![j] = @ + 1]
        PROVE  \A at, key, k : Claim(t, at, key, k)' =>
                  \/ Claim(t, at, key, k) /\ <<at, key, k>> # a
                  \/ t = u /\ <<at, key, k>> = <<"waiting", j, waiting[j] + 1>>
    <3>1. /\ waiting'[j] = waiting[j] + 1 /\ waiting[j] \in Nat
          /\ \A x \in TransferJobs : x # j => waiting'[x] = waiting[x]
      BY <1>t, <2>1
    <3> QED
      BY <1>2, <2>1, <3>1 DEF Claim
  <2>2. ASSUME UNCHANGED waiting, Pay(u), u \in Trades
        PROVE  \A at, key, k : Claim(t, at, key, k)' =>
                  \/ Claim(t, at, key, k) /\ <<at, key, k>> # a
                  \/ t = u /\ <<at, key, k>> = <<"paid", t, payments[t] + 1>>
    <3>1. /\ payments'[t] = (IF t = u THEN payments[t] + 1 ELSE payments[t])
          /\ payments[t] \in Nat
      BY <1>t, <2>2 DEF Pay
    <3> QED
      BY <1>2, <2>2, <3>1 DEF Claim
  <2> QED
    BY <2>1, <2>2
<1>4. PICK b : \A at, key, k : Claim(t, at, key, k)' =>
          \/ Claim(t, at, key, k) /\ <<at, key, k>> # a
          \/ t = u /\ <<at, key, k>> = b
  BY <1>3
<1>5. CASE t = u
  <2>1. Claim(t, "work", n, 1)
    BY <1>5 DEF Claim
  <2>2. a \in Claims(t)
    BY <1>t, <2>1, ClaimIn
  <2> HIDE DEF a, u
  <2>3. \A at, key, k : Claim(t, at, key, k)' => <<at, key, k>> \in (Claims(t) \ {a}) \cup {b}
    BY <1>t, <1>4, ClaimIn
  <2>4. Claims(t)' \subseteq (Claims(t) \ {a}) \cup {b}
    BY <2>3, ClaimsWithin
  <2> QED
    BY <1>t, <1>1, <2>2, <2>4, ClaimMoves
<1>6. CASE t # u
  <2>1. Claims(t)' \subseteq Claims(t)
    BY <1>t, <1>4, <1>6, ClaimIn, ClaimsWithin
  <2> QED
    BY <1>t, <1>1, <2>1, ClaimsShrink
<1> QED
  BY <1>5, <1>6

(* A step that fails may pay and keep its claim, or find one again that    *)
(* had been used: the fault is counted for it.                             *)
LEMMA FaultAccounts ==
    ASSUME IInv, TypeOK', NEW n \in Networks, NEW w, worker' = [worker EXCEPT ![n] = w],
           \/ /\ UNCHANGED payments
           \/ /\ Pay(worker[n].trade) /\ worker[n].trade \in Trades
              /\ MayPay(worker[n]) /\ w.trade = worker[n].trade,
           UNCHANGED <<list, hand, waiting, solana, signals>>, Fault,
           NEW t \in Trades, Accounted(t)
    PROVE  Accounted(t)'
<1>t. /\ TypeOK /\ worker \in [Networks -> WorkerStates] /\ payments \in [Trades -> Nat]
  BY DEF IInv, TypeOK
<1>1. Budget(t)' >= Budget(t) + 1
  BY <1>t, FaultCounts
<1>2. worker'[n] = w /\ \A x \in Networks : x # n => worker'[x] = worker[x]
  BY <1>t
<1>3. \E b : \A at, key, k : Claim(t, at, key, k)' =>
          Claim(t, at, key, k) \/ <<at, key, k>> = b
  <2>1. CASE UNCHANGED payments
    <3>1. \A at, key, k : Claim(t, at, key, k)' =>
              Claim(t, at, key, k) \/ <<at, key, k>> = <<"work", n, 1>>
      BY <1>2, <2>1 DEF Claim
    <3> QED
      BY <3>1
  <2>2. CASE /\ Pay(worker[n].trade) /\ worker[n].trade \in Trades
             /\ MayPay(worker[n]) /\ w.trade = worker[n].trade
    <3>1. payments[t] \in Nat /\ payments'[t] \in {payments[t], payments[t] + 1}
      BY <1>t, <2>2 DEF Pay
    <3>2. \A at, key, k : Claim(t, at, key, k)' =>
              Claim(t, at, key, k) \/ <<at, key, k>> = <<"paid", t, payments[t] + 1>>
      BY <1>2, <2>2, <3>1 DEF Claim
    <3> QED
      BY <3>2
  <2> QED
    BY <2>1, <2>2
<1>4. PICK b : \A at, key, k : Claim(t, at, key, k)' =>
          Claim(t, at, key, k) \/ <<at, key, k>> = b
  BY <1>3
<1>5. \A at, key, k : Claim(t, at, key, k)' => <<at, key, k>> \in Claims(t) \cup {b}
  BY <1>t, <1>4, ClaimIn
<1>6. Claims(t)' \subseteq Claims(t) \cup {b}
  BY <1>5, ClaimsWithin
<1> QED
  BY <1>t, <1>1, <1>6, ClaimAdded

LEMMA WorkAccounts ==
    ASSUME IInv, TypeOK', NEW n \in Networks, WorkStep(n),
           NEW t \in Trades, Accounted(t)
    PROVE  Accounted(t)'
<1>t. /\ worker[n] \in WorkerStates /\ Due \subseteq Trades
      /\ worker[n].at # "idle" => worker[n].trade \in Due
  BY DEF IInv, TypeOK, WorkInv, Due
<1> DEFINE to(at) == [worker[n] EXCEPT !.at = at]
<1>w. \A at : to(at).at = at /\ to(at).trade = worker[n].trade
  BY <1>t DEF WorkerStates
<1>1. CASE \E j \in TransferJobs : WorkTake(n, j)
  BY <1>1, TakeAccounts
<1>2. CASE \/ WorkDeclines(n) \/ WorkCheck(n) \/ WorkCheckFails(n)
           \/ WorkNoStrategy(n) \/ WorkSubmit(n) \/ WorkRetryFails(n)
  <2>1. PICK at : /\ worker' = [worker EXCEPT ![n] = to(at)]
                  /\ at # "confirm" /\ (at \in Monies => worker[n].at \in Monies)
                  /\ UNCHANGED <<list, hand, waiting, solana, payments, signals>>
                  /\ UNCHANGED <<faults, crashes>> \/ Fault
    BY <1>2 DEF WorkDeclines, WorkCheck, WorkCheckFails, WorkNoStrategy, WorkSubmit,
       WorkRetryFails, WorkGoesTo, BeyondWorker, bounds, Monies
  <2> HIDE DEF to
  <2> QED
    <3>1. MayPay(to(at)) => MayPay(worker[n]) /\ to(at).trade = worker[n].trade
      BY <1>w, <2>1 DEF MayPay
    <3>2. SameFlying
      BY <2>1 DEF SameFlying
    <3> QED
      BY <2>1, <3>1, <3>2, MoveAccounts
<1>3. CASE WorkSubmitFails(n)
  BY <1>3, FaultAccounts DEF WorkSubmitFails, WorkGoesTo, BeyondWorker
<1>4. CASE WorkRetry(n)
  <2>1. /\ worker[n].at = "retry" /\ worker' = [worker EXCEPT ![n] = to("done")]
        /\ UNCHANGED <<list, hand, solana, payments, signals, faults, crashes>>
        /\ \/ /\ worker[n].retry < MaxRetries - 1
              /\ waiting' = [waiting EXCEPT ![RetryJob(n, worker[n].retry + 1)] = @ + 1]
           \/ UNCHANGED waiting
    BY <1>4 DEF WorkRetry, WorkGoesTo, BeyondWorker, bounds
  <2>2. MayPay(worker[n]) /\ ~MayPay(to("done"))
    BY <1>w, <2>1 DEF MayPay, Monies
  <2> HIDE DEF to
  <2>3. CASE UNCHANGED waiting
    BY <1>w, <2>1, <2>2, <2>3, MoveAccounts DEF SameFlying
  <2>4. CASE ~UNCHANGED waiting
    <3> DEFINE j == RetryJob(n, worker[n].retry + 1)
    <3>1. j \in TransferJobs /\ j.trade = worker[n].trade
      BY <1>t, <2>1, <2>4, ConstantTypes DEF RetryJob, TransferJobs, WorkerStates
    <3>2. waiting' = [waiting EXCEPT ![j] = @ + 1]
      BY <2>1, <2>4
    <3> HIDE DEF j
    <3> QED
      BY <2>1, <2>2, <3>1, <3>2, HandOnAccounts
  <2> QED
    BY <2>3, <2>4
<1>5. CASE WorkFinish(n)
  <2>1. ~MayPay(IdleWorker)
    BY DEF IdleWorker, MayPay, Monies
  <2> QED
    BY <1>5, <2>1, MoveAccounts DEF WorkFinish, BeyondWorker, bounds, SameFlying
<1> QED
  BY <1>1, <1>2, <1>3, <1>4, <1>5 DEF WorkStep

(* A transaction is sent in place of the worker's claim.                   *)
LEMMA SentAgain ==
    ASSUME TypeOK, SolanaSend
    PROVE  /\ SameFlying /\ worker["SOLANA"].at = "transfer"
           /\ \E w : /\ w.trade = worker["SOLANA"].trade
                     /\ worker' = [worker EXCEPT !["SOLANA"] = w]
<1>1. PICK c \in Terms :
        /\ solana' = [solana EXCEPT ![Sol.trade].sent = @ \cup {c}]
        /\ worker' = [worker EXCEPT !["SOLANA"] =
             [Sol EXCEPT !.at = "confirm", !.sends = Sol.sends + 1, !.terms = c,
                         !.executed = FALSE]]
  BY DEF SolanaSend
<1>2. Sol \in WorkerStates /\ solana \in [Trades -> SolanaStates]
  BY DEF TypeOK, Sol, Networks
<1>3. SameFlying
  BY <1>1, <1>2 DEF SameFlying, SolanaStates
<1>4. [Sol EXCEPT !.at = "confirm", !.sends = Sol.sends + 1, !.terms = c,
                  !.executed = FALSE].trade = worker["SOLANA"].trade
  BY <1>2 DEF WorkerStates, Sol
<1>5. worker["SOLANA"].at = "transfer"
  BY DEF SolanaSend, Transferring
<1> QED
  BY <1>1, <1>3, <1>4, <1>5

(* A transaction that is given up keeps a claim of its own if it may land  *)
(* yet, and the worker has one again: the fault is counted for one of them.*)
LEMMA UnsureAccounts ==
    ASSUME IInv, TypeOK', SolanaUnsure, NEW t \in Trades, Accounted(t)
    PROVE  Accounted(t)'
<1> DEFINE n == "SOLANA"
           b == IF worker[n].executed THEN <<"work", n, 1>>
                ELSE <<"flight", worker[n].terms, 1>>
<1>t. /\ TypeOK /\ worker \in [Networks -> WorkerStates] /\ n \in Networks
      /\ solana \in [Trades -> SolanaStates]
  BY DEF IInv, TypeOK, Networks
<1>1. PICK at \in {"transfer", "retry"} :
          /\ worker' = [worker EXCEPT ![n].at = at]
          /\ worker[n].at = "confirm" /\ Fault /\ NoLongerAwaited
          /\ UNCHANGED <<list, hand, waiting, payments, signals>>
  BY DEF SolanaUnsure, SendAgain, GiveUp, WorkGoesTo, BeyondWorker, Sol
<1>2. Budget(t)' >= Budget(t) + 1
  BY <1>t, <1>1, FaultCounts
<1>3. /\ worker'[n].at = at /\ worker'[n].trade = worker[n].trade
      /\ \A x \in Networks : x # n => worker'[x] = worker[x]
  BY <1>t, <1>1 DEF WorkerStates
<1>4. solana'[t].flying =
        solana[t].flying \cup {c \in Terms : Awaited(t, c) /\ ~ReceiptExists(t, c)}
  BY <1>t, <1>1 DEF NoLongerAwaited, SolanaStates
<1>5. ASSUME NEW where, NEW key, NEW k, Claim(t, where, key, k)'
      PROVE  Claim(t, where, key, k) \/ <<where, key, k>> = b
  <2>1. CASE where = "work" /\ key = n
    BY <1>1, <1>3, <1>5, <2>1 DEF Claim, MayPay
  <2>2. CASE where = "flight"
    BY <1>4, <1>5, <2>2 DEF Claim, Awaited, Sol
  <2>3. CASE where # "flight" /\ ~(where = "work" /\ key = n)
    BY <1>1, <1>3, <1>5, <2>3 DEF Claim
  <2> QED
    BY <2>1, <2>2, <2>3
<1> HIDE DEF b
<1>6. \A where, key, k : Claim(t, where, key, k)' => <<where, key, k>> \in Claims(t) \cup {b}
  BY <1>t, <1>5, ClaimIn
<1>7. Claims(t)' \subseteq Claims(t) \cup {b}
  BY <1>6, ClaimsWithin
<1> QED
  BY <1>t, <1>2, <1>7, ClaimAdded

(* A payment that lands takes the place of the claim of its transaction.   *)
LEMMA LandsAccounts ==
    ASSUME IInv, TypeOK', NEW u \in Trades, SolanaLands(u), NEW t \in Trades, Accounted(t)
    PROVE  Accounted(t)'
<1>t. /\ TypeOK /\ worker \in [Networks -> WorkerStates] /\ "SOLANA" \in Networks
      /\ solana \in [Trades -> SolanaStates] /\ payments \in [Trades -> Nat]
  BY DEF IInv, TypeOK, Networks
<1>1. PICK c \in Terms :
        /\ \/ c \in solana[u].flying /\ UNCHANGED worker
           \/ Awaited(u, c) /\ worker' = [worker EXCEPT !["SOLANA"].executed = TRUE]
        /\ solana' = [solana EXCEPT ![u].flying = @ \ {c}, ![u].landed = @ \cup {c}]
        /\ Pay(u) /\ UNCHANGED <<list, hand, waiting, signals, faults, crashes>>
  BY DEF SolanaLands, bounds
<1> DEFINE own == ~(c \in solana[u].flying /\ UNCHANGED worker)
           a == IF own THEN <<"work", "SOLANA", 1>> ELSE <<"flight", c, 1>>
           b == <<"paid", t, payments[t] + 1>>
<1>2. Budget(t)' >= Budget(t)
  BY <1>t, <1>1, FaultCounts
<1>3. /\ payments'[t] = (IF t = u THEN payments[t] + 1 ELSE payments[t])
      /\ solana'[t].flying = (IF t = u THEN solana[t].flying \ {c} ELSE solana[t].flying)
      /\ payments[t] \in Nat
  BY <1>t, <1>1 DEF Pay, SolanaStates
<1>4. \A x \in Networks :
        /\ worker'[x].trade = worker[x].trade /\ (MayPay(worker'[x]) => MayPay(worker[x]))
        /\ own /\ x = "SOLANA" => worker[x].trade = u /\ MayPay(worker[x]) /\ ~MayPay(worker'[x])
  <2>1. CASE own
    <3>1. Awaited(u, c) /\ worker' = [worker EXCEPT !["SOLANA"].executed = TRUE]
      BY <1>1, <2>1
    <3> QED
      BY <1>t, <3>1 DEF Awaited, MayPay, Monies, Sol, WorkerStates
  <2>2. CASE ~own
    BY <2>2
  <2> QED
    BY <2>1, <2>2
<1>5. ASSUME NEW at, NEW key, NEW k, Claim(t, at, key, k)'
      PROVE  \/ Claim(t, at, key, k) /\ (t = u => <<at, key, k>> # a)
             \/ t = u /\ <<at, key, k>> = b
  <2>1. CASE at \in {"list", "hand", "waiting"}
    BY <1>1, <1>5, <2>1 DEF Claim
  <2>2. CASE at = "work"
    BY <1>4, <1>5, <2>2 DEF Claim
  <2>3. CASE at = "flight"
    BY <1>3, <1>5, <2>3 DEF Claim
  <2>4. CASE at = "paid"
    BY <1>3, <1>5, <2>4 DEF Claim
  <2> QED
    BY <1>5, <2>1, <2>2, <2>3, <2>4 DEF Claim
<1>6. CASE t = u
  <2>1. a \in Claims(t)
    <3>1. CASE own
      <4>1. Claim(t, "work", "SOLANA", 1)
        BY <1>4, <1>6, <1>t, <3>1 DEF Claim
      <4> QED
        BY <1>t, <3>1, <4>1, ClaimIn
    <3>2. CASE ~own
      <4>1. Claim(t, "flight", c, 1)
        BY <1>6, <3>2 DEF Claim
      <4> QED
        BY <1>t, <3>2, <4>1, ClaimIn
    <3> QED
      BY <3>1, <3>2
  <2> HIDE DEF a, b
  <2>2. \A at, key, k : Claim(t, at, key, k)' => <<at, key, k>> \in (Claims(t) \ {a}) \cup {b}
    BY <1>t, <1>5, <1>6, ClaimIn
  <2>3. Claims(t)' \subseteq (Claims(t) \ {a}) \cup {b}
    BY <2>2, ClaimsWithin
  <2> QED
    BY <1>t, <1>2, <2>1, <2>3, ClaimMoves
<1>7. CASE t # u
  <2>1. Claims(t)' \subseteq Claims(t)
    BY <1>t, <1>5, <1>7, ClaimIn, ClaimsWithin
  <2> QED
    BY <1>t, <1>2, <2>1, ClaimsShrink
<1> QED
  BY <1>6, <1>7

(* Transferring a payment uses the claim up, unless the transfer fails.    *)
LEMMA TransferAccounts ==
    ASSUME IInv, TypeOK', EvmTransferToken \/ BtcTransferToken \/ SolanaTransferToken,
           NEW t \in Trades, Accounted(t)
    PROVE  Accounted(t)'
<1>t. /\ worker \in [Networks -> WorkerStates] /\ Due \subseteq Trades
      /\ \A n \in Networks : worker[n].at # "idle" => worker[n].trade \in Due
      /\ "EVM" \in Networks /\ "BTC" \in Networks /\ "SOLANA" \in Networks
  BY DEF IInv, TypeOK, WorkInv, Due, Networks
<1>1. ASSUME NEW n \in Networks,
             \/ WorkTransferFails(n)
             \/ n = "EVM" /\ LiquidationReverts
             \/ n = "SOLANA" /\ (SolanaConfirmed \/ SolanaFails)
      PROVE  Accounted(t)'
  <2> DEFINE to(at) == [worker[n] EXCEPT !.at = at]
             err == [worker[n] EXCEPT !.at = "submit", !.hash = "errorCode"]
  <2>1. \/ MayPay(worker[n]) /\ \E at : at # "confirm" /\ worker' = [worker EXCEPT ![n] = to(at)]
        \/ worker' \in {[worker EXCEPT ![n] = to("submit")], [worker EXCEPT ![n] = err]}
    BY <1>1, <1>t DEF WorkTransferFails, LiquidationReverts, ReportsError,
       SolanaConfirmed, SolanaFails, SendAgain, GiveUp, WorkGoesTo,
       Transferring, Sol, MayPay, Monies
  <2>2. /\ \A at : to(at).trade = worker[n].trade /\ to(at).at = at
        /\ ~MayPay(err) /\ ~MayPay(to("submit"))
    BY <1>t DEF WorkerStates, MayPay, Monies
  <2>3. /\ UNCHANGED <<list, hand, waiting, payments, signals, faults, crashes>> /\ SameFlying
    BY <1>1 DEF WorkTransferFails, LiquidationReverts, SolanaConfirmed, SolanaFails,
       BeyondWorker, bounds, SameFlying
  <2> HIDE DEF to, err
  <2> QED
    BY <2>1, <2>2, <2>3, MoveAccounts DEF MayPay
<1>2. ASSUME NEW n \in Networks, WorkTransfer(n)
      PROVE  Accounted(t)'
  <2> DEFINE w == [worker[n] EXCEPT !.at = "submit"]
  <2>1. /\ worker[n].at = "transfer" /\ worker' = [worker EXCEPT ![n] = w]
        /\ Pay(worker[n].trade)
        /\ UNCHANGED <<waiting, list, hand, solana, signals, faults, crashes>>
    BY <1>2 DEF WorkTransfer, Transferring, WorkGoesTo, BeyondWorker, bounds
  <2>2. MayPay(worker[n]) /\ worker[n].trade \in Trades /\ ~MayPay(w)
    BY <1>t, <2>1 DEF MayPay, Monies, WorkerStates
  <2> HIDE DEF w
  <2> QED
    BY <2>1, <2>2, HandOnAccounts
<1>3. ASSUME NEW n \in Networks,
             WorkTransferUnsure(n) \/ (n = "EVM" /\ LiquidationUnsure)
      PROVE  Accounted(t)'
  <2> DEFINE sure == [worker[n] EXCEPT !.at = "retry"]
             err  == [worker[n] EXCEPT !.at = "submit", !.hash = "errorCode"]
  <2>1. /\ worker[n].at = "transfer" /\ Pay(worker[n].trade) /\ Fault
        /\ worker' \in {[worker EXCEPT ![n] = sure], [worker EXCEPT ![n] = err]}
        /\ UNCHANGED <<waiting, list, hand, solana, signals>>
    BY <1>3, <1>t DEF WorkTransferUnsure, LiquidationUnsure, ReportsError, Transferring,
       WorkGoesTo, BeyondWorker
  <2>2. /\ MayPay(worker[n]) /\ worker[n].trade \in Trades
        /\ sure.trade = worker[n].trade /\ err.trade = worker[n].trade
    BY <1>t, <2>1 DEF MayPay, Monies, WorkerStates
  <2> HIDE DEF sure, err
  <2> QED
    BY <2>1, <2>2, FaultAccounts
<1>4. CASE EvmTransferToken
  <2>1. \/ WorkTransferFails("EVM") \/ LiquidationReverts
        \/ WorkTransfer("EVM")
        \/ WorkTransferUnsure("EVM") \/ LiquidationUnsure
    BY <1>4 DEF EvmTransferToken, EvmRefuses, EvmPays
  <2>2. CASE WorkTransferFails("EVM") \/ LiquidationReverts
    BY <1>t, <1>1, <2>2
  <2>3. CASE WorkTransfer("EVM")
    BY <1>t, <1>2, <2>3
  <2>4. CASE WorkTransferUnsure("EVM") \/ LiquidationUnsure
    BY <1>t, <1>3, <2>4
  <2> QED
    BY <2>1, <2>2, <2>3, <2>4
<1>5. CASE BtcTransferToken
  <2>1. WorkTransferFails("BTC") \/ WorkTransfer("BTC") \/ WorkTransferUnsure("BTC")
    BY <1>5 DEF BtcTransferToken, BtcRefuses, BtcPays
  <2>2. CASE WorkTransferFails("BTC")
    BY <1>t, <1>1, <2>2
  <2>3. CASE WorkTransfer("BTC")
    BY <1>t, <1>2, <2>3
  <2>4. CASE WorkTransferUnsure("BTC")
    BY <1>t, <1>3, <2>4
  <2> QED
    BY <2>1, <2>2, <2>3, <2>4
<1>6. CASE SolanaTransferToken
  <2> DEFINE n == "SOLANA"
  <2>1. WorkTransferFails("SOLANA") \/ SolanaSend \/ SolanaConfirmed
          \/ SolanaFails \/ SolanaUnsure
    BY <1>6 DEF SolanaTransferToken, SolanaRefuses
  <2>2. CASE SolanaSend
    <3>1. PICK w :
            /\ worker[n].at = "transfer" /\ w.trade = worker[n].trade
            /\ worker' = [worker EXCEPT ![n] = w]
      BY <2>2, SentAgain DEF IInv
    <3>2. UNCHANGED <<list, hand, waiting, payments, signals, faults, crashes>>
      BY <2>2 DEF SolanaSend, BeyondWorker, bounds
    <3>3. SameFlying
      BY <2>2, SentAgain DEF IInv
    <3> QED
      BY <1>t, <3>1, <3>2, <3>3, MoveAccounts DEF MayPay, Monies
  <2>3. CASE SolanaUnsure
    BY <2>3, UnsureAccounts
  <2> QED
    BY <1>t, <1>1, <2>1, <2>2, <2>3
<1> QED
  BY <1>4, <1>5, <1>6

(* The job of a trade that was active is handed out again: only the worker *)
(* of the trade's network can have been at it.  A transaction it was       *)
(* waiting for has the worker's claim from now on.                         *)
LEMMA CrashAccounts ==
    ASSUME IInv, TypeOK', Crash, NEW t \in Trades, Accounted(t)
    PROVE  Accounted(t)'
<1> DEFINE n == kind.network[t]
           job == StalledJob(n)
           b == <<"waiting", job, waiting[job] + 1>>
           own(c) == Awaited(t, c) /\ ~ReceiptExists(t, c)
           back(j) == {x \in Networks : Stalled(x) /\ StalledJob(x) = j}
<1>t. /\ TypeOK /\ waiting \in [TransferJobs -> Nat]
      /\ crashes' = crashes + 1 /\ hand' = [m \in Monitors |-> <<>>]
      /\ waiting' = [j \in TransferJobs |-> waiting[j] + Cardinality(back(j))]
      /\ worker' = [x \in Networks |-> IdleWorker]
      /\ UNCHANGED <<list, payments, signals, faults>>
      /\ solana'[t].flying = solana[t].flying \cup {c \in Terms : own(c)}
      /\ worker["SOLANA"] \in WorkerStates /\ "SOLANA" \in Networks
  BY DEF Crash, NoLongerAwaited, IInv, TypeOK, SolanaStates, Networks
<1>1. ASSUME NEW j \in TransferJobs, j.trade = t
      PROVE  /\ j # job => waiting'[j] = waiting[j]
             /\ j = job => waiting'[j] <= waiting[j] + 1
             /\ waiting[j] \in Nat
  <2>1. ASSUME NEW x \in back(j)
        PROVE  x = n /\ j = job
    <3>1. x \in Networks /\ worker[x].at # "idle" /\ StalledJob(x) = j
      BY <2>1 DEF Stalled
    <3>2. worker[x].trade = t
      BY <1>1, <3>1 DEF StalledJob
    <3>3. kind.network[worker[x].trade] = x
      BY <3>1 DEF IInv, WorkInv
    <3> QED
      BY <3>1, <3>2, <3>3
  <2>2. back(j) \subseteq {n} /\ (j # job => back(j) = {})
    BY <2>1
  <2> HIDE DEF back, n, job
  <2>3. waiting'[j] = waiting[j] + Cardinality(back(j))
    BY <1>t
  <2>4. /\ IsFiniteSet({n}) /\ Cardinality({n}) = 1 /\ Cardinality({}) = 0
    BY FS_Singleton, FS_EmptySet
  <2>5. IsFiniteSet(back(j)) /\ Cardinality(back(j)) <= 1
    BY <2>2, <2>4, FS_Subset
  <2>6. Cardinality(back(j)) \in Nat /\ waiting[j] \in Nat
    BY <1>t, <2>5, FS_CardinalityType
  <2>7. j # job => waiting'[j] = waiting[j]
    <3> SUFFICES ASSUME j # job PROVE waiting'[j] = waiting[j]
      OBVIOUS
    <3>1. Cardinality(back(j)) = 0
      BY <2>2, <2>4
    <3> QED
      BY <2>3, <2>6, <3>1
  <2> QED
    BY <2>3, <2>5, <2>6, <2>7
<1> HIDE DEF n, job, own
<1>2. ASSUME NEW at, NEW key, NEW k, Claim(t, at, key, k)'
      PROVE  /\ at # "work"
             /\ \/ Claim(t, at, key, k)
                \/ <<at, key, k>> = b
                \/ at = "flight" /\ own(key) /\ k = 1
  <2>1. CASE at = "waiting" /\ key \in TransferJobs /\ key.trade = t
    <3>1. k \in 1 .. waiting'[key]
      BY <1>2, <2>1 DEF Claim
    <3>2. CASE key # job
      BY <1>1, <2>1, <3>1, <3>2 DEF Claim
    <3>3. CASE key = job
      <4>0. waiting'[key] \in Nat
        BY <2>1 DEF TypeOK
      <4>a. waiting[key] \in Nat /\ waiting'[key] <= waiting[key] + 1
        BY <1>1, <2>1, <3>3
      <4>1. k \in 1 .. waiting[key] \/ k = waiting[key] + 1
        BY <3>1, <4>0, <4>a
      <4> QED
        BY <2>1, <3>3, <4>1 DEF Claim
    <3> QED
      BY <3>2, <3>3
  <2>2. CASE at = "hand"
    <3>1. key \in Monitors /\ k \in 1 .. Len(hand'[key])
      BY <1>2, <2>2 DEF Claim
    <3>2. Len(hand'[key]) = 0
      BY <1>t, <3>1, EmptySeq
    <3> QED
      BY <3>1, <3>2
  <2>3. at # "work"
    BY <1>t, <1>2 DEF Claim, IdleWorker, MayPay, Monies
  <2>5. CASE at = "flight"
    BY <1>t, <1>2, <2>5 DEF Claim
  <2>4. CASE at \in {"list", "paid"}
    BY <1>t, <1>2, <2>4 DEF Claim
  <2> QED
    BY <1>2, <2>1, <2>2, <2>3, <2>4, <2>5 DEF Claim
<1>5. Budget(t)' >= Budget(t) + 1
  BY <1>t, ConstantTypes DEF Budget, TypeOK
<1>6. CASE \A c : ~own(c)
  <2> HIDE DEF b
  <2>1. \A at, key, k : Claim(t, at, key, k)' => <<at, key, k>> \in Claims(t) \cup {b}
    BY <1>t, <1>2, <1>6, ClaimIn
  <2>2. Claims(t)' \subseteq Claims(t) \cup {b}
    BY <2>1, ClaimsWithin
  <2> QED
    BY <1>t, <1>5, <2>2, ClaimAdded
<1>7. ASSUME NEW c, own(c)
      PROVE  Accounted(t)'
  <2> DEFINE a == <<"work", "SOLANA", 1>>
             d == <<"flight", c, 1>>
  <2>1. Claim(t, "work", "SOLANA", 1) /\ \A x : own(x) => x = c
    BY <1>t, <1>7 DEF own, Awaited, Sol, Claim, MayPay
  <2>2. a \in Claims(t)
    BY <1>t, <2>1, ClaimIn
  <2>3. \A at, key, k : Claim(t, at, key, k)' =>
            <<at, key, k>> # a /\ (Claim(t, at, key, k) \/ <<at, key, k>> \in {b, d})
    BY <1>2, <2>1
  <2> HIDE DEF a, b, d
  <2>4. \A at, key, k : Claim(t, at, key, k)' =>
            <<at, key, k>> \in (Claims(t) \ {a}) \cup {b, d}
    BY <1>t, <2>3, ClaimIn
  <2>5. Claims(t)' \subseteq (Claims(t) \ {a}) \cup {b, d}
    BY <2>4, ClaimsWithin
  <2> QED
    BY <1>t, <1>5, <2>2, <2>5, ClaimMovesAndAdded
<1> QED
  BY <1>6, <1>7

LEMMA AccountInit == Init => AccountInv
<1> SUFFICES ASSUME Init, NEW t \in Trades PROVE Accounted(t)
  BY DEF AccountInv
<1>1. TypeOK
  BY InvInit DEF IInv
<1>2. \A at, key, k : ~Claim(t, at, key, k)
  <2>1. /\ \A n \in Networks : Len(list[n]) = 0 /\ worker[n].at = "idle"
        /\ \A m \in Monitors : Len(hand[m]) = 0
        /\ \A j \in TransferJobs : waiting[j] = 0
        /\ payments[t] = 0 /\ solana[t].flying = {}
    BY EmptySeq DEF Init, IdleWorker, NothingSent
  <2> QED
    BY <2>1 DEF Claim, MayPay, Monies
<1>3. Claims(t) = {}
  BY <1>2 DEF Claims
<1>4. Budget(t) \in Nat
  BY <1>1, ConstantTypes DEF Budget, TypeOK
<1> QED
  BY <1>3, <1>4, FS_EmptySet DEF Accounted

LEMMA AccountKeeps ==
    ASSUME IInv, IInv', AccountInv, [Next]_vars
    PROVE  AccountInv'
<1> SUFFICES ASSUME NEW t \in Trades, Accounted(t)
             PROVE  Accounted(t)'
  BY DEF AccountInv
<1>t. TypeOK /\ TypeOK'
  BY DEF IInv
<1>1. CASE \E q \in Requests : ApiStep(q)
  BY <1>t, <1>1, ApiAccounts
<1>2. CASE \E m \in Monitors : MonitorStep(m)
  BY <1>t, <1>2, PopAccounts, AddAccounts
     DEF MonitorStep, EvmMonitorPop, BtcMonitorPop, SolanaMonitorPop, Networks
<1>3. CASE EvmWorkStep \/ BtcWorkStep \/ SolanaWorkStep
  <2>1. \/ \E n \in Networks : WorkStep(n)
        \/ EvmTransferToken \/ BtcTransferToken \/ SolanaTransferToken
    BY <1>3 DEF EvmWorkStep, BtcWorkStep, SolanaWorkStep, Networks
  <2> QED
    BY <1>t, <2>1, WorkAccounts, TransferAccounts
<1>4. CASE Crash
  BY <1>t, <1>4, CrashAccounts
<1>5. CASE \/ \E x \in Trades : DeadlinePasses(x)
           \/ ReportStep \/ UNCHANGED vars
  <2>1. /\ UNCHANGED <<list, hand, waiting, worker, solana, payments, signals>>
        /\ UNCHANGED <<faults, crashes>> \/ Fault
    BY <1>5 DEF DeadlinePasses, ReportStep, ReportTake, ReportAccepted,
       ReportFails, ReportFinish, BeyondReporter, bounds, vars
  <2>2. Budget(t)' >= Budget(t)
    BY <1>t, <2>1, FaultCounts
  <2> QED
    BY <1>t, <2>1, <2>2, SameClaims
<1>6. CASE \E x \in Trades : SolanaLands(x)
  BY <1>t, <1>6, LandsAccounts
<1> QED
  BY <1>1, <1>2, <1>3, <1>4, <1>5, <1>6 DEF Next

(* What has been paid for a trade and what may still be paid for it comes  *)
(* from a message each, or from a failure or a crash.                      *)
THEOREM AccountInvariant == Spec => []AccountInv
<1>1. Init => AccountInv
  BY AccountInit
<1>2. IInv /\ IInv' /\ AccountInv /\ [Next]_vars => AccountInv'
  BY AccountKeeps
<1> QED
  BY <1>1, <1>2, InductiveInvariantSettlement, PTL DEF Spec

LEMMA PaymentsAreClaims ==
    ASSUME TypeOK, NEW t \in Trades, Accounted(t)
    PROVE  payments[t] <= Budget(t)
<1> DEFINE p == payments[t]
           f == [k \in 1 .. p |-> <<"paid", t, k>>]
<1>1. p \in Nat /\ Budget(t) \in Nat
  BY ConstantTypes DEF Budget, TypeOK
<1>2. ASSUME NEW k \in 1 .. p
      PROVE  <<"paid", t, k>> \in Claims(t)
  <2>1. Claim(t, "paid", t, k)
    BY DEF Claim
  <2> QED
    BY <2>1, ClaimIn
<1> HIDE DEF p
<1>3. f \in [1 .. p -> Claims(t)]
  BY <1>2
<1>4. \A k, l \in 1 .. p : f[k] = f[l] => k = l
  OBVIOUS
<1>5. f \in Injection(1 .. p, Claims(t))
  BY <1>3, <1>4 DEF Injection, IsInjective
<1> HIDE DEF f
<1>6. Cardinality(1 .. p) <= Cardinality(Claims(t)) /\ Cardinality(1 .. p) = p
  BY <1>1, <1>5, FS_Injection, FS_Interval DEF Accounted
<1>7. Cardinality(Claims(t)) \in Nat /\ Cardinality(Claims(t)) <= Budget(t)
  BY FS_CardinalityType DEF Accounted
<1> QED
  BY <1>1, <1>6, <1>7 DEF p

(* No payment without a cause, for any number of monitors, networks and    *)
(* retries: at most one per message pushed, and one more for every failure *)
(* or crash.                                                               *)
THEOREM PaymentsHaveACause == Spec => []PaymentsAccounted
<1>1. ASSUME IInv, AccountInv, NEW t \in Trades
      PROVE  payments[t] <= signals[t] + faults + crashes
  BY <1>1, PaymentsAreClaims DEF AccountInv, IInv, Budget
<1>2. IInv /\ AccountInv => PaymentsAccounted
  BY <1>1 DEF PaymentsAccounted
<1> QED
  BY <1>2, InductiveInvariantSettlement, AccountInvariant, PTL

-----------------------------------------------------------------------------
(* One payment when nothing fails                                          *)

(* Nothing fails, calls come one at a time and an acknowledgement that was *)
(* accepted is not repeated; quotes, signatures and signals may be.        *)
Undisturbed ==
    /\ MaxFaults = 0 /\ MaxCrashes = 0
    /\ \A p, q \in Requests : p = q
    /\ "ack" \notin Resent

(* A row is SELECTED once: the signal that leaves it is the only one.      *)
OnceInv ==
    /\ \A t \in Trades :
         /\ row[t] = "SELECTED" => "ack" \in answered[t]
         /\ signals[t] \in {0, 1}
         /\ signals[t] = 1 =>
              /\ "ack" \in answered[t]
              /\ \/ row[t] # "SELECTED"
                 \/ \E q \in Requests : request[q] = [at |-> "mark", trade |-> t]
    /\ \A q \in Requests :
         /\ request[q].at \in {"select", "refuse"} => "ack" \notin answered[request[q].trade]
         /\ request[q].at = "push" =>
              signals[request[q].trade] = 0 /\ "ack" \in answered[request[q].trade]

(* A call that is answered or fails leaves no mark to come.                *)
LEMMA OnceEnds ==
    ASSUME IInv, Undisturbed, OnceInv, NEW q \in Requests, request[q].at # "mark",
           request' = [request EXCEPT ![q] = IdleCall], UNCHANGED signals,
           \A t \in Trades : answered[t] \subseteq answered'[t],
           \A t \in Trades : row'[t] = "SELECTED" =>
               \/ row[t] = "SELECTED"
               \/ "ack" \notin answered[t] /\ "ack" \in answered'[t]
    PROVE  OnceInv'
<1>1. /\ request'[q].at = "idle" /\ \A p \in Requests : p = q
      /\ \A p \in Requests : request[p].at # "mark"
  BY DEF Undisturbed, IdleCall, IInv, TypeOK
<1> QED
  BY <1>1 DEF OnceInv

LEMMA UpdateEnds ==
    ASSUME IInv, NEW q \in Requests, request[q].trade \in Trades,
           NEW status \in Rows, NEW call \in Calls, UpdateRow(q, status, call)
    PROVE  /\ request' = [request EXCEPT ![q] = IdleCall]
           /\ \A t \in Trades : answered[t] \subseteq answered'[t]
           /\ \A t \in Trades : row'[t] # row[t] =>
                /\ t = request[q].trade /\ row'[t] = status /\ call \in answered'[t]
<1> DEFINE t == request[q].trade
<1>t. answered \in [Trades -> SUBSET Calls] /\ row \in [Trades -> Rows]
  BY DEF IInv, TypeOK
<1>1. CASE row[t] = "absent"
  BY <1>1 DEF UpdateRow, Throw
<1>2. CASE row[t] # "absent"
  <2>1. /\ row' = [row EXCEPT ![t] = status]
        /\ request' = [request EXCEPT ![q] = IdleCall]
        /\ answered' = [answered EXCEPT ![t] = answered[t] \cup {call}]
    BY <1>2 DEF UpdateRow, Answer
  <2> QED
    BY <1>t, <2>1
<1> QED
  BY <1>1, <1>2

LEMMA OnceKeeps ==
    ASSUME IInv, Undisturbed, OnceInv, NEW q \in Requests, ApiStep(q)
    PROVE  OnceInv'
<1>t. /\ TypeOK /\ \A p \in Requests : p = q
      /\ request[q].at # "idle" => request[q].trade \in Trades
      /\ row \in [Trades -> Rows] /\ request \in [Requests -> RequestStates]
      /\ answered \in [Trades -> SUBSET Calls] /\ signals \in [Trades -> Nat]
  BY DEF IInv, TypeOK, ApiInv, Undisturbed
<1>1. ASSUME NEW t \in Trades, QuoteStart(q, t) \/ SignStart(q, t) \/ AckStart(q, t)
      PROVE  OnceInv'
  <2>1. PICK at \in {"delete", "sign", "select", "refuse"} :
          /\ Begin(q, t, at) /\ request[q].at = "idle"
          /\ at \in {"select", "refuse"} => "ack" \notin answered[t]
          /\ UNCHANGED <<row, answered, signals>>
    BY <1>1 DEF QuoteStart, SignStart, AckStart, Sends, Undisturbed
  <2>2. request'[q] = [at |-> at, trade |-> t] /\ request[q].at # "mark"
    BY <1>t, <2>1 DEF Begin
  <2> QED
    BY <1>t, <2>1, <2>2 DEF OnceInv
<1>2. ASSUME NEW t \in Trades, SignalStart(q, t)
      PROVE  OnceInv'
  <2>1. /\ request' = [request EXCEPT ![q] = [at |-> "push", trade |-> t]]
        /\ request[q].at = "idle" /\ row[t] = "SELECTED"
        /\ UNCHANGED <<row, answered, signals>>
    BY <1>2 DEF SignalStart, Sends, Begin
  <2>2. request'[q] = [at |-> "push", trade |-> t]
    BY <1>t, <2>1
  <2>a. \A p \in Requests : request[p] # [at |-> "mark", trade |-> t]
    BY <1>t, <2>1
  <2>3. signals[t] = 0 /\ "ack" \in answered[t]
    BY <2>1, <2>a DEF OnceInv
  <2> QED
    BY <1>t, <2>1, <2>2, <2>3 DEF OnceInv
<1>3. CASE QuoteDelete(q)
  <2>1. /\ request' = [request EXCEPT ![q].at = "create"] /\ request[q].at = "delete"
        /\ row' = [row EXCEPT ![request[q].trade] = "absent"]
        /\ UNCHANGED <<answered, signals>>
    BY <1>3 DEF QuoteDelete, Continue
  <2>2. request'[q].at = "create" /\ \A t \in Trades : row'[t] \in {row[t], "absent"}
    BY <1>t, <2>1 DEF RequestStates
  <2> QED
    BY <1>t, <2>1, <2>2 DEF OnceInv
<1>4. CASE QuoteCreate(q)
  <2>1. request[q].at = "create" /\ UNCHANGED signals
    BY <1>4 DEF QuoteCreate
  <2>2. CASE row[request[q].trade] = "absent"
    <3>1. /\ request' = [request EXCEPT ![q].at = "price"]
          /\ row' = [row EXCEPT ![request[q].trade] = "PENDING"] /\ UNCHANGED answered
      BY <1>4, <2>2 DEF QuoteCreate, Continue
    <3>2. request'[q].at = "price" /\ \A t \in Trades : row'[t] \in {row[t], "PENDING"}
      BY <1>t, <3>1 DEF RequestStates
    <3> QED
      BY <1>t, <2>1, <3>1, <3>2 DEF OnceInv
  <2>3. CASE row[request[q].trade] # "absent"
    <3>1. UNCHANGED row /\ Throw(q)
      BY <1>4, <2>3 DEF QuoteCreate
    <3> QED
      BY <2>1, <3>1, OnceEnds DEF Throw
  <2> QED
    BY <2>2, <2>3
<1>5. CASE QuotePrice(q) \/ SignCommit(q) \/ AckRefuse(q)
  <2>1. PICK status \in Rows \ {"SELECTED"}, call \in Calls :
          UpdateRow(q, status, call) /\ request[q].at \in {"price", "sign", "refuse"}
            /\ UNCHANGED signals
    BY <1>5 DEF QuotePrice, SignCommit, AckRefuse, Rows, Calls
  <2>2. /\ request' = [request EXCEPT ![q] = IdleCall]
        /\ \A t \in Trades : answered[t] \subseteq answered'[t]
        /\ \A t \in Trades : row'[t] # row[t] => row'[t] # "SELECTED"
    BY <1>t, <2>1, UpdateEnds
  <2> QED
    BY <2>1, <2>2, OnceEnds
<1>6. CASE AckSelect(q)
  <2>1. /\ UpdateRow(q, "SELECTED", "ack") /\ request[q].at = "select" /\ UNCHANGED signals
        /\ "SELECTED" \in Rows /\ "ack" \in Calls
    BY <1>6 DEF AckSelect, Rows, Calls
  <2>2. "ack" \notin answered[request[q].trade]
    BY <2>1 DEF OnceInv
  <2>3. /\ request' = [request EXCEPT ![q] = IdleCall]
        /\ \A t \in Trades : answered[t] \subseteq answered'[t]
        /\ \A t \in Trades : row'[t] # row[t] => t = request[q].trade /\ "ack" \in answered'[t]
    BY <1>t, <2>1, UpdateEnds
  <2> QED
    BY <2>1, <2>2, <2>3, OnceEnds
<1>7. CASE SignalPush(q)
  <2> DEFINE t == request[q].trade
  <2>1. /\ request' = [request EXCEPT ![q].at = "mark"] /\ request[q].at = "push"
        /\ signals' = [signals EXCEPT ![t] = signals[t] + 1]
        /\ UNCHANGED <<row, answered>>
    BY <1>7 DEF SignalPush, Continue
  <2>2. request'[q] = [at |-> "mark", trade |-> t] /\ t \in Trades
    BY <1>t, <2>1 DEF RequestStates
  <2>3. signals[t] = 0 /\ "ack" \in answered[t]
    BY <2>1 DEF OnceInv
  <2>4. /\ signals'[t] = 1 /\ \A x \in Trades : x # t => signals'[x] = signals[x]
        /\ \A p \in Requests : request[p].at # "mark"
    BY <1>t, <2>1, <2>2, <2>3
  <2> HIDE DEF t
  <2> QED
    BY <1>t, <2>1, <2>2, <2>3, <2>4 DEF OnceInv
<1>8. CASE SignalMark(q)
  <2> DEFINE t == request[q].trade
  <2>1. /\ UpdateRow(q, "SETTLING", "signal") /\ request[q].at = "mark" /\ UNCHANGED signals
        /\ "SETTLING" \in Rows /\ "signal" \in Calls /\ t \in Trades
    BY <1>t, <1>8 DEF SignalMark, Rows, Calls
  <2>2. /\ request' = [request EXCEPT ![q] = IdleCall]
        /\ \A x \in Trades : answered[x] \subseteq answered'[x]
        /\ \A x \in Trades : row'[x] # row[x] => x = t /\ row'[x] = "SETTLING"
    BY <2>1, UpdateEnds
  <2>3. row'[t] # "SELECTED"
    <3>1. CASE row[t] = "absent"
      BY <2>2, <3>1, <2>1 DEF UpdateRow
    <3>2. CASE row[t] # "absent"
      BY <1>t, <2>1, <3>2 DEF UpdateRow
    <3> QED
      BY <3>1, <3>2
  <2>4. request'[q].at = "idle"
    BY <1>t, <2>2 DEF IdleCall
  <2>5. \A x \in Trades : x # t => ~\E p \in Requests : request[p] = [at |-> "mark", trade |-> x]
    BY <1>t
  <2> HIDE DEF t
  <2> QED
    BY <1>t, <2>1, <2>2, <2>3, <2>4, <2>5 DEF OnceInv
<1>9. ~CallFails(q)
  BY <1>t DEF CallFails, Fault, Undisturbed, TypeOK
<1> QED
  BY <1>1, <1>2, <1>3, <1>4, <1>5, <1>6, <1>7, <1>8, <1>9 DEF ApiStep

LEMMA OnceFrame ==
    ASSUME OnceInv, UNCHANGED <<row, request, answered, signals>>
    PROVE  OnceInv'
BY DEF OnceInv

(* When calls come one at a time and nothing fails, a trade is acknowledged*)
(* once and its one signal leaves with the row, in every reachable state.  *)
THEOREM OnceInvariant ==
    ASSUME Undisturbed
    PROVE  Spec => []OnceInv
<1>1. Init => OnceInv
  BY DEF Init, OnceInv, IdleCall
<1>2. ASSUME IInv, OnceInv, [Next]_vars
      PROVE  OnceInv'
  <2>1. CASE \E q \in Requests : ApiStep(q)
    BY <1>2, <2>1, OnceKeeps
  <2>2. CASE \E t \in Trades : DeadlinePasses(t) \/ SolanaLands(t)
    BY <1>2, <2>2, OnceFrame DEF DeadlinePasses, SolanaLands, apiVars
  <2>3. CASE \E m \in Monitors : MonitorStep(m)
    BY <1>2, <2>3, OnceFrame DEF MonitorStep, EvmMonitorPop, BtcMonitorPop,
       SolanaMonitorPop, MonitorPop, MonitorAdd, MonitorAddFails, BeyondMonitor, apiVars
  <2>4. ASSUME NEW n \in Networks, WorkStep(n)
        PROVE  OnceInv'
    BY <1>2, <2>4, OnceFrame DEF WorkStep, WorkTake, WorkDeclines, WorkCheck,
       WorkCheckFails, WorkNoStrategy, WorkSubmit, WorkSubmitFails, WorkRetry,
       WorkRetryFails, WorkFinish, BeyondWorker, apiVars
  <2>5. CASE EvmTransferToken \/ BtcTransferToken \/ SolanaTransferToken
    BY <1>2, <2>5, OnceFrame DEF EvmTransferToken, BtcTransferToken, SolanaTransferToken,
       EvmRefuses, EvmPays, BtcRefuses, BtcPays, SolanaRefuses, WorkTransferFails,
       WorkTransfer, WorkTransferUnsure, LiquidationReverts, LiquidationUnsure,
       SolanaSend, SolanaConfirmed, SolanaFails, SolanaUnsure, BeyondWorker, apiVars
  <2>6. CASE EvmWorkStep \/ BtcWorkStep \/ SolanaWorkStep
    BY <2>4, <2>5, <2>6 DEF EvmWorkStep, BtcWorkStep, SolanaWorkStep, Networks
  <2>7. CASE ReportStep \/ UNCHANGED vars
    BY <1>2, <2>7, OnceFrame DEF ReportStep, ReportTake, ReportAccepted, ReportFails,
       ReportFinish, BeyondReporter, vars, apiVars
  <2>8. ~Crash
    BY <1>2 DEF Crash, Undisturbed, IInv, TypeOK
  <2> QED
    BY <1>2, <2>1, <2>2, <2>3, <2>6, <2>7, <2>8 DEF Next
<1> QED
  BY <1>1, <1>2, InductiveInvariantSettlement, PTL DEF Spec

(* When calls come one at a time and nothing fails, no trade is paid twice:*)
(* for any number of trades, monitors and retries, and although signals,   *)
(* signatures and quote requests that succeeded may be sent again.         *)
THEOREM PaidOnce ==
    ASSUME Undisturbed
    PROVE  Spec => []PaidAtMostOnce
<1>1. ASSUME IInv, PaymentsAccounted, OnceInv
      PROVE  PaidAtMostOnce
  <2> SUFFICES ASSUME NEW t \in Trades PROVE payments[t] <= 1
    BY DEF PaidAtMostOnce
  <2>a. faults = 0 /\ crashes = 0
    BY <1>1 DEF IInv, TypeOK, Undisturbed
  <2>b. signals[t] \in {0, 1} /\ payments[t] \in Nat
    BY <1>1 DEF OnceInv, IInv, TypeOK
  <2>1. payments[t] <= signals[t] + faults + crashes
    BY <1>1 DEF PaymentsAccounted
  <2> QED
    BY <2>a, <2>b, <2>1
<1> QED
  BY <1>1, InductiveInvariantSettlement, PaymentsHaveACause, OnceInvariant, PTL
=============================================================================
