---------------------------- MODULE BitcoinProofs ----------------------------
(***************************************************************************)
(* Proofs about Bitcoin and BalanceMonitor, for any calls, providers'      *)
(* answers, outputs of the wallet, fee estimates, retries, lost answers    *)
(* and minima.                                                             *)
(***************************************************************************)
EXTENDS BalanceMonitor, SequenceTheorems, FiniteSetTheorems, WellFoundedInduction,
        NaturalsInduction, TLAPS

-----------------------------------------------------------------------------
(* The inductive invariant                                                 *)

Sending ==
    [at : {"idle", "balance", "coins", "fee", "broadcast"}, call : Calls \cup {NoCall},
     coins : SUBSET Int, tx : Nat, attempt : Nat, failed : SUBSET Providers]

(* The part of the types that the payments of a call depend on.            *)
SendTypes ==
    /\ \E S : txs \in Seq(S)
    /\ \A t \in TxIds : txs[t].call \in Calls
    /\ mempool \in [Providers -> SUBSET TxIds]
    /\ mined \subseteq TxIds
    /\ worker \in [Workers -> Sending]
    /\ outcome \in [Calls -> {"none", "returned", "thrown"}]

(* A worker is busy with a call of its own that has not ended.             *)
BusyInv ==
    \A w \in Workers : worker[w].at # "idle" =>
        worker[w].call \in CallsOf[w] /\ outcome[worker[w].call] = "none"

Broadcasting(c) == \E w \in Workers : worker[w].at = "broadcast" /\ worker[w].call = c

(* A call has a transaction only from its broadcast on, and has only one.  *)
BuiltInv ==
    /\ \A t \in TxIds : outcome[txs[t].call] # "none" \/ Broadcasting(txs[t].call)
    /\ \A t, u \in TxIds : txs[t].call = txs[u].call => t = u

IInv == SendTypes /\ BusyInv /\ BuiltInv

-----------------------------------------------------------------------------
(* What a step does to a worker and its call                               *)

LEMMA CallsOfWorkers ==
    /\ NoCall \notin Calls
    /\ \A w \in Workers : CallsOf[w] \subseteq Calls
    /\ \A v, w \in Workers : v # w => CallsOf[v] \cap CallsOf[w] = {}
BY BitcoinAssumption DEF Calls, CallsOf, Workers

LEMMA Fields ==
    ASSUME IInv, NEW w \in Workers
    PROVE  worker[w] \in Sending
BY DEF IInv, SendTypes

(* Nothing but the nodes, the chain or the requests moves.                 *)
LEMMA Quiet ==
    ASSUME IInv, UNCHANGED <<txs, worker, outcome>>,
           mempool' \in [Providers -> SUBSET TxIds], mined' \subseteq TxIds
    PROVE  IInv'
<1>1. TxIds' = TxIds
  BY DEF TxIds
<1>2. SendTypes'
  BY <1>1 DEF IInv, SendTypes
<1>3. BusyInv' /\ BuiltInv'
  BY <1>1 DEF IInv, BusyInv, BuiltInv, Broadcasting
<1> QED
  BY <1>2, <1>3 DEF IInv

(* The call under way goes on; a broadcast remains one.                    *)
LEMMA GoesOn ==
    ASSUME IInv, UNCHANGED <<txs, outcome, mined>>,
           mempool' \in [Providers -> SUBSET TxIds],
           NEW w \in Workers, worker[w].at # "idle",
           NEW r \in Sending, worker' = [worker EXCEPT ![w] = r],
           r.at # "idle", r.call = worker[w].call,
           worker[w].at = "broadcast" => r.at = "broadcast"
    PROVE  IInv'
<1>1. TxIds' = TxIds
  BY DEF TxIds
<1>2. /\ worker \in [Workers -> Sending] /\ worker'[w] = r
      /\ \A v \in Workers \ {w} : worker'[v] = worker[v]
  BY DEF IInv, SendTypes
<1>3. SendTypes'
  BY <1>1 DEF IInv, SendTypes
<1>4. BusyInv'
  BY <1>2 DEF IInv, BusyInv
<1>5. \A c : Broadcasting(c) => Broadcasting(c)'
  BY <1>2 DEF Broadcasting
<1>6. BuiltInv'
  BY <1>1, <1>5 DEF IInv, BuiltInv
<1> QED
  BY <1>3, <1>4, <1>6 DEF IInv

(* The call under way ends, well or not.                                   *)
LEMMA Ends ==
    ASSUME IInv, UNCHANGED <<txs, mined>>,
           mempool' \in [Providers -> SUBSET TxIds],
           NEW w \in Workers, worker[w].at # "idle",
           NEW x \in {"returned", "thrown"},
           worker' = [worker EXCEPT ![w] = Idle],
           outcome' = [outcome EXCEPT ![worker[w].call] = x]
    PROVE  IInv'
<1> DEFINE c == worker[w].call
<1>1. TxIds' = TxIds
  BY DEF TxIds
<1>2. c \in CallsOf[w] /\ c \in Calls
  BY CallsOfWorkers DEF IInv, BusyInv
<1>3. /\ worker'[w].at = "idle"
      /\ \A v \in Workers \ {w} : worker'[v] = worker[v]
      /\ worker' \in [Workers -> Sending]
  <2>1. Idle \in Sending /\ Idle.at = "idle"
    BY DEF Idle, Sending
  <2> QED
    BY <2>1 DEF IInv, SendTypes
<1>4. /\ outcome'[c] = x /\ outcome' \in [Calls -> {"none", "returned", "thrown"}]
      /\ \A d \in Calls \ {c} : outcome'[d] = outcome[d]
  BY <1>2 DEF IInv, SendTypes
<1>5. SendTypes'
  BY <1>1, <1>3, <1>4 DEF IInv, SendTypes
<1>6. BusyInv'
  <2> SUFFICES ASSUME NEW v \in Workers, worker'[v].at # "idle"
               PROVE  worker'[v].call \in CallsOf[v] /\ outcome'[worker'[v].call] = "none"
    BY DEF BusyInv
  <2>1. v # w /\ worker'[v] = worker[v]
    BY <1>3
  <2>2. worker[v].call \in CallsOf[v] /\ outcome[worker[v].call] = "none"
    BY <2>1 DEF IInv, BusyInv
  <2>3. worker[v].call # c /\ worker[v].call \in Calls
    BY <1>2, <2>1, <2>2, CallsOfWorkers
  <2> QED
    BY <1>4, <2>1, <2>2, <2>3
<1>7. BuiltInv'
  <2>1. ASSUME NEW t \in TxIds
        PROVE  outcome'[txs[t].call] # "none" \/ Broadcasting(txs[t].call)'
    <3>1. txs[t].call \in Calls
      BY DEF IInv, SendTypes
    <3>2. CASE txs[t].call = c
      BY <1>4, <3>2
    <3>3. CASE txs[t].call # c /\ outcome[txs[t].call] # "none"
      BY <1>4, <3>1, <3>3
    <3>4. CASE txs[t].call # c /\ Broadcasting(txs[t].call)
      <4>1. PICK v \in Workers : worker[v].at = "broadcast" /\ worker[v].call = txs[t].call
        BY <3>4 DEF Broadcasting
      <4>2. worker'[v] = worker[v]
        BY <1>3, <3>4, <4>1
      <4> QED
        BY <4>1, <4>2 DEF Broadcasting
    <3> QED
      BY <3>2, <3>3, <3>4 DEF IInv, BuiltInv
  <2> QED
    BY <1>1, <2>1 DEF IInv, BuiltInv
<1> QED
  BY <1>5, <1>6, <1>7 DEF IInv

LEMMA Throws ==
    ASSUME IInv, UNCHANGED <<txs, mined, mempool>>,
           NEW w \in Workers, worker[w].at # "idle", Throw(w)
    PROVE  IInv'
BY Ends DEF Throw, IInv, SendTypes

-----------------------------------------------------------------------------
(* sendBtc                                                                 *)

LEMMA BeginKeeps ==
    ASSUME IInv, NEW w \in Workers, NEW c \in CallsOf[w], Begin(w, c)
    PROVE  IInv'
<1> DEFINE r == [Idle EXCEPT !.at = IF c \in Payouts THEN "balance" ELSE "coins", !.call = c]
<1>1. UNCHANGED <<txs, mempool, mined, outcome>> /\ TxIds' = TxIds
  BY DEF Begin, BeyondWorkers, TxIds
<1>2. c \in Calls
  BY CallsOfWorkers
<1>3. r \in Sending /\ r.at # "idle" /\ r.at # "broadcast" /\ r.call = c
  BY <1>2 DEF Idle, Sending
<1> HIDE DEF r
<1>4. worker' = [worker EXCEPT ![w] = r] /\ outcome[c] = "none" /\ worker[w].at = "idle"
  BY DEF Begin, r
<1>5. /\ worker'[w] = r /\ \A v \in Workers \ {w} : worker'[v] = worker[v]
      /\ worker' \in [Workers -> Sending]
  BY <1>3, <1>4 DEF IInv, SendTypes
<1>6. SendTypes'
  BY <1>1, <1>5 DEF IInv, SendTypes
<1>7. BusyInv'
  BY <1>1, <1>3, <1>4, <1>5 DEF IInv, BusyInv
<1>8. \A d : Broadcasting(d) => Broadcasting(d)'
  BY <1>4, <1>5 DEF Broadcasting
<1>9. BuiltInv'
  BY <1>1, <1>8 DEF IInv, BuiltInv
<1> QED
  BY <1>6, <1>7, <1>9 DEF IInv

LEMMA CheckBalanceKeeps ==
    ASSUME IInv, NEW w \in Workers, NEW p \in Providers, CheckBalance(w, p)
    PROVE  IInv'
<1>1. UNCHANGED <<txs, mempool, mined>> /\ worker[w].at = "balance"
  BY DEF CheckBalance, BeyondWorkers
<1>2. CASE Throw(w)
  BY <1>1, <1>2, Throws
<1>3. CASE worker' = [worker EXCEPT ![w].at = "coins"] /\ UNCHANGED outcome
  <2> DEFINE r == [worker[w] EXCEPT !.at = "coins"]
  <2>1. r \in Sending /\ r.at = "coins" /\ r.call = worker[w].call
    BY Fields DEF Sending
  <2>2. worker' = [worker EXCEPT ![w] = r]
    BY <1>3
  <2> HIDE DEF r
  <2>3. mempool' \in [Providers -> SUBSET TxIds]
    BY <1>1 DEF IInv, SendTypes
  <2> QED
    BY <1>1, <1>3, <2>1, <2>2, <2>3, GoesOn
<1> QED
  BY <1>2, <1>3 DEF CheckBalance

LEMMA SelectCoinsKeeps ==
    ASSUME IInv, NEW w \in Workers, NEW p \in Providers, SelectCoins(w, p)
    PROVE  IInv'
<1>1. UNCHANGED <<txs, mempool, mined, arrived>> /\ worker[w].at = "coins"
  BY DEF SelectCoins, BeyondWorkers
<1>2. CASE Throw(w)
  BY <1>1, <1>2, Throws
<1>3. CASE worker' = [worker EXCEPT ![w].at = "fee", ![w].coins = Utxos(p)] /\ UNCHANGED outcome
  <2> DEFINE r == [worker[w] EXCEPT !.at = "fee", !.coins = Utxos(p)]
  <2>1. Utxos(p) \subseteq Int
    <3>1. Known(p) \subseteq Int
      <4>1. Known(p) \subseteq TxIds
        BY DEF Known, IInv, SendTypes
      <4> QED
        BY <4>1 DEF TxIds
    <3>2. {-i : i \in 1 .. arrived} \subseteq Int
      OBVIOUS
    <3> QED
      BY <3>1, <3>2 DEF Utxos, Unspent
  <2>2. r \in Sending /\ r.at = "fee" /\ r.call = worker[w].call
    BY <2>1, Fields DEF Sending
  <2>3. worker' = [worker EXCEPT ![w] = r]
    BY <1>3 DEF IInv, SendTypes
  <2> HIDE DEF r
  <2>4. mempool' \in [Providers -> SUBSET TxIds]
    BY <1>1 DEF IInv, SendTypes
  <2> QED
    BY <1>1, <1>3, <2>2, <2>3, <2>4, GoesOn
<1> QED
  BY <1>2, <1>3 DEF SelectCoins

LEMMA QueryFailsKeeps ==
    ASSUME IInv, NEW w \in Workers, QueryFails(w)
    PROVE  IInv'
<1>1. UNCHANGED <<txs, mempool, mined>> /\ worker[w].at # "idle" /\ Throw(w)
  BY DEF QueryFails, BeyondWorkers
<1> QED
  BY <1>1, Throws

(* The call at "fee" has no transaction yet, and now gets its one.         *)
LEMMA BuildKeeps ==
    ASSUME IInv, NEW w \in Workers, NEW estimate \in Estimates, Build(w, estimate)
    PROVE  IInv'
<1> DEFINE c == worker[w].call
           n == Len(txs) + 1
           r == [worker[w] EXCEPT !.at = "broadcast", !.tx = n, !.attempt = 1]
<1>1. UNCHANGED <<mempool, mined>> /\ worker[w].at = "fee"
  BY DEF Build, BeyondWorkers
<1>2. CASE Throw(w) /\ UNCHANGED <<txs, asked>>
  BY <1>1, <1>2, Throws
<1>3. ASSUME NEW e, e.call = c, txs' = Append(txs, e),
             worker' = [worker EXCEPT ![w] = r], UNCHANGED outcome
      PROVE  IInv'
  <2>1. PICK S : txs \in Seq(S)
    BY DEF IInv, SendTypes
  <2>2. txs \in Seq(S \cup {e})
    BY <2>1
  <2>3. /\ txs' \in Seq(S \cup {e}) /\ Len(txs') = n /\ Len(txs) \in Nat
        /\ txs'[n] = e /\ \A t \in TxIds : txs'[t] = txs[t]
    BY <1>3, <2>2, AppendProperties DEF TxIds
  <2>4. TxIds' = TxIds \cup {n} /\ n \notin TxIds
    BY <2>3 DEF TxIds
  <2>5. c \in CallsOf[w] /\ c \in Calls /\ outcome[c] = "none"
    BY <1>1, CallsOfWorkers DEF IInv, BusyInv
  <2>6. r \in Sending /\ r.at = "broadcast" /\ r.call = c
    <3>1. worker[w] \in Sending /\ n \in Nat
      BY <2>3, Fields
    <3> HIDE DEF n
    <3> QED
      BY <3>1 DEF Sending
  <2> HIDE DEF r
  <2>7. /\ worker'[w] = r /\ worker' \in [Workers -> Sending]
        /\ \A v \in Workers \ {w} : worker'[v] = worker[v]
    BY <1>3, <2>6 DEF IInv, SendTypes
  <2>8. \A t \in TxIds : txs[t].call # c
    <3> SUFFICES ASSUME NEW t \in TxIds, txs[t].call = c
                 PROVE  FALSE
      OBVIOUS
    <3>1. PICK v \in Workers : worker[v].at = "broadcast" /\ worker[v].call = c
      BY <2>5 DEF IInv, BuiltInv, Broadcasting
    <3>2. v # w /\ c \in CallsOf[v]
      BY <1>1, <3>1 DEF IInv, BusyInv
    <3> QED
      BY <2>5, <3>2, CallsOfWorkers
  <2>9. SendTypes'
    <3>1. \A t \in TxIds' : txs'[t].call \in Calls
      BY <1>3, <2>3, <2>4, <2>5 DEF IInv, SendTypes
    <3>2. mempool' \in [Providers -> SUBSET TxIds'] /\ mined' \subseteq TxIds'
      BY <1>1, <2>4 DEF IInv, SendTypes
    <3> QED
      BY <1>3, <2>3, <2>7, <3>1, <3>2 DEF IInv, SendTypes
  <2>10. BusyInv'
    BY <1>3, <2>5, <2>6, <2>7 DEF IInv, BusyInv
  <2>11. BuiltInv'
    <3> HIDE DEF c, n
    <3>1. ASSUME NEW t \in TxIds'
          PROVE  \/ outcome'[txs'[t].call] # "none"
                 \/ \E v \in Workers : /\ worker'[v].at = "broadcast"
                                       /\ worker'[v].call = txs'[t].call
      <4>1. CASE t = n
        BY <1>3, <2>3, <2>6, <2>7, <4>1
      <4>2. CASE t \in TxIds
        <5>1. outcome[txs[t].call] # "none" \/ Broadcasting(txs[t].call)
          BY <4>2 DEF IInv, BuiltInv
        <5>2. txs'[t] = txs[t]
          BY <2>3, <4>2
        <5>3. CASE outcome[txs[t].call] # "none"
          BY <1>3, <5>2, <5>3
        <5>4. CASE Broadcasting(txs[t].call)
          <6>1. PICK v \in Workers : worker[v].at = "broadcast" /\ worker[v].call = txs[t].call
            BY <5>4 DEF Broadcasting
          <6>2. worker'[v] = worker[v]
            BY <1>1, <2>7, <6>1
          <6> QED
            BY <5>2, <6>1, <6>2
        <5> QED
          BY <5>1, <5>3, <5>4
      <4> QED
        BY <2>4, <4>1, <4>2
    <3>2. ASSUME NEW t \in TxIds', NEW u \in TxIds', txs'[t].call = txs'[u].call
          PROVE  t = u
      BY <1>3, <2>3, <2>4, <2>8, <3>2 DEF IInv, BuiltInv
    <3> QED
      BY <3>1, <3>2 DEF BuiltInv, Broadcasting
  <2> QED
    BY <2>9, <2>10, <2>11 DEF IInv
<1>4. CASE ~(Throw(w) /\ UNCHANGED <<txs, asked>>)
  <2>1. PICK e : e.call = c /\ txs' = Append(txs, e)
    BY <1>4 DEF Build
  <2>2. worker' = [worker EXCEPT ![w] = r] /\ UNCHANGED outcome
    BY <1>4 DEF Build
  <2> HIDE DEF c, r
  <2> QED
    BY <1>3, <2>1, <2>2
<1> QED
  BY <1>2, <1>4

LEMMA WorkerStepKeeps ==
    ASSUME IInv, NEW w \in Workers, WorkerStep(w)
    PROVE  IInv'
BY BeginKeeps, CheckBalanceKeeps, SelectCoinsKeeps, QueryFailsKeeps, BuildKeeps DEF WorkerStep

-----------------------------------------------------------------------------
(* The nodes, the chain and the answers                                    *)

LEMMA TakenTyped ==
    ASSUME IInv, NEW t \in TxIds, NEW p \in Providers
    PROVE  Taken(t, p) \in [Providers -> SUBSET TxIds]
BY DEF Taken, IInv, SendTypes

LEMMA AnsweredKeeps ==
    ASSUME IInv, UNCHANGED <<txs, mined>>, mempool' \in [Providers -> SUBSET TxIds],
           NEW t \in TxIds, NEW p \in Providers, Answered(t, p)
    PROVE  IInv'
<1>1. ASSUME NEW w \in Workers, Waits(w, t), worker' = [worker EXCEPT ![w] = Idle],
             outcome' = [outcome EXCEPT ![worker[w].call] = "returned"]
      PROVE  IInv'
  BY <1>1, Ends DEF Waits
<1>2. CASE UNCHANGED <<worker, outcome>>
  BY <1>2, Quiet DEF IInv, SendTypes
<1> QED
  BY <1>1, <1>2 DEF Answered

LEMMA RefusedKeeps ==
    ASSUME IInv, UNCHANGED <<txs, mined>>, mempool' \in [Providers -> SUBSET TxIds],
           NEW t \in TxIds, NEW p \in Providers, Refused(t, p)
    PROVE  IInv'
<1>1. ASSUME NEW w \in Workers, Waits(w, t), NEW r, r \in Sending,
             worker' = [worker EXCEPT ![w] = r], UNCHANGED outcome,
             r.at = worker[w].at, r.call = worker[w].call
      PROVE  IInv'
  BY <1>1, GoesOn DEF Waits
<1>2. ASSUME NEW w \in Workers, Waits(w, t),
             worker' = [worker EXCEPT ![w].failed = @ \cup {p}], UNCHANGED outcome
      PROVE  IInv'
  <2> DEFINE r == [worker[w] EXCEPT !.failed = @ \cup {p}]
  <2>1. r \in Sending /\ r.at = worker[w].at /\ r.call = worker[w].call
    BY Fields DEF Sending
  <2>2. worker' = [worker EXCEPT ![w] = r]
    BY <1>2
  <2> HIDE DEF r
  <2> QED
    BY <1>1, <1>2, <2>1, <2>2
<1>3. ASSUME NEW w \in Workers, Waits(w, t), Retry(w), UNCHANGED outcome
      PROVE  IInv'
  <2> DEFINE r == [worker[w] EXCEPT !.attempt = @ + 1, !.failed = {}]
  <2>1. r \in Sending /\ r.at = worker[w].at /\ r.call = worker[w].call
    <3>1. worker[w] \in Sending /\ worker[w].attempt + 1 \in Nat
      BY Fields DEF Sending
    <3> QED
      BY <3>1 DEF Sending
  <2>2. worker' = [worker EXCEPT ![w] = r]
    BY <1>3 DEF Retry, IInv, SendTypes
  <2> HIDE DEF r
  <2> QED
    BY <1>1, <1>3, <2>1, <2>2
<1>4. ASSUME NEW w \in Workers, Waits(w, t), Throw(w)
      PROVE  IInv'
  BY <1>4, Ends DEF Waits, Throw
<1>5. CASE UNCHANGED <<worker, outcome>>
  BY <1>5, Quiet DEF IInv, SendTypes
<1> QED
  BY <1>2, <1>3, <1>4, <1>5 DEF Refused

LEMMA DeliverKeeps ==
    ASSUME IInv, NEW t \in TxIds, NEW p \in Providers, Deliver(t, p)
    PROVE  IInv'
<1>1. UNCHANGED <<txs, mined>>
  BY DEF Deliver
<1>2. mempool' \in [Providers -> SUBSET TxIds]
  BY TakenTyped DEF Deliver, IInv, SendTypes
<1>3. Answered(t, p) \/ Refused(t, p)
  BY DEF Deliver
<1> QED
  BY <1>1, <1>2, <1>3, AnsweredKeeps, RefusedKeeps

LEMMA ChainKeeps ==
    ASSUME IInv, \/ \E t \in TxIds : Mine(t) \/ \E p \in Providers : Gossip(t, p)
                 \/ Receive \/ UNCHANGED vars
    PROVE  IInv'
<1>1. UNCHANGED <<txs, worker, outcome>>
  BY DEF Mine, Gossip, Receive, vars
<1>2. mempool' \in [Providers -> SUBSET TxIds] /\ mined' \subseteq TxIds
  <2>1. ASSUME NEW t \in TxIds, Mine(t)
        PROVE  mempool' \in [Providers -> SUBSET TxIds] /\ mined' \subseteq TxIds
    BY <2>1 DEF Mine, IInv, SendTypes
  <2>2. ASSUME NEW t \in TxIds, NEW p \in Providers, Gossip(t, p)
        PROVE  mempool' \in [Providers -> SUBSET TxIds] /\ mined' \subseteq TxIds
    BY <2>2, TakenTyped DEF Gossip, IInv, SendTypes
  <2>3. CASE Receive \/ UNCHANGED vars
    BY <2>3 DEF Receive, vars, IInv, SendTypes
  <2> QED
    BY <2>1, <2>2, <2>3
<1> QED
  BY <1>1, <1>2, Quiet

LEMMA InvInit == Init => IInv
<1> SUFFICES ASSUME Init
             PROVE  IInv
  OBVIOUS
<1>1. txs = <<>> /\ TxIds = {} /\ txs \in Seq({})
  BY DEF Init, TxIds
<1>2. \A w \in Workers : worker[w] = Idle
  BY DEF Init
<1>3. Idle \in Sending /\ Idle.at = "idle"
  BY DEF Idle, Sending
<1>4. SendTypes
  BY <1>1, <1>3 DEF Init, SendTypes
<1> QED
  BY <1>1, <1>2, <1>3, <1>4 DEF IInv, BusyInv, BuiltInv

-----------------------------------------------------------------------------
(* Theorems                                                                *)

LEMMA StepKeeps ==
    ASSUME IInv, [Next]_vars
    PROVE  IInv'
<1>1. ASSUME NEW w \in Workers, WorkerStep(w)
      PROVE  IInv'
  BY <1>1, WorkerStepKeeps
<1>2. ASSUME NEW t \in TxIds, NEW p \in Providers, Deliver(t, p)
      PROVE  IInv'
  BY <1>2, DeliverKeeps
<1>3. CASE \/ \E t \in TxIds : Mine(t) \/ \E p \in Providers : Gossip(t, p)
           \/ Receive \/ UNCHANGED vars
  BY <1>3, ChainKeeps
<1> QED
  BY <1>1, <1>2, <1>3 DEF Next

(* A call has no transaction before its broadcast and one from then on, in *)
(* every state.                                                            *)
THEOREM InductiveInvariantBitcoin == Spec => []IInv
BY StepKeeps, InvInit, PTL DEF Spec

(* For any providers, retries and lost answers, and whatever the other     *)
(* worker spends meanwhile, no two transactions that reach the chain pay   *)
(* for the same call of sendBtc.                                           *)
THEOREM CallsPayOnce == Spec => []OnePaymentPerCall
<1>1. IInv => OnePaymentPerCall
  BY DEF IInv, SendTypes, BuiltInv, OnePaymentPerCall
<1> QED
  BY <1>1, InductiveInvariantBitcoin, PTL

-----------------------------------------------------------------------------
(* The value of a set of coins                                             *)

LEMMA LeastExists ==
    ASSUME NEW S \in SUBSET Nat, S # {}
    PROVE  \E n \in S : \A k \in S : n <= k
<1> DEFINE R == {p \in Nat \X Nat : p[1] < p[2]}
<1>1. IsWellFoundedOn(R, Nat)
  BY NatLessThanWellFounded DEF OpToRel
<1>2. PICK n \in S : \A k \in S : ~ (<<k, n>> \in R)
  BY <1>1, WFMin
<1>3. \A k \in S : ~ (k < n)
  BY <1>2
<1> QED
  BY <1>3

Pick(s) == CHOOSE x \in s : TRUE

(* g[s] is the sum of v over s, for each s in D, a set of sets that stays  *)
(* one when elements are picked.                                           *)
IsSum(g, v, D) ==
    g = [s \in D |-> IF s = {} THEN 0 ELSE v[Pick(s)] + g[s \ {Pick(s)}]]

LEMMA PickIn == \A s : s # {} => Pick(s) \in s
BY DEF Pick

(* The subsets of S with at most n elements.                               *)
UpTo(n, S) == {s \in SUBSET S : Cardinality(s) <= n}

LEMMA UpToAll ==
    ASSUME NEW S, IsFiniteSet(S)
    PROVE  /\ Cardinality(S) \in Nat
           /\ UpTo(Cardinality(S), S) = SUBSET S
           /\ \A s \in SUBSET S : IsFiniteSet(s) /\ Cardinality(s) \in Nat
           /\ \A s \in SUBSET S : s # {} =>
                /\ Pick(s) \in s /\ s \ {Pick(s)} \in SUBSET S
                /\ Cardinality(s \ {Pick(s)}) = Cardinality(s) - 1
<1>1. Cardinality(S) \in Nat
  BY FS_CardinalityType
<1>2. \A s \in SUBSET S : IsFiniteSet(s) /\ Cardinality(s) \in Nat /\ Cardinality(s) <= Cardinality(S)
  BY FS_Subset, FS_CardinalityType
<1>3. \A s \in SUBSET S : s # {} =>
                /\ Pick(s) \in s /\ s \ {Pick(s)} \in SUBSET S
                /\ Cardinality(s \ {Pick(s)}) = Cardinality(s) - 1
  BY <1>2, PickIn, FS_RemoveElement
<1> QED
  BY <1>1, <1>2, <1>3 DEF UpTo

LEMMA SumExists ==
    ASSUME NEW S, IsFiniteSet(S), NEW v
    PROVE  \E g : IsSum(g, v, SUBSET S)
<1> DEFINE Bad == {n \in Nat : ~ \E g : IsSum(g, v, UpTo(n, S))}
<1> SUFFICES ASSUME Bad # {} PROVE FALSE
  <2>1. Cardinality(S) \in Nat /\ UpTo(Cardinality(S), S) = SUBSET S
    BY UpToAll
  <2>2. Cardinality(S) \notin Bad => \E g : IsSum(g, v, SUBSET S)
    BY <2>1
  <2> QED
    BY <2>2
<1>1. PICK k \in Bad : \A j \in Bad : k <= j
  <2>1. Bad \in SUBSET Nat
    OBVIOUS
  <2> HIDE DEF Bad
  <2> QED
    BY <2>1, LeastExists
<1>2. k # 0
  <2> DEFINE g == [s \in UpTo(0, S) |-> 0]
  <2>1. \A s \in UpTo(0, S) : s = {}
    BY UpToAll, FS_EmptySet DEF UpTo
  <2>2. IsSum(g, v, UpTo(0, S))
    BY <2>1 DEF IsSum
  <2> QED
    BY <2>2
<1>3. k - 1 \in Nat /\ k - 1 \notin Bad
  BY <1>1, <1>2
<1>4. PICK f : IsSum(f, v, UpTo(k - 1, S))
  BY <1>3
<1> DEFINE g == [s \in UpTo(k, S) |->
                   IF s = {} THEN 0 ELSE v[Pick(s)] + f[s \ {Pick(s)}]]
<1>5. \A s \in UpTo(k, S) : s # {} => s \ {Pick(s)} \in UpTo(k - 1, S)
  BY <1>3, UpToAll DEF UpTo
<1>6. UpTo(k - 1, S) \subseteq UpTo(k, S)
  BY <1>3, UpToAll DEF UpTo
<1>7. \A s \in UpTo(k - 1, S) : g[s] = f[s]
  <2>1. \A s \in UpTo(k - 1, S) :
          f[s] = IF s = {} THEN 0 ELSE v[Pick(s)] + f[s \ {Pick(s)}]
    BY <1>4 DEF IsSum
  <2> QED
    BY <1>6, <2>1
<1>8. IsSum(g, v, UpTo(k, S))
  <2>1. ASSUME NEW s \in UpTo(k, S)
        PROVE  g[s] = IF s = {} THEN 0 ELSE v[Pick(s)] + g[s \ {Pick(s)}]
    BY <1>5, <1>7
  <2>2. g = [s \in UpTo(k, S) |-> g[s]]
    OBVIOUS
  <2> HIDE DEF g
  <2> QED
    BY <2>1, <2>2 DEF IsSum
<1> HIDE DEF g
<1> QED
  BY <1>1, <1>8

LEMMA SumUnique ==
    ASSUME NEW S, IsFiniteSet(S), NEW v, NEW g, NEW h,
           IsSum(g, v, SUBSET S), IsSum(h, v, SUBSET S)
    PROVE  g[S] = h[S]
<1> DEFINE Bad == {n \in Nat : \E s \in SUBSET S : Cardinality(s) = n /\ g[s] # h[s]}
<1> SUFFICES ASSUME Bad # {} PROVE FALSE
  BY UpToAll
<1>1. PICK k \in Bad : \A j \in Bad : k <= j
  <2>1. Bad \in SUBSET Nat
    OBVIOUS
  <2> HIDE DEF Bad
  <2> QED
    BY <2>1, LeastExists
<1>2. PICK s \in SUBSET S : Cardinality(s) = k /\ g[s] # h[s]
  OBVIOUS
<1>3. /\ g[s] = IF s = {} THEN 0 ELSE v[Pick(s)] + g[s \ {Pick(s)}]
      /\ h[s] = IF s = {} THEN 0 ELSE v[Pick(s)] + h[s \ {Pick(s)}]
  BY DEF IsSum
<1>4. s # {} /\ g[s \ {Pick(s)}] # h[s \ {Pick(s)}]
  BY <1>2, <1>3
<1>5. k - 1 \in Bad
  <2>1. /\ s \ {Pick(s)} \in SUBSET S /\ Cardinality(s \ {Pick(s)}) = k - 1
        /\ Cardinality(s \ {Pick(s)}) \in Nat
    BY <1>2, <1>4, UpToAll
  <2> QED
    BY <1>4, <2>1
<1> QED
  BY <1>1, <1>5

LEMMA SumType ==
    ASSUME NEW S, IsFiniteSet(S), NEW v \in [S -> Nat], NEW g, IsSum(g, v, SUBSET S)
    PROVE  g[S] \in Nat
<1> DEFINE Bad == {n \in Nat : \E s \in SUBSET S : Cardinality(s) = n /\ g[s] \notin Nat}
<1> SUFFICES ASSUME Bad # {} PROVE FALSE
  BY UpToAll
<1>1. PICK k \in Bad : \A j \in Bad : k <= j
  <2>1. Bad \in SUBSET Nat
    OBVIOUS
  <2> HIDE DEF Bad
  <2> QED
    BY <2>1, LeastExists
<1>2. PICK s \in SUBSET S : Cardinality(s) = k /\ g[s] \notin Nat
  OBVIOUS
<1>3. g[s] = IF s = {} THEN 0 ELSE v[Pick(s)] + g[s \ {Pick(s)}]
  BY DEF IsSum
<1>4. s # {} /\ v[Pick(s)] \in Nat /\ g[s \ {Pick(s)}] \notin Nat
  BY <1>2, <1>3, PickIn
<1>5. k - 1 \in Bad
  <2>1. /\ s \ {Pick(s)} \in SUBSET S /\ Cardinality(s \ {Pick(s)}) = k - 1
        /\ Cardinality(s \ {Pick(s)}) \in Nat
    BY <1>2, <1>4, UpToAll
  <2> QED
    BY <1>4, <2>1
<1> QED
  BY <1>1, <1>5

Values(coins) == [x \in coins |-> Value(x)]

LEMMA TotalIs ==
    ASSUME NEW coins, IsFiniteSet(coins)
    PROVE  /\ \E g : IsSum(g, Values(coins), SUBSET coins) /\ TotalValue(coins) = g[coins]
           /\ \E g : IsSum(g, Values(coins)', SUBSET coins) /\ TotalValue(coins)' = g[coins]
<1>1. TotalValue(coins) =
        (CHOOSE g : g = [s \in SUBSET coins |->
             IF s = {} THEN 0 ELSE Value(Pick(s)) + g[s \ {Pick(s)}]])[coins]
  BY DEF TotalValue, MapThenSumSet, MapThenFoldSet, Pick
<1>2. TotalValue(coins)' =
        (CHOOSE g : g = [s \in SUBSET coins |->
             IF s = {} THEN 0 ELSE Value(Pick(s))' + g[s \ {Pick(s)}]])[coins]
  BY DEF TotalValue, MapThenSumSet, MapThenFoldSet, Pick
<1> DEFINE Is(g) == g = [s \in SUBSET coins |->
                          IF s = {} THEN 0 ELSE Value(Pick(s)) + g[s \ {Pick(s)}]]
           IsNext(g) == g = [s \in SUBSET coins |->
                          IF s = {} THEN 0 ELSE Value(Pick(s))' + g[s \ {Pick(s)}]]
<1>3. \A s \in SUBSET coins : s # {} =>
        Values(coins)[Pick(s)] = Value(Pick(s)) /\ Values(coins)'[Pick(s)] = Value(Pick(s))'
  BY PickIn DEF Values
<1>4. \A g : Is(g) <=> IsSum(g, Values(coins), SUBSET coins)
  BY <1>3 DEF IsSum
<1>5. \A g : IsNext(g) <=> IsSum(g, Values(coins)', SUBSET coins)
  BY <1>3 DEF IsSum
<1>6. /\ \E g : IsSum(g, Values(coins), SUBSET coins)
      /\ \E g : IsSum(g, Values(coins)', SUBSET coins)
  BY SumExists
<1>7. TotalValue(coins) = (CHOOSE g : Is(g))[coins] /\ TotalValue(coins)' = (CHOOSE g : IsNext(g))[coins]
  BY <1>1, <1>2
<1> HIDE DEF Is, IsNext
<1>8. Is(CHOOSE g : Is(g)) /\ IsNext(CHOOSE g : IsNext(g))
  BY <1>4, <1>5, <1>6
<1> QED
  BY <1>4, <1>5, <1>7, <1>8

LEMMA TotalNat ==
    ASSUME NEW coins, IsFiniteSet(coins), \A x \in coins : Value(x) \in Nat
    PROVE  TotalValue(coins) \in Nat
<1>1. PICK g : IsSum(g, Values(coins), SUBSET coins) /\ TotalValue(coins) = g[coins]
  BY TotalIs
<1>2. Values(coins) \in [coins -> Nat]
  BY DEF Values
<1> QED
  BY <1>1, <1>2, SumType

LEMMA TotalKept ==
    ASSUME NEW coins, IsFiniteSet(coins), \A x \in coins : Value(x)' = Value(x)
    PROVE  TotalValue(coins)' = TotalValue(coins)
<1>1. PICK g : IsSum(g, Values(coins), SUBSET coins) /\ TotalValue(coins) = g[coins]
  BY TotalIs
<1>2. PICK h : IsSum(h, Values(coins)', SUBSET coins) /\ TotalValue(coins)' = h[coins]
  BY TotalIs
<1>3. Values(coins)' = Values(coins)
  BY DEF Values
<1> QED
  BY <1>1, <1>2, <1>3, SumUnique

-----------------------------------------------------------------------------
(* What is built and paid                                                  *)

Send ==
    [at : {"idle", "balance", "coins", "fee", "broadcast"}, call : Calls \cup {NoCall},
     coins : SUBSET Coins, tx : 0 .. MaxTxs, attempt : 0 .. MaxRetries,
     failed : SUBSET Providers]

(* A worker that prices its coins has some, and one that broadcasts waits  *)
(* for the transaction of its own call.                                    *)
Fits(r) ==
    /\ r.at = "fee" => r.coins # {}
    /\ r.at = "broadcast" => r.tx \in TxIds /\ txs[r.tx].call = r.call

TxInv ==
    /\ Len(txs) <= MaxTxs
    /\ \A t \in TxIds :
         /\ txs[t].call \in Calls /\ txs[t].inputs \in (SUBSET Coins) \ {{}}
         /\ txs[t].fee \in Nat /\ txs[t].change \in Nat

WorkerInv == worker \in [Workers -> Send] /\ \A w \in Workers : Fits(worker[w])

OtherTypes ==
    /\ arrived \in 0 .. Len(Received)
    /\ asked \subseteq TxIds \X Providers
    /\ raced \in BOOLEAN /\ faults \in 0 .. MaxFaults

(* The size sendBtc charges for.                                           *)
ChargedSize(coins, payout) ==
    TxSize(Cardinality(coins), IF payout THEN 3 ELSE 2, payout)

FeeInv ==
    \A t \in TxIds :
        /\ FeePaid(t) \in txs[t].fee .. txs[t].fee + DUST_THRESHOLD
        /\ txs[t].change > 0 => FeePaid(t) = txs[t].fee
        /\ txs[t].fee <= MaxFeeRate * ChargedSize(txs[t].inputs, txs[t].call \in Payouts)

PayInv == TxInv /\ WorkerInv /\ OtherTypes /\ FeeInv

LEMMA BitcoinConstants ==
    /\ Len(Received) \in Nat /\ InitialOutputs \in 0 .. Len(Received)
    /\ \A i \in 1 .. Len(Received) : Received[i] \in Nat
    /\ \A c \in Calls : Amount[c] \in Nat
    /\ Estimates \subseteq Nat /\ MaxFeeRate \in Nat
    /\ MaxRetries \in Nat \ {0} /\ MaxTxs \in Nat /\ MaxFaults \in Nat
<1>1. Received \in Seq(Nat \ {0}) /\ Len(Received) \in Nat
  BY BitcoinAssumption
<1> QED
  BY <1>1, BitcoinAssumption

LEMMA CoinFacts ==
    ASSUME IInv, TxInv
    PROVE  /\ Len(txs) \in Nat /\ TxIds \subseteq Nat
           /\ IsFiniteSet(Coins)
           /\ \A x \in Coins : Value(x) \in Nat
           /\ \A coins \in SUBSET Coins : IsFiniteSet(coins) /\ TotalValue(coins) \in Nat
<1>1. Len(txs) \in Nat /\ TxIds \subseteq Nat
  BY DEF IInv, SendTypes, TxIds
<1>2. IsFiniteSet(Coins)
  <2>1. /\ -Len(Received) \in Int /\ -1 \in Int /\ 1 \in Int /\ Len(txs) \in Int
    BY <1>1, BitcoinConstants
  <2>2. IsFiniteSet(-Len(Received) .. -1) /\ IsFiniteSet(1 .. Len(txs))
    BY <2>1, FS_Interval
  <2> QED
    BY <2>2, FS_Union DEF Coins, TxIds
<1>3. ASSUME NEW x \in Coins
      PROVE  Value(x) \in Nat
  <2>1. CASE x \in TxIds
    <3>1. ~(x < 0) /\ txs[x].change \in Nat
      BY <1>1, <2>1 DEF TxInv
    <3> QED
      BY <3>1 DEF Value
  <2>2. CASE x \in -Len(Received) .. -1
    <3>1. x < 0 /\ -x \in 1 .. Len(Received)
      BY <2>2, BitcoinConstants
    <3> QED
      BY <3>1, BitcoinConstants DEF Value
  <2> QED
    BY <2>1, <2>2 DEF Coins
<1>4. ASSUME NEW coins \in SUBSET Coins
      PROVE  IsFiniteSet(coins) /\ TotalValue(coins) \in Nat
  <2>1. IsFiniteSet(coins)
    BY <1>2, FS_Subset
  <2> QED
    BY <1>3, <2>1, TotalNat
<1> QED
  BY <1>1, <1>2, <1>3, <1>4

(* What is built stays built, at the same fee.                             *)
Keeps == TxIds \subseteq TxIds' /\ \A t \in TxIds : txs'[t] = txs[t]

LEMMA BuiltStays ==
    ASSUME IInv, TxInv, Keeps
    PROVE  /\ Coins \subseteq Coins'
           /\ \A coins \in SUBSET Coins : TotalValue(coins)' = TotalValue(coins)
           /\ \A t \in TxIds : FeePaid(t)' = FeePaid(t)
           /\ \A r : Fits(r) => Fits(r)'
<1>1. Coins \subseteq Coins'
  BY DEF Keeps, Coins
<1>2. \A x \in Coins : Value(x)' = Value(x)
  <2> SUFFICES ASSUME NEW x \in Coins PROVE Value(x)' = Value(x)
    OBVIOUS
  <2>1. x < 0 \/ x \in TxIds
    BY BitcoinConstants DEF Coins
  <2> QED
    BY <2>1 DEF Value, Keeps
<1>3. \A coins \in SUBSET Coins : TotalValue(coins)' = TotalValue(coins)
  BY <1>2, CoinFacts, TotalKept
<1>4. ASSUME NEW t \in TxIds
      PROVE  FeePaid(t)' = FeePaid(t)
  <2>1. txs'[t] = txs[t] /\ txs[t].inputs \in SUBSET Coins
    BY DEF Keeps, TxInv
  <2> DEFINE coins == txs[t].inputs
  <2>2. TotalValue(txs[t].inputs)' = TotalValue(txs[t].inputs)
    <3>1. PICK s : s = txs[t].inputs
      OBVIOUS
    <3>2. s = (txs[t].inputs)'
      BY <2>1, <3>1
    <3>3. TotalValue(s)' = TotalValue(s)
      BY <1>3, <2>1, <3>1
    <3> QED
      BY <3>1, <3>2, <3>3
  <2> QED
    BY <2>1, <2>2 DEF FeePaid
<1>5. \A r : Fits(r) => Fits(r)'
  BY DEF Fits, Keeps
<1> QED
  BY <1>1, <1>3, <1>4, <1>5

(* Worker w goes on with r, or nobody does.                                *)
LEMMA WorkerGoes ==
    ASSUME IInv, TxInv, WorkerInv, Keeps, NEW w \in Workers, NEW r,
           r \in Send', Fits(r)', worker' = [worker EXCEPT ![w] = r]
    PROVE  WorkerInv'
<1>1. Send \subseteq Send'
  BY BuiltStays DEF Send
<1>2. \A v \in Workers : worker'[v] = IF v = w THEN r ELSE worker[v]
  BY DEF WorkerInv
<1>3. worker' \in [Workers -> Send']
  BY <1>1, <1>2 DEF WorkerInv
<1>4. \A v \in Workers : Fits(worker[v])'
  <2> SUFFICES ASSUME NEW v \in Workers PROVE Fits(worker[v])'
    OBVIOUS
  <2>1. Fits(r)' /\ (Fits(worker[v]) => Fits(worker[v]))
    OBVIOUS
  <2>2. PICK x : x = worker[v]
    OBVIOUS
  <2>3. Fits(x)'
    BY <2>2, BuiltStays DEF WorkerInv
  <2> QED
    BY <1>2, <2>2, <2>3 DEF Fits
<1> QED
  BY <1>3, <1>4 DEF WorkerInv

LEMMA WorkerStays ==
    ASSUME IInv, TxInv, WorkerInv, Keeps, worker' = worker
    PROVE  WorkerInv'
<1>1. Send \subseteq Send'
  BY BuiltStays DEF Send
<1>2. \A v \in Workers : Fits(worker[v])'
  <2> SUFFICES ASSUME NEW v \in Workers PROVE Fits(worker[v])'
    OBVIOUS
  <2>1. PICK x : x = worker[v]
    OBVIOUS
  <2>2. Fits(x)'
    BY <2>1, BuiltStays DEF WorkerInv
  <2> QED
    BY <2>1, <2>2 DEF Fits
<1> QED
  BY <1>1, <1>2 DEF WorkerInv

(* Steps that build nothing.                                               *)
LEMMA NothingBuilt ==
    ASSUME IInv, TxInv, FeeInv, txs' = txs
    PROVE  TxInv' /\ FeeInv' /\ Keeps
<1>1. TxIds' = TxIds /\ Coins' = Coins /\ Keeps
  BY DEF TxIds, Coins, Keeps
<1>2. \A t \in TxIds : FeePaid(t)' = FeePaid(t)
  BY <1>1, BuiltStays
<1>3. FeeInv'
  BY <1>1, <1>2 DEF FeeInv
<1>4. TxInv'
  BY <1>1 DEF TxInv
<1> QED
  BY <1>1, <1>3, <1>4

LEMMA FaultTyped ==
    ASSUME faults \in 0 .. MaxFaults, Fault \/ faults' = faults
    PROVE  faults' \in 0 .. MaxFaults
BY BitcoinConstants DEF Fault

LEMMA IdleFits ==
    /\ Idle \in Send /\ Idle.at = "idle" /\ Fits(Idle)
    /\ Idle \in Send' /\ Fits(Idle)'
BY BitcoinConstants DEF Idle, Send, Fits

LEMMA SendFields ==
    ASSUME WorkerInv, NEW w \in Workers
    PROVE  /\ worker[w] \in Send /\ worker[w] \in Send /\ Fits(worker[w])
           /\ worker[w].call \in Calls \cup {NoCall} /\ worker[w].tx \in 0 .. MaxTxs
           /\ worker[w].attempt \in 0 .. MaxRetries /\ worker[w].failed \in SUBSET Providers
           /\ worker[w].coins \in SUBSET Coins
           /\ worker \in [Workers -> Send]
BY DEF WorkerInv, Send

LEMMA ThrowGoes ==
    ASSUME IInv, TxInv, WorkerInv, Keeps, NEW w \in Workers, Throw(w)
    PROVE  WorkerInv'
<1>1. worker' = [worker EXCEPT ![w] = Idle]
  BY DEF Throw
<1> QED
  BY <1>1, IdleFits, WorkerGoes

LEMMA UtxosTyped ==
    ASSUME IInv, OtherTypes, NEW p \in Providers
    PROVE  Utxos(p) \in SUBSET Coins /\ Known(p) \subseteq TxIds
<1>1. Known(p) \subseteq TxIds
  BY DEF Known, IInv, SendTypes
<1>2. \A i \in 1 .. arrived : -i \in -Len(Received) .. -1
  BY BitcoinConstants DEF OtherTypes
<1>3. Unspent(p) \subseteq Coins
  BY <1>1, <1>2 DEF Unspent, Coins
<1> QED
  BY <1>1, <1>3 DEF Utxos

LEMMA WorkerPays ==
    ASSUME IInv, TxInv, WorkerInv, OtherTypes, FeeInv, NEW w \in Workers,
           \/ \E c \in CallsOf[w] : Begin(w, c)
           \/ \E p \in Providers : CheckBalance(w, p) \/ SelectCoins(w, p)
           \/ QueryFails(w)
    PROVE  PayInv'
<1>1. UNCHANGED <<txs, arrived, mempool, mined, asked>>
  BY DEF Begin, CheckBalance, SelectCoins, QueryFails, BeyondWorkers
<1>2. TxInv' /\ FeeInv' /\ Keeps /\ TxIds' = TxIds /\ Coins' = Coins /\ Send' = Send
  BY <1>1, NothingBuilt DEF TxIds, Coins, Send
<1>3. OtherTypes'
  <2>1. Fault \/ faults' = faults
    BY DEF Begin, CheckBalance, SelectCoins, QueryFails
  <2>2. raced' \in BOOLEAN
    BY DEF OtherTypes, Begin, CheckBalance, SelectCoins, QueryFails, HiddenFrom
  <2> QED
    BY <1>1, <1>2, <2>1, <2>2, FaultTyped DEF OtherTypes
<1>4. ASSUME NEW r \in Send, r.at # "broadcast", r.at = "fee" => r.coins # {},
             worker' = [worker EXCEPT ![w] = r]
      PROVE  WorkerInv'
  <2>1. r \in Send' /\ Fits(r)'
    BY <1>2, <1>4 DEF Fits
  <2> QED
    BY <1>2, <1>4, <2>1, WorkerGoes
<1>5. ASSUME Throw(w)
      PROVE  WorkerInv'
  BY <1>2, <1>5, ThrowGoes
<1>6. ASSUME NEW c \in CallsOf[w], Begin(w, c)
      PROVE  WorkerInv'
  <2> DEFINE r == [Idle EXCEPT !.at = IF c \in Payouts THEN "balance" ELSE "coins", !.call = c]
  <2>1. worker' = [worker EXCEPT ![w] = r]
    BY <1>6 DEF Begin
  <2>2. r \in Send /\ r.at \in {"balance", "coins"}
    <3>1. Idle \in Send /\ c \in Calls
      BY IdleFits, CallsOfWorkers
    <3>2. ASSUME NEW a \in {"balance", "coins"}
          PROVE  /\ [Idle EXCEPT !.at = a, !.call = c] \in Send
                 /\ [Idle EXCEPT !.at = a, !.call = c].at = a
      BY <3>1 DEF Send
    <3> QED
      BY <3>2
  <2> HIDE DEF r
  <2> QED
    BY <1>4, <2>1, <2>2
<1>7. ASSUME NEW p \in Providers, CheckBalance(w, p)
      PROVE  WorkerInv'
  <2> DEFINE r == [worker[w] EXCEPT !.at = "coins"]
  <2>1. r \in Send /\ r.at = "coins"
    BY SendFields DEF Send
  <2>2. CASE Throw(w)
    BY <1>5, <2>2
  <2>3. CASE worker' = [worker EXCEPT ![w].at = "coins"]
    <3>1. worker' = [worker EXCEPT ![w] = r]
      BY <2>3, SendFields
    <3> HIDE DEF r
    <3> QED
      BY <1>4, <2>1, <3>1
  <2> QED
    BY <1>7, <2>2, <2>3 DEF CheckBalance
<1>8. ASSUME NEW p \in Providers, SelectCoins(w, p)
      PROVE  WorkerInv'
  <2> DEFINE r == [worker[w] EXCEPT !.at = "fee", !.coins = Utxos(p)]
  <2>1. r \in Send /\ r.at = "fee" /\ r.coins = Utxos(p)
    BY SendFields, UtxosTyped DEF Send
  <2>2. CASE Throw(w)
    BY <1>5, <2>2
  <2>3. CASE worker' = [worker EXCEPT ![w].at = "fee", ![w].coins = Utxos(p)] /\ Utxos(p) # {}
    <3>1. worker' = [worker EXCEPT ![w] = r]
      BY <2>3, SendFields
    <3> HIDE DEF r
    <3> QED
      BY <1>4, <2>1, <2>3, <3>1
  <2> QED
    BY <1>8, <2>2, <2>3 DEF SelectCoins
<1>9. WorkerInv'
  BY <1>5, <1>6, <1>7, <1>8 DEF QueryFails
<1> QED
  BY <1>2, <1>3, <1>9 DEF PayInv

(* What is charged stays within the cap, and what the change leaves out is *)
(* less than one dust output more.                                         *)
LEMMA FeeIsCapped ==
    ASSUME NEW coins, Cardinality(coins) \in Nat, NEW payout \in BOOLEAN,
           NEW estimate \in Estimates
    PROVE  /\ FeeFor(coins, payout, estimate) \in Nat
           /\ FeeFor(coins, payout, estimate)
                <= MaxFeeRate * ChargedSize(coins, payout)
<1> DEFINE n == ChargedSize(coins, payout)
           r == CappedFeeRate(estimate)
           m == MaxFeeRate
<1>1. n \in Nat
  BY DEF ChargedSize, TxSize, P2TR_OUTPUT_SIZE
<1>2. r \in Nat /\ m \in Nat /\ r <= 8 * m
  BY BitcoinConstants DEF CappedFeeRate, RecommendedFeeRate
<1>3. FeeFor(coins, payout, estimate) = (n * r + 7) \div 8
  BY DEF FeeFor, ChargedSize
<1> HIDE DEF n, r, m
<1>4. n * r \in Nat /\ n * m \in Nat /\ n * r <= 8 * (n * m) /\ m * n = n * m
  <2>1. PICK d \in Nat : 8 * m = r + d
    <3>1. 8 * m - r \in Nat /\ 8 * m = r + (8 * m - r)
      BY <1>2
    <3> QED
      BY <3>1
  <2>2. n * (8 * m) = n * r + n * d /\ n * d \in Nat /\ n * (8 * m) = 8 * (n * m)
    BY <1>1, <1>2, <2>1
  <2> QED
    BY <1>1, <1>2, <2>2
<1>5. \A x, y \in Nat : x <= 8 * y => (x + 7) \div 8 \in Nat /\ (x + 7) \div 8 <= y
  OBVIOUS
<1>6. (n * r + 7) \div 8 \in Nat /\ (n * r + 7) \div 8 <= n * m
  <2>1. PICK x \in Nat : x = n * r
    BY <1>4
  <2>2. PICK y \in Nat : y = n * m
    BY <1>4
  <2> QED
    BY <1>4, <1>5, <2>1, <2>2
<1> QED
  BY <1>3, <1>4, <1>6 DEF n, r, m

(* sendBtc pays its amount, the fee, and the rest but for dust to itself.  *)
LEMMA BuildPays ==
    ASSUME IInv, IInv', PayInv, NEW w \in Workers, NEW estimate \in Estimates,
           Build(w, estimate)
    PROVE  PayInv'
<1> DEFINE c == worker[w].call
           all == worker[w].coins
           fee == FeeFor(all, c \in Payouts, estimate)
           rest == TotalValue(all) - Amount[c] - fee
           n == Len(txs) + 1
           e == [call |-> c, inputs |-> all, fee |-> fee, change |-> Change(rest)]
           r == [worker[w] EXCEPT !.at = "broadcast", !.tx = n, !.attempt = 1]
<1>1. /\ UNCHANGED <<arrived, mempool, mined, raced, faults>>
      /\ worker[w].at = "fee" /\ Len(txs) < MaxTxs
  BY DEF Build, BeyondWorkers
<1>2. TxInv /\ WorkerInv /\ OtherTypes /\ FeeInv
  BY DEF PayInv
<1>3. CASE rest < 0
  <2>1. Throw(w) /\ UNCHANGED <<txs, asked>>
    BY <1>3 DEF Build
  <2>2. TxInv' /\ FeeInv' /\ Keeps /\ TxIds' = TxIds
    BY <1>2, <2>1, NothingBuilt DEF TxIds
  <2>3. WorkerInv'
    BY <1>2, <2>1, <2>2, ThrowGoes
  <2>4. OtherTypes'
    BY <1>1, <1>2, <2>1, <2>2 DEF OtherTypes
  <2> QED
    BY <2>2, <2>3, <2>4 DEF PayInv
<1>4. CASE ~(rest < 0)
  <2>1. /\ txs' = Append(txs, e) /\ worker' = [worker EXCEPT ![w] = r]
        /\ asked' = asked \cup {<<n, p>> : p \in Providers}
    BY <1>4 DEF Build
  <2>2. /\ c \in Calls /\ Amount[c] \in Nat
        /\ all \in (SUBSET Coins) \ {{}} /\ IsFiniteSet(all) /\ Cardinality(all) \in Nat
        /\ TotalValue(all) \in Nat
    <3>1. c \in Calls
      BY <1>1, CallsOfWorkers DEF IInv, BusyInv
    <3>2. all \in (SUBSET Coins) \ {{}}
      <4>1. all \in SUBSET Coins
        BY <1>2, SendFields
      <4>2. all # {}
        BY <1>1, <1>2, SendFields DEF Fits
      <4> QED
        BY <4>1, <4>2
    <3> HIDE DEF all, c
    <3> QED
      BY <1>2, <3>1, <3>2, CoinFacts, BitcoinConstants, FS_CardinalityType
  <2>3. fee \in Nat /\ fee <= MaxFeeRate * ChargedSize(all, c \in Payouts)
    <3> HIDE DEF all, c
    <3>1. (c \in Payouts) \in BOOLEAN
      OBVIOUS
    <3> QED
      BY <2>2, <3>1, FeeIsCapped
  <2> HIDE DEF fee
  <2>4. /\ Change(rest) \in Nat /\ rest \in Nat
        /\ TotalValue(all) - Amount[c] - Change(rest) \in fee .. fee + DUST_THRESHOLD
        /\ Change(rest) > 0 => TotalValue(all) - Amount[c] - Change(rest) = fee
    <3>1. rest \in Nat /\ TotalValue(all) - Amount[c] = fee + rest
      BY <1>4, <2>2, <2>3
    <3>2. \/ rest > 546 /\ Change(rest) = rest
          \/ rest <= 546 /\ Change(rest) = 0
      BY <3>1 DEF Change, DUST_THRESHOLD
    <3> HIDE DEF rest
    <3>3. PICK x \in Int : x = TotalValue(all) - Amount[c]
      BY <2>2
    <3>4. /\ x - Change(rest) \in fee .. fee + 546 /\ Change(rest) \in Nat
          /\ Change(rest) > 0 => x - Change(rest) = fee
      BY <2>3, <3>1, <3>2, <3>3
    <3> QED
      BY <3>1, <3>3, <3>4 DEF DUST_THRESHOLD
  <2>5. e.call = c /\ e.inputs = all /\ e.fee = fee /\ e.change = Change(rest)
    OBVIOUS
  <2> HIDE DEF e, rest, all, c
  <2>6. PICK S : txs \in Seq(S)
    BY DEF IInv, SendTypes
  <2>7. txs \in Seq(S \cup {e})
    BY <2>6
  <2>8. /\ Len(txs') = n /\ Len(txs) \in Nat /\ n \in Nat /\ n <= MaxTxs
        /\ txs'[n] = e /\ \A t \in TxIds : txs'[t] = txs[t]
    BY <1>1, <2>1, <2>7, AppendProperties, BitcoinConstants DEF TxIds
  <2>9. TxIds' = TxIds \cup {n} /\ n \notin TxIds /\ Keeps
    BY <2>8 DEF TxIds, Keeps
  <2>10. Coins \subseteq Coins'
    BY <1>2, <2>9, BuiltStays
  <2>11. TxInv'
    <3>1. ASSUME NEW t \in TxIds'
          PROVE  /\ txs'[t].call \in Calls /\ txs'[t].inputs \in (SUBSET Coins') \ {{}}
                 /\ txs'[t].fee \in Nat /\ txs'[t].change \in Nat
      <4>1. CASE t = n
        BY <2>2, <2>3, <2>4, <2>5, <2>8, <2>10, <4>1
      <4>2. CASE t \in TxIds
        BY <1>2, <2>8, <2>10, <4>2 DEF TxInv
      <4> QED
        BY <2>9, <4>1, <4>2
    <3> QED
      BY <2>8, <3>1 DEF TxInv
  <2>12. WorkerInv'
    <3>1. r \in Send' /\ r.at = "broadcast" /\ r.tx = n /\ r.call = c
      <4>1. /\ worker[w] \in Send /\ Send \subseteq Send' /\ n \in 0 .. MaxTxs
            /\ 1 \in 0 .. MaxRetries
        BY <1>2, <2>8, <2>9, BuiltStays, SendFields, BitcoinConstants DEF Send
      <4>2. worker[w] \in Send'
        BY <4>1
      <4> HIDE DEF n
      <4> QED
        BY <4>1, <4>2 DEF Send, c
    <3> HIDE DEF r, n
    <3>2. PICK x : x = r
      OBVIOUS
    <3>3. n \in TxIds' /\ txs'[n].call = c
      BY <2>5, <2>8, <2>9
    <3>4. Fits(x)'
      BY <3>1, <3>2, <3>3 DEF Fits
    <3> QED
      BY <1>2, <2>1, <2>9, <3>1, <3>2, <3>4, WorkerGoes
  <2>13. OtherTypes'
    BY <1>1, <1>2, <2>1, <2>9 DEF OtherTypes
  <2>14. FeeInv'
    <3>1. ASSUME NEW t \in TxIds'
          PROVE  /\ FeePaid(t)' \in txs'[t].fee .. txs'[t].fee + DUST_THRESHOLD
                 /\ txs'[t].change > 0 => FeePaid(t)' = txs'[t].fee
                 /\ txs'[t].fee <= MaxFeeRate
                      * ChargedSize(txs'[t].inputs, txs'[t].call \in Payouts)
      <4>1. CASE t = n
        <5>1. PICK s : s = all
          OBVIOUS
        <5>2. TotalValue(s)' = TotalValue(s)
          BY <1>2, <2>2, <2>9, <5>1, BuiltStays
        <5>3. /\ s = (txs[t].inputs)' /\ (txs[t].call)' = c
              /\ (txs[t].change)' = Change(rest)
          BY <2>5, <2>8, <4>1, <5>1
        <5>4. TotalValue(txs[t].inputs)' = TotalValue(all)
          BY <5>1, <5>2, <5>3
        <5>5. FeePaid(t)' = TotalValue(all) - Amount[c] - Change(rest)
          BY <5>3, <5>4 DEF FeePaid
        <5> QED
          BY <2>3, <2>4, <2>5, <2>8, <4>1, <5>5
      <4>2. CASE t \in TxIds
        <5>1. FeePaid(t)' = FeePaid(t) /\ txs'[t] = txs[t]
          BY <1>2, <2>8, <2>9, <4>2, BuiltStays
        <5> QED
          BY <1>2, <4>2, <5>1 DEF FeeInv
      <4> QED
        BY <2>9, <4>1, <4>2
    <3>2. \A s, b : ChargedSize(s, b)' = ChargedSize(s, b)
      BY DEF ChargedSize, TxSize
    <3> QED
      BY <3>1, <3>2 DEF FeeInv
  <2> QED
    BY <2>11, <2>12, <2>13, <2>14 DEF PayInv
<1> QED
  BY <1>3, <1>4

(* What a worker keeps of its call when an answer does not end it.         *)
LEMMA FitsStill ==
    ASSUME WorkerInv, NEW w \in Workers, txs' = txs, NEW r,
           r.at = worker[w].at, r.coins = worker[w].coins, r.tx = worker[w].tx,
           r.call = worker[w].call
    PROVE  Fits(r)'
<1>1. TxIds' = TxIds
  BY DEF TxIds
<1>2. Fits(worker[w])
  BY DEF WorkerInv
<1> QED
  BY <1>1, <1>2 DEF Fits

LEMMA AnswersPay ==
    ASSUME IInv, TxInv, WorkerInv, txs' = txs, Keeps,
           NEW t \in TxIds, NEW p \in Providers, Answered(t, p) \/ Refused(t, p)
    PROVE  WorkerInv'
<1>1. Send' = Send
  BY DEF Send, Coins, TxIds
<1>2. ASSUME NEW w \in Workers, Throw(w)
      PROVE  WorkerInv'
  BY <1>2, ThrowGoes
<1>3. ASSUME NEW w \in Workers, worker' = [worker EXCEPT ![w] = Idle]
      PROVE  WorkerInv'
  BY <1>3, IdleFits, WorkerGoes
<1>4. ASSUME NEW w \in Workers, worker' = [worker EXCEPT ![w].failed = @ \cup {p}]
      PROVE  WorkerInv'
  <2>1. PICK r : r = [worker[w] EXCEPT !.failed = @ \cup {p}]
    OBVIOUS
  <2>2. worker' = [worker EXCEPT ![w] = r]
    BY <1>4, <2>1, SendFields
  <2>3. /\ r \in Send /\ r.at = worker[w].at /\ r.coins = worker[w].coins
        /\ r.tx = worker[w].tx /\ r.call = worker[w].call
    BY <2>1, SendFields DEF Send
  <2>4. Fits(r)'
    BY <2>3, FitsStill
  <2> QED
    BY <1>1, <2>2, <2>3, <2>4, WorkerGoes
<1>5. ASSUME NEW w \in Workers, MayRetry(w), Retry(w)
      PROVE  WorkerInv'
  <2>1. PICK r : r = [worker[w] EXCEPT !.attempt = @ + 1, !.failed = {}]
    OBVIOUS
  <2>2. worker' = [worker EXCEPT ![w] = r]
    BY <1>5, <2>1, SendFields DEF Retry
  <2>3. worker[w].attempt + 1 \in 0 .. MaxRetries
    BY <1>5, SendFields, BitcoinConstants DEF MayRetry
  <2>4. /\ r \in Send /\ r.at = worker[w].at /\ r.coins = worker[w].coins
        /\ r.tx = worker[w].tx /\ r.call = worker[w].call
    BY <2>1, <2>3, SendFields DEF Send
  <2>5. Fits(r)'
    BY <2>4, FitsStill
  <2> QED
    BY <1>1, <2>2, <2>4, <2>5, WorkerGoes
<1>6. CASE worker' = worker
  BY <1>6, WorkerStays
<1> QED
  BY <1>2, <1>3, <1>4, <1>5, <1>6 DEF Answered, Refused

LEMMA DeliverPays ==
    ASSUME IInv, PayInv, NEW t \in TxIds, NEW p \in Providers, Deliver(t, p)
    PROVE  PayInv'
<1>1. TxInv /\ WorkerInv /\ OtherTypes /\ FeeInv
  BY DEF PayInv
<1>2. UNCHANGED <<txs, arrived, mined, raced>> /\ (Answered(t, p) \/ Refused(t, p))
  BY DEF Deliver
<1>3. TxInv' /\ FeeInv' /\ Keeps /\ TxIds' = TxIds
  BY <1>1, <1>2, NothingBuilt DEF TxIds
<1>4. WorkerInv'
  BY <1>1, <1>2, <1>3, AnswersPay
<1>5. asked' \subseteq TxIds \X Providers
  <2>1. asked \subseteq TxIds \X Providers
    BY <1>1 DEF OtherTypes
  <2>2. CASE asked' = asked \ {<<t, p>>}
    BY <2>1, <2>2
  <2>3. ASSUME NEW w \in Workers, Waits(w, t), Retry(w)
        PROVE  asked' \subseteq TxIds \X Providers
    BY <2>1, <2>3 DEF Retry, Waits
  <2> QED
    BY <1>2, <2>2, <2>3 DEF Answered, Refused
<1>6. faults' \in 0 .. MaxFaults
  BY <1>1, FaultTyped DEF Deliver, OtherTypes
<1>7. OtherTypes'
  BY <1>1, <1>2, <1>3, <1>5, <1>6 DEF OtherTypes
<1> QED
  BY <1>3, <1>4, <1>7 DEF PayInv

LEMMA ChainPays ==
    ASSUME IInv, PayInv, \/ \E t \in TxIds : Mine(t) \/ \E p \in Providers : Gossip(t, p)
                         \/ Receive \/ UNCHANGED vars
    PROVE  PayInv'
<1>1. TxInv /\ WorkerInv /\ OtherTypes /\ FeeInv
  BY DEF PayInv
<1>2. UNCHANGED <<txs, worker, asked, raced, faults>>
  BY DEF Mine, Gossip, Receive, vars
<1>3. TxInv' /\ FeeInv' /\ Keeps /\ TxIds' = TxIds
  BY <1>1, <1>2, NothingBuilt DEF TxIds
<1>4. WorkerInv'
  BY <1>1, <1>2, <1>3, WorkerStays
<1>5. arrived' \in 0 .. Len(Received)
  BY <1>1, BitcoinConstants DEF OtherTypes, Mine, Gossip, Receive, vars
<1> QED
  BY <1>1, <1>2, <1>3, <1>4, <1>5 DEF PayInv, OtherTypes

LEMMA PayInit == Init => PayInv
<1> SUFFICES ASSUME Init
             PROVE  PayInv
  OBVIOUS
<1>1. txs = <<>> /\ TxIds = {} /\ Len(txs) = 0
  BY DEF Init, TxIds
<1>2. TxInv /\ FeeInv
  BY <1>1, BitcoinConstants DEF TxInv, FeeInv
<1>3. WorkerInv
  BY IdleFits DEF Init, WorkerInv
<1>4. OtherTypes
  <2>1. arrived \in 0 .. Len(Received)
    BY BitcoinConstants DEF Init
  <2>3. faults \in 0 .. MaxFaults
    BY BitcoinConstants DEF Init
  <2>4. raced \in BOOLEAN
    BY DEF Init
  <2>2. asked \subseteq TxIds \X Providers
    BY DEF Init
  <2> QED
    BY <2>1, <2>2, <2>3, <2>4 DEF OtherTypes
<1> QED
  BY <1>2, <1>3, <1>4 DEF PayInv

LEMMA StepPays ==
    ASSUME IInv, IInv', PayInv, [Next]_vars
    PROVE  PayInv'
<1>1. ASSUME NEW w \in Workers, WorkerStep(w)
      PROVE  PayInv'
  BY <1>1, WorkerPays, BuildPays DEF WorkerStep, PayInv
<1>2. ASSUME NEW t \in TxIds, NEW p \in Providers, Deliver(t, p)
      PROVE  PayInv'
  BY <1>2, DeliverPays
<1>3. CASE \/ \E t \in TxIds : Mine(t) \/ \E p \in Providers : Gossip(t, p)
           \/ Receive \/ UNCHANGED vars
  BY <1>3, ChainPays
<1> QED
  BY <1>1, <1>2, <1>3 DEF Next

(* What each transaction pays is accounted for in every state.             *)
THEOREM PayInvariant == Spec => []PayInv
BY StepPays, PayInit, InductiveInvariantBitcoin, PTL DEF Spec

(* Every reachable state of the wallet is well typed, for any amounts,     *)
(* estimates and providers: no balance, fee or change is ever negative.    *)
THEOREM BitcoinTypeCorrect == Spec => []TypeOK
<1>1. IInv /\ PayInv => TypeOK
  BY DEF IInv, SendTypes, PayInv, TxInv, WorkerInv, OtherTypes, Send, TypeOK
<1> QED
  BY <1>1, PayInvariant, InductiveInvariantBitcoin, PTL

(* The charge bounds what is paid: a change output that is left out is     *)
(* charged for, and the change it would have had is dust.                  *)
LEMMA ChargeBounds ==
    ASSUME IInv, TxInv, FeeInv
    PROVE  FeeWithinCap
<1> SUFFICES ASSUME NEW t \in TxIds
             PROVE  /\ FeePaid(t) >= txs[t].fee
                    /\ FeePaid(t) <=
                         MaxFeeRate * (BuiltSize(t)
                             + (IF txs[t].call \in Payouts THEN P2TR_OUTPUT_SIZE ELSE 0)
                             + (IF txs[t].change = 0 THEN P2TR_OUTPUT_SIZE ELSE 0))
                           + (IF txs[t].change = 0 THEN DUST_THRESHOLD ELSE 0)
  BY DEF FeeWithinCap
<1>1. /\ txs[t].inputs \in SUBSET Coins /\ txs[t].call \in Calls
      /\ txs[t].fee \in Nat /\ txs[t].change \in Nat
  BY DEF TxInv
<1>2. Cardinality(txs[t].inputs) \in Nat
  BY <1>1, CoinFacts, FS_CardinalityType
<1>3. PICK s : s = ChargedSize(txs[t].inputs, txs[t].call \in Payouts)
  OBVIOUS
<1>4. /\ s \in Nat
      /\ s = BuiltSize(t)
               + (IF txs[t].call \in Payouts THEN P2TR_OUTPUT_SIZE ELSE 0)
               + (IF txs[t].change = 0 THEN P2TR_OUTPUT_SIZE ELSE 0)
  <2>1. PICK n \in Nat : n = Cardinality(txs[t].inputs)
    BY <1>2
  <2>2. \/ txs[t].change > 0 /\ txs[t].change # 0
        \/ ~(txs[t].change > 0) /\ txs[t].change = 0
    BY <1>1
  <2> QED
    BY <1>3, <2>1, <2>2 DEF ChargedSize, BuiltSize, TxSize, P2TR_OUTPUT_SIZE
<1>5. PICK x : x = FeePaid(t)
  OBVIOUS
<1>6. /\ x \in txs[t].fee .. txs[t].fee + 546
      /\ txs[t].change > 0 => x = txs[t].fee
      /\ txs[t].fee <= MaxFeeRate * s
  BY <1>3, <1>5 DEF FeeInv, DUST_THRESHOLD
<1>7. PICK m : m = MaxFeeRate * s
  OBVIOUS
<1>8. m \in Nat
  BY <1>4, <1>7, BitcoinConstants
<1>9. x >= txs[t].fee /\ x <= m + (IF txs[t].change = 0 THEN 546 ELSE 0)
  BY <1>1, <1>6, <1>7, <1>8
<1> QED
  BY <1>4, <1>5, <1>7, <1>9 DEF DUST_THRESHOLD

(* For any coins, amounts, estimates and cap, a transaction of sendBtc     *)
(* leaves the miners at least what it reports as feeSats and at most       *)
(* maxFeeRate for its size, for an OP_RETURN that is counted twice and for *)
(* change of up to the dust threshold that is left out with its output,    *)
(* whatever the wallet has received or spent since.                        *)
THEOREM FeesWithinCap == Spec => []FeeWithinCap
<1>1. IInv /\ PayInv => FeeWithinCap
  BY ChargeBounds DEF PayInv
<1> QED
  BY <1>1, InductiveInvariantBitcoin, PayInvariant, PTL

-----------------------------------------------------------------------------
(* Payments that nobody displaces                                          *)

(* A node holds t, a block does, or a request for it is under way.         *)
Live(t) == \E p \in Providers : t \in Known(p) \/ <<t, p>> \in asked

Held(t) == \E p \in Providers : t \in Known(p)

(* A broadcast still waits for every provider that has not refused.        *)
WaitInv ==
    \A w \in Workers : worker[w].at = "broadcast" =>
        \A p \in Providers \ worker[w].failed : <<worker[w].tx, p>> \in asked

(* Unless coins were chosen beside a payment the provider did not know of, *)
(* live transactions share no coin with one another, nor with the coins of *)
(* the only worker that has chosen some.                                   *)
ApartInv ==
    ~raced =>
        /\ \A t, u \in TxIds : Live(t) /\ Live(u) /\ t # u =>
             txs[t].inputs \cap txs[u].inputs = {}
        /\ \A w \in Workers : worker[w].at = "fee" =>
             \A t \in TxIds : Live(t) => txs[t].inputs \cap worker[w].coins = {}
        /\ \A v, w \in Workers : worker[v].at = "fee" /\ worker[w].at = "fee" => v = w

HeldInv ==
    ~raced => \A c \in Calls : outcome[c] = "returned" =>
        \E t \in TxIds : txs[t].call = c /\ Held(t)

PlaceInv == WaitInv /\ ApartInv /\ HeldInv

(* A step by which no transaction comes to life and no coins are chosen.   *)
LEMMA StaysApart ==
    ASSUME ApartInv, txs' = txs, raced' = raced,
           \A t \in TxIds : Live(t)' => Live(t),
           \A w \in Workers : worker'[w].at = "fee" =>
               worker[w].at = "fee" /\ worker'[w].coins = worker[w].coins
    PROVE  ApartInv'
BY DEF ApartInv, TxIds

LEMMA NoDescendants ==
    ASSUME NEW pool
    PROVE  Descendants({}, pool) = {}
<1>1. Spenders({}, pool) = {} /\ {} \in SUBSET ({} \cup pool)
  BY DEF Spenders
<1> QED
  BY <1>1 DEF Descendants

(* A node that takes a live transaction loses none for it.                 *)
LEMMA TakenLoses ==
    ASSUME IInv, ApartInv, ~raced, NEW t \in TxIds, Live(t), NEW p \in Providers,
           Acceptable(t, p), mempool' = Taken(t, p)
    PROVE  mempool' = [mempool EXCEPT ![p] = @ \cup {t}]
<1>1. mempool \in [Providers -> SUBSET TxIds]
  BY DEF IInv, SendTypes
<1>2. Conflicts(t, mempool[p]) = {}
  <2> SUFFICES ASSUME NEW u \in Conflicts(t, mempool[p])
               PROVE  FALSE
    OBVIOUS
  <2>1. u \in mempool[p] /\ u # t /\ txs[u].inputs \cap txs[t].inputs # {}
    BY DEF Conflicts
  <2>2. u \in TxIds /\ Live(u)
    BY <1>1, <2>1 DEF Live, Known
  <2> QED
    BY <2>1, <2>2 DEF ApartInv
<1>3. mempool[p] \ Descendants({}, mempool[p]) = mempool[p]
  BY NoDescendants
<1> QED
  BY <1>1, <1>2, <1>3 DEF Taken

(* Nor does the chain.                                                     *)
LEMMA MinedLoses ==
    ASSUME IInv, ApartInv, ~raced, NEW t \in TxIds, Mine(t)
    PROVE  /\ mined' = mined \cup {t}
           /\ mempool' = [p \in Providers |-> mempool[p] \ {t}]
           /\ Live(t)
<1>1. mempool \in [Providers -> SUBSET TxIds]
  BY DEF IInv, SendTypes
<1>2. Live(t)
  BY DEF Mine, Live, Known
<1>3. ASSUME NEW p \in Providers
      PROVE  mempool[p] \ ({t} \cup Descendants(Conflicts(t, mempool[p]), mempool[p]))
               = mempool[p] \ {t}
  <2>1. Conflicts(t, mempool[p]) = {}
    <3> SUFFICES ASSUME NEW u \in Conflicts(t, mempool[p])
                 PROVE  FALSE
      OBVIOUS
    <3>1. u \in mempool[p] /\ u # t /\ txs[u].inputs \cap txs[t].inputs # {}
      BY DEF Conflicts
    <3>2. u \in TxIds /\ Live(u)
      BY <1>1, <3>1 DEF Live, Known
    <3> QED
      BY <1>2, <3>1, <3>2 DEF ApartInv
  <2>2. Descendants({}, mempool[p]) = {}
    BY NoDescendants
  <2> QED
    BY <2>1, <2>2
<1> QED
  BY <1>2, <1>3 DEF Mine

(* Steps of the nodes and of the chain.                                    *)
LEMMA ChainKeepsPlace ==
    ASSUME IInv, PlaceInv, \/ \E t \in TxIds : Mine(t) \/ \E p \in Providers : Gossip(t, p)
                           \/ Receive \/ UNCHANGED vars
    PROVE  PlaceInv'
<1>1. UNCHANGED <<txs, worker, asked, raced, outcome>> /\ TxIds' = TxIds
  BY DEF Mine, Gossip, Receive, vars, TxIds
<1>2. WaitInv'
  BY <1>1 DEF PlaceInv, WaitInv
<1>3. ASSUME ~raced
      PROVE  \A t \in TxIds : (Held(t) => Held(t)') /\ (Live(t)' => Live(t))
  <2>1. mempool \in [Providers -> SUBSET TxIds]
    BY DEF IInv, SendTypes
  <2>2. ASSUME NEW t \in TxIds, Mine(t)
        PROVE  \A u \in TxIds : (Held(u) => Held(u)') /\ (Live(u)' => Live(u))
    <3>1. /\ mined' = mined \cup {t} /\ Live(t)
          /\ \A p \in Providers : mempool'[p] = mempool[p] \ {t}
      BY <1>3, <2>2, MinedLoses DEF PlaceInv
    <3> QED
      BY <1>1, <3>1 DEF Held, Live, Known
  <2>3. ASSUME NEW t \in TxIds, NEW p \in Providers, Gossip(t, p)
        PROVE  \A u \in TxIds : (Held(u) => Held(u)') /\ (Live(u)' => Live(u))
    <3>1. Live(t) /\ Acceptable(t, p) /\ mempool' = Taken(t, p) /\ mined' = mined
      BY <2>3 DEF Gossip, Live, Known
    <3>2. mempool' = [mempool EXCEPT ![p] = @ \cup {t}]
      BY <1>3, <3>1, TakenLoses DEF PlaceInv
    <3>3. \A q \in Providers : mempool[q] \subseteq mempool'[q] /\ mempool'[q] \subseteq mempool[q] \cup {t}
      BY <2>1, <3>2
    <3> QED
      BY <1>1, <3>1, <3>3 DEF Held, Live, Known
  <2>4. CASE Receive \/ UNCHANGED vars
    BY <1>1, <2>4 DEF Receive, vars, Held, Live, Known
  <2> QED
    BY <2>2, <2>3, <2>4
<1>4. ApartInv'
  <2>1. CASE ~raced
    BY <1>1, <1>3, <2>1, StaysApart DEF PlaceInv
  <2>2. CASE raced
    BY <1>1, <2>2 DEF ApartInv
  <2> QED
    BY <2>1, <2>2
<1>5. HeldInv'
  BY <1>1, <1>3 DEF PlaceInv, HeldInv
<1> QED
  BY <1>2, <1>4, <1>5 DEF PlaceInv

(* Steps of the workers before the broadcast.                              *)
LEMMA NobodyBroadcasts ==
    ASSUME PlaceInv, UNCHANGED <<txs, mempool, mined, asked, raced>>,
           \A c \in Calls : outcome'[c] = "returned" => outcome[c] = "returned",
           \A w \in Workers : worker'[w].at \in {"fee", "broadcast"} => worker'[w] = worker[w]
    PROVE  PlaceInv'
<1>1. TxIds' = TxIds
  BY DEF TxIds
<1>2. \A t \in TxIds : (Held(t)' <=> Held(t)) /\ (Live(t)' <=> Live(t))
  BY DEF Held, Live, Known
<1>3. WaitInv'
  BY DEF PlaceInv, WaitInv
<1>4. ApartInv'
  BY <1>2, StaysApart DEF PlaceInv
<1>5. HeldInv'
  BY <1>1, <1>2 DEF PlaceInv, HeldInv
<1> QED
  BY <1>3, <1>4, <1>5 DEF PlaceInv

LEMMA ThrowsInPlace ==
    ASSUME IInv, PlaceInv, UNCHANGED <<txs, mempool, mined, asked, raced>>,
           NEW w \in Workers, Throw(w)
    PROVE  PlaceInv'
<1>1. outcome \in [Calls -> {"none", "returned", "thrown"}] /\ worker \in [Workers -> Sending]
  BY DEF IInv, SendTypes
<1>2. \A c \in Calls : outcome'[c] = "returned" => outcome[c] = "returned"
  BY <1>1 DEF Throw
<1>3. \A v \in Workers : worker'[v] = worker[v] \/ worker'[v].at = "idle"
  BY <1>1 DEF Throw, Idle
<1> QED
  BY <1>2, <1>3, NobodyBroadcasts

(* The coins that are chosen are in no payment the provider knows of; so   *)
(* if it knows of every one under way, they are in none.                   *)
LEMMA SelectInPlace ==
    ASSUME IInv, PayInv, PlaceInv, NEW w \in Workers, NEW p \in Providers, SelectCoins(w, p)
    PROVE  PlaceInv'
<1>1. UNCHANGED <<txs, mempool, mined, asked>> /\ raced' = (raced \/ HiddenFrom(w, p))
  BY DEF SelectCoins, BeyondWorkers
<1>2. worker[w].at = "coins" /\ worker \in [Workers -> Sending] /\ TxIds' = TxIds
  BY <1>1 DEF SelectCoins, IInv, SendTypes, TxIds
<1>3. \A t \in TxIds : (Held(t)' <=> Held(t)) /\ (Live(t)' <=> Live(t))
  BY <1>1 DEF Held, Live, Known
<1>4. CASE Throw(w)
  <2>1. \A v \in Workers : worker'[v] = worker[v] \/ worker'[v].at = "idle"
    BY <1>2, <1>4 DEF Throw, Idle
  <2>2. \A c \in Calls : outcome'[c] = "returned" => outcome[c] = "returned"
    BY <1>4 DEF Throw, IInv, SendTypes
  <2>3. WaitInv'
    BY <1>1, <2>1 DEF PlaceInv, WaitInv
  <2>4. ApartInv'
    BY <1>1, <1>2, <1>3, <2>1 DEF PlaceInv, ApartInv
  <2>5. HeldInv'
    BY <1>1, <1>2, <1>3, <2>2 DEF PlaceInv, HeldInv
  <2> QED
    BY <2>3, <2>4, <2>5 DEF PlaceInv
<1>5. CASE /\ worker' = [worker EXCEPT ![w].at = "fee", ![w].coins = Utxos(p)]
           /\ UNCHANGED outcome
  <2>1. /\ worker'[w].at = "fee" /\ worker'[w].coins = Utxos(p)
        /\ \A v \in Workers \ {w} : worker'[v] = worker[v]
    BY <1>2, <1>5 DEF Sending
  <2>2. WaitInv'
    BY <1>1, <2>1 DEF PlaceInv, WaitInv
  <2>3. HeldInv'
    BY <1>1, <1>2, <1>3, <1>5 DEF PlaceInv, HeldInv
  <2>4. ASSUME ~raced'
        PROVE  /\ ~raced
               /\ \A v \in Workers \ {w} : worker[v].at # "fee"
               /\ \A t \in TxIds : Live(t) => txs[t].inputs \cap Utxos(p) = {}
    <3>1. ~raced /\ ~HiddenFrom(w, p)
      BY <1>1, <2>4
    <3>2. \A t \in TxIds : Live(t) => t \in Known(p)
      BY <3>1 DEF HiddenFrom, Live, Known
    <3>3. \A t \in Known(p) : txs[t].inputs \cap Unspent(p) = {}
      BY DEF Unspent, Spent
    <3>4. Utxos(p) \subseteq Unspent(p)
      BY DEF Utxos
    <3> QED
      BY <3>1, <3>2, <3>3, <3>4 DEF HiddenFrom
  <2>5. ApartInv'
    BY <1>1, <1>2, <1>3, <2>1, <2>4 DEF PlaceInv, ApartInv
  <2> QED
    BY <2>2, <2>3, <2>5 DEF PlaceInv
<1> QED
  BY <1>4, <1>5 DEF SelectCoins

LEMMA WorkerInPlace ==
    ASSUME IInv, PayInv, PlaceInv, NEW w \in Workers,
           \/ \E c \in CallsOf[w] : Begin(w, c)
           \/ \E p \in Providers : CheckBalance(w, p) \/ SelectCoins(w, p)
           \/ QueryFails(w)
    PROVE  PlaceInv'
<1>0. worker \in [Workers -> Sending]
  BY DEF IInv, SendTypes
<1>1. ASSUME NEW c \in CallsOf[w], Begin(w, c)
      PROVE  PlaceInv'
  <2>1. UNCHANGED <<txs, mempool, mined, asked, raced, outcome>>
    BY <1>1 DEF Begin, BeyondWorkers
  <2>2. \A v \in Workers : worker'[v] = worker[v] \/ worker'[v].at \in {"balance", "coins"}
    BY <1>0, <1>1 DEF Begin, Idle
  <2> QED
    BY <2>1, <2>2, NobodyBroadcasts
<1>2. ASSUME NEW p \in Providers, CheckBalance(w, p)
      PROVE  PlaceInv'
  <2>1. UNCHANGED <<txs, mempool, mined, asked, raced>>
    BY <1>2 DEF CheckBalance, BeyondWorkers
  <2>2. CASE Throw(w)
    BY <2>1, <2>2, ThrowsInPlace
  <2>3. CASE worker' = [worker EXCEPT ![w].at = "coins"] /\ UNCHANGED outcome
    <3>1. \A v \in Workers : worker'[v] = worker[v] \/ worker'[v].at = "coins"
      BY <1>0, <2>3 DEF Sending
    <3> QED
      BY <2>1, <2>3, <3>1, NobodyBroadcasts
  <2> QED
    BY <1>2, <2>2, <2>3 DEF CheckBalance
<1>3. CASE QueryFails(w)
  BY <1>3, ThrowsInPlace DEF QueryFails, BeyondWorkers
<1> QED
  BY <1>1, <1>2, <1>3, SelectInPlace

(* The transaction that is built comes to life with coins nobody else has. *)
LEMMA BuildInPlace ==
    ASSUME IInv, PayInv, PayInv', PlaceInv, NEW w \in Workers, NEW estimate \in Estimates,
           Build(w, estimate)
    PROVE  PlaceInv'
<1>1. /\ UNCHANGED <<mempool, mined, raced>> /\ worker[w].at = "fee"
      /\ worker \in [Workers -> Sending]
  BY DEF Build, BeyondWorkers, IInv, SendTypes
<1>2. CASE Throw(w) /\ UNCHANGED <<txs, asked>>
  BY <1>1, <1>2, ThrowsInPlace
<1>3. CASE ~(Throw(w) /\ UNCHANGED <<txs, asked>>)
  <2>1. PICK n, e :
          /\ n = Len(txs) + 1 /\ e.inputs = worker[w].coins /\ txs' = Append(txs, e)
          /\ asked' = asked \cup {<<n, p>> : p \in Providers}
          /\ worker' = [worker EXCEPT ![w] =
               [worker[w] EXCEPT !.at = "broadcast", !.tx = n, !.attempt = 1]]
          /\ UNCHANGED outcome
    BY <1>3 DEF Build
  <2>2. PICK S : txs \in Seq(S)
    BY DEF IInv, SendTypes
  <2>3. txs \in Seq(S \cup {e})
    BY <2>2
  <2>4. /\ Len(txs') = n /\ Len(txs) \in Nat
        /\ txs'[n] = e /\ \A t \in TxIds : txs'[t] = txs[t]
    BY <2>1, <2>3, AppendProperties DEF TxIds
  <2>5. TxIds' = TxIds \cup {n} /\ n \notin TxIds
    BY <2>1, <2>4 DEF TxIds
  <2>6. /\ worker'[w].at = "broadcast" /\ worker'[w].tx = n
        /\ worker'[w].failed = worker[w].failed
        /\ \A v \in Workers \ {w} : worker'[v] = worker[v]
    BY <1>1, <2>1 DEF Sending
  <2>7. \A t \in TxIds : (Held(t)' <=> Held(t)) /\ (Live(t)' <=> Live(t))
    BY <1>1, <2>1, <2>5 DEF Held, Live, Known
  <2>8. WaitInv'
    BY <2>1, <2>6 DEF PlaceInv, WaitInv
  <2>9. ASSUME ~raced'
        PROVE  /\ \A t \in TxIds : Live(t) => txs[t].inputs \cap e.inputs = {}
               /\ \A v \in Workers : worker'[v].at # "fee"
               /\ \A t, u \in TxIds : Live(t) /\ Live(u) /\ t # u =>
                    txs[t].inputs \cap txs[u].inputs = {}
    BY <1>1, <2>1, <2>6, <2>9 DEF PlaceInv, ApartInv
  <2>10. ApartInv'
    <3> SUFFICES ASSUME ~raced', NEW t \in TxIds', NEW u \in TxIds', Live(t)', Live(u)', t # u
                 PROVE  txs'[t].inputs \cap txs'[u].inputs = {}
      BY <2>9 DEF ApartInv
    <3>1. CASE t \in TxIds /\ u \in TxIds
      BY <2>4, <2>7, <2>9, <3>1
    <3>2. CASE t = n /\ u \in TxIds
      BY <2>4, <2>7, <2>9, <3>2
    <3>3. CASE t \in TxIds /\ u = n
      BY <2>4, <2>7, <2>9, <3>3
    <3> QED
      BY <2>5, <3>1, <3>2, <3>3
  <2>11. HeldInv'
    BY <1>1, <2>1, <2>4, <2>5, <2>7 DEF PlaceInv, HeldInv
  <2> QED
    BY <2>8, <2>10, <2>11 DEF PlaceInv
<1> QED
  BY <1>2, <1>3

LEMMA OneWaits ==
    ASSUME IInv, WorkerInv, NEW t, NEW v \in Workers, NEW w \in Workers, Waits(v, t), Waits(w, t)
    PROVE  v = w
<1>1. worker[v].call = txs[t].call /\ worker[w].call = txs[t].call
  BY DEF WorkerInv, Fits, Waits
<1>2. worker[v].call \in CallsOf[v] /\ worker[w].call \in CallsOf[w]
  BY DEF IInv, BusyInv, Waits
<1> QED
  BY <1>1, <1>2, CallsOfWorkers

(* An answer touches the one worker that waits for it and the requests for *)
(* its transaction.                                                        *)
LEMMA AnswerMoves ==
    ASSUME IInv, WorkerInv, WaitInv, NEW t \in TxIds, NEW p \in Providers, <<t, p>> \in asked,
           Answered(t, p) \/ Refused(t, p)
    PROVE  /\ \A u, q : <<u, q>> \in asked' => <<u, q>> \in asked \/ (u = t /\ q \in Providers)
           /\ \A w \in Workers : worker'[w].at = "fee" => worker'[w] = worker[w]
           /\ WaitInv'
<1>1. worker \in [Workers -> Sending]
  BY DEF IInv, SendTypes
<1>2. ASSUME NEW w \in Workers, Waits(w, t), worker' = [worker EXCEPT ![w] = Idle],
             asked' = asked \ {<<t, p>>}
      PROVE  /\ \A v \in Workers : worker'[v].at = "fee" => worker'[v] = worker[v]
             /\ WaitInv'
  <2>1. worker'[w].at = "idle" /\ \A v \in Workers \ {w} : worker'[v] = worker[v]
    BY <1>1, <1>2 DEF Idle
  <2>2. \A v \in Workers \ {w} : ~Waits(v, t)
    BY <1>2, OneWaits
  <2> QED
    BY <1>2, <2>1, <2>2 DEF WaitInv, Waits
<1>3. CASE /\ \A w \in Workers : ~Waits(w, t)
           /\ asked' = asked \ {<<t, p>>} /\ worker' = worker
  BY <1>3 DEF WaitInv, Waits
<1>4. ASSUME NEW w \in Workers, Waits(w, t),
             worker' = [worker EXCEPT ![w].failed = @ \cup {p}], asked' = asked \ {<<t, p>>}
      PROVE  /\ \A v \in Workers : worker'[v].at = "fee" => worker'[v] = worker[v]
             /\ WaitInv'
  <2>1. /\ worker'[w].at = "broadcast" /\ worker'[w].tx = t
        /\ worker'[w].failed = worker[w].failed \cup {p}
        /\ worker[w].at = "broadcast" /\ worker[w].tx = t
        /\ \A v \in Workers \ {w} : worker'[v] = worker[v]
    BY <1>1, <1>4 DEF Waits, Sending
  <2>2. \A v \in Workers \ {w} : ~Waits(v, t)
    BY <1>4, OneWaits
  <2>3. \A q \in Providers \ worker'[w].failed : <<t, q>> \in asked'
    BY <1>4, <2>1 DEF WaitInv
  <2>4. \A v \in Workers \ {w} : worker'[v].at = "broadcast" =>
          \A q \in Providers \ worker'[v].failed : <<worker'[v].tx, q>> \in asked'
    BY <1>4, <2>1, <2>2 DEF WaitInv, Waits
  <2>5. WaitInv'
    BY <2>1, <2>3, <2>4 DEF WaitInv
  <2> QED
    BY <2>1, <2>5
<1>5. ASSUME NEW w \in Workers, Waits(w, t), Retry(w)
      PROVE  /\ \A v \in Workers : worker'[v].at = "fee" => worker'[v] = worker[v]
             /\ WaitInv'
  <2>1. /\ worker'[w].at = "broadcast" /\ worker'[w].tx = t
        /\ worker[w].at = "broadcast" /\ worker[w].tx = t
        /\ \A v \in Workers \ {w} : worker'[v] = worker[v]
    BY <1>1, <1>5 DEF Waits, Sending, Retry
  <2>2. \A v \in Workers \ {w} : ~Waits(v, t)
    BY <1>5, OneWaits
  <2>3. \A q \in Providers : <<t, q>> \in asked'
    BY <1>5, <2>1 DEF Retry
  <2>4. \A u, q : u # t /\ <<u, q>> \in asked => <<u, q>> \in asked'
    BY <1>5, <2>1 DEF Retry
  <2>5. \A v \in Workers \ {w} : worker'[v].at = "broadcast" =>
          \A q \in Providers \ worker'[v].failed : <<worker'[v].tx, q>> \in asked'
    BY <2>1, <2>2, <2>4 DEF WaitInv, Waits
  <2>6. WaitInv'
    BY <2>1, <2>3, <2>5 DEF WaitInv
  <2> QED
    BY <2>1, <2>6
<1>6. \A u, q : <<u, q>> \in asked' => <<u, q>> \in asked \/ (u = t /\ q \in Providers)
  <2>1. CASE asked' = asked \ {<<t, p>>}
    BY <2>1
  <2>2. ASSUME NEW w \in Workers, Waits(w, t), Retry(w)
        PROVE  asked' = (asked \ {<<t, q>> : q \in Providers}) \cup {<<t, q>> : q \in Providers}
    BY <2>2 DEF Retry, Waits
  <2> QED
    BY <2>1, <2>2 DEF Answered, Refused
<1> QED
  BY <1>2, <1>3, <1>4, <1>5, <1>6 DEF Answered, Refused, Throw

LEMMA DeliverInPlace ==
    ASSUME IInv, PayInv, PlaceInv, NEW t \in TxIds, NEW p \in Providers, Deliver(t, p)
    PROVE  PlaceInv'
<1>1. /\ UNCHANGED <<txs, mined, raced>> /\ TxIds' = TxIds /\ <<t, p>> \in asked
      /\ mempool \in [Providers -> SUBSET TxIds] /\ WorkerInv
  BY DEF Deliver, TxIds, IInv, SendTypes, PayInv
<1>2. /\ \A u, q : <<u, q>> \in asked' => <<u, q>> \in asked \/ (u = t /\ q \in Providers)
      /\ \A w \in Workers : worker'[w].at = "fee" => worker'[w] = worker[w]
      /\ WaitInv'
  BY <1>1, AnswerMoves DEF Deliver, PlaceInv
<1>3. Live(t)
  BY <1>1 DEF Live
<1>4. ASSUME ~raced
      PROVE  \A q \in Providers : mempool[q] \subseteq mempool'[q] /\ mempool'[q] \subseteq mempool[q] \cup {t}
  <2>1. CASE Acceptable(t, p) /\ mempool' = Taken(t, p)
    <3>1. mempool' = [mempool EXCEPT ![p] = @ \cup {t}]
      BY <1>3, <1>4, <2>1, TakenLoses DEF PlaceInv
    <3> QED
      BY <1>1, <3>1
  <2>2. CASE mempool' = mempool
    BY <2>2
  <2> QED
    BY <2>1, <2>2 DEF Deliver
<1>5. ASSUME ~raced
      PROVE  \A u \in TxIds : (Held(u) => Held(u)') /\ (Live(u)' => Live(u))
  BY <1>1, <1>2, <1>3, <1>4, <1>5 DEF Held, Live, Known
<1>6. ApartInv'
  <2>1. CASE ~raced
    BY <1>1, <1>2, <1>5, <2>1, StaysApart DEF PlaceInv
  <2>2. CASE raced
    BY <1>1, <2>2 DEF ApartInv
  <2> QED
    BY <2>1, <2>2
<1>7. ASSUME NEW c \in Calls, outcome'[c] = "returned", outcome[c] # "returned"
      PROVE  txs[t].call = c /\ Held(t)'
  <2>1. outcome \in [Calls -> {"none", "returned", "thrown"}]
    BY DEF IInv, SendTypes
  <2>2. ~Refused(t, p)
    BY <1>7, <2>1 DEF Refused, Throw
  <2>3. PICK w \in Workers : /\ Waits(w, t)
                             /\ outcome' = [outcome EXCEPT ![worker[w].call] = "returned"]
    BY <1>7, <2>2 DEF Deliver, Answered
  <2>4. worker[w].call = c
    BY <1>7, <2>1, <2>3
  <2>5. txs[t].call = c
    BY <1>1, <2>3, <2>4 DEF WorkerInv, Fits, Waits
  <2>6. t \in mined \/ t \in mempool'[p]
    <3>1. CASE Acceptable(t, p) /\ mempool' = Taken(t, p)
      BY <1>1, <3>1 DEF Taken
    <3>2. CASE t \in Known(p) /\ mempool' = mempool
      BY <3>2 DEF Known
    <3> QED
      BY <2>2, <3>1, <3>2 DEF Deliver
  <2>7. Held(t)'
    BY <1>1, <2>6 DEF Held, Known
  <2> QED
    BY <2>5, <2>7
<1>8. HeldInv'
  <2> SUFFICES ASSUME ~raced', NEW c \in Calls, outcome'[c] = "returned"
               PROVE  \E u \in TxIds' : txs'[u].call = c /\ Held(u)'
    BY DEF HeldInv
  <2>1. CASE outcome[c] = "returned"
    BY <1>1, <1>5, <2>1 DEF PlaceInv, HeldInv
  <2>2. CASE outcome[c] # "returned"
    BY <1>1, <1>7, <2>2
  <2> QED
    BY <2>1, <2>2
<1> QED
  BY <1>2, <1>6, <1>8 DEF PlaceInv

LEMMA StepInPlace ==
    ASSUME IInv, PayInv, PayInv', PlaceInv, [Next]_vars
    PROVE  PlaceInv'
<1>1. ASSUME NEW w \in Workers, WorkerStep(w)
      PROVE  PlaceInv'
  BY <1>1, WorkerInPlace, BuildInPlace DEF WorkerStep
<1>2. ASSUME NEW t \in TxIds, NEW p \in Providers, Deliver(t, p)
      PROVE  PlaceInv'
  BY <1>2, DeliverInPlace
<1>3. CASE \/ \E t \in TxIds : Mine(t) \/ \E p \in Providers : Gossip(t, p)
           \/ Receive \/ UNCHANGED vars
  BY <1>3, ChainKeepsPlace
<1> QED
  BY <1>1, <1>2, <1>3 DEF Next

LEMMA PlaceInit == Init => PlaceInv
<1> SUFFICES ASSUME Init
             PROVE  PlaceInv
  OBVIOUS
<1>1. TxIds = {} /\ \A w \in Workers : worker[w].at = "idle"
  BY DEF Init, TxIds, Idle
<1>2. \A c \in Calls : outcome[c] = "none"
  BY DEF Init
<1> QED
  BY <1>1, <1>2 DEF PlaceInv, WaitInv, ApartInv, HeldInv

(* As long as coins are chosen with every payment under way in sight, the  *)
(* payments share no coin, so neither a node nor the chain gives one up.   *)
THEOREM PlaceInvariant == Spec => []PlaceInv
BY PlaceInit, StepInPlace, PayInvariant, InductiveInvariantBitcoin, PTL DEF Spec

(* For any calls and any lost, late or repeated answers: a hash sendBtc    *)
(* has returned names a transaction that is in a block or still pending,   *)
(* unless coins were chosen while a payment was under way that the         *)
(* provider asked for them did not know of.                                *)
THEOREM ReturnedStay == Spec => []ReturnedIsNotDisplaced
<1>1. PlaceInv => ReturnedIsNotDisplaced
  BY DEF PlaceInv, HeldInv, Held, ReturnedIsNotDisplaced
<1> QED
  BY <1>1, PlaceInvariant, PTL

-----------------------------------------------------------------------------
(* Sums over sets that are put together or taken apart                     *)

(* Whichever element is taken out first, the sum is the same.              *)
LEMMA SumRemove ==
    ASSUME NEW S, IsFiniteSet(S), NEW v \in [S -> Nat], NEW g, IsSum(g, v, SUBSET S)
    PROVE  \A s \in SUBSET S : \A x \in s :
               g[s] \in Nat /\ g[s] = v[x] + g[s \ {x}]
<1>0. \A s \in SUBSET S : g[s] \in Nat
  <2> SUFFICES ASSUME NEW s \in SUBSET S
               PROVE  g[s] \in Nat
    OBVIOUS
  <2> DEFINE h == [q \in SUBSET s |-> g[q]]
             u == [x \in s |-> v[x]]
  <2>1. IsFiniteSet(s) /\ u \in [s -> Nat]
    BY FS_Subset
  <2>2. \A q \in SUBSET s : h[q] = IF q = {} THEN 0 ELSE u[Pick(q)] + h[q \ {Pick(q)}]
    <3> SUFFICES ASSUME NEW q \in SUBSET s
                 PROVE  h[q] = IF q = {} THEN 0 ELSE u[Pick(q)] + h[q \ {Pick(q)}]
      OBVIOUS
    <3>1. g[q] = IF q = {} THEN 0 ELSE v[Pick(q)] + g[q \ {Pick(q)}]
      BY DEF IsSum
    <3>2. q # {} => Pick(q) \in q
      BY PickIn
    <3> QED
      BY <3>1, <3>2
  <2>3. h = [q \in SUBSET s |-> h[q]]
    OBVIOUS
  <2>4. h[s] = g[s]
    OBVIOUS
  <2> HIDE DEF h, u
  <2>5. IsSum(h, u, SUBSET s)
    BY <2>2, <2>3 DEF IsSum
  <2> QED
    BY <2>1, <2>4, <2>5, SumType
<1> DEFINE Wrong(s, x) == g[s] # v[x] + g[s \ {x}]
           Bad == {n \in Nat : \E s \in SUBSET S : \E x \in s : Cardinality(s) = n /\ Wrong(s, x)}
<1> SUFFICES ASSUME Bad # {} PROVE FALSE
  <2>1. ASSUME Bad = {}, NEW s \in SUBSET S, NEW x \in s
        PROVE  ~Wrong(s, x)
    <3>1. Cardinality(s) \in Nat /\ Cardinality(s) \notin Bad
      BY <2>1, UpToAll
    <3> QED
      BY <3>1
  <2> QED
    BY <1>0, <2>1
<1>1. PICK k \in Bad : \A j \in Bad : k <= j
  <2>1. Bad \in SUBSET Nat
    OBVIOUS
  <2> HIDE DEF Bad
  <2> QED
    BY <2>1, LeastExists
<1>2. PICK s \in SUBSET S : \E x \in s : Cardinality(s) = k /\ Wrong(s, x)
  OBVIOUS
<1>3. PICK x \in s : Cardinality(s) = k /\ Wrong(s, x)
  BY <1>2
<1>4. PICK y : y = Pick(s)
  OBVIOUS
<1>5. y \in s /\ g[s] = v[y] + g[s \ {y}] /\ y # x
  BY <1>3, <1>4, PickIn DEF IsSum
<1>6. /\ s \ {x} \in SUBSET S /\ s \ {y} \in SUBSET S
      /\ y \in s \ {x} /\ x \in s \ {y} /\ (s \ {x}) \ {y} = (s \ {y}) \ {x}
  BY <1>3, <1>5
<1>7. Cardinality(s \ {x}) = k - 1 /\ Cardinality(s \ {y}) = k - 1 /\ k - 1 \in Nat
  <2>1. IsFiniteSet(s) /\ IsFiniteSet(s \ {x}) /\ Cardinality(s \ {x}) \in Nat
    BY <1>6, UpToAll
  <2> QED
    BY <1>3, <1>5, <2>1, FS_RemoveElement
<1>8. k - 1 \notin Bad
  <2> HIDE DEF Bad
  <2>1. k \in Nat
    BY <1>3, UpToAll
  <2> QED
    BY <1>1, <1>7, <2>1
<1>9. ~Wrong(s \ {x}, y) /\ ~Wrong(s \ {y}, x)
  BY <1>6, <1>7, <1>8
<1>10. /\ g[s \ {x}] = v[y] + g[(s \ {x}) \ {y}] /\ g[s \ {y}] = v[x] + g[(s \ {x}) \ {y}]
       /\ v[x] \in Nat /\ v[y] \in Nat /\ g[(s \ {x}) \ {y}] \in Nat
  BY <1>0, <1>3, <1>5, <1>6, <1>9
<1>11. g[s] = v[x] + g[s \ {x}]
  BY <1>5, <1>10
<1> QED
  BY <1>3, <1>11

(* The value of a set of coins is that of one of them and of the rest.     *)
LEMMA TotalRemove ==
    ASSUME NEW coins, IsFiniteSet(coins), \A x \in coins : Value(x) \in Nat, NEW x \in coins
    PROVE  /\ TotalValue(coins) = Value(x) + TotalValue(coins \ {x})
           /\ TotalValue(coins) \in Nat /\ TotalValue(coins \ {x}) \in Nat
<1> DEFINE rest == coins \ {x}
<1>1. PICK g : IsSum(g, Values(coins), SUBSET coins) /\ TotalValue(coins) = g[coins]
  BY TotalIs
<1>2. IsFiniteSet(rest) /\ rest \in SUBSET coins
  BY FS_Subset
<1>3. PICK h : IsSum(h, Values(rest), SUBSET rest) /\ TotalValue(rest) = h[rest]
  BY <1>2, TotalIs
<1>4. Values(coins) \in [coins -> Nat] /\ Values(coins)[x] = Value(x)
  BY DEF Values
<1>5. g[coins] = Value(x) + g[rest]
  BY <1>1, <1>4, SumRemove
<1> DEFINE f == [q \in SUBSET rest |-> g[q]]
<1>6. \A q \in SUBSET rest :
        f[q] = IF q = {} THEN 0 ELSE Values(rest)[Pick(q)] + f[q \ {Pick(q)}]
  <2> SUFFICES ASSUME NEW q \in SUBSET rest
               PROVE  f[q] = IF q = {} THEN 0 ELSE Values(rest)[Pick(q)] + f[q \ {Pick(q)}]
    OBVIOUS
  <2>1. g[q] = IF q = {} THEN 0 ELSE Values(coins)[Pick(q)] + g[q \ {Pick(q)}]
    BY <1>1, <1>2 DEF IsSum
  <2>2. q # {} => Pick(q) \in q
    BY PickIn
  <2>3. q # {} => Values(coins)[Pick(q)] = Values(rest)[Pick(q)] /\ q \ {Pick(q)} \in SUBSET rest
    BY <2>2 DEF Values
  <2> QED
    BY <2>1, <2>3
<1>7. f = [q \in SUBSET rest |-> f[q]] /\ f[rest] = g[rest]
  OBVIOUS
<1> HIDE DEF f
<1>8. IsSum(f, Values(rest), SUBSET rest)
  BY <1>6, <1>7 DEF IsSum
<1>9. h[rest] = f[rest]
  BY <1>2, <1>3, <1>8, SumUnique
<1>10. TotalValue(coins) \in Nat /\ TotalValue(rest) \in Nat
  BY <1>2, TotalNat
<1> QED
  BY <1>1, <1>3, <1>5, <1>7, <1>9, <1>10

LEMMA TotalNone == TotalValue({}) = 0
<1>1. IsFiniteSet({})
  BY FS_EmptySet
<1>2. PICK g : IsSum(g, Values({}), SUBSET {}) /\ TotalValue({}) = g[{}]
  BY <1>1, TotalIs
<1> QED
  BY <1>2 DEF IsSum

LEMMA TotalUnion ==
    ASSUME NEW A, NEW B, IsFiniteSet(A), IsFiniteSet(B), A \cap B = {},
           \A x \in A \cup B : Value(x) \in Nat
    PROVE  TotalValue(A \cup B) = TotalValue(A) + TotalValue(B)
<1> DEFINE Bad == {n \in Nat : \E C \in SUBSET B : /\ Cardinality(C) = n
                     /\ TotalValue(A \cup C) # TotalValue(A) + TotalValue(C)}
<1>a. \A C \in SUBSET B : /\ IsFiniteSet(C) /\ Cardinality(C) \in Nat /\ IsFiniteSet(A \cup C)
                          /\ TotalValue(C) \in Nat /\ TotalValue(A) \in Nat
  BY FS_Subset, FS_CardinalityType, FS_Union, TotalNat
<1> SUFFICES ASSUME Bad # {} PROVE FALSE
  BY <1>a
<1>1. PICK k \in Bad : \A j \in Bad : k <= j
  <2>1. Bad \in SUBSET Nat
    OBVIOUS
  <2> HIDE DEF Bad
  <2> QED
    BY <2>1, LeastExists
<1>2. PICK C \in SUBSET B :
        Cardinality(C) = k /\ TotalValue(A \cup C) # TotalValue(A) + TotalValue(C)
  OBVIOUS
<1>3. C # {}
  <2>1. C = {} => A \cup C = A
    OBVIOUS
  <2> QED
    BY <1>2, <1>a, <2>1, TotalNone
<1>4. PICK x : x \in C
  BY <1>3
<1>5. /\ C \ {x} \in SUBSET B /\ Cardinality(C \ {x}) = k - 1 /\ k - 1 \in Nat
  <2>1. Cardinality(C \ {x}) \in Nat /\ Cardinality(C \ {x}) = Cardinality(C) - 1
    BY <1>4, <1>a, FS_RemoveElement
  <2> QED
    BY <1>2, <2>1
<1>6. TotalValue(A \cup (C \ {x})) = TotalValue(A) + TotalValue(C \ {x})
  <2>1. k - 1 \notin Bad
    BY <1>1, <1>5
  <2> QED
    BY <1>5, <2>1
<1>7. (A \cup C) \ {x} = A \cup (C \ {x}) /\ x \in A \cup C
  BY <1>4
<1>8. /\ TotalValue(A \cup C) = Value(x) + TotalValue(A \cup (C \ {x}))
      /\ TotalValue(C) = Value(x) + TotalValue(C \ {x})
      /\ Value(x) \in Nat
  <2>1. TotalValue(A \cup C) = Value(x) + TotalValue((A \cup C) \ {x})
    BY <1>7, <1>a, TotalRemove
  <2>2. TotalValue(C) = Value(x) + TotalValue(C \ {x})
    BY <1>4, <1>a, TotalRemove
  <2> QED
    BY <1>4, <1>7, <2>1, <2>2
<1>9. TotalValue(A) \in Nat /\ TotalValue(C \ {x}) \in Nat
  BY <1>5, <1>a
<1> QED
  BY <1>2, <1>6, <1>8, <1>9

LEMMA TotalSubset ==
    ASSUME NEW B, IsFiniteSet(B), NEW A \in SUBSET B, \A x \in B : Value(x) \in Nat
    PROVE  TotalValue(A) <= TotalValue(B)
<1>1. IsFiniteSet(A) /\ IsFiniteSet(B \ A) /\ A \cup (B \ A) = B
  BY FS_Subset
<1>2. TotalValue(A) \in Nat /\ TotalValue(B \ A) \in Nat
  BY <1>1, TotalNat
<1>3. TotalValue(A \cup (B \ A)) = TotalValue(A) + TotalValue(B \ A)
  BY <1>1, TotalUnion
<1>4. TotalValue(B) = TotalValue(A) + TotalValue(B \ A)
  BY <1>1, <1>3, Zenon
<1> QED
  BY <1>2, <1>4

(* Outputs without value do not count.                                     *)
LEMMA TotalWithout ==
    ASSUME NEW A, IsFiniteSet(A), NEW Z \in SUBSET A,
           \A x \in A : Value(x) \in Nat, \A x \in Z : Value(x) = 0
    PROVE  TotalValue(A \ Z) = TotalValue(A)
<1> DEFINE Bad == {n \in Nat : \E C \in SUBSET Z : Cardinality(C) = n /\ TotalValue(C) # 0}
<1>a. \A C \in SUBSET Z : /\ IsFiniteSet(C) /\ Cardinality(C) \in Nat
                          /\ \A x \in C : Value(x) \in Nat
  BY FS_Subset, FS_CardinalityType
<1>1. TotalValue(Z) = 0
  <2> SUFFICES ASSUME Bad # {} PROVE FALSE
    BY <1>a
  <2>1. PICK k \in Bad : \A j \in Bad : k <= j
    <3>1. Bad \in SUBSET Nat
      OBVIOUS
    <3> HIDE DEF Bad
    <3> QED
      BY <3>1, LeastExists
  <2>2. PICK C \in SUBSET Z : Cardinality(C) = k /\ TotalValue(C) # 0
    OBVIOUS
  <2>3. PICK x : x \in C
    BY <2>2, TotalNone
  <2>4. TotalValue(C) = Value(x) + TotalValue(C \ {x}) /\ Value(x) = 0
    BY <1>a, <2>3, TotalRemove
  <2>5. Cardinality(C \ {x}) = k - 1 /\ k - 1 \in Nat
    <3>1. Cardinality(C \ {x}) \in Nat /\ Cardinality(C \ {x}) = Cardinality(C) - 1
      BY <1>a, <2>3, FS_RemoveElement
    <3> QED
      BY <2>2, <3>1
  <2>6. k - 1 \notin Bad
    BY <2>1, <2>5
  <2>7. TotalValue(C \ {x}) = 0
    BY <2>5, <2>6
  <2> QED
    BY <2>2, <2>4, <2>7
<1>2. IsFiniteSet(A \ Z) /\ IsFiniteSet(Z) /\ (A \ Z) \cup Z = A
  BY FS_Subset
<1>3. TotalValue(A \ Z) \in Nat
  BY <1>2, TotalNat
<1>4. TotalValue((A \ Z) \cup Z) = TotalValue(A \ Z) + TotalValue(Z)
  BY <1>2, TotalUnion
<1>5. TotalValue(A) = TotalValue(A \ Z) + TotalValue(Z)
  BY <1>2, <1>4, Zenon
<1> QED
  BY <1>1, <1>3, <1>5

-----------------------------------------------------------------------------
(* What a node sees, and what a run of the balance monitor makes of it     *)

Outputs == {-i : i \in 1 .. arrived}

(* Nothing is spent twice in ts, and nothing that is not there.            *)
Sound(ts) ==
    /\ Spent(ts) \subseteq Outputs \cup ts
    /\ \A t, u \in ts : t # u => txs[t].inputs \cap txs[u].inputs = {}

(* Some node may have seen the coins unspent.                              *)
Choosable(coins) ==
    \E ts \in SUBSET TxIds : /\ Spent(ts) \subseteq Outputs \cup ts
                             /\ coins \subseteq Outputs \cup ts
                             /\ coins \cap Spent(ts) = {}

(* The chain and every node are consistent; what is built or about to be   *)
(* was chosen from a consistent view, so it never spends the change of a   *)
(* payment it conflicts with.                                              *)
NodesInv ==
    /\ Sound(mined)
    /\ \A p \in Providers : Sound(Known(p))
    /\ \A t \in TxIds : Choosable(txs[t].inputs)
    /\ \A w \in Workers : worker[w].at = "fee" => Choosable(worker[w].coins)

LEMMA DescendantFacts ==
    ASSUME NEW ts, NEW pool
    PROVE  /\ ts \subseteq Descendants(ts, pool)
           /\ Descendants(ts, pool) \subseteq ts \cup pool
           /\ \A v \in pool : txs[v].inputs \cap Descendants(ts, pool) # {} =>
                v \in Descendants(ts, pool)
<1>1. /\ ts \subseteq Descendants(ts, pool)
      /\ Descendants(ts, pool) \subseteq ts \cup pool
  BY DEF Descendants
<1>2. ASSUME NEW v \in pool, NEW u \in Descendants(ts, pool), u \in txs[v].inputs
      PROVE  v \in Descendants(ts, pool)
  <2> SUFFICES ASSUME NEW D \in SUBSET (ts \cup pool), ts \cup Spenders(D, pool) \subseteq D
               PROVE  v \in D
    BY DEF Descendants
  <2>1. u \in D
    BY DEF Descendants
  <2>2. v \in Spenders(D, pool)
    BY <1>2, <2>1 DEF Spenders
  <2> QED
    BY <2>2
<1> QED
  BY <1>1, <1>2

(* A family that spends nothing from outside loses no member for it.       *)
LEMMA DescendantsMiss ==
    ASSUME NEW ts, NEW pool, NEW A, ts \cap A = {},
           \A v \in pool \cap A : txs[v].inputs \cap (ts \cup pool) \subseteq A
    PROVE  Descendants(ts, pool) \cap A = {}
<1> DEFINE E == Descendants(ts, pool)
           D == E \ A
<1>1. D \in SUBSET (ts \cup pool) /\ ts \subseteq D /\ E \subseteq ts \cup pool
  BY DescendantFacts
<1>2. ASSUME NEW v \in Spenders(D, pool)
      PROVE  v \in D
  <2>1. PICK u \in D : v \in pool /\ u \in txs[v].inputs
    BY DEF Spenders
  <2>2. v \in E
    BY <2>1, DescendantFacts
  <2>3. v \notin A
    BY <1>1, <2>1
  <2> QED
    BY <2>2, <2>3
<1>3. ts \cup Spenders(D, pool) \subseteq D
  BY <1>1, <1>2
<1>4. E \subseteq D
  <2> HIDE DEF D
  <2> QED
    BY <1>1, <1>3 DEF Descendants
<1> QED
  BY <1>4

LEMMA OutputsApart ==
    ASSUME IInv, OtherTypes
    PROVE  /\ arrived \in Nat /\ Outputs \cap TxIds = {} /\ TxIds \subseteq Nat
           /\ Outputs \subseteq Coins /\ TxIds \subseteq Coins
           /\ mined \subseteq TxIds /\ \A p \in Providers : mempool[p] \subseteq TxIds
           /\ \A p \in Providers : Known(p) \subseteq TxIds
           /\ mempool \in [Providers -> SUBSET TxIds]
<1>1. arrived \in Nat /\ Len(Received) \in Nat /\ arrived <= Len(Received)
  BY BitcoinConstants DEF OtherTypes
<1>2. Len(txs) \in Nat
  BY DEF IInv, SendTypes
<1>3. \A x \in Outputs : x \in -Len(Received) .. -1
  BY <1>1 DEF Outputs
<1>4. \A t \in TxIds : t \in Nat /\ t > 0
  BY <1>2 DEF TxIds
<1>5. mempool \in [Providers -> SUBSET TxIds] /\ mined \subseteq TxIds
  BY DEF IInv, SendTypes
<1>6. Outputs \cap TxIds = {}
  BY <1>1, <1>3, <1>4
<1> QED
  BY <1>1, <1>3, <1>4, <1>5, <1>6 DEF Known, Coins

(* A node that replaces and evicts is left consistent.                     *)
LEMMA SoundWithout ==
    ASSUME IInv, OtherTypes, NEW t \in TxIds, NEW base \in SUBSET TxIds, NEW pool \in SUBSET TxIds,
           Sound(base), Sound(base \cup pool),
           txs[t].inputs \subseteq Outputs \cup base \cup pool,
           txs[t].inputs \cap Descendants(Conflicts(t, pool), pool) \subseteq base,
           \A u \in base : u # t => txs[u].inputs \cap txs[t].inputs = {},
           t \notin Descendants(Conflicts(t, pool), pool)
    PROVE  Sound(base \cup {t} \cup (pool \ Descendants(Conflicts(t, pool), pool)))
<1> DEFINE E == Descendants(Conflicts(t, pool), pool)
           K == base \cup {t} \cup (pool \ E)
<1>1. /\ Conflicts(t, pool) \subseteq E /\ E \subseteq pool
      /\ \A v \in pool : txs[v].inputs \cap E # {} => v \in E
  <2>1. Conflicts(t, pool) \subseteq pool
    BY DEF Conflicts
  <2> QED
    BY <2>1, DescendantFacts
<1> HIDE DEF E
<1>2. ASSUME NEW u \in K
      PROVE  txs[u].inputs \subseteq Outputs \cup K
  <2>1. CASE u \in base
    BY <2>1 DEF Sound, Spent
  <2>2. CASE u = t
    BY <2>2 DEF E
  <2>3. CASE u \in pool \ E
    <3>1. txs[u].inputs \subseteq Outputs \cup base \cup pool
      BY <2>3 DEF Sound, Spent
    <3>2. txs[u].inputs \cap E = {}
      BY <1>1, <2>3
    <3> QED
      BY <3>1, <3>2
  <2> QED
    BY <2>1, <2>2, <2>3
<1>3. ASSUME NEW u \in K, u # t
      PROVE  txs[u].inputs \cap txs[t].inputs = {}
  <2>1. CASE u \in base
    BY <1>3, <2>1
  <2>2. CASE u \in pool \ E
    BY <1>1, <1>3, <2>2 DEF Conflicts
  <2> QED
    BY <1>3, <2>1, <2>2
<1>4. ASSUME NEW u \in K, NEW v \in K, u # v
      PROVE  txs[u].inputs \cap txs[v].inputs = {}
  <2>1. CASE u = t \/ v = t
    BY <1>3, <1>4, <2>1
  <2>2. CASE u # t /\ v # t
    BY <1>4, <2>2 DEF Sound
  <2> QED
    BY <2>1, <2>2
<1>5. Sound(K)
  <2> HIDE DEF K
  <2> QED
    BY <1>2, <1>4 DEF Sound, Spent
<1> QED
  BY <1>5 DEF E

(* What a transaction was built from is not among what gives way to it.    *)
LEMMA InputsStay ==
    ASSUME IInv, OtherTypes, NodesInv, NEW t \in TxIds, NEW pool \in SUBSET TxIds
    PROVE  txs[t].inputs \cap Descendants(Conflicts(t, pool), pool) = {}
<1>1. PICK A \in SUBSET TxIds : /\ Spent(A) \subseteq Outputs \cup A
                                /\ txs[t].inputs \subseteq Outputs \cup A
                                /\ txs[t].inputs \cap Spent(A) = {}
  BY DEF NodesInv, Choosable
<1> DEFINE C == Conflicts(t, pool)
<1>2. C \subseteq pool /\ \A u \in C : txs[u].inputs \cap txs[t].inputs # {}
  BY DEF Conflicts
<1>3. C \cap A = {}
  BY <1>1, <1>2 DEF Spent
<1>4. \A v \in pool \cap A : txs[v].inputs \cap (C \cup pool) \subseteq A
  BY <1>1, <1>2, OutputsApart DEF Spent
<1> HIDE DEF C
<1>5. Descendants(C, pool) \cap A = {}
  BY <1>3, <1>4, DescendantsMiss
<1>6. Descendants(C, pool) \subseteq TxIds
  BY <1>2, DescendantFacts
<1> QED
  BY <1>1, <1>5, <1>6, OutputsApart DEF C

LEMMA TakenSound ==
    ASSUME IInv, OtherTypes, NodesInv, NEW t \in TxIds, NEW p \in Providers,
           Acceptable(t, p), mempool' = Taken(t, p), UNCHANGED mined, NEW q \in Providers
    PROVE  \E K \in SUBSET TxIds : K = Known(q)' /\ Sound(K)
<1>1. CASE q # p
  <2>1. Known(q)' = Known(q)
    BY <1>1, OutputsApart DEF Taken, Known
  <2> QED
    BY <2>1, OutputsApart DEF NodesInv
<1>2. CASE q = p
  <2> DEFINE pool == mempool[p]
             E == Descendants(Conflicts(t, pool), pool)
             K == mined \cup {t} \cup (pool \ E)
  <2>1. Known(q)' = K
    BY <1>2, OutputsApart DEF Taken, Known
  <2>2. Conflicts(t, pool) \subseteq pool /\ E \subseteq pool
    <3>1. Conflicts(t, pool) \subseteq pool
      BY DEF Conflicts
    <3> QED
      BY <3>1, DescendantFacts
  <2>3. t \notin E
    BY <2>2 DEF Acceptable, Known
  <2>4. txs[t].inputs \cap E \subseteq mined
    BY InputsStay, OutputsApart
  <2>5. \A u \in mined : u # t => txs[u].inputs \cap txs[t].inputs = {}
    BY DEF Acceptable, Conflicts, Known
  <2>6. txs[t].inputs \subseteq Outputs \cup mined \cup pool
    BY DEF Acceptable, Known, Outputs
  <2>7. pool \in SUBSET TxIds /\ mined \in SUBSET TxIds /\ Sound(mined) /\ Sound(mined \cup pool)
    BY OutputsApart DEF NodesInv, Known
  <2>8. Sound(K)
    <3> HIDE DEF pool
    <3> QED
      BY <2>3, <2>4, <2>5, <2>6, <2>7, SoundWithout
  <2>9. K \in SUBSET TxIds
    BY <2>7
  <2> QED
    BY <2>1, <2>8, <2>9
<1> QED
  BY <1>1, <1>2

LEMMA MinedSound ==
    ASSUME IInv, OtherTypes, NodesInv, NEW t \in TxIds, Mine(t)
    PROVE  /\ \E m \in SUBSET TxIds : m = mined' /\ Sound(m)
           /\ \A q \in Providers : \E K \in SUBSET TxIds : K = Known(q)' /\ Sound(K)
<1> DEFINE m == mined \cup {t}
<1>0. m \in SUBSET TxIds /\ mined' = m /\ txs[t].inputs \subseteq Outputs \cup mined
  BY OutputsApart DEF Mine, Outputs
<1>1. \A u \in mined : u # t => txs[u].inputs \cap txs[t].inputs = {}
  BY DEF Mine, Conflicts
<1>2. Sound(m)
  <2>1. \A u \in m : txs[u].inputs \subseteq Outputs \cup m
    BY <1>0 DEF NodesInv, Sound, Spent
  <2>2. \A u, v \in m : u # v => txs[u].inputs \cap txs[v].inputs = {}
    BY <1>1 DEF NodesInv, Sound
  <2> HIDE DEF m
  <2> QED
    BY <2>1, <2>2 DEF Sound, Spent
<1>3. ASSUME NEW q \in Providers
      PROVE  \E K \in SUBSET TxIds : K = Known(q)' /\ Sound(K)
  <2> DEFINE E == Descendants(Conflicts(t, mempool[q]), mempool[q])
             K == m \cup (mempool[q] \ E)
  <2>1. Known(q)' = K
    BY <1>0 DEF Mine, Known
  <2>2. /\ Conflicts(t, mempool[q]) \subseteq E /\ E \subseteq mempool[q]
        /\ \A v \in mempool[q] : txs[v].inputs \cap E # {} => v \in E
    <3>1. Conflicts(t, mempool[q]) \subseteq mempool[q]
      BY DEF Conflicts
    <3> QED
      BY <3>1, DescendantFacts
  <2> HIDE DEF E
  <2>3. Sound(mined \cup mempool[q])
    BY DEF NodesInv, Known
  <2>4. ASSUME NEW u \in K
        PROVE  txs[u].inputs \subseteq Outputs \cup K
    <3>1. CASE u \in m
      BY <1>2, <3>1 DEF Sound, Spent
    <3>2. CASE u \in mempool[q] \ E
      <4>1. txs[u].inputs \subseteq Outputs \cup mined \cup mempool[q]
        BY <2>3, <3>2 DEF Sound, Spent
      <4>2. txs[u].inputs \cap E = {}
        BY <2>2, <3>2
      <4> QED
        BY <4>1, <4>2
    <3> QED
      BY <3>1, <3>2
  <2>5. ASSUME NEW u \in K, u # t
        PROVE  txs[u].inputs \cap txs[t].inputs = {}
    <3>1. CASE u \in mined
      BY <1>1, <2>5, <3>1
    <3>2. CASE u \in mempool[q] \ E
      BY <2>2, <2>5, <3>2 DEF Conflicts
    <3> QED
      BY <2>5, <3>1, <3>2
  <2>6. ASSUME NEW u \in K, NEW v \in K, u # v
        PROVE  txs[u].inputs \cap txs[v].inputs = {}
    <3>1. CASE u = t \/ v = t
      BY <2>5, <2>6, <3>1
    <3>2. CASE u # t /\ v # t
      BY <2>3, <2>6, <3>2 DEF Sound
    <3> QED
      BY <3>1, <3>2
  <2>7. K \in SUBSET TxIds
    BY <1>0, OutputsApart
  <2>8. Sound(K)
    <3> HIDE DEF K
    <3> QED
      BY <2>4, <2>6 DEF Sound, Spent
  <2> QED
    BY <2>1, <2>7, <2>8
<1> QED
  BY <1>0, <1>2, <1>3

(* A view stays consistent when outputs arrive and transactions are built. *)
LEMMA SoundStays ==
    ASSUME IInv, Keeps, Outputs \subseteq Outputs', NEW ts \in SUBSET TxIds
    PROVE  /\ Spent(ts)' = Spent(ts)
           /\ Sound(ts) => Sound(ts)'
<1>1. \A t \in ts : txs'[t] = txs[t]
  BY DEF Keeps
<1>2. Spent(ts)' = Spent(ts)
  BY <1>1 DEF Spent
<1> QED
  BY <1>1, <1>2 DEF Sound

LEMMA ChoosableStays ==
    ASSUME IInv, Keeps, Outputs \subseteq Outputs', NEW coins, Choosable(coins)
    PROVE  Choosable(coins)'
<1>1. PICK ts \in SUBSET TxIds : /\ Spent(ts) \subseteq Outputs \cup ts
                                 /\ coins \subseteq Outputs \cup ts
                                 /\ coins \cap Spent(ts) = {}
  BY DEF Choosable
<1>2. ts \in SUBSET TxIds' /\ Spent(ts)' = Spent(ts)
  BY SoundStays DEF Keeps
<1> QED
  BY <1>1, <1>2 DEF Choosable

LEMMA NodesStep ==
    ASSUME IInv, NodesInv, Keeps, Outputs \subseteq Outputs',
           \E m \in SUBSET TxIds : m = mined' /\ Sound(m),
           \A p \in Providers : \E K \in SUBSET TxIds : K = Known(p)' /\ Sound(K),
           \A t \in TxIds' : \/ t \in TxIds
                             \/ \E coins : coins = txs'[t].inputs /\ Choosable(coins),
           \A w \in Workers : worker'[w].at = "fee" =>
               \E coins : coins = worker'[w].coins /\ Choosable(coins)
    PROVE  NodesInv'
<1>1. Sound(mined)'
  <2>1. PICK m \in SUBSET TxIds : m = mined' /\ Sound(m)
    OBVIOUS
  <2>2. Sound(m)'
    BY <2>1, SoundStays
  <2> QED
    BY <2>1, <2>2 DEF Sound, Spent
<1>2. ASSUME NEW p \in Providers
      PROVE  Sound(Known(p))'
  <2>1. PICK K \in SUBSET TxIds : K = Known(p)' /\ Sound(K)
    OBVIOUS
  <2>2. Sound(K)'
    BY <2>1, SoundStays
  <2> QED
    BY <2>1, <2>2 DEF Sound, Spent
<1>3. ASSUME NEW t \in TxIds'
      PROVE  Choosable(txs[t].inputs)'
  <2>1. PICK coins : coins = txs'[t].inputs /\ Choosable(coins)
    BY DEF NodesInv, Keeps
  <2>2. Choosable(coins)'
    BY <2>1, ChoosableStays
  <2> QED
    BY <2>1, <2>2 DEF Choosable
<1>4. ASSUME NEW w \in Workers, worker'[w].at = "fee"
      PROVE  Choosable(worker[w].coins)'
  <2>1. PICK coins : coins = worker'[w].coins /\ Choosable(coins)
    BY <1>4
  <2>2. Choosable(coins)'
    BY <2>1, ChoosableStays
  <2> QED
    BY <2>1, <2>2 DEF Choosable
<1> QED
  BY <1>1, <1>2, <1>3, <1>4 DEF NodesInv

(* Steps in which nodes and chain rest.                                    *)
LEMMA NodesRest ==
    ASSUME IInv, OtherTypes, NodesInv, Keeps, Outputs \subseteq Outputs',
           UNCHANGED <<mempool, mined>>,
           \A t \in TxIds' : \/ t \in TxIds
                             \/ \E coins : coins = txs'[t].inputs /\ Choosable(coins),
           \A w \in Workers : worker'[w].at = "fee" =>
               \/ worker'[w] = worker[w]
               \/ \E coins : coins = worker'[w].coins /\ Choosable(coins)
    PROVE  NodesInv'
<1>1. \E m \in SUBSET TxIds : m = mined' /\ Sound(m)
  BY OutputsApart DEF NodesInv
<1>2. \A p \in Providers : \E K \in SUBSET TxIds : K = Known(p)' /\ Sound(K)
  BY OutputsApart DEF NodesInv, Known
<1>3. \A w \in Workers : worker'[w].at = "fee" =>
        \E coins : coins = worker'[w].coins /\ Choosable(coins)
  BY DEF NodesInv
<1> QED
  BY <1>1, <1>2, <1>3, NodesStep

LEMMA NothingNew ==
    ASSUME txs' = txs
    PROVE  /\ Keeps /\ \A t \in TxIds' : t \in TxIds
           /\ arrived' = arrived => Outputs' = Outputs
BY DEF Keeps, TxIds, Outputs

LEMMA WorkerSees ==
    ASSUME IInv, PayInv, NodesInv, NEW w \in Workers, WorkerStep(w)
    PROVE  NodesInv'
<1>0. OtherTypes /\ worker \in [Workers -> Sending] /\ UNCHANGED <<arrived, mempool, mined>>
  BY DEF PayInv, IInv, SendTypes, WorkerStep, Begin, CheckBalance, SelectCoins, QueryFails,
         Build, BeyondWorkers
<1>1. Outputs' = Outputs
  BY <1>0 DEF Outputs
<1>2. ASSUME txs' = txs, \A v \in Workers : worker'[v].at = "fee" =>
                           \/ worker'[v] = worker[v]
                           \/ \E coins : coins = worker'[v].coins /\ Choosable(coins)
      PROVE  NodesInv'
  BY <1>0, <1>1, <1>2, NothingNew, NodesRest
<1>3. ASSUME txs' = txs, Throw(w)
      PROVE  NodesInv'
  <2>1. \A v \in Workers : worker'[v] = worker[v] \/ worker'[v].at = "idle"
    BY <1>0, <1>3 DEF Throw, Idle
  <2> QED
    BY <1>2, <1>3, <2>1
<1>4. ASSUME NEW c \in CallsOf[w], Begin(w, c)
      PROVE  NodesInv'
  <2>1. \A v \in Workers : worker'[v] = worker[v] \/ worker'[v].at \in {"balance", "coins"}
    BY <1>0, <1>4 DEF Begin, Idle
  <2>2. txs' = txs
    BY <1>4 DEF Begin
  <2> QED
    BY <1>2, <2>1, <2>2
<1>5. ASSUME NEW p \in Providers, CheckBalance(w, p)
      PROVE  NodesInv'
  <2>1. txs' = txs
    BY <1>5 DEF CheckBalance
  <2>2. CASE worker' = [worker EXCEPT ![w].at = "coins"]
    <3>1. \A v \in Workers : worker'[v] = worker[v] \/ worker'[v].at = "coins"
      BY <1>0, <2>2 DEF Sending
    <3> QED
      BY <1>2, <2>1, <3>1
  <2> QED
    BY <1>3, <1>5, <2>1, <2>2 DEF CheckBalance
<1>6. ASSUME NEW p \in Providers, SelectCoins(w, p)
      PROVE  NodesInv'
  <2>1. txs' = txs
    BY <1>6 DEF SelectCoins
  <2>2. CASE worker' = [worker EXCEPT ![w].at = "fee", ![w].coins = Utxos(p)]
    <3>1. /\ worker'[w].coins = Utxos(p)
          /\ \A v \in Workers \ {w} : worker'[v] = worker[v]
      BY <1>0, <2>2 DEF Sending
    <3>2. Choosable(Utxos(p))
      <4>1. Utxos(p) \subseteq Outputs \cup Known(p) /\ Utxos(p) \cap Spent(Known(p)) = {}
        BY DEF Utxos, Unspent, Outputs
      <4>2. Spent(Known(p)) \subseteq Outputs \cup Known(p) /\ Known(p) \in SUBSET TxIds
        BY <1>0, OutputsApart DEF NodesInv, Sound
      <4> QED
        BY <4>1, <4>2 DEF Choosable
    <3> QED
      BY <1>2, <2>1, <3>1, <3>2
  <2> QED
    BY <1>3, <1>6, <2>1, <2>2 DEF SelectCoins
<1>7. CASE QueryFails(w)
  BY <1>3, <1>7 DEF QueryFails
<1>8. ASSUME NEW estimate \in Estimates, Build(w, estimate)
      PROVE  NodesInv'
  <2>1. CASE Throw(w) /\ UNCHANGED <<txs, asked>>
    BY <1>3, <2>1
  <2>2. CASE ~(Throw(w) /\ UNCHANGED <<txs, asked>>)
    <3>1. PICK n, e :
            /\ n = Len(txs) + 1 /\ e.inputs = worker[w].coins /\ txs' = Append(txs, e)
            /\ worker' = [worker EXCEPT ![w] =
                 [worker[w] EXCEPT !.at = "broadcast", !.tx = n, !.attempt = 1]]
      BY <1>8, <2>2 DEF Build
    <3>2. PICK S : txs \in Seq(S)
      BY DEF IInv, SendTypes
    <3>3. txs \in Seq(S \cup {e})
      BY <3>2
    <3>4. /\ Len(txs') = n /\ Len(txs) \in Nat
          /\ txs'[n] = e /\ \A t \in TxIds : txs'[t] = txs[t]
      BY <3>1, <3>3, AppendProperties DEF TxIds
    <3>5. TxIds' = TxIds \cup {n} /\ Keeps
      BY <3>1, <3>4 DEF TxIds, Keeps
    <3>6. \A v \in Workers : worker'[v] = worker[v] \/ worker'[v].at = "broadcast"
      BY <1>0, <3>1 DEF Sending
    <3>7. Choosable(worker[w].coins)
      BY <1>8 DEF NodesInv, Build
    <3> QED
      BY <1>0, <1>1, <3>1, <3>4, <3>5, <3>6, <3>7, NodesRest
  <2> QED
    BY <2>1, <2>2
<1> QED
  BY <1>4, <1>5, <1>6, <1>7, <1>8 DEF WorkerStep

LEMMA StepSees ==
    ASSUME IInv, PayInv, NodesInv, [Next]_vars
    PROVE  NodesInv'
<1>0. OtherTypes /\ worker \in [Workers -> Sending]
  BY DEF PayInv, IInv, SendTypes
<1>1. ASSUME NEW t \in TxIds, NEW p \in Providers, Acceptable(t, p), mempool' = Taken(t, p),
             UNCHANGED <<txs, arrived, mined>>,
             \A w \in Workers : worker'[w].at = "fee" => worker'[w] = worker[w]
      PROVE  NodesInv'
  <2>1. \A q \in Providers : \E K \in SUBSET TxIds : K = Known(q)' /\ Sound(K)
    BY <1>0, <1>1, TakenSound
  <2>2. \E m \in SUBSET TxIds : m = mined' /\ Sound(m)
    BY <1>0, <1>1, OutputsApart DEF NodesInv
  <2>3. \A w \in Workers : worker'[w].at = "fee" =>
          \E coins : coins = worker'[w].coins /\ Choosable(coins)
    BY <1>1 DEF NodesInv
  <2> QED
    BY <1>1, <2>1, <2>2, <2>3, NothingNew, NodesStep
<1>2. ASSUME NEW t \in TxIds, NEW p \in Providers, Deliver(t, p)
      PROVE  NodesInv'
  <2>1. UNCHANGED <<txs, arrived, mined>>
    BY <1>2 DEF Deliver
  <2>2. \A w \in Workers : worker'[w].at = "fee" => worker'[w] = worker[w]
    <3>1. ASSUME NEW w \in Workers, Waits(w, t), NEW r,
                 worker' = [worker EXCEPT ![w] = r], r.at \in {"idle", "broadcast"}
          PROVE  \A v \in Workers : worker'[v].at = "fee" => worker'[v] = worker[v]
      BY <1>0, <3>1
    <3>2. ASSUME NEW w \in Workers, Waits(w, t), worker' = [worker EXCEPT ![w] = Idle]
          PROVE  \A v \in Workers : worker'[v].at = "fee" => worker'[v] = worker[v]
      BY <3>1, <3>2 DEF Idle
    <3>3. ASSUME NEW w \in Workers, Waits(w, t), Retry(w)
          PROVE  \A v \in Workers : worker'[v].at = "fee" => worker'[v] = worker[v]
      <4>1. [worker[w] EXCEPT !.attempt = @ + 1, !.failed = {}].at = "broadcast"
        BY <1>0, <3>3 DEF Waits, Sending
      <4>2. worker' = [worker EXCEPT ![w] =
                         [worker[w] EXCEPT !.attempt = @ + 1, !.failed = {}]]
        BY <1>0, <3>3 DEF Retry
      <4> QED
        BY <3>1, <3>3, <4>1, <4>2
    <3>4. ASSUME NEW w \in Workers, Waits(w, t),
                 worker' = [worker EXCEPT ![w].failed = @ \cup {p}]
          PROVE  \A v \in Workers : worker'[v].at = "fee" => worker'[v] = worker[v]
      <4>1. [worker[w] EXCEPT !.failed = @ \cup {p}].at = "broadcast"
        BY <1>0, <3>4 DEF Waits, Sending
      <4>2. worker' = [worker EXCEPT ![w] = [worker[w] EXCEPT !.failed = @ \cup {p}]]
        BY <1>0, <3>4
      <4> QED
        BY <3>1, <3>4, <4>1, <4>2
    <3> QED
      BY <1>2, <3>2, <3>3, <3>4 DEF Deliver, Answered, Refused, Throw
  <2>3. CASE mempool' = mempool
    BY <1>0, <2>1, <2>2, <2>3, NothingNew, NodesRest
  <2>4. CASE Acceptable(t, p) /\ mempool' = Taken(t, p)
    BY <1>1, <2>1, <2>2, <2>4
  <2> QED
    BY <1>2, <2>3, <2>4 DEF Deliver
<1>3. ASSUME NEW t \in TxIds, NEW p \in Providers, Gossip(t, p)
      PROVE  NodesInv'
  BY <1>1, <1>3 DEF Gossip
<1>4. ASSUME NEW t \in TxIds, Mine(t)
      PROVE  NodesInv'
  <2>1. /\ \E m \in SUBSET TxIds : m = mined' /\ Sound(m)
        /\ \A q \in Providers : \E K \in SUBSET TxIds : K = Known(q)' /\ Sound(K)
    BY <1>0, <1>4, MinedSound
  <2>2. UNCHANGED <<txs, arrived, worker>>
    BY <1>4 DEF Mine
  <2>3. \A w \in Workers : worker'[w].at = "fee" =>
          \E coins : coins = worker'[w].coins /\ Choosable(coins)
    BY <2>2 DEF NodesInv
  <2> QED
    BY <2>1, <2>2, <2>3, NothingNew, NodesStep
<1>5. CASE Receive
  <2>1. UNCHANGED <<txs, worker, mempool, mined>>
    BY <1>5 DEF Receive
  <2>2. Outputs \subseteq Outputs'
    BY <1>0, <1>5, OutputsApart DEF Receive, Outputs
  <2> QED
    BY <1>0, <2>1, <2>2, NothingNew, NodesRest
<1>6. CASE UNCHANGED vars
  <2>1. UNCHANGED <<txs, worker, mempool, mined, arrived>>
    BY <1>6 DEF vars
  <2> QED
    BY <1>0, <2>1, NothingNew, NodesRest
<1> QED
  BY <1>2, <1>3, <1>4, <1>5, <1>6, WorkerSees DEF Next

-----------------------------------------------------------------------------
(* What the wallet holds in a consistent view                              *)

(* What ts leaves unspent, outputs without value included or left out.     *)
Full(ts) == (Outputs \cup ts) \ Spent(ts)

Left(ts) == (Outputs \cup {t \in ts : txs[t].change > 0}) \ Spent(ts)

LEMMA LeftIsFull ==
    ASSUME IInv, TxInv, OtherTypes, NEW ts \in SUBSET TxIds
    PROVE  TotalValue(Left(ts)) = TotalValue(Full(ts))
<1> DEFINE Z == Full(ts) \ Left(ts)
<1>1. Full(ts) \in SUBSET Coins /\ Left(ts) \in SUBSET Full(ts)
  BY OutputsApart DEF Full, Left
<1>2. IsFiniteSet(Full(ts)) /\ \A x \in Full(ts) : Value(x) \in Nat
  BY <1>1, CoinFacts
<1>3. ASSUME NEW x \in Z
      PROVE  Value(x) = 0
  <2>1. x \in TxIds /\ ~(txs[x].change > 0) /\ x \in Nat
    BY OutputsApart DEF Full, Left
  <2>2. txs[x].change = 0
    BY <2>1 DEF TxInv
  <2> QED
    BY <2>1, <2>2 DEF Value
<1>4. TotalValue(Full(ts) \ Z) = TotalValue(Full(ts))
  <2>1. Z \in SUBSET Full(ts)
    OBVIOUS
  <2> HIDE DEF Z
  <2> QED
    BY <1>2, <1>3, <2>1, TotalWithout
<1>5. Full(ts) \ Z = Left(ts)
  BY <1>1
<1> QED
  BY <1>4, <1>5, Zenon

(* A transaction gives the wallet back no more than it takes.              *)
LEMMA InputsCover ==
    ASSUME IInv, TxInv, FeeInv, NEW t \in TxIds
    PROVE  /\ txs[t].inputs \in SUBSET Coins /\ TotalValue(txs[t].inputs) \in Nat
           /\ Value(t) \in Nat /\ Value(t) <= TotalValue(txs[t].inputs)
<1>1. txs[t].inputs \in SUBSET Coins /\ txs[t].call \in Calls
      /\ txs[t].fee \in Nat /\ txs[t].change \in Nat
  BY DEF TxInv
<1>2. TotalValue(txs[t].inputs) \in Nat /\ Amount[txs[t].call] \in Nat
  BY <1>1, CoinFacts, BitcoinConstants
<1>3. ~(t < 0)
  BY CoinFacts
<1>4. TotalValue(txs[t].inputs) - Amount[txs[t].call] - txs[t].change >= txs[t].fee
  <2>1. FeePaid(t) \in txs[t].fee .. txs[t].fee + DUST_THRESHOLD
    BY DEF FeeInv
  <2>2. PICK x : x = FeePaid(t)
    OBVIOUS
  <2>3. x = TotalValue(txs[t].inputs) - Amount[txs[t].call] - txs[t].change /\ x \in Int
    BY <1>1, <1>2, <2>2 DEF FeePaid
  <2>4. x >= txs[t].fee
    BY <1>1, <2>1, <2>2, <2>3 DEF DUST_THRESHOLD
  <2> QED
    BY <2>3, <2>4
<1> QED
  BY <1>1, <1>2, <1>3, <1>4 DEF Value

(* Nor do several that share no input.                                     *)
LEMMA SpentCover ==
    ASSUME IInv, TxInv, FeeInv, NEW D \in SUBSET TxIds,
           \A t, u \in D : t # u => txs[t].inputs \cap txs[u].inputs = {}
    PROVE  TotalValue(D) <= TotalValue(Spent(D))
<1> DEFINE Bad == {n \in Nat : \E C \in SUBSET D : /\ Cardinality(C) = n
                     /\ ~(TotalValue(C) <= TotalValue(Spent(C)))}
<1>a. \A C \in SUBSET D :
        /\ C \in SUBSET Coins /\ IsFiniteSet(C) /\ Cardinality(C) \in Nat
        /\ TotalValue(C) \in Nat /\ \A x \in C : Value(x) \in Nat
        /\ Spent(C) \in SUBSET Coins /\ IsFiniteSet(Spent(C)) /\ TotalValue(Spent(C)) \in Nat
        /\ \A x \in Spent(C) : Value(x) \in Nat
  <2> SUFFICES ASSUME NEW C \in SUBSET D
               PROVE  /\ C \in SUBSET Coins /\ IsFiniteSet(C) /\ Cardinality(C) \in Nat
                      /\ TotalValue(C) \in Nat /\ \A x \in C : Value(x) \in Nat
                      /\ Spent(C) \in SUBSET Coins /\ IsFiniteSet(Spent(C))
                      /\ TotalValue(Spent(C)) \in Nat
                      /\ \A x \in Spent(C) : Value(x) \in Nat
    OBVIOUS
  <2>1. C \in SUBSET Coins
    BY DEF Coins
  <2>2. Spent(C) \in SUBSET Coins
    BY InputsCover DEF Spent
  <2> QED
    BY <2>1, <2>2, CoinFacts, FS_CardinalityType
<1> SUFFICES ASSUME Bad # {} PROVE FALSE
  BY <1>a
<1>1. PICK k \in Bad : \A j \in Bad : k <= j
  <2>1. Bad \in SUBSET Nat
    OBVIOUS
  <2> HIDE DEF Bad
  <2> QED
    BY <2>1, LeastExists
<1>2. PICK C \in SUBSET D :
        Cardinality(C) = k /\ ~(TotalValue(C) <= TotalValue(Spent(C)))
  OBVIOUS
<1>3. C # {}
  <2>1. TotalValue({}) = 0 /\ Spent({}) = {}
    BY TotalNone DEF Spent
  <2> QED
    BY <1>2, <2>1
<1>4. PICK t : t \in C
  BY <1>3
<1>5. PICK R : R = C \ {t}
  OBVIOUS
<1>6. R \in SUBSET D /\ Cardinality(R) = k - 1 /\ k - 1 \in Nat
  <2>1. Cardinality(R) \in Nat /\ Cardinality(R) = Cardinality(C) - 1
    BY <1>4, <1>5, <1>a, FS_RemoveElement
  <2> QED
    BY <1>2, <1>5, <2>1
<1>7. TotalValue(R) <= TotalValue(Spent(R))
  <2>1. k - 1 \notin Bad
    BY <1>1, <1>6
  <2> QED
    BY <1>6, <2>1
<1>8. TotalValue(C) = Value(t) + TotalValue(R)
  BY <1>4, <1>5, <1>a, TotalRemove
<1>9. t \in TxIds /\ Spent(C) = Spent(R) \cup txs[t].inputs /\ Spent(R) \cap txs[t].inputs = {}
  BY <1>4, <1>5 DEF Spent
<1>10. TotalValue(Spent(C)) = TotalValue(Spent(R)) + TotalValue(txs[t].inputs)
  <2>1. IsFiniteSet(txs[t].inputs) /\ \A x \in txs[t].inputs : Value(x) \in Nat
    BY <1>9, InputsCover, CoinFacts
  <2>2. TotalValue(Spent(R) \cup txs[t].inputs)
          = TotalValue(Spent(R)) + TotalValue(txs[t].inputs)
    BY <1>6, <1>9, <1>a, <2>1, TotalUnion
  <2> QED
    BY <1>9, <2>2, Zenon
<1>11. /\ TotalValue(R) \in Nat /\ TotalValue(Spent(R)) \in Nat
       /\ Value(t) \in Nat /\ TotalValue(txs[t].inputs) \in Nat
       /\ Value(t) <= TotalValue(txs[t].inputs)
  BY <1>6, <1>9, <1>a, InputsCover
<1> QED
  BY <1>2, <1>7, <1>8, <1>10, <1>11

(* The more payments a consistent view has, the less the wallet holds.     *)
LEMMA HoldingsShrink ==
    ASSUME IInv, TxInv, OtherTypes, FeeInv, NEW B \in SUBSET TxIds, NEW A \in SUBSET B,
           Sound(A), Sound(B)
    PROVE  TotalValue(Left(B)) <= TotalValue(Left(A))
<1>1. PICK D : D = B \ A
  OBVIOUS
<1>2. D \in SUBSET TxIds /\ A \in SUBSET TxIds /\ A \cap D = {}
  BY <1>1
<1>3. Spent(B) = Spent(A) \cup Spent(D) /\ Spent(A) \cap Spent(D) = {}
  BY <1>1 DEF Spent, Sound
<1>4. Spent(A) \cap D = {} /\ Spent(D) \subseteq Outputs \cup A \cup D
  BY <1>1, <1>2, OutputsApart DEF Sound, Spent
<1>5. Full(B) \cup Spent(D) = Full(A) \cup D
  BY <1>1, <1>3, <1>4 DEF Full
<1>6. Full(B) \cap Spent(D) = {} /\ Full(A) \cap D = {}
  BY <1>1, <1>2, <1>3, OutputsApart DEF Full
<1>7. /\ Full(A) \in SUBSET Coins /\ Full(B) \in SUBSET Coins
      /\ D \in SUBSET Coins /\ Spent(D) \in SUBSET Coins
  BY <1>2, <1>4, OutputsApart DEF Full
<1>8. /\ IsFiniteSet(Full(A)) /\ IsFiniteSet(Full(B)) /\ IsFiniteSet(D) /\ IsFiniteSet(Spent(D))
      /\ TotalValue(Full(A)) \in Nat /\ TotalValue(Full(B)) \in Nat
      /\ TotalValue(D) \in Nat /\ TotalValue(Spent(D)) \in Nat
      /\ \A x \in Coins : Value(x) \in Nat
  BY <1>7, CoinFacts
<1>9. TotalValue(Full(B) \cup Spent(D)) = TotalValue(Full(B)) + TotalValue(Spent(D))
  BY <1>6, <1>7, <1>8, TotalUnion
<1>10. TotalValue(Full(A) \cup D) = TotalValue(Full(A)) + TotalValue(D)
  BY <1>6, <1>7, <1>8, TotalUnion
<1>11. TotalValue(Full(B)) + TotalValue(Spent(D)) = TotalValue(Full(A)) + TotalValue(D)
  BY <1>5, <1>9, <1>10, Zenon
<1>12. TotalValue(D) <= TotalValue(Spent(D))
  BY <1>1, <1>2, SpentCover DEF Sound
<1>13. TotalValue(Full(B)) <= TotalValue(Full(A))
  BY <1>8, <1>11, <1>12
<1> QED
  BY <1>2, <1>13, LeftIsFull

LEMMA ViewsOrdered ==
    ASSUME IInv, PayInv, NodesInv, NEW p \in Providers, NEW q \in Providers
    PROVE  /\ GetBalance(p) \in Nat /\ Holdings(p) \in Nat /\ Holdings(q) \in Nat
           /\ GetBalance(p) <= Holdings(p)
           /\ mempool[p] = {} => GetBalance(p) = Holdings(p) /\ Holdings(q) <= Holdings(p)
           /\ mempool[q] \subseteq mempool[p] => Holdings(p) <= Holdings(q)
<1>1. TxInv /\ OtherTypes /\ FeeInv
  BY DEF PayInv
<1>2. /\ Known(p) \in SUBSET TxIds /\ Known(q) \in SUBSET TxIds
      /\ Sound(Known(p)) /\ Sound(Known(q))
  BY <1>1, OutputsApart DEF NodesInv
<1>3. /\ Unspent(p) = Left(Known(p)) /\ Unspent(q) = Left(Known(q))
  BY DEF Unspent, Left, Outputs
<1>4. /\ Unspent(p) \in SUBSET Coins /\ Unspent(q) \in SUBSET Coins
      /\ Utxos(p) \in SUBSET Unspent(p)
  BY <1>1, <1>2, <1>3, OutputsApart DEF Left, Utxos
<1>5. /\ TotalValue(Utxos(p)) \in Nat /\ TotalValue(Unspent(p)) \in Nat
      /\ TotalValue(Unspent(q)) \in Nat /\ TotalValue(Utxos(p)) <= TotalValue(Unspent(p))
  <2>1. /\ Utxos(p) \in SUBSET Coins /\ IsFiniteSet(Unspent(p))
        /\ \A x \in Unspent(p) : Value(x) \in Nat
    BY <1>1, <1>4, CoinFacts
  <2> QED
    BY <1>1, <1>4, <2>1, CoinFacts, TotalSubset
<1>6. ASSUME mempool[p] = {}
      PROVE  Utxos(p) = Unspent(p) /\ Known(p) \subseteq Known(q)
  <2>1. Known(p) = mined /\ Known(p) \subseteq Known(q)
    BY <1>6 DEF Known
  <2>2. \A coin \in Unspent(p) : coin < 0 \/ coin \in mined
    BY <1>1, <2>1, OutputsApart DEF Unspent, Outputs
  <2> QED
    BY <2>1, <2>2 DEF Utxos
<1>7. Known(p) \subseteq Known(q) => TotalValue(Unspent(q)) <= TotalValue(Unspent(p))
  <2>1. Known(p) \subseteq Known(q) => TotalValue(Left(Known(q))) <= TotalValue(Left(Known(p)))
    BY <1>1, <1>2, HoldingsShrink
  <2> QED
    BY <1>3, <2>1, Zenon
<1>8. Known(q) \subseteq Known(p) => TotalValue(Unspent(p)) <= TotalValue(Unspent(q))
  <2>1. Known(q) \subseteq Known(p) => TotalValue(Left(Known(p))) <= TotalValue(Left(Known(q)))
    BY <1>1, <1>2, HoldingsShrink
  <2> QED
    BY <1>3, <2>1, Zenon
<1>9. mempool[q] \subseteq mempool[p] => Known(q) \subseteq Known(p)
  BY DEF Known
<1>10. mempool[p] = {} => GetBalance(p) = Holdings(p)
  BY <1>6, Zenon DEF GetBalance, Holdings
<1> QED
  BY <1>5, <1>6, <1>7, <1>8, <1>9, <1>10 DEF GetBalance, Holdings

WalletInv == IInv /\ PayInv /\ PlaceInv /\ NodesInv

LEMMA NodesInit == Init => NodesInv
<1> SUFFICES ASSUME Init
             PROVE  NodesInv
  OBVIOUS
<1>1. TxIds = {} /\ mined = {} /\ \A p \in Providers : Known(p) = {}
  BY DEF Init, TxIds, Known
<1>2. \A w \in Workers : worker[w].at = "idle"
  BY DEF Init, Idle
<1>3. Sound({})
  BY DEF Sound, Spent
<1> QED
  BY <1>1, <1>2, <1>3 DEF NodesInv

(* A run of the monitor disturbs nobody.                                   *)
LEMMA MonitorWatches ==
    ASSUME WalletInv, UNCHANGED <<txs, arrived, mempool, mined, asked, worker, outcome, raced>>,
           Fault \/ faults' = faults
    PROVE  WalletInv'
<1>1. IInv /\ PayInv /\ PlaceInv /\ NodesInv
  BY DEF WalletInv
<1>2. TxInv /\ WorkerInv /\ OtherTypes /\ FeeInv
  BY <1>1 DEF PayInv
<1>3. TxInv' /\ FeeInv' /\ Keeps /\ TxIds' = TxIds
  BY <1>1, <1>2, NothingBuilt DEF TxIds
<1>4. IInv'
  <2>1. mempool' \in [Providers -> SUBSET TxIds] /\ mined' \subseteq TxIds
    BY <1>1 DEF IInv, SendTypes
  <2> QED
    BY <1>1, <2>1, Quiet
<1>5. PayInv'
  <2>1. WorkerInv'
    BY <1>1, <1>2, <1>3, WorkerStays
  <2>2. OtherTypes'
    BY <1>2, <1>3, FaultTyped DEF OtherTypes
  <2> QED
    BY <1>3, <2>1, <2>2 DEF PayInv
<1>6. PlaceInv'
  BY <1>1, NobodyBroadcasts
<1>7. NodesInv'
  BY <1>1, <1>2, NothingNew, NodesRest
<1> QED
  BY <1>4, <1>5, <1>6, <1>7 DEF WalletInv

(* The wallet beside its monitor: the chain and every node's view of it    *)
(* are consistent, and no coin is spent or counted that is not there.      *)
THEOREM MonitoredWallet == MonitoredSpec => []WalletInv
<1>1. MonitoredInit => WalletInv
  BY InvInit, PayInit, PlaceInit, NodesInit DEF MonitoredInit, WalletInv
<1>2. ASSUME WalletInv, [MonitoredNext]_monitored
      PROVE  WalletInv'
  <2>1. CASE [Next]_vars
    BY <1>2, <2>1, StepKeeps, StepPays, StepInPlace, StepSees DEF WalletInv
  <2>2. CASE MonitorStep
    <3>1. /\ UNCHANGED <<txs, arrived, mempool, mined, asked, worker, outcome, raced>>
          /\ Fault \/ faults' = faults
      BY <2>2 DEF MonitorStep, CheckBTCBalance, CheckWithoutBalance, SendTelegramMessage, vars
    <3> QED
      BY <1>2, <3>1, MonitorWatches
  <2>3. UNCHANGED monitored => UNCHANGED vars
    BY DEF monitored
  <2> QED
    BY <1>2, <2>1, <2>2, <2>3 DEF MonitoredNext
<1> QED
  BY <1>1, <1>2, PTL DEF MonitoredSpec

(* What is proved of the wallet holds beside the monitor too.              *)
THEOREM MonitoredWalletSafe ==
    MonitoredSpec => [](TypeOK /\ FeeWithinCap /\ OnePaymentPerCall /\ ReturnedIsNotDisplaced)
<1>1. WalletInv => TypeOK /\ FeeWithinCap
  <2>1. WalletInv => FeeWithinCap
    BY ChargeBounds DEF WalletInv, PayInv
  <2>2. WalletInv => TypeOK
    BY DEF WalletInv, IInv, SendTypes, PayInv, TxInv, WorkerInv, OtherTypes, Send, TypeOK
  <2> QED
    BY <2>1, <2>2
<1>2. WalletInv => OnePaymentPerCall /\ ReturnedIsNotDisplaced
  BY DEF WalletInv, IInv, SendTypes, BuiltInv, OnePaymentPerCall, PlaceInv, HeldInv, Held,
         ReturnedIsNotDisplaced
<1> QED
  BY <1>1, <1>2, MonitoredWallet, PTL

(* For any payments, outputs, mempools and minima, replaced payments       *)
(* included: an alert is sent only when the wallet is short as every node  *)
(* sees it, unless a payment is pending (at the node that was asked, or    *)
(* anywhere) or nobody could be asked.                                     *)
THEOREM AlertsAreTrue == MonitoredSpec => AlertIsTrue
<1>1. ASSUME WalletInv, NEW p \in Providers, NEW minimum \in Minima,
             mempool[p] = {}, BelowMinimum(GetBalance(p), minimum)
      PROVE  Short(minimum)
  <2>1. ASSUME NEW q \in Providers
        PROVE  BelowMinimum(Holdings(q), minimum)
    <3>1. /\ GetBalance(p) \in Nat /\ Holdings(q) \in Nat
          /\ Holdings(q) <= GetBalance(p)
      BY <1>1, <2>1, ViewsOrdered DEF WalletInv
    <3>2. minimum \in Nat
      BY BalanceMonitorAssumption
    <3> QED
      BY <1>1, <3>1, <3>2 DEF BelowMinimum
  <2> QED
    BY <2>1 DEF Short
<1>2. ASSUME WalletInv, WalletInv', [MonitoredNext]_monitored
      PROVE  AlertsForAReason
  <2> SUFFICES ASSUME check = "idle", check' = "sending"
               PROVE  /\ \A p \in Providers, minimum \in Minima :
                            CheckBTCBalance(p, minimum) /\ mempool[p] = {} => Short(minimum)
                      /\ (\A p \in Providers : mempool[p] = {}) =>
                            faults' > faults \/ \E minimum \in Minima : Short(minimum)
    BY DEF AlertsForAReason
  <2>1. ASSUME NEW p \in Providers, NEW minimum \in Minima,
               CheckBTCBalance(p, minimum), mempool[p] = {}
        PROVE  Short(minimum)
    BY <1>1, <1>2, <2>1 DEF CheckBTCBalance
  <2>2. ASSUME \A p \in Providers : mempool[p] = {}
        PROVE  faults' > faults \/ \E minimum \in Minima : Short(minimum)
    <3>1. CASE \E minimum \in Minima : CheckWithoutBalance(minimum)
      <4>1. faults \in Nat
        BY <1>2, BitcoinConstants DEF WalletInv, PayInv, OtherTypes
      <4> QED
        BY <3>1, <4>1 DEF CheckWithoutBalance, Fault
    <3>2. CASE \E p \in Providers, minimum \in Minima : CheckBTCBalance(p, minimum)
      BY <2>1, <2>2, <3>2
    <3>3. check' # check => MonitorStep /\ ~SendTelegramMessage
      BY <1>2 DEF MonitoredNext, monitored, SendTelegramMessage
    <3> QED
      BY <3>1, <3>2, <3>3 DEF MonitorStep
  <2> QED
    BY <2>1, <2>2
<1>3. WalletInv /\ WalletInv' /\ [MonitoredNext]_monitored => [AlertsForAReason]_monitored
  BY <1>2
<1> QED
  BY <1>3, MonitoredWallet, PTL DEF MonitoredSpec, AlertIsTrue

(* A balance that is enough is enough for every node which knows of no     *)
(* payment the provider has not heard of, whatever was sent or replaced.   *)
THEOREM SilencesAreTrue == MonitoredSpec => []SilenceIsTrue
<1>1. ASSUME WalletInv
      PROVE  SilenceIsTrue
  <2> SUFFICES ASSUME NEW p \in Providers, NEW minimum \in Minima,
                      ~BelowMinimum(GetBalance(p), minimum),
                      NEW q \in Providers, mempool[q] \subseteq mempool[p]
               PROVE  Holdings(q) >= minimum
    BY DEF SilenceIsTrue
  <2>1. /\ GetBalance(p) \in Nat /\ Holdings(p) \in Nat /\ Holdings(q) \in Nat
        /\ GetBalance(p) <= Holdings(p) /\ Holdings(p) <= Holdings(q)
    BY <1>1, ViewsOrdered DEF WalletInv
  <2>2. minimum \in Nat
    BY BalanceMonitorAssumption
  <2> QED
    BY <2>1, <2>2 DEF BelowMinimum
<1> QED
  BY <1>1, MonitoredWallet, PTL
=============================================================================
