---------------------------- MODULE BalanceMonitor ----------------------------
(***************************************************************************)
(* BalanceMonitorScheduler.checkBTCBalance beside the two workers that     *)
(* spend from the wallet: every five minutes it asks one provider for the  *)
(* balance and sends a Telegram message when its value is below            *)
(* MIN_BALANCE_USD.  Nothing it meets is an error to anybody: a balance it *)
(* cannot read is zero, without a price the run is given up, and a message *)
(* that cannot be sent is forgotten.                                       *)
(***************************************************************************)
EXTENDS Bitcoin

CONSTANT
    Minima          \* MIN_BALANCE_USD in satoshis, at what BTC may cost

ASSUME BalanceMonitorAssumption == Minima \subseteq Nat

VARIABLE check      \* the run under way: whether it has a message to send

monitored == <<vars, check>>

MonitoredInit == Init /\ check = "idle"

BelowMinimum(balance, minimum) == balance < minimum

(* Mutation: outputs that have been spent are counted.                     *)
GetBalanceOfAll(p) == TotalValue({-i : i \in 1 .. arrived} \cup mined)

(* Mutation: change is not counted.                                        *)
GetBalanceOfReceived(p) == TotalValue({coin \in Utxos(p) : coin < 0})

(* BitcoinService.getBalance, answered by provider p.                      *)
GetBalance(p) == TotalValue(Utxos(p))

(* The balance and the price are awaited together.  A run that gets no     *)
(* price or finds enough is over, and has changed nothing.                 *)
CheckBTCBalance(p, minimum) ==
    /\ check = "idle"
    /\ BelowMinimum(GetBalance(p), minimum)
    /\ check' = "sending"
    /\ UNCHANGED vars

(* getBtcBalance answers 0 when every provider has failed.                 *)
CheckWithoutBalance(minimum) ==
    /\ check = "idle"
    /\ Fault
    /\ BelowMinimum(0, minimum)
    /\ check' = "sending"
    /\ UNCHANGED <<txs, arrived, mempool, mined, asked, worker, outcome, raced>>

(* executeWithTraceId: delivered, refused, or Telegram is not configured:  *)
(* the run is over.                                                        *)
SendTelegramMessage ==
    /\ check = "sending"
    /\ check' = "idle"
    /\ UNCHANGED vars

MonitorStep ==
    \/ \E minimum \in Minima :
          (\E p \in Providers : CheckBTCBalance(p, minimum)) \/ CheckWithoutBalance(minimum)
    \/ SendTelegramMessage

MonitoredNext == MonitorStep \/ (Next /\ UNCHANGED check)

MonitoredSpec == MonitoredInit /\ [][MonitoredNext]_monitored

-----------------------------------------------------------------------------
(* Properties                                                              *)

(* What the wallet holds as node q sees it, its pending change included.   *)
Holdings(q) == TotalValue(Unspent(q))

Short(minimum) == \A q \in Providers : BelowMinimum(Holdings(q), minimum)

AlertsForAReason ==
    check = "idle" /\ check' = "sending" =>
        /\ \A p \in Providers, minimum \in Minima :
              CheckBTCBalance(p, minimum) /\ mempool[p] = {} => Short(minimum)
        /\ (\A p \in Providers : mempool[p] = {}) =>
              faults' > faults \/ \E minimum \in Minima : Short(minimum)

(* An alert of checkBTCBalance counts confirmed coins only and is one      *)
(* node's.  Sent on the answer of a node with nothing pending it is true   *)
(* of what every node sees.  With nothing pending anywhere it is true      *)
(* whoever was asked, but for the run that got no answer, which takes a    *)
(* fault of every provider: that one takes the balance for zero and alerts *)
(* whatever the wallet has.                                                *)
AlertIsTrue == [][AlertsForAReason]_monitored

(* A run of checkBTCBalance that was answered by p and sends nothing: all  *)
(* nodes that have seen no payment p has not see the wallet with enough.   *)
SilenceIsTrue ==
    \A p \in Providers, minimum \in Minima : ~BelowMinimum(GetBalance(p), minimum) =>
        \A q \in Providers : mempool[q] \subseteq mempool[p] => Holdings(q) >= minimum
=============================================================================
