------------------------------ MODULE EvmPayment ------------------------------
(***************************************************************************)
(* The EVM transfer worker on top of Wallet: EVMTransferStrategy approves  *)
(* the payment contract if it has to and pays, each as a call of           *)
(* executeContractMethod, which estimates gas and prices the transaction.  *)
(* None of these waits for a block: the allowance and the gas are read     *)
(* from a state in which earlier transactions of the wallet may still be   *)
(* pending, and the next job follows as soon as the payment is sent.  The  *)
(* token, the payment contract and the fee market are external.            *)
(***************************************************************************)
EXTENDS Wallet, Gas, Sequences

CONSTANTS
    Payments,       \* jobs of the EVM transfer worker that get to transfer
    Kinds,          \* what the payments may be: "token", "native" or "lending"
    Amount,         \* what each pays
    Unlimited,      \* MaxUint256
    Leftovers,      \* allowances the payment contract may have at first
    GasUsed,        \* a call's gas in thousands: least and most
    BaseFees        \* what the base fee of a block may be

Steps == {"reset", "approve", "pay"}

(* The fallback limit for resets and approvals.                            *)
ApprovalGasLimit == 100

ASSUME EvmPaymentAssumption ==
    /\ Calls = Payments \X Steps
    /\ Kinds \subseteq [Payments -> {"token", "native", "lending"}]
    /\ Amount \in [Payments -> Nat \ {0}]
    /\ Unlimited \in Nat /\ \A p \in Payments : Amount[p] < Unlimited
    /\ Leftovers \subseteq Nat
    /\ GasUsed \in [Steps -> Nat \X Nat]
    /\ \A s \in Steps : 0 < GasUsed[s][1] /\ GasUsed[s][1] <= GasUsed[s][2]
    /\ BaseFees \subseteq Nat \ {0}

(* The fee market and the calls, as far as the buffers allow for: the base *)
(* fee at most doubles while a transaction is under way, and a call takes  *)
(* at most the default buffer more than its estimate, or the fallback.     *)
ASSUME BufferAssumption ==
    /\ \A a, b \in BaseFees : b <= 2 * a
    /\ \A s \in Steps :
         LET low == GasUsed[s][1]
             high == GasUsed[s][2]
         IN  /\ \/ high <= low + DEFAULT_MIN_GAS_BUFFER
                \/ high <= low + (low * DEFAULT_GAS_BUFFER_PERCENTAGE) \div 100
             /\ high <= (IF s = "pay" THEN DEFAULT_GAS_LIMIT ELSE ApprovalGasLimit)

VARIABLES
    kind,
    leftover,       \* the allowance before the first transaction
    baseFee,        \* of the latest block
    todo,           \* steps of each payment that are not yet begun
    offer,          \* gas limit and price of the transaction under way
    stale           \* history: an allowance was relied on that a pending
                    \* transaction takes away

paymentVars == <<kind, leftover, baseFee, todo, offer, stale>>

NotStarted == <<"start">>

NoOffer == [limit |-> 0, price |-> Unpriced]

PaymentInit ==
    /\ Init
    /\ kind \in Kinds
    /\ leftover \in Leftovers
    /\ baseFee \in BaseFees
    /\ todo = [p \in Payments |-> NotStarted]
    /\ offer = NoOffer
    /\ stale = FALSE

-----------------------------------------------------------------------------
(* The token: what a transaction does to the allowance                     *)

Spends(c) == c[2] = "pay" /\ kind[c[1]] = "token"

(* Like USDT, it refuses to change an allowance that is not zero.          *)
After(c, allowance) ==
    CASE c[2] = "reset"   -> 0
      [] c[2] = "approve" -> IF allowance = 0 THEN Unlimited ELSE allowance
      [] Spends(c)        -> IF allowance = Unlimited \/ allowance < Amount[c[1]]
                             THEN allowance ELSE allowance - Amount[c[1]]
      [] OTHER            -> allowance

(* The allowance once the transactions before a nonce are in blocks.       *)
AllowanceAt ==
    LET at[n \in 0 .. Cardinality(Nonces)] ==
            IF n = 0 THEN leftover
            ELSE IF slot[n - 1] = NoCall THEN at[n - 1]
            ELSE After(slot[n - 1], at[n - 1])
    IN  at

Reverts(c, allowance) == Spends(c) /\ allowance < Amount[c[1]]

-----------------------------------------------------------------------------
(* handleTokenApproval and the payment                                     *)

(* Mutation: the allowance is not reset first.                             *)
ApprovalStepsNoReset(allowance, amount) ==
    IF allowance >= amount THEN <<"pay">> ELSE <<"approve", "pay">>

ApprovalSteps(allowance, amount) ==
    IF allowance >= amount THEN <<"pay">>
    ELSE IF allowance > 0 THEN <<"reset", "approve", "pay">>
    ELSE <<"approve", "pay">>

(* A native payment needs no approval, and the liquidator pays by itself.  *)
StepsFor(p) ==
    IF kind[p] = "token" THEN ApprovalSteps(AllowanceAt[mined], Amount[p])
    ELSE <<"pay">>

Started(p) == todo[p] # NotStarted

(* The last call begun for p, if any.                                      *)
Begun(p) == {c \in Calls : c[1] = p /\ outcome[c] # "none"}

Working(p) == Started(p) /\ todo[p] # <<>> /\ \A c \in Begun(p) : outcome[c] = "returned"

(* The worker takes the next job when transfer has returned or thrown.     *)
Transfer(p) ==
    /\ sender.at = "idle" /\ ~Started(p) /\ \A q \in Payments : ~Working(q)
    /\ todo' = [todo EXCEPT ![p] = StepsFor(p)]
    /\ stale' = (stale \/ /\ kind[p] = "token" /\ StepsFor(p) = <<"pay">>
                          /\ AllowanceAt[PendingCount] < Amount[p])
    /\ UNCHANGED <<vars, kind, leftover, baseFee, offer>>

(* What a call is given in place of the defaults.                          *)
OptionsFor(c) ==
    IF c[2] # "pay" THEN [DefaultOptions EXCEPT !.fallbackGasLimit = ApprovalGasLimit]
    ELSE IF kind[c[1]] = "lending" THEN [DefaultOptions EXCEPT !.gasBufferPercentage = 40]
    ELSE DefaultOptions

(* An estimate is made on the latest or the pending state; it fails where  *)
(* the call would revert, and a request may fail at any time.              *)
Estimates(c) ==
    LET low == GasUsed[c[2]][1]
        high == GasUsed[c[2]][2]
    IN  UNION {IF Reverts(c, AllowanceAt[n]) THEN {0} ELSE {low, high} :
                   n \in {mined, PendingCount}}

(* executeContractMethod, up to executeTransaction.                        *)
BeginStep(p) ==
    LET c == <<p, Head(todo[p])>> IN
    /\ Working(p)
    /\ Begin(c)
    /\ todo' = [todo EXCEPT ![p] = Tail(@)]
    /\ \E e1, e2 \in Estimates(c) \cup {0} :
         offer' = [limit |-> EstimateContractGas(e1, e2, OptionsFor(c)), price |-> Unpriced]
    /\ UNCHANGED <<kind, leftover, baseFee, stale>>

(* eth_maxPriorityFeePerGas is 1; ethers proposes twice the base fee.      *)
FeeDataAt(base) ==
    [maxFeePerGas |-> 2 * base + 1, maxPriorityFeePerGas |-> 1, gasPrice |-> base + 1]

(* executeTransactionInternal: the block's base fee is read first; blocks  *)
(* may come between it and the provider's fee data, and before the send.   *)
PrepareStep ==
    /\ Prepare
    /\ \E later \in BaseFees :
         offer' = [offer EXCEPT !.price =
                      OptimalGasPrice(FeeDataAt(later), OptionsFor(sender.call),
                                      BaseFeePerGas(baseFee, FeeDataAt(later)))]
    /\ UNCHANGED <<kind, leftover, baseFee, todo, stale>>

SenderStepRest ==
    /\ \/ PrepareFails \/ TakeNonce \/ TakeNonceFails
       \/ \E reply \in Answers : Broadcast(reply)
       \/ Reset \/ ResetDone
    /\ offer' = IF sender'.at = "idle" THEN NoOffer ELSE offer
    /\ UNCHANGED <<kind, leftover, baseFee, todo, stale>>

Others ==
    /\ RefreshStart \/ RefreshEnd \/ Mine
    /\ UNCHANGED paymentVars

(* The process dies; the stalled job starts its transfer anew, as one more *)
(* payment.                                                                *)
CrashStep ==
    /\ Crash
    /\ todo' = [p \in Payments |-> IF Started(p) THEN <<>> ELSE NotStarted]
    /\ offer' = NoOffer
    /\ UNCHANGED <<kind, leftover, baseFee, stale>>

BaseFeeMoves ==
    /\ baseFee' \in BaseFees \ {baseFee}
    /\ UNCHANGED <<vars, kind, leftover, todo, offer, stale>>

PaymentNext ==
    \/ \E p \in Payments : Transfer(p) \/ BeginStep(p)
    \/ PrepareStep \/ SenderStepRest
    \/ Others \/ CrashStep \/ BaseFeeMoves

PaymentSpec == PaymentInit /\ [][PaymentNext]_<<vars, paymentVars>>

(* The wallet's fairness: nothing is assumed of jobs or of mining.         *)
FairPaymentSpec == PaymentSpec /\ Fairness

-----------------------------------------------------------------------------
(* Properties                                                              *)

PaymentTypeOK ==
    /\ TypeOK
    /\ kind \in Kinds /\ leftover \in Leftovers /\ baseFee \in BaseFees
    /\ \A p \in Payments : todo[p] \in {NotStarted, <<>>, <<"pay">>,
           <<"approve", "pay">>, <<"reset", "approve", "pay">>}
    /\ offer.limit \in Nat
    /\ offer.price.maxFee \in Nat /\ offer.price.priorityFee \in Nat
    /\ stale \in BOOLEAN

(* A payment whose hash was returned does not revert for want of an        *)
(* allowance, although no approval is waited for and other payments reset, *)
(* approve and spend in between: unless a nonce was skipped or the         *)
(* allowance that was read is one a pending transaction takes away.        *)
ReturnedPays ==
    ~skipped /\ ~stale => \A p \in Payments : outcome[<<p, "pay">>] = "returned" =>
        \E n \in Nonces : /\ n < PendingCount /\ slot[n] = <<p, "pay">>
                          /\ ~Reverts(slot[n], AllowanceAt[n])

(* Whatever was estimated on which state and however the base fee moved    *)
(* since it was read (within BufferAssumption), the transaction that is    *)
(* sent has the gas its call may use, can be mined at once, and promises   *)
(* the miner no more than it may cost.                                     *)
OfferHolds ==
    sender.at = "broadcast" =>
        /\ offer.limit >= GasUsed[sender.call[2]][2]
        /\ offer.price.maxFee >= baseFee
        /\ offer.price.priorityFee <= offer.price.maxFee
=============================================================================
