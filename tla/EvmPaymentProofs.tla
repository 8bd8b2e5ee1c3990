--------------------------- MODULE EvmPaymentProofs ---------------------------
(***************************************************************************)
(* Proofs about EvmPayment, for any payments, gas and base fees within     *)
(* BufferAssumption: it only restricts what the wallet may do, and what    *)
(* it offers for a transaction holds until the transaction is sent.        *)
(***************************************************************************)
EXTENDS EvmPayment, WalletProofs

-----------------------------------------------------------------------------
(* The inductive invariant                                                 *)

Todos == {NotStarted, <<>>, <<"pay">>, <<"approve", "pay">>, <<"reset", "approve", "pay">>}

Offers == [limit : Nat, price : [maxFee : Nat, priorityFee : Nat]]

PaymentTypes ==
    /\ kind \in Kinds /\ leftover \in Leftovers /\ baseFee \in BaseFees
    /\ todo \in [Payments -> Todos]
    /\ offer \in Offers
    /\ stale \in BOOLEAN

(* A call under way was given gas enough, and from its pricing on a price  *)
(* that any base fee it may meet leaves room for.                          *)
OfferInv ==
    /\ sender.at # "idle" =>
         sender.call \in Calls /\ offer.limit >= GasUsed[sender.call[2]][2]
    /\ sender.at \in {"send", "broadcast"} =>
         /\ \A b \in BaseFees : offer.price.maxFee >= b
         /\ offer.price.priorityFee <= offer.price.maxFee

PaymentInv == PaymentTypes /\ OfferInv

-----------------------------------------------------------------------------
(* Gas                                                                     *)

LEMMA GasTypes ==
    /\ Calls = Payments \X Steps
    /\ \A s \in Steps : /\ GasUsed[s][1] \in Nat \ {0} /\ GasUsed[s][2] \in Nat
                        /\ GasUsed[s][1] <= GasUsed[s][2]
BY EvmPaymentAssumption

LEMMA Quotient ==
    ASSUME NEW n \in Nat, NEW d \in Nat \ {0}
    PROVE  n \div d \in Nat
<1>1. n \div d \in Int /\ n < d * (n \div d) + d
  OBVIOUS
<1> QED
  BY <1>1

LEMMA Percentage ==
    ASSUME NEW n \in Nat, NEW p \in Nat
    PROVE  (n * p) \div 100 \in Nat
<1>1. n * p \in Nat
  OBVIOUS
<1> QED
  BY <1>1, Quotient

LEMMA PercentageGrows ==
    ASSUME NEW n \in Nat
    PROVE  (n * 20) \div 100 <= (n * 40) \div 100
OBVIOUS

(* The options any call gets: no limit on gas or price, and no price.      *)
LEMMA OptionsGiven ==
    ASSUME NEW c \in Calls
    PROVE  LET o == OptionsFor(c) IN
           /\ o.maxFeePerGas = 0 /\ o.gasPrice = 0
           /\ o.maxGasPrice = 0 /\ o.maxGasLimit = 0
           /\ o.gasPriceBufferPercentage = 15
           /\ o.gasBufferPercentage \in {20, 40} /\ o.minGasBuffer = 21
           /\ o.fallbackGasLimit = (IF c[2] = "pay" THEN 500 ELSE 100)
BY DEF OptionsFor, DefaultOptions, ApprovalGasLimit, DEFAULT_GAS_BUFFER_PERCENTAGE,
       DEFAULT_MIN_GAS_BUFFER, DEFAULT_GAS_PRICE_BUFFER_PERCENTAGE, DEFAULT_GAS_LIMIT

(* The buffer keeps what it is added to, and adds at least the default.    *)
LEMMA BufferAdds ==
    ASSUME NEW c \in Calls, NEW e \in Nat
    PROVE  LET limit == ApplyGasBuffer(e, OptionsFor(c)) IN
           /\ limit \in Nat /\ limit >= e
           /\ limit >= e + 21
           /\ limit >= e + (e * 20) \div 100
<1> DEFINE o == OptionsFor(c)
           share == (e * o.gasBufferPercentage) \div 100
<1>1. o.gasBufferPercentage \in {20, 40} /\ o.minGasBuffer = 21 /\ o.maxGasLimit = 0
  BY OptionsGiven
<1>2. share \in Nat /\ (e * 20) \div 100 \in Nat /\ (e * 20) \div 100 <= share
  <2>1. CASE o.gasBufferPercentage = 20
    BY <2>1, Percentage
  <2>2. CASE o.gasBufferPercentage = 40
    BY <2>2, Percentage, PercentageGrows
  <2> QED
    BY <1>1, <2>1, <2>2
<1>3. ApplyGasBuffer(e, o) = e + Larger(share, 21)
  BY <1>1 DEF ApplyGasBuffer, AtMost
<1> HIDE DEF share, o
<1>4. /\ Larger(share, 21) \in Nat
      /\ Larger(share, 21) >= share /\ Larger(share, 21) >= 21
  BY <1>2 DEF Larger
<1>5. ApplyGasBuffer(e, o) \in Nat /\ ApplyGasBuffer(e, o) >= e + 21
      /\ ApplyGasBuffer(e, o) >= e + (e * 20) \div 100
  <2> DEFINE d == (e * 20) \div 100
             l == Larger(share, 21)
  <2>1. d \in Nat /\ d <= share /\ l \in Nat /\ l >= share /\ l >= 21
    BY <1>2, <1>4
  <2> HIDE DEF d, l
  <2>2. e + l \in Nat /\ e + l >= e + 21 /\ e + l >= e + d
    BY <1>2, <2>1
  <2> QED
    BY <1>3, <2>2 DEF d, l
<1>6. ApplyGasBuffer(e, o) >= e
  BY <1>5
<1> QED
  BY <1>5, <1>6 DEF o

(* Whichever estimate is used, or none, the limit is enough.               *)
LEMMA LimitIsEnough ==
    ASSUME NEW c \in Calls,
           NEW e1 \in Estimates(c) \cup {0}, NEW e2 \in Estimates(c) \cup {0}
    PROVE  LET limit == EstimateContractGas(e1, e2, OptionsFor(c)) IN
           limit \in Nat /\ limit >= GasUsed[c[2]][2]
<1> DEFINE low == GasUsed[c[2]][1]
           high == GasUsed[c[2]][2]
           used == IF e1 # 0 THEN e1 ELSE IF e2 # 0 THEN e2 ELSE OptionsFor(c).fallbackGasLimit
<1>1. c[2] \in Steps
  BY GasTypes
<1>2. low \in Nat \ {0} /\ high \in Nat /\ low <= high
  BY <1>1, GasTypes
<1>3. Estimates(c) \subseteq {0, low, high}
  BY DEF Estimates
<1>4. used \in {low, high, OptionsFor(c).fallbackGasLimit}
  BY <1>3
<1>5. OptionsFor(c).fallbackGasLimit \in Nat /\ OptionsFor(c).fallbackGasLimit >= high
  BY <1>1, BufferAssumption, OptionsGiven DEF ApprovalGasLimit, DEFAULT_GAS_LIMIT
<1>6. \/ high <= low + 21
      \/ high <= low + (low * 20) \div 100
  BY <1>1, BufferAssumption DEF DEFAULT_MIN_GAS_BUFFER, DEFAULT_GAS_BUFFER_PERCENTAGE
<1>7. EstimateContractGas(e1, e2, OptionsFor(c)) = ApplyGasBuffer(used, OptionsFor(c))
  BY DEF EstimateContractGas
<1> DEFINE limit == ApplyGasBuffer(used, OptionsFor(c))
<1>8. limit \in Nat /\ limit >= high
  <2>1. CASE used = low
    <3>1. (low * 20) \div 100 \in Nat
      BY <1>2, Percentage
    <3>2. /\ limit \in Nat /\ limit >= low + 21
          /\ limit >= low + (low * 20) \div 100
      <4>1. ApplyGasBuffer(low, OptionsFor(c)) \in Nat
            /\ ApplyGasBuffer(low, OptionsFor(c)) >= low + 21
            /\ ApplyGasBuffer(low, OptionsFor(c)) >= low + (low * 20) \div 100
        BY <1>2, BufferAdds
      <4> HIDE DEF low, used
      <4> QED
        BY <2>1, <4>1
    <3> DEFINE d == (low * 20) \div 100
    <3> HIDE DEF limit, d, low, high
    <3> QED
      BY <1>2, <1>6, <3>1, <3>2 DEF d
  <2>2. CASE used # low
    <3>1. used \in Nat /\ used >= high
      BY <1>2, <1>4, <1>5, <2>2
    <3>2. limit \in Nat /\ limit >= used
      <4> HIDE DEF used
      <4> QED
        BY <3>1, BufferAdds
    <3> HIDE DEF limit, used, high
    <3> QED
      BY <1>2, <3>1, <3>2
  <2> QED
    BY <2>1, <2>2
<1> QED
  BY <1>7, <1>8

-----------------------------------------------------------------------------
(* Price                                                                   *)

(* Twice the base fee that was read, whatever the provider proposes later. *)
LEMMA PriceLeavesRoom ==
    ASSUME NEW c \in Calls, NEW base \in BaseFees, NEW later \in BaseFees
    PROVE  LET price == OptimalGasPrice(FeeDataAt(later), OptionsFor(c),
                                        BaseFeePerGas(base, FeeDataAt(later)))
           IN  /\ price \in [maxFee : Nat, priorityFee : Nat]
               /\ \A b \in BaseFees : price.maxFee >= b
               /\ price.priorityFee <= price.maxFee
<1> DEFINE o == OptionsFor(c)
           bid == 2 * base
           raised == bid + (bid * 15) \div 100
           final == Smaller(raised, 3 * base)
<1>1. base \in Nat \ {0} /\ later \in Nat \ {0}
  BY EvmPaymentAssumption
<1>2. /\ o.maxFeePerGas = 0 /\ o.gasPrice = 0 /\ o.maxGasPrice = 0
      /\ o.gasPriceBufferPercentage = 15
  BY OptionsGiven
<1>3. BaseFeePerGas(base, FeeDataAt(later)) = base
  BY <1>1 DEF BaseFeePerGas
<1>4. FeeDataAt(later).maxPriorityFeePerGas = 1
  BY DEF FeeDataAt
<1>5. FinalPrice(bid, o, base) = final
  <2>1. ApplyGasPriceBuffer(bid, o) = raised
    BY <1>2 DEF ApplyGasPriceBuffer
  <2> HIDE DEF o, bid, raised
  <2>2. 3 * base # 0
    BY <1>1
  <2> QED
    BY <1>2, <2>1, <2>2 DEF FinalPrice, EnforceMaxGasPrice, AtMost,
                            DEFAULT_MAX_GAS_PRICE_MULTIPLIER
<1>6. OptimalGasPrice(FeeDataAt(later), o, base)
          = [maxFee |-> final, priorityFee |-> Smaller(1, final)]
  <2> HIDE DEF o, final, bid
  <2>1. DynamicFee(bid, 1, o, base) = [maxFee |-> final, priorityFee |-> Smaller(1, final)]
    BY <1>5 DEF DynamicFee
  <2> QED
    BY <1>1, <1>2, <1>4, <2>1 DEF OptimalGasPrice, ProviderPrice, bid
<1>7. final \in Nat /\ final >= bid
  <2>1. bid \in Nat /\ (bid * 15) \div 100 \in Nat
    BY <1>1, Percentage
  <2> DEFINE d == (bid * 15) \div 100
  <2>2. d \in Nat
    BY <2>1
  <2> HIDE DEF d
  <2> QED
    BY <1>1, <2>2 DEF Smaller
<1>8. \A b \in BaseFees : final >= b
  <2> TAKE b \in BaseFees
  <2>1. b \in Nat /\ b <= bid
    BY EvmPaymentAssumption, BufferAssumption
  <2> HIDE DEF final, bid
  <2> QED
    BY <1>1, <1>7, <2>1 DEF bid
<1>9. Smaller(1, final) \in Nat /\ Smaller(1, final) <= final
  <2> HIDE DEF final
  <2> QED
    BY <1>7 DEF Smaller
<1> QED
  <2> HIDE DEF final
  <2> QED
    BY <1>3, <1>6, <1>7, <1>8, <1>9

-----------------------------------------------------------------------------
(* The steps                                                               *)

LEMMA StepsTyped ==
    ASSUME NEW p \in Payments
    PROVE  StepsFor(p) \in Todos
BY DEF StepsFor, ApprovalSteps, Todos

LEMMA NextStep ==
    ASSUME todo \in [Payments -> Todos], NEW p \in Payments, Working(p)
    PROVE  <<p, Head(todo[p])>> \in Calls /\ Tail(todo[p]) \in Todos
<1>1. todo[p] \in {<<"pay">>, <<"approve", "pay">>, <<"reset", "approve", "pay">>}
  BY DEF Working, Started, Todos
<1>2. Head(todo[p]) \in Steps
  BY <1>1 DEF Steps
<1>3. Tail(todo[p]) \in Todos
  <2>1. /\ Tail(<<"pay">>) = <<>>
        /\ Tail(<<"approve", "pay">>) = <<"pay">>
        /\ Tail(<<"reset", "approve", "pay">>) = <<"approve", "pay">>
    OBVIOUS
  <2> QED
    BY <1>1, <2>1 DEF Todos
<1> QED
  BY <1>2, <1>3, GasTypes

LEMMA TransferKeeps ==
    ASSUME PaymentInv, NEW p \in Payments, Transfer(p)
    PROVE  PaymentInv'
<1>1. UNCHANGED <<sender, kind, leftover, baseFee, offer>>
  BY DEF Transfer, vars
<1>2. todo' \in [Payments -> Todos]
  BY StepsTyped DEF Transfer, PaymentInv, PaymentTypes
<1>3. stale' \in BOOLEAN
  BY DEF Transfer, PaymentInv, PaymentTypes
<1> QED
  BY <1>1, <1>2, <1>3 DEF PaymentInv, PaymentTypes, OfferInv

LEMMA BeginStepKeeps ==
    ASSUME PaymentInv, NEW p \in Payments, BeginStep(p)
    PROVE  PaymentInv'
<1> DEFINE c == <<p, Head(todo[p])>>
<1>1. c \in Calls /\ Tail(todo[p]) \in Todos
  BY NextStep DEF BeginStep, PaymentInv, PaymentTypes
<1>2. sender'.at = "prepare" /\ sender'.call = c
  BY DEF BeginStep, Begin, Idle
<1>3. PICK e1 \in Estimates(c) \cup {0}, e2 \in Estimates(c) \cup {0} :
          offer' = [limit |-> EstimateContractGas(e1, e2, OptionsFor(c)), price |-> Unpriced]
  BY DEF BeginStep
<1>4. EstimateContractGas(e1, e2, OptionsFor(c)) \in Nat
      /\ EstimateContractGas(e1, e2, OptionsFor(c)) >= GasUsed[c[2]][2]
  BY <1>1, LimitIsEnough
<1>5. offer' \in Offers /\ offer'.limit >= GasUsed[c[2]][2]
  BY <1>3, <1>4 DEF Offers, Unpriced
<1>6. PaymentTypes'
  BY <1>1, <1>5 DEF BeginStep, PaymentInv, PaymentTypes
<1>7. OfferInv'
  BY <1>1, <1>2, <1>5 DEF OfferInv
<1> QED
  BY <1>6, <1>7 DEF PaymentInv

LEMMA PrepareStepKeeps ==
    ASSUME IInv, PaymentInv, PrepareStep
    PROVE  PaymentInv'
<1>1. sender'.at = "send" /\ sender'.call = sender.call /\ sender.at = "prepare"
  BY DEF PrepareStep, Prepare, IInv, TypeOK
<1>2. sender.call \in Calls /\ offer.limit \in Nat
      /\ offer.limit >= GasUsed[sender.call[2]][2]
  BY <1>1 DEF PaymentInv, PaymentTypes, OfferInv, Offers
<1>3. baseFee \in BaseFees
  BY DEF PaymentInv, PaymentTypes
<1>4. PICK later \in BaseFees :
          offer' = [offer EXCEPT !.price =
                       OptimalGasPrice(FeeDataAt(later), OptionsFor(sender.call),
                                       BaseFeePerGas(baseFee, FeeDataAt(later)))]
  BY DEF PrepareStep
<1> DEFINE price == OptimalGasPrice(FeeDataAt(later), OptionsFor(sender.call),
                                    BaseFeePerGas(baseFee, FeeDataAt(later)))
<1>5. /\ price \in [maxFee : Nat, priorityFee : Nat]
      /\ \A b \in BaseFees : price.maxFee >= b
      /\ price.priorityFee <= price.maxFee
  BY <1>2, <1>3, PriceLeavesRoom
<1> HIDE DEF price
<1>6. offer' = [limit |-> offer.limit, price |-> price]
  BY <1>4 DEF PaymentInv, PaymentTypes, Offers, price
<1>7. PaymentTypes'
  BY <1>2, <1>5, <1>6 DEF PrepareStep, PaymentInv, PaymentTypes, Offers
<1>8. OfferInv'
  BY <1>1, <1>2, <1>5, <1>6 DEF OfferInv
<1> QED
  BY <1>7, <1>8 DEF PaymentInv

(* The rest of a call keeps what it was given.                             *)
LEMMA CallKept ==
    ASSUME IInv, \/ PrepareFails \/ TakeNonce \/ TakeNonceFails
                 \/ \E reply \in Answers : Broadcast(reply)
                 \/ Reset \/ ResetDone \/ RefreshStart \/ RefreshEnd
    PROVE  sender'.at # "idle" =>
               /\ sender.at # "idle" /\ sender'.call = sender.call
               /\ sender'.at \in {"send", "broadcast"} => sender.at \in {"send", "broadcast"}
<1>1. \A f \in {"reset", "sync", "wait", "prepare"} :
          /\ [sender EXCEPT !.at = f].at = f /\ [sender EXCEPT !.at = f].call = sender.call
          /\ [sender EXCEPT !.at = f, !.nonce = Unset].at = f
          /\ [sender EXCEPT !.at = f, !.nonce = Unset].call = sender.call
  BY DEF IInv, TypeOK
<1>2. Retried.at = "prepare" /\ Retried.call = sender.call /\ Idle.at = "idle"
  BY DEF IInv, TypeOK, Retried, Idle
<1>3. /\ [sender EXCEPT !.own = cached].at = sender.at
      /\ [sender EXCEPT !.own = cached].call = sender.call
  BY DEF IInv, TypeOK
<1>4. CASE PrepareFails \/ TakeNonceFails
  BY <1>4 DEF PrepareFails, TakeNonceFails, Throw, Idle
<1>5. CASE TakeNonce
  BY <1>5 DEF TakeNonce, IInv, TypeOK
<1>6. ASSUME NEW reply \in Answers, Broadcast(reply)
      PROVE  sender' = Idle \/ sender' = [sender EXCEPT !.at = "reset", !.nonce = Unset]
  BY <1>6 DEF Broadcast, Throw
<1>7. CASE Reset \/ ResetDone
  <2>1. \/ sender' = Idle \/ sender' = Retried
        \/ sender' = [sender EXCEPT !.at = "sync"] \/ sender' = [sender EXCEPT !.at = "wait"]
    BY <1>7 DEF Reset, ResetDone, Throw
  <2>2. sender.at # "idle"
    BY <1>7 DEF Reset, ResetDone
  <2> QED
    BY <1>1, <1>2, <2>1, <2>2
<1>8. CASE RefreshStart
  <2>1. sender' = sender \/ sender' = [sender EXCEPT !.own = cached]
    BY <1>8 DEF RefreshStart
  <2> QED
    BY <1>3, <2>1
<1>9. CASE RefreshEnd
  <2>1. sender' = sender \/ sender' = Idle \/ (sender.at = "wait" /\ sender' = Retried)
    BY <1>9 DEF RefreshEnd, Throw
  <2> QED
    BY <1>2, <2>1
<1>10. CASE \E reply \in Answers : Broadcast(reply)
  <2>1. sender.at = "broadcast"
    BY <1>10 DEF Broadcast
  <2> QED
    BY <1>1, <1>2, <1>6, <1>10, <2>1
<1> QED
  BY <1>4, <1>5, <1>7, <1>8, <1>9, <1>10

LEMMA SenderStepKeeps ==
    ASSUME IInv, PaymentInv, SenderStepRest
    PROVE  PaymentInv'
<1>1. offer' \in Offers
  BY DEF SenderStepRest, PaymentInv, PaymentTypes, Offers, NoOffer, Unpriced
<1>2. PaymentTypes'
  BY <1>1 DEF SenderStepRest, PaymentInv, PaymentTypes
<1>3. sender'.at # "idle" =>
          /\ sender.at # "idle" /\ sender'.call = sender.call /\ offer' = offer
          /\ sender'.at \in {"send", "broadcast"} => sender.at \in {"send", "broadcast"}
  BY CallKept DEF SenderStepRest
<1>4. OfferInv'
  BY <1>3 DEF OfferInv, PaymentInv
<1> QED
  BY <1>2, <1>4 DEF PaymentInv

LEMMA OthersKeep ==
    ASSUME IInv, PaymentInv, Others
    PROVE  PaymentInv'
<1>1. UNCHANGED paymentVars
  BY DEF Others
<1>2. PaymentTypes'
  BY <1>1 DEF paymentVars, PaymentInv, PaymentTypes
<1>3. sender'.at # "idle" =>
          /\ sender.at # "idle" /\ sender'.call = sender.call
          /\ sender'.at \in {"send", "broadcast"} => sender.at \in {"send", "broadcast"}
  <2>1. CASE Mine
    BY <2>1 DEF Mine
  <2>2. CASE RefreshStart \/ RefreshEnd
    BY <2>2, CallKept
  <2> QED
    BY <2>1, <2>2 DEF Others
<1>4. OfferInv'
  BY <1>1, <1>3 DEF paymentVars, OfferInv, PaymentInv
<1> QED
  BY <1>2, <1>4 DEF PaymentInv

LEMMA CrashStepKeeps ==
    ASSUME PaymentInv, CrashStep
    PROVE  PaymentInv'
<1>1. sender'.at = "idle"
  BY DEF CrashStep, Crash, Throw, Idle
<1>2. todo' \in [Payments -> Todos]
  BY DEF CrashStep, Todos
<1>3. offer' \in Offers
  BY DEF CrashStep, Offers, NoOffer, Unpriced
<1> QED
  BY <1>1, <1>2, <1>3 DEF CrashStep, PaymentInv, PaymentTypes, OfferInv

LEMMA PaymentStutter ==
    ASSUME PaymentInv, BaseFeeMoves \/ UNCHANGED <<vars, paymentVars>>
    PROVE  PaymentInv'
<1>1. UNCHANGED <<sender, kind, leftover, todo, offer, stale>> /\ baseFee' \in BaseFees
  BY DEF BaseFeeMoves, paymentVars, vars, PaymentInv, PaymentTypes
<1> QED
  BY <1>1 DEF PaymentInv, PaymentTypes, OfferInv

LEMMA PaymentInvInit == PaymentInit => PaymentInv
<1> SUFFICES ASSUME PaymentInit
             PROVE  PaymentInv
  OBVIOUS
<1>1. sender.at = "idle"
  BY DEF PaymentInit, Init, Idle
<1>2. offer \in Offers
  BY DEF PaymentInit, NoOffer, Unpriced, Offers
<1>3. todo \in [Payments -> Todos]
  BY DEF PaymentInit, Todos
<1> QED
  BY <1>1, <1>2, <1>3 DEF PaymentInit, PaymentInv, PaymentTypes, OfferInv

-----------------------------------------------------------------------------
(* Theorems                                                                *)

LEMMA TodoCorrect == PaymentSpec => [](todo \in [Payments -> Todos])
<1> DEFINE T == todo \in [Payments -> Todos]
<1>1. PaymentInit => T
  BY DEF PaymentInit, Todos
<1>2. ASSUME T, [PaymentNext]_<<vars, paymentVars>>
      PROVE  T'
  <2>1. ASSUME NEW p \in Payments, Transfer(p)
        PROVE  T'
    BY <1>2, <2>1, StepsTyped DEF Transfer
  <2>2. ASSUME NEW p \in Payments, BeginStep(p)
        PROVE  T'
    BY <1>2, <2>2, NextStep DEF BeginStep
  <2>3. CASE CrashStep
    BY <1>2, <2>3 DEF CrashStep, Todos
  <2>4. CASE \/ PrepareStep \/ SenderStepRest \/ Others \/ BaseFeeMoves
             \/ UNCHANGED <<vars, paymentVars>>
    BY <1>2, <2>4 DEF PrepareStep, SenderStepRest, Others, BaseFeeMoves, paymentVars
  <2> QED
    BY <1>2, <2>1, <2>2, <2>3, <2>4 DEF PaymentNext
<1> QED
  BY <1>1, <1>2, PTL DEF PaymentSpec

(* EvmPayment decides when calls begin and what they are for; its steps    *)
(* are steps of the wallet, which therefore keeps what it promises.        *)
THEOREM PaymentIsWallet == PaymentSpec => Spec
<1>1. PaymentInit => Init
  BY DEF PaymentInit
<1>2. ASSUME todo \in [Payments -> Todos], [PaymentNext]_<<vars, paymentVars>>
      PROVE  [Next]_vars
  <2>1. ASSUME NEW p \in Payments, Transfer(p)
        PROVE  UNCHANGED vars
    BY <2>1 DEF Transfer
  <2>2. ASSUME NEW p \in Payments, BeginStep(p)
        PROVE  Next
    <3>1. PICK c \in Calls : c = <<p, Head(todo[p])>>
      BY <1>2, <2>2, NextStep DEF BeginStep
    <3> QED
      BY <2>2, <3>1 DEF BeginStep, Next
  <2>3. CASE PrepareStep \/ SenderStepRest \/ CrashStep \/ Others
    BY <2>3 DEF PrepareStep, SenderStepRest, CrashStep, Others, Next, SenderStep
  <2>4. CASE BaseFeeMoves \/ UNCHANGED <<vars, paymentVars>>
    BY <2>4 DEF BaseFeeMoves
  <2> QED
    BY <1>2, <2>1, <2>2, <2>3, <2>4 DEF PaymentNext
<1> QED
  BY <1>1, <1>2, TodoCorrect, PTL DEF PaymentSpec, Spec

(* So however payments and approvals follow one another, a call has one    *)
(* transaction and one more for each send called already known.            *)
THEOREM PaymentCopiesAreAccounted == PaymentSpec => []CopiesAccounted
BY PaymentIsWallet, CopiesAreAccounted, PTL

(* And a payment or approval whose hash was returned keeps its nonce and   *)
(* waits behind no gap, unless a nonce was skipped.                        *)
THEOREM PaymentReturnedArePending == PaymentSpec => []ReturnedIsPending
BY PaymentIsWallet, ReturnedArePending, PTL

(* Every call under way has gas and, once priced, a price that hold, in    *)
(* every state.                                                            *)
THEOREM InductiveInvariantPayment == PaymentSpec => [](IInv /\ PaymentInv)
<1>1. ASSUME IInv, PaymentInv, [PaymentNext]_<<vars, paymentVars>>
      PROVE  PaymentInv'
  <2>1. ASSUME NEW p \in Payments, Transfer(p) \/ BeginStep(p)
        PROVE  PaymentInv'
    BY <1>1, <2>1, TransferKeeps, BeginStepKeeps
  <2>2. CASE PrepareStep \/ SenderStepRest
    BY <1>1, <2>2, PrepareStepKeeps, SenderStepKeeps
  <2>3. CASE Others \/ CrashStep
    BY <1>1, <2>3, OthersKeep, CrashStepKeeps
  <2>4. CASE BaseFeeMoves \/ UNCHANGED <<vars, paymentVars>>
    BY <1>1, <2>4, PaymentStutter
  <2> QED
    BY <1>1, <2>1, <2>2, <2>3, <2>4 DEF PaymentNext
<1> QED
  BY <1>1, PaymentInvInit, PaymentIsWallet, InductiveInvariantWallet, PTL DEF PaymentSpec

(* Every reachable state of the EVM payment is well typed.                 *)
THEOREM PaymentTypeCorrect == PaymentSpec => []PaymentTypeOK
<1>1. IInv /\ PaymentInv => PaymentTypeOK
  BY DEF IInv, PaymentInv, PaymentTypes, PaymentTypeOK, Todos, Offers
<1> QED
  BY <1>1, InductiveInvariantPayment, PTL

(* For any gas and base fees within BufferAssumption, a transaction that   *)
(* is sent has the gas its call may use, can be mined at once, and         *)
(* promises the miner no more than it may cost, however long ago its       *)
(* estimate and its base fee were read.                                    *)
THEOREM OffersHold == PaymentSpec => []OfferHolds
<1>1. IInv /\ PaymentInv => OfferHolds
  BY DEF PaymentInv, PaymentTypes, OfferInv, OfferHolds
<1> QED
  BY <1>1, InductiveInvariantPayment, PTL

-----------------------------------------------------------------------------
(* The allowance each call finds                                           *)

(* The allowance a transaction with the next free nonce will find.         *)
Balance == AllowanceAt[PendingCount]

(* What is left to do when a step is under way.                            *)
Rest(s) == CASE s = "pay"     -> <<>>
             [] s = "approve" -> <<"pay">>
             [] s = "reset"   -> <<"approve", "pay">>

(* Payments take turns: the call under way is the next of the only payment *)
(* that is worked on.                                                      *)
TurnInv ==
    /\ \A p, q \in Payments : Working(p) /\ Working(q) => p = q
    /\ sender.at # "idle" =>
         /\ todo[sender.call[1]] = Rest(sender.call[2])
         /\ \A q \in Payments : Working(q) => q = sender.call[1]

(* The node holds a transaction that pays p and does not revert.           *)
Pays(p) ==
    \E n \in Nonces : /\ n < PendingCount /\ slot[n] = <<p, "pay">>
                      /\ AllowanceAt[n] >= Amount[p]

(* What the next step of p will find: enough to spend, or an allowance the *)
(* token lets it change.                                                   *)
Finds(p, s) ==
    /\ s = "pay" => Balance >= Amount[p]
    /\ s = "approve" => Balance \in {0, Unlimited}

(* A token payment's next step finds what it needs; a payment that is sent *)
(* again after an answer "known" may have spent the allowance itself.      *)
AllowanceInv ==
    ~skipped /\ ~stale =>
        \A p \in Payments : kind[p] = "token" =>
            /\ sender.at = "idle" /\ Working(p) => Finds(p, Head(todo[p]))
            /\ sender.at # "idle" /\ sender.call[1] = p =>
                 Finds(p, sender.call[2]) \/ (sender.call[2] = "pay" /\ Pays(p))
            /\ outcome[<<p, "pay">>] = "returned" => Pays(p)

-----------------------------------------------------------------------------
(* The allowance before each nonce, as a chain of transactions             *)

(* f[n] is the allowance once the transactions of s before n are in blocks.*)
IsChain(f, s, m) ==
    f = [n \in 0 .. m |-> IF n = 0 THEN leftover
                          ELSE IF s[n - 1] = NoCall THEN f[n - 1]
                          ELSE After(s[n - 1], f[n - 1])]

ChainOf(s) == CHOOSE f : IsChain(f, s, Size)

LEMMA ChainExists ==
    ASSUME NEW s, NEW m \in Nat
    PROVE  \E f : IsChain(f, s, m)
<1> DEFINE Bad == {k \in 0 .. m : ~ \E f : IsChain(f, s, k)}
<1> SUFFICES ASSUME Bad # {} PROVE FALSE
  OBVIOUS
<1>1. PICK k \in Bad : \A j \in Bad : k <= j
  <2>1. Bad \in SUBSET Nat
    OBVIOUS
  <2> HIDE DEF Bad
  <2> QED
    BY <2>1, LeastExists
<1>2. k # 0
  <2>1. IsChain([n \in 0 .. 0 |-> leftover], s, 0)
    BY DEF IsChain
  <2> QED
    BY <2>1
<1>3. k \in Nat /\ k - 1 \in 0 .. m /\ k - 1 \notin Bad
  BY <1>1, <1>2
<1>4. PICK f : IsChain(f, s, k - 1)
  BY <1>3
<1> DEFINE last == IF s[k - 1] = NoCall THEN f[k - 1] ELSE After(s[k - 1], f[k - 1])
           g == [n \in 0 .. k |-> IF n = k THEN last ELSE f[n]]
<1>5. IsChain(g, s, k)
  <2>1. ASSUME NEW n \in 0 .. k
        PROVE  g[n] = IF n = 0 THEN leftover
                      ELSE IF s[n - 1] = NoCall THEN g[n - 1]
                      ELSE After(s[n - 1], g[n - 1])
    <3>1. CASE n = k
      <4>1. g[n] = last /\ g[n - 1] = f[n - 1]
        BY <1>2, <1>3, <3>1
      <4> HIDE DEF g
      <4> QED
        BY <1>2, <3>1, <4>1
    <3>2. CASE n # k /\ n # 0
      <4>1. /\ g[n] = f[n] /\ g[n - 1] = f[n - 1]
            /\ n \in 0 .. k - 1
        BY <1>3, <3>2
      <4>2. f[n] = IF n = 0 THEN leftover
                   ELSE IF s[n - 1] = NoCall THEN f[n - 1]
                   ELSE After(s[n - 1], f[n - 1])
        BY <1>4, <4>1 DEF IsChain
      <4> HIDE DEF g
      <4> QED
        BY <4>1, <4>2
    <3>3. CASE n # k /\ n = 0
      <4>1. g[n] = f[n] /\ n \in 0 .. k - 1
        BY <1>2, <1>3, <3>3
      <4>2. f[n] = IF n = 0 THEN leftover
                   ELSE IF s[n - 1] = NoCall THEN f[n - 1]
                   ELSE After(s[n - 1], f[n - 1])
        BY <1>4, <4>1 DEF IsChain
      <4> HIDE DEF g
      <4> QED
        BY <3>3, <4>1, <4>2
    <3> QED
      BY <3>1, <3>2, <3>3
  <2>2. g = [n \in 0 .. k |-> g[n]]
    OBVIOUS
  <2> HIDE DEF g
  <2> QED
    BY <2>1, <2>2 DEF IsChain
<1> HIDE DEF g
<1> QED
  BY <1>1, <1>5

(* AllowanceAt is such a chain, now and after a step.                      *)
LEMMA AllowanceIsChain ==
    /\ AllowanceAt = ChainOf(slot)
    /\ kind' = kind /\ leftover' = leftover => AllowanceAt' = ChainOf(slot')
<1>1. AllowanceAt = ChainOf(slot)
  BY DEF AllowanceAt, ChainOf, IsChain, Size
<1>2. ASSUME kind' = kind, leftover' = leftover
      PROVE  AllowanceAt' = ChainOf(slot')
  BY <1>2 DEF AllowanceAt, ChainOf, IsChain, Size, After, Spends
<1> QED
  BY <1>1, <1>2

LEMMA ChainSteps ==
    ASSUME NEW s
    PROVE  /\ ChainOf(s)[0] = leftover
           /\ \A n \in 0 .. Size - 1 :
                ChainOf(s)[n + 1] = IF s[n] = NoCall THEN ChainOf(s)[n]
                                    ELSE After(s[n], ChainOf(s)[n])
<1> DEFINE f == ChainOf(s)
<1>0. Size \in Nat
  BY Constants
<1>1. IsChain(f, s, Size)
  BY <1>0, ChainExists DEF ChainOf
<1> HIDE DEF f
<1>2. f[0] = leftover
  BY <1>0, <1>1 DEF IsChain
<1>3. ASSUME NEW n \in 0 .. Size - 1
      PROVE  f[n + 1] = IF s[n] = NoCall THEN f[n] ELSE After(s[n], f[n])
  <2>1. n + 1 \in 0 .. Size /\ n + 1 # 0 /\ (n + 1) - 1 = n
    BY <1>0
  <2> QED
    BY <1>1, <2>1 DEF IsChain
<1> QED
  BY <1>2, <1>3 DEF f

LEMMA CallParts ==
    /\ \A c \in Calls : c[1] \in Payments /\ c[2] \in Steps /\ c = <<c[1], c[2]>>
    /\ \A p \in Payments, s \in Steps : <<p, s>> \in Calls /\ <<p, s>> # NoCall
    /\ \A p \in Payments : Amount[p] \in Nat /\ 0 < Amount[p] /\ Amount[p] < Unlimited
    /\ Unlimited \in Nat
BY GasTypes, Constants, EvmPaymentAssumption

LEMMA AfterType ==
    ASSUME NEW c \in Calls, NEW a \in Nat
    PROVE  After(c, a) \in Nat
<1>1. c[1] \in Payments /\ Amount[c[1]] \in Nat /\ Unlimited \in Nat
  BY CallParts
<1> QED
  BY <1>1 DEF After

(* What the token does with each kind of call.                             *)
LEMMA AfterIs ==
    ASSUME NEW p \in Payments, NEW a \in Nat
    PROVE  /\ After(<<p, "reset">>, a) = 0
           /\ a \in {0, Unlimited} => After(<<p, "approve">>, a) = Unlimited
           /\ a \in {0, Unlimited} => After(<<p, "pay">>, a) = a
BY CallParts DEF After, Spends

(* What holds at a nonce and is kept by every transaction holds from there *)
(* on: the allowance is a natural number, and from 0 on all or nothing.    *)
LEMMA ChainKeeps ==
    ASSUME NEW s \in [Nonces -> Calls \cup {NoCall}], NEW V \in SUBSET Nat,
           NEW m \in 0 .. Size, ChainOf(s)[m] \in V,
           \A c \in Calls, a \in V : After(c, a) \in V
    PROVE  \A n \in m .. Size : ChainOf(s)[n] \in V
<1> DEFINE f == ChainOf(s)
           Bad == {n \in m .. Size : f[n] \notin V}
<1>0. Size \in Nat /\ Nonces = 0 .. Size - 1
  BY Constants
<1> SUFFICES ASSUME Bad # {} PROVE FALSE
  OBVIOUS
<1>1. PICK k \in Bad : \A j \in Bad : k <= j
  <2>1. Bad \in SUBSET Nat
    BY <1>0
  <2> HIDE DEF Bad
  <2> QED
    BY <2>1, LeastExists
<1>2. k # m
  OBVIOUS
<1>3. k - 1 \in m .. Size /\ k - 1 \notin Bad /\ k - 1 \in 0 .. Size - 1
  BY <1>0, <1>1, <1>2
<1>4. f[k - 1] \in V
  BY <1>3
<1>5. f[k] = IF s[k - 1] = NoCall THEN f[k - 1] ELSE After(s[k - 1], f[k - 1])
  <2>1. (k - 1) + 1 = k
    BY <1>0
  <2> QED
    BY <1>3, <2>1, ChainSteps
<1>6. s[k - 1] \in Calls \cup {NoCall}
  BY <1>0, <1>3
<1> HIDE DEF f
<1>7. f[k] \in V
  BY <1>4, <1>5, <1>6
<1> QED
  BY <1>1, <1>7

LEMMA ChainType ==
    ASSUME NEW s \in [Nonces -> Calls \cup {NoCall}], leftover \in Nat
    PROVE  \A n \in 0 .. Size : ChainOf(s)[n] \in Nat
<1>1. 0 \in 0 .. Size /\ ChainOf(s)[0] \in Nat /\ Nat \in SUBSET Nat
  BY ChainSteps, Constants
<1>2. \A c \in Calls, a \in Nat : After(c, a) \in Nat
  BY AfterType
<1> QED
  BY <1>1, <1>2, ChainKeeps

LEMMA ChainStaysEmptyOrFull ==
    ASSUME NEW s \in [Nonces -> Calls \cup {NoCall}], NEW m \in 0 .. Size,
           ChainOf(s)[m] \in {0, Unlimited}
    PROVE  \A n \in m .. Size : ChainOf(s)[n] \in {0, Unlimited}
<1>1. ASSUME NEW c \in Calls, NEW a \in {0, Unlimited}
      PROVE  After(c, a) \in {0, Unlimited}
  <2>1. PICK p \in Payments, s0 \in Steps : c = <<p, s0>>
    BY CallParts
  <2>2. a \in Nat
    BY CallParts
  <2>3. CASE s0 = "reset"
    BY <2>1, <2>2, <2>3, AfterIs
  <2>4. CASE s0 = "approve"
    BY <2>1, <2>2, <2>4, AfterIs
  <2>5. CASE s0 = "pay"
    BY <2>1, <2>2, <2>5, AfterIs
  <2> QED
    BY <2>3, <2>4, <2>5 DEF Steps
<1>2. {0, Unlimited} \in SUBSET Nat
  BY CallParts
<1> QED
  BY <1>1, <1>2, ChainKeeps

(* A transaction at a nonce leaves the allowance before it alone.          *)
LEMMA ChainPrefix ==
    ASSUME NEW s, NEW t, NEW m \in 0 .. Size, \A k \in 0 .. m - 1 : s[k] = t[k]
    PROVE  \A n \in 0 .. m : ChainOf(s)[n] = ChainOf(t)[n]
<1> DEFINE f == ChainOf(s)
           g == ChainOf(t)
           Bad == {n \in 0 .. m : f[n] # g[n]}
<1>0. Size \in Nat
  BY Constants
<1> SUFFICES ASSUME Bad # {} PROVE FALSE
  OBVIOUS
<1>1. PICK k \in Bad : \A j \in Bad : k <= j
  <2>1. Bad \in SUBSET Nat
    BY <1>0
  <2> HIDE DEF Bad
  <2> QED
    BY <2>1, LeastExists
<1>2. k # 0
  BY ChainSteps
<1>3. k - 1 \in 0 .. m - 1 /\ k - 1 \notin Bad /\ k - 1 \in 0 .. Size - 1 /\ (k - 1) + 1 = k
  BY <1>0, <1>1, <1>2
<1>4. f[k - 1] = g[k - 1] /\ s[k - 1] = t[k - 1]
  BY <1>0, <1>3
<1>5. /\ f[k] = IF s[k - 1] = NoCall THEN f[k - 1] ELSE After(s[k - 1], f[k - 1])
      /\ g[k] = IF t[k - 1] = NoCall THEN g[k - 1] ELSE After(t[k - 1], g[k - 1])
  BY <1>3, ChainSteps
<1> HIDE DEF f, g
<1> QED
  BY <1>1, <1>4, <1>5

LEMMA Natural ==
    ASSUME PaymentTypes
    PROVE  leftover \in Nat
BY EvmPaymentAssumption DEF PaymentTypes

LEMMA BalanceFacts ==
    ASSUME IInv, PaymentTypes
    PROVE  /\ PendingCount \in mined .. Size /\ mined \in 0 .. Size /\ Size \in Nat
           /\ \A n \in 0 .. Size : AllowanceAt[n] \in Nat
           /\ AllowanceAt[mined] = 0 => Balance \in {0, Unlimited}
<1>1. /\ slot \in [Nonces -> Calls \cup {NoCall}] /\ mined \in 0 .. Size
      /\ PendingCount \in mined .. Size /\ Size \in Nat
  BY Constants, PendingFacts DEF IInv, TypeOK, Size
<1>2. \A n \in 0 .. Size : AllowanceAt[n] \in Nat
  BY <1>1, ChainType, AllowanceIsChain, Natural
<1>3. AllowanceAt[mined] = 0 => AllowanceAt[PendingCount] \in {0, Unlimited}
  BY <1>1, ChainStaysEmptyOrFull, AllowanceIsChain
<1> QED
  BY <1>1, <1>2, <1>3 DEF Balance

(* As long as nothing is sent, the next transaction finds the same.        *)
LEMMA NothingSent ==
    ASSUME UNCHANGED <<slot, kind, leftover>>, PendingCount' = PendingCount
    PROVE  /\ Balance' = Balance
           /\ \A p \in Payments : Pays(p)' <=> Pays(p)
<1>1. AllowanceAt' = AllowanceAt
  BY AllowanceIsChain
<1> QED
  BY <1>1 DEF Balance, Pays

(* A transaction that is sent finds the balance and leaves what it makes   *)
(* of it; the payments before it still do not revert.                      *)
LEMMA OneSent ==
    ASSUME IInv, TypeOK', PaymentTypes, sender.at = "broadcast", ~skipped,
           slot' = Sent, UNCHANGED <<mined, kind, leftover>>
    PROVE  /\ Balance' = After(sender.call, Balance)
           /\ \A p \in Payments : Pays(p) => Pays(p)'
           /\ \A p \in Payments :
                sender.call = <<p, "pay">> /\ Balance >= Amount[p] => Pays(p)'
<1> DEFINE P == PendingCount
           c == sender.call
<1>1. /\ P \in Nonces /\ slot' = [slot EXCEPT ![P] = c] /\ PendingCount' = P + 1
  BY SentCount
<1>2. /\ P \in 0 .. Size /\ P \in 0 .. Size - 1 /\ Size \in Nat /\ P \in Nat
      /\ Nonces = 0 .. Size - 1 /\ c # NoCall
      /\ slot \in [Nonces -> Calls \cup {NoCall}]
  <2>1. Nonces = 0 .. Size - 1 /\ Size \in Nat /\ NoCall \notin Calls
    BY Constants
  <2>2. c \in Calls /\ slot \in [Nonces -> Calls \cup {NoCall}]
    BY DEF IInv, SenderInv, TypeOK
  <2> QED
    BY <1>1, <2>1, <2>2
<1> HIDE DEF P, c
<1>3. AllowanceAt = ChainOf(slot) /\ AllowanceAt' = ChainOf(slot')
  BY AllowanceIsChain
<1>4. \A k \in 0 .. P - 1 : slot[k] = slot'[k]
  BY <1>1, <1>2
<1>5. \A n \in 0 .. P : ChainOf(slot)[n] = ChainOf(slot')[n]
  BY <1>2, <1>4, ChainPrefix
<1>6. \A n \in 0 .. P : AllowanceAt'[n] = AllowanceAt[n]
  BY <1>3, <1>5
<1>7. slot'[P] = c /\ \A n \in Nonces : n < P => slot'[n] = slot[n]
  BY <1>1, <1>2
<1>8. AllowanceAt'[P + 1] = After(c, AllowanceAt[P])
  <2>1. ChainOf(slot')[P + 1] = After(c, ChainOf(slot')[P])
    BY <1>2, <1>7, ChainSteps
  <2> QED
    BY <1>2, <1>3, <1>5, <2>1
<1>9. Balance' = After(c, Balance) /\ Balance = AllowanceAt[P]
  BY <1>1, <1>8 DEF Balance, P
<1>10. ASSUME NEW p \in Payments, Pays(p)
       PROVE  Pays(p)'
  <2>1. PICK n \in Nonces : n < P /\ slot[n] = <<p, "pay">> /\ AllowanceAt[n] >= Amount[p]
    BY <1>10 DEF Pays, P
  <2>2. n < P + 1 /\ slot'[n] = <<p, "pay">> /\ AllowanceAt'[n] = AllowanceAt[n]
    BY <1>2, <1>6, <1>7, <2>1
  <2> QED
    BY <1>1, <2>1, <2>2 DEF Pays
<1>11. ASSUME NEW p \in Payments, c = <<p, "pay">>, Balance >= Amount[p]
       PROVE  Pays(p)'
  <2>1. P < P + 1 /\ slot'[P] = <<p, "pay">> /\ AllowanceAt'[P] = Balance
    BY <1>2, <1>6, <1>7, <1>9, <1>11
  <2> QED
    BY <1>1, <1>11, <2>1 DEF Pays
<1> QED
  BY <1>9, <1>10, <1>11 DEF c

-----------------------------------------------------------------------------
(* Payments take turns                                                     *)

(* The call under way goes on, or ends and comes to o.                     *)
Ends(o) ==
    /\ sender.at # "idle" /\ sender'.at = "idle"
    /\ outcome' = [outcome EXCEPT ![sender.call] = o]

CallMoves ==
    /\ todo' = todo
    /\ \/ /\ sender'.at = sender.at \/ (sender.at # "idle" /\ sender'.at # "idle")
          /\ sender'.at # "idle" => sender'.call = sender.call
          /\ outcome' = outcome
       \/ Ends("returned") \/ Ends("thrown")

(* No payment is worked on that was not; one whose call threw no longer.   *)
LEMMA WorkedOnLess ==
    ASSUME IInv, CallMoves, NEW p \in Payments, Working(p)'
    PROVE  /\ Working(p)
           /\ Ends("thrown") => p # sender.call[1]
<1>0. outcome \in [Calls -> {"none", "returned", "thrown"}]
  BY DEF IInv, TypeOK
<1>1. Started(p) /\ todo[p] # <<>>
  BY DEF Working, Started, CallMoves
<1>2. \A c \in Calls : c[1] = p /\ outcome'[c] # "none" => outcome'[c] = "returned"
  BY DEF Working, Begun
<1>3. CASE outcome' = outcome /\ ~Ends("thrown")
  BY <1>1, <1>2, <1>3 DEF Working, Begun
<1>4. ASSUME NEW o \in {"returned", "thrown"}, Ends(o)
      PROVE  Working(p) /\ (o = "thrown" => p # sender.call[1])
  <2>1. /\ sender.call \in Calls /\ outcome[sender.call] = "none"
        /\ outcome'[sender.call] = o
        /\ \A c \in Calls : c # sender.call => outcome'[c] = outcome[c]
    BY <1>0, <1>4 DEF Ends, IInv, SenderInv
  <2>2. \A c \in Calls : c[1] = p /\ outcome[c] # "none" => outcome[c] = "returned"
    BY <1>2, <2>1
  <2>3. Working(p)
    BY <1>1, <2>2 DEF Working, Begun
  <2>4. o = "thrown" => p # sender.call[1]
    BY <1>2, <2>1
  <2> QED
    BY <2>3, <2>4
<1>5. CASE Ends("thrown")
  BY <1>4, <1>5
<1>6. CASE Ends("returned") /\ ~Ends("thrown")
  BY <1>4, <1>6
<1> QED
  BY <1>3, <1>5, <1>6 DEF CallMoves

LEMMA TurnMoves ==
    ASSUME IInv, TurnInv, CallMoves
    PROVE  TurnInv'
<1>1. \A p, q \in Payments : Working(p)' /\ Working(q)' => p = q
  BY WorkedOnLess DEF TurnInv
<1>2. ASSUME sender'.at # "idle"
      PROVE  /\ todo'[sender'.call[1]] = Rest(sender'.call[2])
             /\ \A q \in Payments : Working(q)' => q = sender'.call[1]
  <2>1. sender.at # "idle" /\ sender'.call = sender.call /\ todo' = todo
    BY <1>2 DEF CallMoves, Ends
  <2> QED
    BY <2>1, WorkedOnLess DEF TurnInv
<1> QED
  BY <1>1, <1>2 DEF TurnInv

(* The steps of a call that send nothing, and those beside it.             *)
Still ==
    /\ UNCHANGED <<slot, kind, leftover, stale, skipped>>
    /\ PendingCount' = PendingCount
    /\ CallMoves /\ ~Ends("returned")

LEMMA AllowanceStill ==
    ASSUME IInv, TurnInv, AllowanceInv, Still
    PROVE  AllowanceInv'
<1> SUFFICES ASSUME ~skipped', ~stale', NEW p \in Payments, kind'[p] = "token"
             PROVE  /\ sender'.at = "idle" /\ Working(p)' => Finds(p, Head(todo[p]))'
                    /\ sender'.at # "idle" /\ sender'.call[1] = p =>
                         \/ Finds(p, sender.call[2])'
                         \/ (sender'.call[2] = "pay" /\ Pays(p)')
                    /\ outcome'[<<p, "pay">>] = "returned" => Pays(p)'
  BY DEF AllowanceInv
<1>1. /\ ~skipped /\ ~stale /\ kind[p] = "token" /\ todo' = todo
      /\ Balance' = Balance /\ (Pays(p)' <=> Pays(p))
  BY NothingSent DEF Still, CallMoves
<1>2. /\ sender.at = "idle" /\ Working(p) => Finds(p, Head(todo[p]))
      /\ sender.at # "idle" /\ sender.call[1] = p =>
           Finds(p, sender.call[2]) \/ (sender.call[2] = "pay" /\ Pays(p))
      /\ outcome[<<p, "pay">>] = "returned" => Pays(p)
  BY <1>1 DEF AllowanceInv
<1>3. ASSUME sender'.at = "idle", Working(p)'
      PROVE  Finds(p, Head(todo[p]))'
  <2>1. Working(p) /\ (Ends("thrown") => p # sender.call[1])
    BY <1>3, WorkedOnLess DEF Still
  <2>2. sender.at = "idle"
    BY <1>3, <2>1 DEF Still, CallMoves, TurnInv
  <2> QED
    BY <1>1, <1>2, <2>1, <2>2 DEF Finds
<1>4. ASSUME sender'.at # "idle", sender'.call[1] = p
      PROVE  Finds(p, sender.call[2])' \/ (sender'.call[2] = "pay" /\ Pays(p)')
  <2>1. sender.at # "idle" /\ sender'.call = sender.call
    BY <1>4 DEF Still, CallMoves, Ends
  <2> QED
    BY <1>1, <1>2, <1>4, <2>1 DEF Finds
<1>5. ASSUME outcome'[<<p, "pay">>] = "returned"
      PROVE  Pays(p)'
  <2>1. outcome \in [Calls -> {"none", "returned", "thrown"}] /\ <<p, "pay">> \in Calls
    BY CallParts DEF IInv, TypeOK, Steps
  <2>2. outcome' = outcome \/ outcome' = [outcome EXCEPT ![sender.call] = "thrown"]
    BY DEF Still, CallMoves, Ends
  <2>3. outcome[<<p, "pay">>] = "returned"
    BY <1>5, <2>1, <2>2
  <2> QED
    BY <1>1, <1>2, <2>3
<1> QED
  BY <1>3, <1>4, <1>5

LEMMA AllowanceSent ==
    ASSUME IInv, TypeOK', PaymentTypes, TurnInv, AllowanceInv,
           sender.at = "broadcast", ~skipped, slot' = Sent,
           UNCHANGED <<mined, kind, leftover, stale>>, CallMoves
    PROVE  AllowanceInv'
<1>a. PICK p \in Payments, s \in Steps : sender.call = <<p, s>>
  <2>1. sender.call \in Calls
    BY DEF IInv, SenderInv, TypeOK
  <2> QED
    BY <2>1, CallParts
<1>b. sender.call[1] = p /\ sender.call[2] = s
  BY <1>a
<1>0. /\ sender.at # "idle" /\ sender.call \in Calls /\ outcome[sender.call] = "none"
      /\ p \in Payments /\ s \in Steps /\ sender.call = <<p, s>>
      /\ outcome \in [Calls -> {"none", "returned", "thrown"}]
      /\ todo' = todo /\ todo[p] = Rest(s)
      /\ \A q \in Payments : Working(q) => q = p
  BY <1>a, <1>b DEF IInv, SenderInv, TypeOK, TurnInv, CallMoves
<1>1. /\ Balance' = After(<<p, s>>, Balance)
      /\ \A q \in Payments : Pays(q) => Pays(q)'
      /\ s = "pay" /\ Balance >= Amount[p] => Pays(p)'
      /\ Balance \in Nat
  <2>1. Balance \in Nat
    BY BalanceFacts DEF Balance
  <2>2. /\ Balance' = After(sender.call, Balance)
        /\ \A q \in Payments : Pays(q) => Pays(q)'
        /\ \A q \in Payments :
             sender.call = <<q, "pay">> /\ Balance >= Amount[q] => Pays(q)'
    BY OneSent
  <2>3. Balance' = After(<<p, s>>, Balance)
    BY <1>0, <2>2
  <2>4. s = "pay" /\ Balance >= Amount[p] => Pays(p)'
    BY <1>a, <2>2
  <2> QED
    BY <2>1, <2>2, <2>3, <2>4
<1> SUFFICES ASSUME ~skipped', ~stale', NEW q \in Payments, kind'[q] = "token"
             PROVE  /\ sender'.at = "idle" /\ Working(q)' => Finds(q, Head(todo[q]))'
                    /\ sender'.at # "idle" /\ sender'.call[1] = q =>
                         \/ Finds(q, sender.call[2])'
                         \/ (sender'.call[2] = "pay" /\ Pays(q)')
                    /\ outcome'[<<q, "pay">>] = "returned" => Pays(q)'
  BY <1>0 DEF AllowanceInv, CallMoves, Ends
<1>2. /\ q = p => Finds(q, s) \/ (s = "pay" /\ Pays(q))
      /\ outcome[<<q, "pay">>] = "returned" => Pays(q)
  BY <1>0, <1>b DEF AllowanceInv
<1>3. sender'.at # "idle" => sender'.call = sender.call
  BY DEF CallMoves, Ends
<1>4. Working(q)' => q = p
  BY <1>0, WorkedOnLess
<1>5. outcome'[<<q, "pay">>] = "returned" =>
        outcome[<<q, "pay">>] = "returned" \/ (q = p /\ s = "pay")
  <2>1. <<q, "pay">> \in Calls
    BY CallParts DEF Steps
  <2>2. \/ outcome' = outcome
        \/ \E o \in {"returned", "thrown"} : outcome' = [outcome EXCEPT ![<<p, s>>] = o]
    BY <1>0 DEF CallMoves, Ends
  <2> QED
    BY <1>0, <2>1, <2>2
<1>6. CASE q # p
  BY <1>0, <1>b, <1>1, <1>2, <1>3, <1>4, <1>5, <1>6
<1>7. CASE q = p /\ s = "pay"
  <2>1. Pays(q)'
    <3>1. Pays(q) => Pays(q)'
      BY <1>1
    <3>2. Finds(p, s) => Pays(q)'
      BY <1>1, <1>7 DEF Finds
    <3> QED
      BY <1>2, <1>7, <3>1, <3>2
  <2>2. todo[q] = <<>>
    BY <1>0, <1>7 DEF Rest
  <2>3. ~Working(q)'
    BY <1>0, <2>2 DEF Working
  <2> QED
    BY <1>b, <1>3, <1>7, <2>1, <2>3
<1>8. CASE q = p /\ s = "approve"
  <2>1. Balance' = Unlimited /\ Unlimited \in Nat /\ Amount[q] \in Nat /\ Amount[q] < Unlimited
    <3>1. Balance \in {0, Unlimited}
      BY <1>2, <1>8 DEF Finds
    <3> QED
      BY <1>0, <1>1, <1>8, <3>1, AfterIs, CallParts
  <2>2. Head(todo[q]) = "pay"
    BY <1>0, <1>8 DEF Rest
  <2>3. Finds(q, Head(todo[q]))' /\ Finds(q, "approve")'
    BY <1>0, <2>1, <2>2 DEF Finds
  <2>4. outcome'[<<q, "pay">>] = "returned" => Pays(q)'
    BY <1>1, <1>2, <1>5, <1>8
  <2>5. sender'.at # "idle" => Finds(q, sender.call[2])'
    BY <1>0, <1>b, <1>3, <1>8, <2>1 DEF Finds
  <2> QED
    BY <2>3, <2>4, <2>5
<1>9. CASE q = p /\ s = "reset"
  <2>1. Balance' = 0
    BY <1>0, <1>1, <1>9, AfterIs
  <2>2. Head(todo[q]) = "approve"
    BY <1>0, <1>9 DEF Rest
  <2>3. Finds(q, Head(todo[q]))' /\ Finds(q, "reset")'
    BY <1>0, <2>1, <2>2 DEF Finds
  <2>4. outcome'[<<q, "pay">>] = "returned" => Pays(q)'
    BY <1>1, <1>2, <1>5, <1>9
  <2>5. sender'.at # "idle" => Finds(q, sender.call[2])'
    BY <1>0, <1>b, <1>3, <1>9, <2>1 DEF Finds
  <2> QED
    BY <2>3, <2>4, <2>5
<1> QED
  BY <1>0, <1>6, <1>7, <1>8, <1>9 DEF Steps

-----------------------------------------------------------------------------
(* Each step keeps both                                                    *)

(* Unless a nonce is skipped, every broadcast reaches the node.            *)
LEMMA BroadcastSends ==
    ASSUME IInv, NEW reply \in Answers, Broadcast(reply)
    PROVE  /\ sender.at = "broadcast" /\ mined' = mined
           /\ ~skipped' => ~skipped /\ slot' = Sent
           /\ todo' = todo => CallMoves
<1>1. /\ sender.at = "broadcast" /\ reply \in Replies(sender.nonce) /\ mined' = mined
      /\ slot' = IF reply \in {"taken", "lost", "known"} THEN Sent ELSE slot
      /\ skipped' = (skipped \/ reply = "refused")
  BY DEF Broadcast, BeyondSender, Sent
<1>2. ASSUME ~skipped'
      PROVE  ~skipped /\ slot' = Sent
  <2>1. sender.nonce \in Nonces /\ slot[sender.nonce] = NoCall
    BY <1>1, <1>2, PendingFacts DEF IInv, PrefixInv, SenderInv
  <2> QED
    BY <1>1, <1>2, <2>1 DEF Replies
<1>3. \/ sender' = Idle /\ outcome' = [outcome EXCEPT ![sender.call] = "returned"]
      \/ sender' = Idle /\ outcome' = [outcome EXCEPT ![sender.call] = "thrown"]
      \/ sender' = [sender EXCEPT !.at = "reset", !.nonce = Unset] /\ outcome' = outcome
  BY DEF Broadcast, Throw
<1>4. /\ Idle.at = "idle"
      /\ [sender EXCEPT !.at = "reset", !.nonce = Unset].at = "reset"
      /\ [sender EXCEPT !.at = "reset", !.nonce = Unset].call = sender.call
  BY DEF Idle, IInv, TypeOK
<1>5. todo' = todo => CallMoves
  BY <1>1, <1>3, <1>4 DEF CallMoves, Ends
<1> QED
  BY <1>1, <1>2, <1>5

(* The other steps of a call, of the refresh and of the chain.             *)
LEMMA StillSteps ==
    ASSUME IInv, UNCHANGED <<kind, leftover, todo, stale>>,
           \/ Prepare \/ PrepareFails \/ TakeNonce \/ TakeNonceFails
           \/ Reset \/ ResetDone \/ RefreshStart \/ RefreshEnd
           \/ Mine \/ UNCHANGED vars
    PROVE  Still
<1>1. \A f \in {"send", "sync", "wait"} :
          /\ [sender EXCEPT !.at = f].at = f /\ [sender EXCEPT !.at = f].call = sender.call
          /\ [sender EXCEPT !.at = f, !.own = Shared].at = f
          /\ [sender EXCEPT !.at = f, !.own = Shared].call = sender.call
  BY DEF IInv, TypeOK
<1>2. /\ Retried.at = "prepare" /\ Retried.call = sender.call /\ Idle.at = "idle"
      /\ [sender EXCEPT !.own = cached].at = sender.at
      /\ [sender EXCEPT !.own = cached].call = sender.call
  BY DEF IInv, TypeOK, Retried, Idle
<1>a. sender.at # "idle" => /\ outcome \in [Calls -> {"none", "returned", "thrown"}]
                            /\ sender.call \in Calls /\ outcome[sender.call] = "none"
  BY DEF IInv, SenderInv, TypeOK
<1>3. ASSUME Throw, sender.at # "idle"
      PROVE  Ends("thrown") /\ ~Ends("returned")
  BY <1>2, <1>3, <1>a DEF Throw, Ends
<1>4. ASSUME sender'.at = sender.at \/ (sender.at # "idle" /\ sender'.at # "idle"),
             sender'.call = sender.call, outcome' = outcome
      PROVE  CallMoves /\ ~Ends("returned")
  BY <1>4 DEF CallMoves, Ends
<1>5. ASSUME UNCHANGED <<slot, mined, skipped>>, CallMoves, ~Ends("returned")
      PROVE  Still
  BY <1>5, PendingKept DEF Still
<1>6. CASE Prepare
  BY <1>1, <1>4, <1>5, <1>6 DEF Prepare, BeyondSender, history
<1>7. CASE PrepareFails \/ TakeNonceFails
  BY <1>3, <1>5, <1>7 DEF PrepareFails, TakeNonceFails, BeyondSender, history, CallMoves
<1>8. CASE TakeNonce
  <2>1. sender'.at = "broadcast" /\ sender'.call = sender.call /\ sender.at = "send"
    BY <1>8 DEF TakeNonce, IInv, TypeOK
  <2> QED
    BY <1>4, <1>5, <1>8, <2>1 DEF TakeNonce, BeyondSender, history
<1>9. CASE Reset
  BY <1>1, <1>4, <1>5, <1>9 DEF Reset, BeyondSender, history
<1>10. CASE ResetDone
  BY <1>2, <1>3, <1>4, <1>5, <1>10 DEF ResetDone, BeyondSender, history, CallMoves
<1>11. CASE RefreshStart
  BY <1>2, <1>4, <1>5, <1>11 DEF RefreshStart, history
<1>12. CASE RefreshEnd
  BY <1>2, <1>3, <1>4, <1>5, <1>12 DEF RefreshEnd, history, CallMoves
<1>13. CASE Mine
  <2>1. PendingCount' = PendingCount /\ UNCHANGED <<slot, sender, outcome, skipped>>
    BY <1>13, MineCount DEF Mine, history
  <2> QED
    BY <1>4, <2>1 DEF Still
<1>14. CASE UNCHANGED vars
  BY <1>4, <1>5, <1>14 DEF vars, history
<1> QED
  BY <1>6, <1>7, <1>8, <1>9, <1>10, <1>11, <1>12, <1>13, <1>14

LEMMA StillKeeps ==
    ASSUME IInv, TurnInv, AllowanceInv, Still
    PROVE  TurnInv' /\ AllowanceInv'
BY TurnMoves, AllowanceStill DEF Still

(* The steps a payment needs are chosen by the allowance in blocks, and    *)
(* fit what the pending transactions make of it.                           *)
LEMMA TransferFinds ==
    ASSUME IInv, PaymentInv, TurnInv, AllowanceInv, NEW p \in Payments, Transfer(p)
    PROVE  TurnInv' /\ AllowanceInv'
<1>0. /\ sender.at = "idle" /\ \A q \in Payments : ~Working(q)
      /\ UNCHANGED <<slot, mined, sender, outcome, skipped, kind, leftover>>
      /\ todo \in [Payments -> Todos] /\ todo' = [todo EXCEPT ![p] = StepsFor(p)]
      /\ PendingCount' = PendingCount
  BY PendingKept DEF Transfer, vars, history, PaymentInv, PaymentTypes
<1>1. \A q \in Payments : q # p => ~Working(q)'
  BY <1>0 DEF Working, Started, Begun
<1>2. TurnInv'
  BY <1>0, <1>1 DEF TurnInv
<1>3. Balance' = Balance /\ \A q \in Payments : Pays(q)' <=> Pays(q)
  BY <1>0, NothingSent
<1>4. ASSUME ~stale', kind[p] = "token"
      PROVE  Finds(p, Head(StepsFor(p)))
  <2>1. /\ AllowanceAt[mined] \in Nat /\ Balance \in Nat /\ Amount[p] \in Nat
        /\ AllowanceAt[mined] = 0 => Balance \in {0, Unlimited}
    BY BalanceFacts, CallParts DEF PaymentInv, Balance
  <2>2. StepsFor(p) = <<"pay">> => Balance >= Amount[p]
    <3>1. StepsFor(p) = <<"pay">> => ~(AllowanceAt[PendingCount] < Amount[p])
      BY <1>4 DEF Transfer
    <3> QED
      BY <2>1, <3>1 DEF Balance
  <2>3. StepsFor(p) = ApprovalSteps(AllowanceAt[mined], Amount[p])
    BY <1>4 DEF StepsFor
  <2>4. CASE AllowanceAt[mined] >= Amount[p]
    <3>1. StepsFor(p) = <<"pay">>
      BY <2>3, <2>4 DEF ApprovalSteps
    <3> QED
      BY <2>2, <3>1 DEF Finds
  <2>5. CASE ~(AllowanceAt[mined] >= Amount[p]) /\ AllowanceAt[mined] > 0
    <3>1. StepsFor(p) = <<"reset", "approve", "pay">>
      BY <2>3, <2>5 DEF ApprovalSteps
    <3> QED
      BY <3>1 DEF Finds
  <2>6. CASE ~(AllowanceAt[mined] >= Amount[p]) /\ AllowanceAt[mined] = 0
    <3>1. StepsFor(p) = <<"approve", "pay">>
      BY <2>3, <2>6 DEF ApprovalSteps
    <3> QED
      BY <2>1, <2>6, <3>1 DEF Finds
  <2> QED
    BY <2>1, <2>4, <2>5, <2>6
<1>5. ~stale' => ~stale
  BY DEF Transfer
<1>6. AllowanceInv'
  <2> SUFFICES ASSUME ~skipped', ~stale', NEW q \in Payments, kind'[q] = "token"
               PROVE  /\ Working(q)' => Finds(q, Head(todo[q]))'
                      /\ outcome'[<<q, "pay">>] = "returned" => Pays(q)'
    BY <1>0 DEF AllowanceInv
  <2>1. outcome'[<<q, "pay">>] = "returned" => Pays(q)'
    BY <1>0, <1>3, <1>5 DEF AllowanceInv
  <2>2. Working(q)' => q = p
    BY <1>1
  <2>3. q = p => Finds(q, Head(todo[q]))'
    <3>1. q = p => todo'[q] = StepsFor(p) /\ Finds(q, Head(StepsFor(p)))
      BY <1>0, <1>4
    <3> QED
      BY <1>3, <3>1 DEF Finds
  <2> QED
    BY <2>1, <2>2, <2>3
<1> QED
  BY <1>2, <1>6

LEMMA BeginFinds ==
    ASSUME IInv, PaymentInv, TurnInv, AllowanceInv, NEW p \in Payments, BeginStep(p)
    PROVE  TurnInv' /\ AllowanceInv'
<1> DEFINE c == <<p, Head(todo[p])>>
<1>0. /\ sender.at = "idle" /\ Working(p) /\ sender'.at = "prepare" /\ sender'.call = c
      /\ UNCHANGED <<slot, mined, outcome, skipped, kind, leftover, stale>>
      /\ todo \in [Payments -> Todos] /\ todo' = [todo EXCEPT ![p] = Tail(todo[p])]
      /\ PendingCount' = PendingCount
  BY PendingKept DEF BeginStep, Begin, Idle, BeyondSender, history, PaymentInv, PaymentTypes
<1>1. c[1] = p /\ c[2] = Head(todo[p])
  OBVIOUS
<1>2. todo'[p] = Rest(Head(todo[p]))
  <2>1. todo[p] \in {<<"pay">>, <<"approve", "pay">>, <<"reset", "approve", "pay">>}
    BY <1>0 DEF Working, Started, Todos
  <2>2. /\ Tail(<<"pay">>) = <<>>
        /\ Tail(<<"approve", "pay">>) = <<"pay">>
        /\ Tail(<<"reset", "approve", "pay">>) = <<"approve", "pay">>
        /\ Head(<<"pay">>) = "pay" /\ Head(<<"approve", "pay">>) = "approve"
        /\ Head(<<"reset", "approve", "pay">>) = "reset"
    OBVIOUS
  <2>3. /\ Rest("pay") = <<>> /\ Rest("approve") = <<"pay">>
        /\ Rest("reset") = <<"approve", "pay">>
    BY DEF Rest
  <2>4. todo'[p] = Tail(todo[p])
    BY <1>0
  <2> QED
    BY <2>1, <2>2, <2>3, <2>4
<1>3. \A q \in Payments : Working(q)' => q = p
  <2>1. \A q \in Payments : q # p /\ Working(q)' => Working(q)
    BY <1>0 DEF Working, Started, Begun
  <2> QED
    BY <1>0, <2>1 DEF TurnInv
<1> HIDE DEF c
<1>4. TurnInv'
  BY <1>0, <1>1, <1>2, <1>3 DEF TurnInv
<1>5. Balance' = Balance /\ \A q \in Payments : Pays(q)' <=> Pays(q)
  BY <1>0, NothingSent
<1>6. AllowanceInv'
  <2> SUFFICES ASSUME ~skipped', ~stale', NEW q \in Payments, kind'[q] = "token"
               PROVE  /\ sender'.call[1] = q => Finds(q, sender.call[2])'
                      /\ outcome'[<<q, "pay">>] = "returned" => Pays(q)'
    BY <1>0 DEF AllowanceInv
  <2>1. outcome'[<<q, "pay">>] = "returned" => Pays(q)'
    BY <1>0, <1>5 DEF AllowanceInv
  <2>2. q = p => Finds(q, Head(todo[p]))
    BY <1>0 DEF AllowanceInv
  <2>3. sender'.call[1] = q => Finds(q, sender.call[2])'
    BY <1>0, <1>1, <1>5, <2>2 DEF Finds
  <2> QED
    BY <2>1, <2>3
<1> QED
  BY <1>4, <1>6

(* A crash leaves no payment half done; what was returned still pays.      *)
LEMMA CrashFinds ==
    ASSUME IInv, TypeOK', PaymentInv, TurnInv, AllowanceInv, CrashStep
    PROVE  TurnInv' /\ AllowanceInv'
<1>1. /\ sender'.at = "idle" /\ UNCHANGED <<mined, skipped, kind, leftover, stale>>
      /\ \/ slot' = slot
         \/ sender.at = "broadcast" /\ slot' = Sent
  BY DEF CrashStep, Crash, Throw, Idle, IInv, SenderInv, history, Sent
<1>2. \A q \in Payments : ~Working(q)'
  BY DEF CrashStep, Working, Started
<1>3. \A q \in Payments :
        outcome'[<<q, "pay">>] = "returned" => outcome[<<q, "pay">>] = "returned"
  <2>1. /\ outcome \in [Calls -> {"none", "returned", "thrown"}]
        /\ \A q \in Payments : <<q, "pay">> \in Calls
    BY CallParts DEF IInv, TypeOK, Steps
  <2>2. outcome' = outcome \/ outcome' = [outcome EXCEPT ![sender.call] = "thrown"]
    BY DEF CrashStep, Crash, Throw
  <2> QED
    BY <2>1, <2>2
<1>4. ASSUME ~skipped, NEW q \in Payments, Pays(q)
      PROVE  Pays(q)'
  <2>1. CASE slot' = slot
    <3>1. PendingCount' = PendingCount
      BY <1>1, <2>1, PendingKept
    <3> QED
      BY <1>1, <1>4, <2>1, <3>1, NothingSent
  <2>2. CASE sender.at = "broadcast" /\ slot' = Sent
    BY <1>1, <1>4, <2>2, OneSent DEF PaymentInv
  <2> QED
    BY <1>1, <2>1, <2>2
<1>5. TurnInv'
  BY <1>1, <1>2 DEF TurnInv
<1>6. AllowanceInv'
  BY <1>1, <1>2, <1>3, <1>4 DEF AllowanceInv
<1> QED
  BY <1>5, <1>6

LEMMA BroadcastFinds ==
    ASSUME IInv, TypeOK', PaymentInv, TurnInv, AllowanceInv,
           UNCHANGED <<kind, leftover, todo, stale>>,
           NEW reply \in Answers, Broadcast(reply)
    PROVE  TurnInv' /\ AllowanceInv'
<1>1. /\ sender.at = "broadcast" /\ mined' = mined /\ CallMoves
      /\ ~skipped' => ~skipped /\ slot' = Sent
  BY BroadcastSends
<1>2. TurnInv'
  BY <1>1, TurnMoves
<1>3. ~skipped' => AllowanceInv'
  BY <1>1, AllowanceSent DEF PaymentInv
<1>4. skipped' => AllowanceInv'
  BY DEF AllowanceInv
<1> QED
  BY <1>2, <1>3, <1>4

-----------------------------------------------------------------------------
(* Theorems about the allowance                                            *)

(* One payment is worked on at a time, and each of its steps finds the     *)
(* allowance it was chosen for, although the steps before it and the       *)
(* payments before it may all still be pending.                            *)
THEOREM AllowanceInvariant == PaymentSpec => [](TurnInv /\ AllowanceInv)
<1>1. PaymentInit => TurnInv /\ AllowanceInv
  <2> SUFFICES ASSUME PaymentInit
               PROVE  TurnInv /\ AllowanceInv
    OBVIOUS
  <2>1. sender.at = "idle"
    BY DEF PaymentInit, Init, Idle
  <2>2. \A p \in Payments : ~Working(p)
    BY DEF PaymentInit, Working, Started
  <2>3. \A p \in Payments : outcome[<<p, "pay">>] # "returned"
    BY CallParts DEF PaymentInit, Init, Steps
  <2> QED
    BY <2>1, <2>2, <2>3 DEF TurnInv, AllowanceInv
<1>2. ASSUME IInv, PaymentInv, TypeOK', TurnInv, AllowanceInv,
             [PaymentNext]_<<vars, paymentVars>>
      PROVE  TurnInv' /\ AllowanceInv'
  <2>1. ASSUME NEW p \in Payments, Transfer(p)
        PROVE  TurnInv' /\ AllowanceInv'
    BY <1>2, <2>1, TransferFinds
  <2>2. ASSUME NEW p \in Payments, BeginStep(p)
        PROVE  TurnInv' /\ AllowanceInv'
    BY <1>2, <2>2, BeginFinds
  <2>3. CASE PrepareStep
    <3>1. Prepare /\ UNCHANGED <<kind, leftover, todo, stale>>
      BY <2>3 DEF PrepareStep
    <3> QED
      BY <1>2, <3>1, StillSteps, StillKeeps
  <2>4. CASE SenderStepRest
    <3>1. UNCHANGED <<kind, leftover, todo, stale>>
      BY <2>4 DEF SenderStepRest
    <3>2. CASE \E reply \in Answers : Broadcast(reply)
      BY <1>2, <3>1, <3>2, BroadcastFinds
    <3>3. CASE PrepareFails \/ TakeNonce \/ TakeNonceFails \/ Reset \/ ResetDone
      BY <1>2, <3>1, <3>3, StillSteps, StillKeeps
    <3> QED
      BY <2>4, <3>2, <3>3 DEF SenderStepRest
  <2>5. CASE Others
    <3>1. UNCHANGED <<kind, leftover, todo, stale>>
      BY <2>5 DEF Others, paymentVars
    <3>2. RefreshStart \/ RefreshEnd \/ Mine
      BY <2>5 DEF Others
    <3> QED
      BY <1>2, <3>1, <3>2, StillSteps, StillKeeps
  <2>6. CASE CrashStep
    BY <1>2, <2>6, CrashFinds
  <2>7. CASE BaseFeeMoves \/ UNCHANGED <<vars, paymentVars>>
    <3>1. UNCHANGED vars /\ UNCHANGED <<kind, leftover, todo, stale>>
      BY <2>7 DEF BaseFeeMoves, paymentVars
    <3> QED
      BY <1>2, <3>1, StillSteps, StillKeeps
  <2> QED
    BY <1>2, <2>1, <2>2, <2>3, <2>4, <2>5, <2>6, <2>7 DEF PaymentNext
<1>3. IInv => TypeOK
  BY DEF IInv
<1> QED
  BY <1>1, <1>2, <1>3, InductiveInvariantPayment, PTL DEF PaymentSpec

(* A payment whose hash was returned is at a nonce the node will reach and *)
(* does not revert for want of an allowance: whatever resets, approvals    *)
(* and payments are pending before it, and whatever was resent, lost or    *)
(* crashed, unless a nonce was skipped or an allowance was relied on that  *)
(* a pending transaction takes away.                                       *)
THEOREM ReturnedPaymentsPay == PaymentSpec => []ReturnedPays
<1>1. IInv /\ PaymentInv /\ AllowanceInv => ReturnedPays
  <2> SUFFICES ASSUME IInv, PaymentInv, AllowanceInv, ~skipped, ~stale,
                      NEW p \in Payments, outcome[<<p, "pay">>] = "returned"
               PROVE  \E n \in Nonces : /\ n < PendingCount /\ slot[n] = <<p, "pay">>
                                        /\ ~Reverts(slot[n], AllowanceAt[n])
    BY DEF ReturnedPays
  <2>1. CASE kind[p] = "token"
    <3>1. PICK n \in Nonces : /\ n < PendingCount /\ slot[n] = <<p, "pay">>
                              /\ AllowanceAt[n] >= Amount[p]
      BY <2>1 DEF AllowanceInv, Pays
    <3>2. AllowanceAt[n] \in Nat /\ Amount[p] \in Nat
      <4>1. n \in 0 .. Size
        BY Constants
      <4> QED
        BY <4>1, BalanceFacts, CallParts DEF PaymentInv
    <3>3. ~Reverts(slot[n], AllowanceAt[n])
      BY <3>1, <3>2 DEF Reverts
    <3> QED
      BY <3>1, <3>3
  <2>2. CASE kind[p] # "token"
    <3>1. <<p, "pay">> \in Calls /\ <<p, "pay">> # NoCall
      BY CallParts DEF Steps
    <3>2. PICK n \in Nonces : slot[n] = <<p, "pay">>
      BY <3>1 DEF IInv, PrefixInv
    <3>3. n < PendingCount
      BY <3>1, <3>2 DEF IInv, PrefixInv
    <3>4. ~Reverts(slot[n], AllowanceAt[n])
      BY <2>2, <3>2 DEF Reverts, Spends
    <3> QED
      BY <3>2, <3>3, <3>4
  <2> QED
    BY <2>1, <2>2
<1> QED
  BY <1>1, AllowanceInvariant, InductiveInvariantPayment, PTL
=============================================================================
