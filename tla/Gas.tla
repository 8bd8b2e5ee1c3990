--------------------------------- MODULE Gas ---------------------------------
(***************************************************************************)
(* The gas limit and the gas price TransactionService gives a transaction. *)
(* An absent option or an empty answer is 0, which the code treats alike   *)
(* (0n is falsy).  Prices are in any unit; gas is in thousands, because    *)
(* the defaults are.                                                       *)
(***************************************************************************)
EXTENDS Naturals

DEFAULT_GAS_BUFFER_PERCENTAGE == 20
DEFAULT_MIN_GAS_BUFFER == 21
DEFAULT_GAS_PRICE_BUFFER_PERCENTAGE == 15
DEFAULT_MAX_GAS_PRICE_MULTIPLIER == 3
DEFAULT_GAS_LIMIT == 500

(* TransactionOptions, as far as gas goes.                                 *)
Options ==
    [maxFeePerGas : Nat, maxPriorityFeePerGas : Nat, gasPrice : Nat,
     fallbackGasPrice : Nat, maxGasPrice : Nat, gasPriceBufferPercentage : Nat,
     gasBufferPercentage : Nat, minGasBuffer : Nat, maxGasLimit : Nat,
     fallbackGasLimit : Nat]

DefaultOptions ==
    [maxFeePerGas |-> 0, maxPriorityFeePerGas |-> 0, gasPrice |-> 0,
     fallbackGasPrice |-> 0, maxGasPrice |-> 0,
     gasPriceBufferPercentage |-> DEFAULT_GAS_PRICE_BUFFER_PERCENTAGE,
     gasBufferPercentage |-> DEFAULT_GAS_BUFFER_PERCENTAGE,
     minGasBuffer |-> DEFAULT_MIN_GAS_BUFFER, maxGasLimit |-> 0,
     fallbackGasLimit |-> DEFAULT_GAS_LIMIT]

-----------------------------------------------------------------------------
(* Gas limit                                                               *)

Smaller(a, b) == IF a < b THEN a ELSE b
Larger(a, b)  == IF a > b THEN a ELSE b

(* A limit of 0 is none.                                                   *)
AtMost(x, limit) == IF limit = 0 THEN x ELSE Smaller(x, limit)

ApplyGasBuffer(estimate, options) ==
    AtMost(estimate + Larger((estimate * options.gasBufferPercentage) \div 100,
                             options.minGasBuffer),
           options.maxGasLimit)

(* The contract's estimate, the provider's if that fails, the fallback     *)
(* limit if both do; a failed estimate is 0.                               *)
EstimateContractGas(contractEstimate, providerEstimate, options) ==
    ApplyGasBuffer(
        IF contractEstimate # 0 THEN contractEstimate
        ELSE IF providerEstimate # 0 THEN providerEstimate
        ELSE options.fallbackGasLimit,
        options)

-----------------------------------------------------------------------------
(* Gas price                                                               *)

FeeData == [maxFeePerGas : Nat, maxPriorityFeePerGas : Nat, gasPrice : Nat]

(* getFeeData threw.                                                       *)
NoFeeData == [maxFeePerGas |-> 0, maxPriorityFeePerGas |-> 0, gasPrice |-> 0]

BaseFeePerGas(blockBaseFee, feeData) ==
    IF blockBaseFee # 0 THEN blockBaseFee ELSE feeData.gasPrice

ApplyGasPriceBuffer(price, options) ==
    price + (price * options.gasPriceBufferPercentage) \div 100

EnforceMaxGasPrice(price, options, baseFee) ==
    AtMost(AtMost(price, options.maxGasPrice),
           DEFAULT_MAX_GAS_PRICE_MULTIPLIER * baseFee)

FinalPrice(price, options, baseFee) ==
    EnforceMaxGasPrice(ApplyGasPriceBuffer(price, options), options, baseFee)

(* A gas configuration: what one unit of gas may cost at most, and how     *)
(* much of it may go to the miner; a legacy price is both.                 *)
DynamicFee(maxFee, priorityFee, options, baseFee) ==
    LET final == FinalPrice(maxFee, options, baseFee)
    IN  [maxFee |-> final, priorityFee |-> Smaller(priorityFee, final)]

LegacyFee(price, options, baseFee) ==
    LET final == FinalPrice(price, options, baseFee)
    IN  [maxFee |-> final, priorityFee |-> final]

(* No price: getOptimalGasPrice throws.                                    *)
Unpriced == [maxFee |-> 0, priorityFee |-> 0]

(* Mutation: the base fee itself, without room for it to rise.             *)
ProviderPriceTight(feeData, options, baseFee) ==
    DynamicFee(baseFee, feeData.maxPriorityFeePerGas, options, baseFee)

(* Twice the base fee, the provider's own proposal without one, or the     *)
(* provider's legacy price; the fallback when nothing is there.            *)
ProviderPrice(feeData, options, baseFee) ==
    IF feeData.maxPriorityFeePerGas # 0 /\ baseFee # 0
    THEN DynamicFee(2 * baseFee, feeData.maxPriorityFeePerGas, options, baseFee)
    ELSE IF feeData.maxPriorityFeePerGas # 0 /\ feeData.maxFeePerGas # 0
    THEN DynamicFee(feeData.maxFeePerGas, feeData.maxPriorityFeePerGas, options, baseFee)
    ELSE IF feeData.gasPrice # 0
    THEN LegacyFee(feeData.gasPrice, options, baseFee)
    ELSE IF options.fallbackGasPrice # 0
    THEN LegacyFee(options.fallbackGasPrice, options, baseFee)
    ELSE Unpriced

(* What the caller gives comes first; no caller of the PMM gives any.      *)
OptimalGasPrice(feeData, options, baseFee) ==
    IF options.maxFeePerGas # 0 /\ options.maxPriorityFeePerGas # 0
    THEN DynamicFee(options.maxFeePerGas, options.maxPriorityFeePerGas, options, baseFee)
    ELSE IF options.gasPrice # 0
    THEN LegacyFee(options.gasPrice, options, baseFee)
    ELSE ProviderPrice(feeData, options, baseFee)
=============================================================================
