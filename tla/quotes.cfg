SPECIFICATION Spec
CONSTANTS
    PerMicro = 2
    MicroPerCent = 1
    SatsPerBtc = 10
    MinTrade = 10
    SoftCap = 120
    HardCap = 150
    CommitmentBps = 9000
    IndicativeBps = 9500
    ThresholdBps = 1000
    indicative = indicative
    commitment = commitment
    worker = worker
    Calls = {indicative, commitment, worker}
    Request <- Asks
    Sessions = {"s"}
    Coin <- CoinOf
    Unit <- Units
    Outputs <- TxOutputs
    Vault = "vault"
    Received = 7
    AmountsOut = {100, 126}
    MarketPrices = {301, 399}
    TTL = 2
    Timeout = 1
    SessionTimeout = 2
    MaxTime = 3
INVARIANT TypeOK
INVARIANT QuoteIsBacked
INVARIANT CapHoldsAtOnePrice
INVARIANT AcceptedIsFair
CHECK_DEADLOCK FALSE
