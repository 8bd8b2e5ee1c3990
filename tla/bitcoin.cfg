SPECIFICATION MonitoredSpec
CONSTANTS
    pay1 = pay1
    pay2 = pay2
    dep = dep
    Payouts = {pay1, pay2}
    Deposits = {dep}
    Amount <- Amounts
    Received <- Values
    InitialOutputs = 1
    Estimates = {0, 2}
    MaxFeeRate = 4
    SkipConfirm = FALSE
    MaxRetries = 2
    MaxTxs = 3
    MaxFaults = 1
    NoCall = none
    Minima = {5000, 10000}
INVARIANT TypeOK
INVARIANT FeeWithinCap
INVARIANT OnePaymentPerCall
INVARIANT ReturnedIsNotDisplaced
INVARIANT SilenceIsTrue
PROPERTY AlertIsTrue
SYMMETRY Alike
CHECK_DEADLOCK FALSE
