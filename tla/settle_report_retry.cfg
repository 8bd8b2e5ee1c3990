SPECIFICATION Spec
CONSTANTS
    Trades = {t1}
    Requests = {q1}
    Monitors = {m1}
    Resent = {}
    BatchSize = 2
    MaxRetries = 1
    MaxSignals = 1
    MaxCrashes = 0
    MaxFaults = 1
    NoTrade = none
    Kinds <- SwapOnEvm
    MaxSends = 2
    Terms = {c1}
    t1 = t1
    t2 = t2
    MaxStalls = 1
PROPERTY FailedReportIsRetried
CHECK_DEADLOCK FALSE
