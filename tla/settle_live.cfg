SPECIFICATION FairSpec
CONSTANTS
    Trades = {t1, t2}
    Requests = {q1}
    Monitors = {m1, m2}
    Resent = {"quote", "signal"}
    BatchSize = 2
    MaxRetries = 2
    MaxSignals = 2
    MaxCrashes = 0
    MaxFaults = 0
    NoTrade = none
    Kinds <- SwapAndLending
    MaxSends = 2
    Terms = {c1}
    t1 = t1
    t2 = t2
    MaxStalls = 1
INVARIANT PaidAtMostOnce
CHECK_DEADLOCK FALSE
PROPERTY SignalWorkedOff
