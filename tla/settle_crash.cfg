SPECIFICATION Spec
CONSTANTS
    Trades = {t1}
    Requests = {q1, q2}
    Monitors = {m1}
    Resent = {"signal"}
    BatchSize = 2
    MaxRetries = 2
    MaxSignals = 2
    MaxCrashes = 1
    MaxFaults = 1
    NoTrade = none
    Kinds <- AnyKind
    MaxSends = 2
    Terms = {c1, c2}
    t1 = t1
    t2 = t2
    MaxStalls = 1
INVARIANT TypeOK
INVARIANT PaymentsAccounted
CHECK_DEADLOCK FALSE
INVARIANT PaidWasChosen
PROPERTY ImplementsPayout
INVARIANT SolanaPaidOncePerTerms
