SPECIFICATION Spec
CONSTANTS
    Records = {r1}
    Scans = {s1, s2}
    Polls = {p1}
    MaxQuotes = 2
    MaxCrashes = 2
    MaxFaults = 1
    SendFaults = TRUE
    NoRecord = none
    MaxStalls = 1
INVARIANT TypeOK
INVARIANT DepositsWithinRuns
INVARIANT OneAddressPaid
INVARIANT HandedOverIsFunded
PROPERTY ImplementsPayout
INVARIANT PolledAddressFunded
CHECK_DEADLOCK FALSE
