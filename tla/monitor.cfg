SPECIFICATION FairSpec
CONSTANTS
    Trades = {t1, t2}
    Lending = {t1, t2}
    Runs = {m1, m2}
    MaxTake = 2
    MaxQuotes = 2
    MaxCrashes = 1
    MaxFaults = 1
    NoTrade = none
INVARIANT TypeOK
INVARIANT RecordIsReleased
INVARIANT LostRecordsAccounted
PROPERTY ConfirmedLeavesSettling
CHECK_DEADLOCK FALSE
