SPECIFICATION Spec
CONSTANTS
    Records = {r1}
    Scans = {s1}
    Polls = {p1}
    MaxQuotes = 2
    MaxCrashes = 0
    MaxFaults = 0
    SendFaults = TRUE
    NoRecord = none
    MaxStalls = 1
INVARIANT AcceptedTransferCanRun
CHECK_DEADLOCK FALSE
