SPECIFICATION FairPaymentSpec
CONSTANTS
    p1 = p1
    p2 = p2
    Payments = {p1, p2}
    Calls <- PaymentCalls
    Kinds <- KindsOf
    Amount <- Amounts
    Unlimited = 9
    Leftovers = {1}
    GasUsed <- Gases
    BaseFees = {10, 20}
    MaxRetries = 1
    MaxFaults = 2
    MaxCrashes = 1
    NoCall = none
    NoManager = nomanager
    Shared = shared
    Unset = unset
    Rejected = rejected
INVARIANT PaymentTypeOK
INVARIANT ReturnedPays
INVARIANT CopiesAccounted
INVARIANT ReturnedIsPending
PROPERTY PoisonedIsReplaced
INVARIANT OfferHolds
CHECK_DEADLOCK FALSE
