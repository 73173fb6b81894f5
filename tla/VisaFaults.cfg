SPECIFICATION Spec
CONSTANTS
    Payments <- TwoPayments
    Amount = 2
    Limit = 3
    Refreshes = {f1}
    Reissues <- Nobody
    Pauses <- Nobody
    MaxTokens = 6
    MaxFaults = 1
    MaxCrashes = 1
    LostReplies = TRUE
    StableNamespace = TRUE
    Reversals = FALSE
INVARIANTS
    TypeOK
    MarkedStepsAreDone
    TransferredOnce
    WithinLimit
    ReportedMoneyWasTransferred
PROPERTY TransfersReachACard
CHECK_DEADLOCK FALSE
