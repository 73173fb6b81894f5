SPECIFICATION Spec
CONSTANTS
    Payments <- OnePayment
    Amount = 1
    Limit = 1
    Refreshes <- Nobody
    Reissues = {r1}
    Pauses = {p1, p2}
    MaxTokens = 3
    MaxFaults = 1
    MaxCrashes = 0
    LostReplies = FALSE
    StableNamespace = TRUE
    Reversals = TRUE
SYMMETRY PauseSymmetry
INVARIANTS
    NewestIsCurrent
    PausedIsBlocked
CHECK_DEADLOCK FALSE
