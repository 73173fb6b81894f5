SPECIFICATION Spec
CONSTANTS
    r1 = r1
    r2 = r2
    Registrations <- MCRegistrations
    Payments <- OnePayment
    MaxPayments = 1
    MaxJobs = 2
    MaxCrashes = 1
    MaxStalledCount = 1
    Faults <- AllFaults
SYMMETRY RegistrationSymmetry
INVARIANTS
    TypeOK
    CallbackFindsTransfer
    SuccessMeansPaid
    TransferOfOwnJob
    CompletionMatchesPayments
CHECK_DEADLOCK FALSE
