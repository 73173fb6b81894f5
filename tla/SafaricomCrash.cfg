SPECIFICATION Spec
CONSTANTS
    r1 = r1
    r2 = r2
    Registrations <- MCRegistrations
    Payments <- OnePayment
    MaxPayments = 2
    MaxJobs = 2
    MaxCrashes = 2
    MaxStalledCount = 2
    Faults <- Duplicates
SYMMETRY RegistrationSymmetry
INVARIANTS
    AtMostOnePayout
    HiddenTransactionMeansInProgress
PROPERTIES
    LedgerSpec
CHECK_DEADLOCK FALSE
