SPECIFICATION FairSpec
CONSTANTS
    r1 = r1
    r2 = r2
    Registrations <- OneRegistration
    Payments <- OnePayment
    MaxPayments = 1
    MaxJobs = 3
    MaxCrashes = 1
    MaxStalledCount = 1
    Faults <- FaultyRequests
INVARIANTS
    PaymentCountIsPaymentsMade
PROPERTIES
    EveryJobResolves
CHECK_DEADLOCK FALSE
