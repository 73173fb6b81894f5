SPECIFICATION Spec
CONSTANTS
    r1 = r1
    r2 = r2
    w = w
    Registrations <- TwoRegistrations
    Payments <- OnePayment
    MaxPayments = 1
    Storers <- OneWorker
    Worker = w
    MaxJobs = 4
    MaxCrashes = 1
    MaxStalls = 1
    LateCrash = FALSE
INVARIANTS
    TypeOK
    AtMostOnePayout
    SuccessMeansPaid
    PayoutIsTraceable
CHECK_DEADLOCK FALSE
