SPECIFICATION Spec
CONSTANTS
    payer = payer
    q1 = q1
    excelA = excelA
    excelB = excelB
    Registrations <- TwoRegistrations
    Payments <- OnePayment
    MaxPayments = 1
    Storers <- OnlyPayer
    Payer = payer
    Configs <- OneConfig
    ConfigOf <- SameConfig
    MatchOf <- OwnValue
    Values <- TwoValues
    MaxRows = 1
    MaxRuns = 2
    MaxImports = 1
    Requests <- OneRequest
    Targets <- PausedOrDeleted
    Pagings <- SmallPagesOrUnsorted
    MaxChanges = 1
    MaxCrashes = 1
INVARIANTS
    TypeOK
    PaymentCountIsPaymentsMade
    BulkChangeReachesAll
    DeletedHasNoAttributes
CHECK_DEADLOCK FALSE
