SPECIFICATION Spec
CONSTANTS
    payer = payer
    q1 = q1
    excelA = excelA
    excelB = excelB
    Registrations <- TwoRegistrations
    Payments <- OnePayment
    MaxPayments = 1
    Storers <- OnlyPayer
    Payer = payer
    Configs <- TwoConfigs
    ConfigOf <- OwnConfig
    MatchOf <- OwnValue
    Values <- TwoValues
    MaxRows = 2
    MaxRuns = 2
    MaxImports = 1
    Requests <- OneRequest
    Targets <- Deletion
    Pagings <- SmallPagesOrUnsorted
    MaxChanges = 1
    MaxCrashes = 1
PROPERTIES
    NoPaymentToDeleted
CHECK_DEADLOCK FALSE
