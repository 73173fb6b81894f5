SPECIFICATION Spec
CONSTANTS
    r1 = r1
    pay = pay
    reply1 = reply1
    reply2 = reply2
    Registrations <- OneRegistration
    Payments <- OnePayment
    MaxPayments = 1
    Storers <- OneReplierAndPayer
    Repliers <- OneReplier
    Payer = pay
    Whatsapp = TRUE
    MaxJobs = 2
    MaxCards = 2
    MaxIncoming = 1
    MaxEvents = 1
    MaxCrashes = 1
    LostAnswers = TRUE
INVARIANTS
    TypeOK
    OneVoucherPerPayment
    LinkedVoucherIsValid
    ReportedPaymentHasVoucher
    ValidCardIsKnown
    UnsentVoucherIsReported
CHECK_DEADLOCK FALSE
