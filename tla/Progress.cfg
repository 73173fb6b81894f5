SPECIFICATION Spec
CONSTANTS
    r1 = r1
    r2 = r2
    q1 = q1
    q2 = q2
    q3 = q3
    visa = visa
    safaricom = safaricom
    Registrations <- TwoRegistrations
    Fsps <- TwoFsps
    FspOf <- OneVisa
    Requests <- ThreeRequests
SYMMETRY ExchangeSymmetry
INVARIANTS
    TypeOK
    JobHiddenOnlyByNamesake
    
    
CHECK_DEADLOCK FALSE
