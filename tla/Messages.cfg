SPECIFICATION Spec
CONSTANTS
    bulkSender = bulkSender
    replySender = replySender
    h1 = h1
    Registrations <- TwoRegistrations
    WithWhatsapp <- TheFirst
    BulkQueues <- SmallBulk
    Senders <- OneOfEach
    QueueOf <- QueueOfEach
    Handlers <- OneHandler
    MaxRetryCount = 1
    MaxMessages = 1
    MaxIncoming = 1
    MaxFates = 1
    MaxFaults = 1
    MaxStalls = 1
INVARIANTS
    TypeOK
    NoMessageIsLost
    LatestMessageIsKnown
PROPERTY FinalStatusIsKept
CHECK_DEADLOCK FALSE
