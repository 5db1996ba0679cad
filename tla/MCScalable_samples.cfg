SPECIFICATION Spec
CONSTANTS
    p1 = p1
    p2 = p2
    p3 = p3
    v1 = v1
    v2 = v2
    None = None
    Proc = {p1, p2}
    Faulty = {}
    Value = {v1}
    GossipSamples <- ToSecond
    EchoSamples <- First
    ReadySamples <- AnyTwo
    DeliverySamples <- AnyTwo
    EchoSampleSize = 1
    ReadySampleSize = 2
    DeliverySampleSize = 2
    EchoThreshold = 1
    ReadyThreshold = 1
    DeliveryThreshold = 2
    FaultyMessages = {}
    FaultyCopies = 1
    Authors = {p1}
    MaxTransactions = 1
    SendOwnDeliveredTransactions = {p1}
INVARIANTS
    TypeOK
    Totality
    NothingMissed
    ReadyCountedTwiceAtMost
PROPERTIES
    ClosedIsFinal
CHECK_DEADLOCK FALSE
