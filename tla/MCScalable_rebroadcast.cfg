SPECIFICATION Spec
CONSTANTS
    p1 = p1
    p2 = p2
    p3 = p3
    v1 = v1
    v2 = v2
    None = None
    Proc = {p1, p2, p3}
    Faulty = {p3}
    Value = {v1, v2}
    GossipSamples <- ToSecond
    EchoSamples <- First
    ReadySamples <- First
    DeliverySamples <- First
    EchoSampleSize = 1
    ReadySampleSize = 1
    DeliverySampleSize = 1
    EchoThreshold = 1
    ReadyThreshold = 1
    DeliveryThreshold = 1
    FaultyMessages <- OtherGossip
    FaultyCopies = 1
    Authors = {p1}
    MaxTransactions = 1
    SendOwnDeliveredTransactions = {p1}
INVARIANT
    Agreement
CHECK_DEADLOCK FALSE
