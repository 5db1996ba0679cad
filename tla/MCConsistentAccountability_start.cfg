SPECIFICATION Spec
CONSTANTS
    p1 = p1
    p2 = p2
    p3 = p3
    v1 = v1
    None = None
    Proc = {p1, p2}
    Faulty = {}
    Value = {v1}
    BinNum = 2
    BinCapacity = 5
    MinOwnWitnessSetSize = 2
    MinPotWitnessSetSize = 2
    OwnWitnessSetRadius = 1
    PotWitnessSetRadius = 2
    WitnessThreshold = 1
    HashedNodes = {p1}
    TransactionHash <- Hashes
    Authors = {p1}
    MaxTransactions = 2
    SendOwnDeliveredTransactions = {p1}
INVARIANTS
    NoProcessStops
CHECK_DEADLOCK FALSE
