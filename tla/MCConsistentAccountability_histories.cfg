SPECIFICATION Spec
CONSTANTS
    p1 = p1
    p2 = p2
    p3 = p3
    v1 = v1
    None = None
    Proc = {p1, p2, p3}
    Faulty = {p3}
    Value = {v1}
    BinNum = 2
    BinCapacity = 5
    MinOwnWitnessSetSize = 1
    MinPotWitnessSetSize = 2
    OwnWitnessSetRadius = 1
    PotWitnessSetRadius = 2
    WitnessThreshold = 1
    HashedNodes = {p1, p2, p3}
    TransactionHash <- Hashes
    Authors = {p1}
    MaxTransactions = 3
    SendOwnDeliveredTransactions = {p1}
ACTION_CONSTRAINT StressTest
INVARIANTS
    TypeOK
    Validity
    SameHistorySameWitnesses
    SelectsNearest
    OwnWithinReach
CHECK_DEADLOCK FALSE
