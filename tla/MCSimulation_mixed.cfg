SPECIFICATION SimFairSpec
CONSTANTS
    p1 = p1
    p2 = p2
    v1 = v1
    None = None
    Proc <- MCProc
    Value <- MCValue
    Faulty = {}
    F = 0
    FaultyMessages = {}
    Authors <- MCProc
    MaxTransactions = 2
    SendOwnDeliveredTransactions = {p1}
    TransactionsToSendOut = 1
INVARIANTS
    SimTypeOK
    OneInFlight
    NoEarlyBroadcast
PROPERTIES
    SimulationCompletes
CHECK_DEADLOCK FALSE
