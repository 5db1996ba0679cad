SPECIFICATION Spec
CONSTANTS
    p1 = p1
    p2 = p2
    p3 = p3
    p4 = p4
    v1 = v1
    v2 = v2
    None = None
    Proc <- MCProc
    Value <- OneValue
    Faulty = {p4}
    F = 1
    FaultyMessages <- AllLies
    Authors = {p1, p4}
    MaxTransactions = 1
    SendOwnDeliveredTransactions = {}
ACTION_CONSTRAINT WithinOneInstance
SYMMETRY OthersSymmetry
INVARIANTS
    Totality
    Validity
    DeliveredImpliesOwnReady
PROPERTIES
    ImplementsReliableBroadcast
CHECK_DEADLOCK FALSE
