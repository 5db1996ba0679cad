SPECIFICATION Spec
CONSTANTS
    p1 = p1
    p2 = p2
    p3 = p3
    p4 = p4
    v1 = v1
    v2 = v2
    None = None
    Proc <- MCProc
    Value <- MCValue
    Faulty = {p4}
    F = 1
    FaultyMessages <- Equivocation
    Authors = {p4}
    MaxTransactions = 1
    SendOwnDeliveredTransactions = {}
SYMMETRY CorrectSymmetry
INVARIANTS
    TypeOK
    OneReadyValue
    QuorumInv
    ProgressInv
    Agreement
PROPERTIES
    DeliveredIsFinal
CHECK_DEADLOCK FALSE
