SPECIFICATION Spec
CONSTANTS
    p1 = p1
    p2 = p2
    p3 = p3
    v1 = v1
    v2 = v2
    x1 = x1
    x2 = x2
    s1 = s1
    s2 = s2
    None = None
    Proc = {p1, p2, p3}
    Faulty = {p3}
    F = 1
    Value <- TwoValues
    WitnessThreshold = 2
    MixingTime = 1
    OwnWitnessSet <- AllWitnesses
    PotWitnessSet <- AllWitnesses
    Secret = {x1}
    Share = {s1}
    Cipher = {s1}
    Sample <- SameSample
    Hash <- PlainHash
    EncodeEntropy <- SameShares
    Reconstruct <- Mixture
    Encrypt <- PlainEncrypt
    Decrypt <- PlainDecrypt
    FaultyContent <- OwnContent
    FaultyData <- NoData
    FaultyTo = {p1, p2, p3}
    FaultyMessages <- Split
    Authors = {p3}
    MaxTransactions = 1
    SendOwnDeliveredTransactions = {}
SYMMETRY WitnessSymmetry
INVARIANTS
    QuorumBehindReady
    Agreement
    WitnessInv
CHECK_DEADLOCK FALSE
