SPECIFICATION Spec
CONSTANTS
    p1 = p1
    p2 = p2
    p3 = p3
    v1 = v1
    v2 = v2
    x1 = x1
    x2 = x2
    s1 = s1
    s2 = s2
    None = None
    Proc = {p1, p2}
    Faulty = {}
    F = 0
    Value <- OneValue
    WitnessThreshold = 2
    MixingTime = 1
    OwnWitnessSet <- AllWitnesses
    PotWitnessSet <- AllWitnesses
    Secret = {x1}
    Share = {s1}
    Cipher = {s1}
    Sample <- SameSample
    Hash <- PlainHash
    EncodeEntropy <- SameShares
    Reconstruct <- Mixture
    Encrypt <- PlainEncrypt
    Decrypt <- PlainDecrypt
    FaultyContent <- OwnContent
    FaultyData <- NoData
    FaultyTo = {p1, p2}
    FaultyMessages <- NoMessages
    Authors = {p1}
    MaxTransactions = 2
    SendOwnDeliveredTransactions = {p1}
INVARIANTS
    TypeOK
    CommitAfterMixing
    ProgressInv
    Validity
PROPERTIES
    CommittedIsFinal
CHECK_DEADLOCK FALSE
