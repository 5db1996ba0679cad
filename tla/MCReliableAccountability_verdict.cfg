SPECIFICATION Spec
CONSTANTS
    p1 = p1
    p2 = p2
    p3 = p3
    v1 = v1
    v2 = v2
    x1 = x1
    x2 = x2
    s1 = s1
    s2 = s2
    None = None
    Proc = {p1, p2, p3}
    Faulty = {p3}
    F = 1
    Value <- OneValue
    WitnessThreshold = 1
    MixingTime = 1
    OwnWitnessSet <- OneWitness
    PotWitnessSet <- OneWitness
    Secret = {x1, x2}
    Share = {s1, s2}
    Cipher = {s1, s2}
    Sample <- SameSample
    Hash <- PlainHash
    EncodeEntropy <- SameShares
    Reconstruct <- Mixture
    Encrypt <- PlainEncrypt
    Decrypt <- PlainDecrypt
    FaultyContent <- FalseHash
    FaultyData <- SomeData
    FaultyTo = {p1}
    FaultyMessages <- FalseVotes
    Authors = {p1, p3}
    MaxTransactions = 1
    SendOwnDeliveredTransactions = {}
INVARIANTS
    SecretHidden
    OneVerdict
    RevealInv
PROPERTIES
    ImplementsReliableBroadcast
CHECK_DEADLOCK FALSE
