SPECIFICATION FairSpec
CONSTANTS
    a1 = a1
    a2 = a2
    NoMessage = NoMessage
    Actors <- MCActors
    ChannelSize = 1
    StampModulus = 2
    Sizes = {"fits"}
    Lossy = TRUE
    Duplicating = TRUE
    MaxMessages = 2
    MaxReplies = 1
INVARIANTS
    TypeOK
    AtMostOnce
PROPERTIES
    DropsOnlyDuplicates
    NoGridlock
CHECK_DEADLOCK FALSE
