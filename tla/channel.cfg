CONSTANTS
    rob = rob
    U1 = "U1"
    Messages = {"t1", "t2", "t3"}
    About <- MCAbout
    ChannelType <- MCChannelType
    Identity <- MCIdentity
    Users = {rob}
    Addresses = {"U1", "U2"}
    policy = "strict"
    mode = "mention_sticky"
    SEEN_CAPACITY = 2
    STICKY_TTL_SECS = 1
    MaxFaults = 1
    Horizon = 1
SPECIFICATION Spec
CHECK_DEADLOCK FALSE
INVARIANT OneTurnPerMessage
INVARIANT EngagedForAReason
PROPERTY EveryMessageSettled
