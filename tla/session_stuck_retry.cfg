CONSTANTS
    Keys = {k1}
    MetaKeys = {}
    NoKey = NoKey
    RowCounts = {1}
    MaxInbound = 2
    Faults = {}
    MaxFaults = 0
SPECIFICATION FairSpec
PROPERTY
    KeyedTurnServed
CHECK_DEADLOCK FALSE
