CONSTANTS
    Keys = {k1}
    MetaKeys = {}
    NoKey = NoKey
    RowCounts = {1, 2}
    MaxInbound = 1
    Faults = {"mark_error"}
    MaxFaults = 1
SPECIFICATION Spec
INVARIANTS
    WholeTurnReturned
CHECK_DEADLOCK FALSE
