SPECIFICATION Spec
CHECK_DEADLOCK FALSE
CONSTANTS
    a = a
    b = b
    chan1 = chan1
    chan2 = chan2
    standing = standing
    Items = {a}
    Recurring = {a}
    RunAs = {a}
    Standing = {a}
    Gated = {a}
    Sessions = {standing}
    StandingSession = standing
    SessionOf <- StandingAlone
    MaxTime = 2
    MaxSeq = 3
    MaxEffects = 0
    Faults = {}
    MaxFaults = 0
INVARIANT RecurrenceNeverHalts
