SPECIFICATION Spec
CHECK_DEADLOCK FALSE
CONSTANTS
    a = a
    b = b
    chan1 = chan1
    chan2 = chan2
    standing = standing
    Items = {a, b}
    Recurring = {a}
    RunAs = {}
    Standing = {}
    Gated = {}
    Sessions = {chan1, chan2}
    StandingSession = standing
    SessionOf <- OneChannel
    MaxTime = 1
    MaxSeq = 3
    MaxEffects = 2
    Faults = {"restart"}
    MaxFaults = 1
PROPERTY TerminalForGood
