SPECIFICATION Spec
CHECK_DEADLOCK FALSE
CONSTANTS
    a = a
    b = b
    chan1 = chan1
    chan2 = chan2
    standing = standing
    Items = {a, b}
    Recurring = {a}
    RunAs = {}
    Standing = {}
    Gated = {}
    Sessions = {chan1}
    StandingSession = standing
    SessionOf <- OneChannel
    MaxTime = 2
    MaxSeq = 3
    MaxEffects = 3
    Faults = {"crash", "restart", "turn_error", "claim_error"}
    MaxFaults = 2
INVARIANTS SlotRunsOnce RecurrenceNeverHalts RecurringConsistent
PROPERTY TerminalForGood
