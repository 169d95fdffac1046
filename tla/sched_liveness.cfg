SPECIFICATION FairSpec
CHECK_DEADLOCK FALSE
CONSTANTS
    a = a
    b = b
    chan1 = chan1
    chan2 = chan2
    standing = standing
    Items = {a, b}
    Recurring = {a, b}
    RunAs = {b}
    Standing = {a, b}
    Gated = {a}
    Sessions = {chan1, standing}
    StandingSession = standing
    SessionOf <- BothStanding
    MaxTime = 1
    MaxSeq = 3
    MaxEffects = 1
    Faults = {"restart", "turn_error", "claim_error", "gate_error", "worker_error", "source_error"}
    MaxFaults = 2
PROPERTY DueWorkDone
