SPECIFICATION Spec
CHECK_DEADLOCK FALSE
CONSTANTS
    a = a
    b = b
    chan1 = chan1
    chan2 = chan2
    standing = standing
    Items = {a, b}
    Recurring = {a}
    RunAs = {a, b}
    Standing = {a}
    Gated = {}
    Sessions = {chan1, standing}
    StandingSession = standing
    SessionOf <- BothStanding
    MaxTime = 2
    MaxSeq = 3
    MaxEffects = 2
    Faults = {"crash", "restart", "claim_error", "worker_error", "gate_error", "finalize_error", "central_error", "repair_error"}
    MaxFaults = 2
INVARIANTS OneWorkerPerOccurrence
