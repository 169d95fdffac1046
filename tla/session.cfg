CONSTANTS
    Keys = {k1}
    MetaKeys = {m1}
    NoKey = NoKey
    RowCounts = {1, 2}
    MaxInbound = 3
    Faults = {"host_crash", "container_crash", "slow_container", "shutdown", "enqueue_error", "spawn_error", "stop_error", "read_error", "mark_error", "inbox_error", "emit_error"}
    MaxFaults = 2
SPECIFICATION FairSpec
INVARIANTS
    NoRedelivery
    NoReplySkipped
    OneRowPerKey
PROPERTY
    ImplementsMailbox
    EveryTurnAnswered
CHECK_DEADLOCK FALSE
