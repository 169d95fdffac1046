CONSTANTS
    None = None
    Error = Error
    Compiled <- MCCompiled
    Entries <- MCEntries
    Channels <- MCChannels
    StandingTasks <- MCStanding
    DynamicIds = {"s1"}
    MAX_DEPTH = 4
    MaxCalls = 1
    Recurrences = {FALSE}
    UsedTools = {"send_message", "schedule_message", "cancel_schedule"}
SPECIFICATION Spec
INVARIANT OnlyWiredPosts
INVARIANT StableSessions
INVARIANT AllowListHolds
PROPERTY CascadeEnds
PROPERTY EndedForGood
