SPECIFICATION MCSpec
CONSTANTS
    Procs = {1, 2}
    Builds = {1, 2}
    Modules = {"a", "b"}
    Rank <- TwoRanks
    Baseline <- TwoBaselines
    Domain <- TwoDomains
    Alters <- Altering
    Drifted = {}
    Sessions = {"s"}
    SessionVersion <- TwoSchemas
    Gated = FALSE
    Commands <- OperatorAndDaemon
    MaxVersion = 2
    Faults = {}
    MaxFaults = 0
    x = x
    t1 = t1
    t2 = t2
    Texts = {x}
    Sorted <- MCSorted
    Shape <- MCShape
    Tabs = {t1, t2}
    Owner = "main"
    Limit = 1
    TopN = 2
    MaxWork = 0
    Requests <- MCRequests
    Routes <- MCRoutes
    Tables <- MCTables
    MaxTokens = 0
    MaxStops = 0
INVARIANT NewerSchemaFlagged
