SPECIFICATION MCSpec
CONSTANTS
    Procs = {1, 2}
    Builds = {1, 2}
    Modules = {"a", "b"}
    Rank <- TwoRanks
    Baseline <- TwoBaselines
    Domain <- TwoDomains
    Alters <- Altering
    Drifted <- EditedBaseline
    Sessions = {"s"}
    SessionVersion <- TwoSchemas
    Gated = TRUE
    Commands <- OperatorAndDaemon
    MaxVersion = 2
    Faults = {"crash", "sql_error", "step_error"}
    MaxFaults = 1
    x = x
    t1 = t1
    t2 = t2
    Texts = {x}
    Sorted <- MCSorted
    Shape <- MCShape
    Tabs = {t1, t2}
    Owner = "main"
    Limit = 1
    TopN = 2
    MaxWork = 4
    Requests <- MCRequests
    Routes <- MCRoutes
    Tables <- MCTables
    MaxTokens = 2
    MaxStops = 2
INVARIANTS RowsMatchSchema NeverOverclaims UpgradeReaches CompletedStepsDone
INVARIANT SavedStaysRetrievable
INVARIANT ReindexCatalogues
INVARIANT RemovedNotesForgotten
INVARIANT OnlyTrustedOriginsMutate
PROPERTY NoSilentOverwrite
SYMMETRY TabSymmetry
