CONSTANTS
    rob = rob  ann = ann  here = here  p1 = p1  p2 = p2
    Handles = {rob, ann}
    Channels = {"slack"}
    Addresses = {here}
    Procs = {p1, p2}
    None = None
    MaxInstructions = 1
    MaxDeaths = 1
    MaxApprovals = 1
    MaxQuestions = 1
    Horizon = 2
    Commands = {"list", "create", "teleport"}
    ActionKinds <- MCActionKinds
    Authorize <- MCAuthorize
    MAX_BATCH = 1
    MaxRequests = 3
    MaxFailures = 2
SPECIFICATION Spec
CHECK_DEADLOCK FALSE
INVARIANT OneOwner
PROPERTY DecidedForGood
PROPERTY EveryRequestAnswered
