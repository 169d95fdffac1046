SPECIFICATION Spec
CONSTANTS
  h1 = h1  h2 = h2
  g1 = g1  g2 = g2  g3 = g3
  Groups = {g1, g2, g3}
  Packets <- MCPackets
  Rows <- MCRows
  MaxArtifact = 1
  MaxEdges = 3
  MaxMessages = 3
  MaxRows = 2
  ModuleIds = {"a", "b"}
  FragmentIds = {"f", "g"}
  Orders = {1, 2}
  MaxEntries = 3
  Products <- MCProducts
  Runs <- MCRuns
  Results <- MCResults
  MaxTries = 3
  HoursPerDay = 4
  MinutesPerHour = 2
  MonthLengths <- MCMonthLengths
  Zones <- MCZones
  ScanDays = 9
  Payloads <- MCPayloads
  Revised <- MCRevised
  Instants = {0, 23, 25, 28, 30}
  MaxFires = 3
  MaxRevisions = 2
  Sources <- MCSources
  Bodies <- MCBodies
  Contexts <- MCContexts
  MaxStored = 2
  Recoverers = {"r1", "r2"}
  MaxStarts = 3
  Installation = "assistant"
  Slugs <- MCSlugs
  SpecEnv <- MCSpecEnv
  SpecVolumes <- MCSpecVolumes
  UrlSafe = {"assistant", "browser", "keys"}
  Answers <- MCAnswers
  Hosts = {h1, h2}
  Profiles <- MCProfiles
  Registered = {"browser", "orchestrator"}
  SpecialistProfiles = {"browser"}
  max_specialists <- MCMaxSpecialists
  max_concurrent_jobs <- MCMaxJobs
  GroupSlugs = {g1, g2, g3}
  Jobs = {g1, g2, g3}
  None = None
  Events = {"start", "complete", "cancel"}
  MaxFaults = 1
  MaxMarks = 1
SYMMETRY Sym
CHECK_DEADLOCK FALSE
INVARIANT PassedReleaseAssembles
INVARIANT FinalTextOnce
INVARIANT HandoffsTerminate
INVARIANT LimitsBounded
PROPERTY ImplementsJobBoard
INVARIANT CalendarCadence
INVARIANT ObservedStaysHome
INVARIANT RecoveryAlone
INVARIANT ScopedSpawns
