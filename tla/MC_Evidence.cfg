SPECIFICATION PartSpec
CONSTANTS
    Parts = {"store", "ledger", "cost", "dispatch", "rules", "router", "fragments",
             "planner", "lifecycle"}
    a = a
    b = b
    x = x
    y = y
    incumbent = incumbent
    candidate = candidate
    Agents = Agents
    Guide = Guide
    Detail = Detail
    None = None
    Models = {incumbent, candidate}
    Profiles = {"profile"}
    Sources <- TwoSources
    Interval = 2
    Validity = 2
    Callers = {a, b}
    Endings = {"answer", "failed", "killed"}
    MaxTime = 3
    MaxCalls = 4
    Candidates = {candidate}
    Incumbent = incumbent
    Classes = {x, y}
    Asked = x
    Limit = 2
    Needed = 1
    Costs = {1}
    ArmCost = 1
    DayLength = 2
    MaxClock = 3
    MaxPairs = 2
    Remote = {"s"}
    Refresh = 2
    CostValidity = 3
    CostEndings = {"answer", "refused"}
    MaxNow = 5
    Dispatched <- SmallDispatched
    Trusted = a
    Other = b
    HandoffValidity = 2
    MaxDispatch = 3
    MaxRuns = 1
    MaxHandoffs = 2
    Paths = {Agents, Guide, Detail}
    Directories <- SmallDirectories
    Processes = {"first", "second", "checker"}
    Command <- SmallCommand
    Options <- SmallOptions
    Versions <- SmallVersions
    Scenarios <- SmallScenarios
    Faults = {"crash"}
    Hours = 4
    Days = 3
    Catalogs <- SmallCatalogs
    Routings <- SmallRoutings
    MaxHour = 13
    Providers <- TwoProviders
    BoundaryOf <- SmallBoundaryOf
    Aggregations <- SmallAggregations
    Qualities <- SmallQualities
    CatalogLives = {2}
    HealthLives = {1, 2}
    EvidenceLives = {1}
    Aggregators = {a}
    Malformed = b
    MaxFragment = 2
    MaxAggregations = 2
    Descriptors <- SmallDescriptors
    Orders <- SmallOrders
    PlanTime = 3
    MaxPlan = 4
    Window = 5
    Soft = 2
    Hard = 4
    CheckpointDelta = 3
CHECK_DEADLOCK FALSE
INVARIANTS EvidenceIsPaired AttestedDidRun SnapshotIsOneWorktree ReuseIsFresh DecisionIsCurrent PlanHoldsUntilItExpires
PROPERTIES HeldEvidenceStays NoLostUpdate ContactsAreSpaced StoredIsFound LifecycleNeverWeakens
