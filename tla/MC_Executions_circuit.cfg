SPECIFICATION PartSpec
CONSTANTS
    Parts = {"circuit"}
    Limited = TRUE
    Asked = {"catalog", "invoke"}
    None = None
    Sessions = {"first", "other"}
    Manifests <- DemoManifests
    Ends <- DemoEnds
    Second = 2
    Faults = {"raise", "missing"}
    Runners = {"caller"}
    ProviderAttempts = 2
    Inputs = {"old", "new"}
    Modes = {"NONE", "OUTPUT_NONEMPTY", "MANUAL_REVIEW"}
    MaxInvocations = 3
    Workers <- PlanWorkers
    Validators <- PlanValidators
    Bound = {"agent", "checker", "reviewer"}
    Idempotent = {"checker"}
    Expiring = {"agent", "checker"}
    External = TRUE
    Scopes = {"format"}
    Independent = TRUE
    Gated = TRUE
    WorkAttempts = 4
    Threshold = 3
    Cooldown = 2
    FrameParts = 2
    RequestParts = 2
    Capacity = 1
    Limit = 2
    MaxOutput = 3
    Deadline = 1
PROPERTIES CircuitIsTemporary
CHECK_DEADLOCK FALSE
