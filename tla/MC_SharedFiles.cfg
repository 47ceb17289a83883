SPECIFICATION PartSpec
CONSTANTS
    Parts = {"allocation", "registry", "provisioning", "integration", "configuration"}
    UpToDate = TRUE
    p = p
    q = q
    a = a
    b = b
    c = c
    None = None
    Absent = Absent
    Draft = Draft
    Processes = {p, q}
    Uids = {a, b}
    MaxSequence = 3
    Pulls = {p, q}
    Refs = {1, 2, 3}
    Registered = {a, b, c}
    Aliases = {"alias"}
    PullEdits = 1
    MaxMerges = 2
    Needed <- SmallNeeds
    Recipes <- SmallRecipes
    Foreign = Foreign
    Provisioners = {p, q}
    ProvisionCalls = 2
    Integrations <- SmallIntegrations
    Integrators = {p, q}
    Versions = {"theirs"}
    Windows = FALSE
    FileEdits = 1
    IntegrationCalls = 3
    MaxPlans = 3
    Connections = {"one", "two"}
    Settings = {"old", "new"}
    Malformed = Malformed
    Editors = {p}
    Overlap = FALSE
    MaxSaves = 3
    MaxCommands = 4
INVARIANTS OneReferencePerArtifact MainStaysValid InstallerNeverReplayed
PROPERTIES ReferencesAreNotRecycled NothingIsLost OthersAreUntouched RollbackUndoesTheSave
CHECK_DEADLOCK FALSE
