SPECIFICATION PartSpec
CONSTANTS
    One = One
    NoRef = NoRef
    Jobs = {One}
    Capabilities <- Silent
    Autonomy = TRUE
    MaxDispatches = 2
    MaxSequence = 2
    MaxWork = 1
    MaxChats = 1
    Events <- HoldEvents
    Reports <- HoldReports
    Parts = {"hold"}
CHECK_DEADLOCK FALSE
INVARIANTS PauseProhibitsGrants
