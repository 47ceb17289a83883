SPECIFICATION PartSpec
CONSTANTS
    One = One
    NoRef = NoRef
    Jobs = {One}
    Capabilities <- Silent
    Autonomy = TRUE
    MaxDispatches = 2
    MaxSequence = 2
    MaxWork = 1
    MaxChats = 1
    Events <- HoldEvents
    Reports <- HoldReports
    Parts = {"hold", "notify", "continue", "rotate"}
CHECK_DEADLOCK FALSE
INVARIANTS NothingGrantedTwice OneOutstandingEffect
PROPERTIES PauseHolds SuccessorAfterRetirement RetiredNeverContinued PredecessorIsFenced
