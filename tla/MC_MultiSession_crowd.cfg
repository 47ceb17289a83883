SPECIFICATION FairSpec
CONSTANTS
    Producer = Producer
    Consumer = Consumer
    Third = Third
    READY = READY
    DONE = DONE
    NoOne = NoOne
    Earlier = Earlier
    Sessions <- CrowdSessions
    Signals = {READY, DONE}
    Script <- CrowdScript
    LaunchDelay <- CrowdDelay
    Rank <- CrowdRank
    Timeout = 2
    WaitTimeout = 1
    AbortOnFirstFailure = TRUE
    PipeCapacity = 0
    PipeHolders = {}
    Faults = {}
    StaleSignals = {}
    MaxClock = 3
INVARIANTS HandshakeOrder SignalSticks
PROPERTIES FailFastStartsNothing EveryRunEnds
CHECK_DEADLOCK FALSE
