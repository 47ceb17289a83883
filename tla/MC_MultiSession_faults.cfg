SPECIFICATION Spec
CONSTANTS
    Producer = Producer
    Consumer = Consumer
    Third = Third
    READY = READY
    DONE = DONE
    NoOne = NoOne
    Earlier = Earlier
    Sessions <- HandshakeSessions
    Signals = {READY, DONE}
    Script <- ClearScript
    LaunchDelay <- HandshakeDelay
    Rank <- HandshakeRank
    Timeout = 3
    WaitTimeout = 1
    AbortOnFirstFailure = FALSE
    PipeCapacity = 1
    PipeHolders = {Consumer}
    Faults = {"start", "interrupt"}
    StaleSignals = {READY}
    MaxClock = 4
INVARIANTS NoProcessAfterReturn PassMeansEveryScriptRan
PROPERTIES KeepsRunPromise
CHECK_DEADLOCK FALSE
