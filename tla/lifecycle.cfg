\* One Day 0 execution with its Day 1 child, and a Day 1 run of the API beside
\* them, on the pinned SDK.
SPECIFICATION FairLifeSpec
CONSTANTS
    r1 = r1
    r2 = r2
    d1 = d1
    i1 = i1
    Runs = {r1, r2}
    Devices = {d1}
    DeviceOf <- MCDeviceOf
    IdOf <- MCIdOf
    Intents = {i1}
    NoIntent = NoIntent
    OffIntent = OffIntent
    Meets <- Exact
    FetchAttempts = 2
    PushAttempts = 1
    ValidateAttempts = 1
    WriteAttempts = 1
    WaitReturnsBool = FALSE
    MaxStragglers = 1
    MaxStarted = 2
    Device = d1
    ChildOf <- MCChildOf
    Torn = Torn
    BootAttempts = 1
    Decisions <- MCDecisions
    MaxStarts = 1
INVARIANTS
    CompleteIsEarned
    QuietRecordIsFinal
PROPERTIES
    ImplementsBootstrap
    LifecycleMovesForward
    LifecycleEnds
