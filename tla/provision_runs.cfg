\* Two Day 1 runs for one device on the pinned SDK: two of the API, one after
\* the other, or one of the API and the child of Day 0 at the same time.
SPECIFICATION Spec
CONSTANTS
    r1 = r1
    r2 = r2
    r3 = r3
    d1 = d1
    i1 = i1
    i2 = i2
    Runs = {r1, r2, r3}
    Devices = {d1}
    DeviceOf <- MCDeviceOf
    IdOf <- MCIdOf
    Intents = {i1, i2}
    NoIntent = NoIntent
    OffIntent = OffIntent
    Meets <- Coarse
    FetchAttempts = 1
    PushAttempts = 2
    ValidateAttempts = 1
    WriteAttempts = 1
    WaitReturnsBool = FALSE
    MaxStragglers = 1
    Decisions <- MCDecisions
    MaxStarted = 2
SYMMETRY Interchangeable
INVARIANTS
    IInv
    OneConfigPerRun
    SuccessIsJustified
    ReportedIsRecorded
PROPERTIES
    StatusMovesForward
    SuccessOnOwnConfig
    Promised
