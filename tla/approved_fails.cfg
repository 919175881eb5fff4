\* An approved run is not completed.
SPECIFICATION Spec
CONSTANTS
    r1 = r1
    r2 = r2
    r3 = r3
    d1 = d1
    i1 = i1
    i2 = i2
    Runs = {r1}
    Devices = {d1}
    DeviceOf <- MCDeviceOf
    IdOf <- MCIdOf
    Intents = {i1, i2}
    NoIntent = NoIntent
    OffIntent = OffIntent
    Meets <- Exact
    FetchAttempts = 1
    PushAttempts = 1
    ValidateAttempts = 1
    WriteAttempts = 2
    WaitReturnsBool = FALSE
    MaxStragglers = 1
    Decisions <- MCDecisions
    MaxStarted = 1
SYMMETRY Interchangeable
PROPERTIES
    ApprovedRunIsCompleted
