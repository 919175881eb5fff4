\* Two executions for one device, one after the other, the second one finding
\* what the first one left behind.
SPECIFICATION FairSpec
CONSTANTS
    i1 = i1
    i2 = i2
    Intents = {i1, i2}
    None = None
    Torn = Torn
    Attempts = 2
    WriteAttempts = 2
    MaxStarts = 2
    MaxLate = 1
INVARIANTS
    IInv
    ReadyBeforeCheckin
    ReportedIsRecorded
PROPERTIES
    BootstrapEnds
