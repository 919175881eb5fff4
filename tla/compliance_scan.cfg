\* One scan with the retry limits of the code, beside the Day 1 runs of the
\* same devices.
SPECIFICATION FairSpec
CONSTANTS
    d1 = d1
    d2 = d2
    d3 = d3
    Devices = {d1, d2, d3}
    SiteDevices <- MCSite
    Requests <- MCRequests
    Attempts = 3
    WriteAttempts = 5
INVARIANTS
    IInv
    EveryDeviceReported
    SilenceMeansPassed
    RecordsAreMeasured
PROPERTIES
    ScanEnds
