\* A device counted twice, as passed and as drifted.
SPECIFICATION FairSpec
CONSTANTS
    d1 = d1
    d2 = d2
    d3 = d3
    Devices = {d1, d2, d3}
    SiteDevices <- MCSite
    Requests <- MCRequests
    Attempts = 3
    WriteAttempts = 5
INVARIANTS
    OneResultPerDevice
