\* A check-in after a worker restart is not noticed.
SPECIFICATION FairSpec
CONSTANTS
    i1 = i1
    i2 = i2
    Intents = {i1, i2}
    None = None
    Torn = Torn
    Attempts = 2
    WriteAttempts = 2
    MaxStarts = 2
    MaxLate = 1
PROPERTIES
    CheckinIsNotLost
