\* One onboarding on the pinned SDK: a stage that fails leaves no FAILED.
SPECIFICATION FairSpec
CONSTANTS
    i1 = i1
    i2 = i2
    Intents = {i1, i2}
    LegacyConfig = LegacyConfig
    Attempts = 3
    WaitReturnsBool = FALSE
PROPERTIES
    FailureIsRecorded
