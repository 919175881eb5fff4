\* One onboarding with the retry limit of the code, under the wait_condition
\* contract its annotation assumes; intent and router change meanwhile.
SPECIFICATION FairSpec
CONSTANTS
    i1 = i1
    i2 = i2
    Intents = {i1, i2}
    LegacyConfig = LegacyConfig
    Attempts = 3
    WaitReturnsBool = TRUE
INVARIANTS
    IInv
    ReadOnlyUntilApproved
    SuccessIsJustified
    ReportedIsRecorded
    ManagedWasPushed
PROPERTIES
    Ends
