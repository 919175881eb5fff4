\* A paused batch goes on starting children.
SPECIFICATION FairSpec
CONSTANTS
    s1 = s1
    s2 = s2
    s3 = s3
    Sites = {s1, s2, s3}
    Batch <- Repeating
    MaxConcurrent = 2
    Rates <- MCRates
PROPERTIES
    PauseStopsSpawning
