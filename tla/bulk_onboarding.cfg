\* A batch with a repeated site, operators who pause it and change its limit,
\* and the API onboarding single sites at the same time.
SPECIFICATION FairSpec
CONSTANTS
    s1 = s1
    s2 = s2
    s3 = s3
    Sites = {s1, s2, s3}
    Batch <- Repeating
    MaxConcurrent = 2
    Rates <- MCRates
INVARIANTS
    IInv
    StatusIsTrue
    ResultIsTrue
    RunningWithinLimit
    PauseTakesHold
PROPERTIES
    BatchEnds
