SPECIFICATION FairSpec
CONSTANTS
    Owners = {w1, w2}
    Nobody = Nobody
    Bodies = {b1}
    Costs = {1}
    MaxSteps = 2
    TokenBudget = 10
    MinViable = 1
    MaxOutputTokens = 5
    MaxInputTokens = 5
    MaxStepAttempts = 2
    MaxRunRetries = 2
    Mishaps = {"unreachable", "refusal"}
    LeasesCanLapse = TRUE
    MaxFaults = 2
INVARIANTS TypeOK RowsContiguous TokensMatchSteps MessagesMatchSteps OneLateStep DivergesOnlyAfterLateStep
PROPERTIES StepsAppendOnly LiveLeaseNotStolen EveryRunEnds
