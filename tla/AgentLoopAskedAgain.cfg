SPECIFICATION Spec
CONSTANTS
    Owners = {w1, w2}
    Nobody = Nobody
    Bodies = {b1}
    Costs = {1}
    MaxSteps = 3
    TokenBudget = 10
    MinViable = 1
    MaxOutputTokens = 5
    MaxInputTokens = 5
    MaxStepAttempts = 2
    MaxRunRetries = 2
    Mishaps = {"unreachable", "in_flight", "refusal"}
    LeasesCanLapse = FALSE
    MaxFaults = 1
SYMMETRY Symmetry
INVARIANT AskedEndsWithUserTurn
