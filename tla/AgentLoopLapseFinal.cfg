SPECIFICATION Spec
CONSTANTS
    Owners = {w1, w2}
    Nobody = Nobody
    Bodies = {b1, b2}
    Costs = {1}
    MaxSteps = 2
    TokenBudget = 10
    MinViable = 1
    MaxOutputTokens = 5
    MaxInputTokens = 5
    MaxStepAttempts = 2
    MaxRunRetries = 1
    Mishaps = {"unreachable", "in_flight", "refusal"}
    LeasesCanLapse = TRUE
    MaxFaults = 2
SYMMETRY Symmetry
PROPERTY TerminalIsFinal
