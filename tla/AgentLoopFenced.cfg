SPECIFICATION Spec
CONSTANTS
    Owners = {w1, w2}
    Nobody = Nobody
    Bodies = {b1, b2}
    Costs = {1, 3}
    MaxSteps = 3
    TokenBudget = 4
    MinViable = 1
    MaxOutputTokens = 3
    MaxInputTokens = 1
    MaxStepAttempts = 3
    MaxRunRetries = 3
    Mishaps = {"unreachable", "refusal", "truncated", "in_flight", "needs_review", "tool_bug", "request_error"}
    LeasesCanLapse = FALSE
    MaxFaults = 3
SYMMETRY Symmetry
INVARIANTS ReplayFidelity CompletedIsAnswered TerminalHoldsNoLease StepCapHolds RetriesBounded BudgetOvershootBounded
PROPERTIES TerminalIsFinal ImplementsLifecycle
