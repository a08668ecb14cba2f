SPECIFICATION StepSpec
CONSTANTS
    Callers <- MCCallers
    Loops = {l1, l2}
    Workers = {w1}
    v1 = v1
    v2 = v2
    Keys <- MCKeys
    Effect <- MCEffect
    Outputs = {o1}
    Reason = Reason
    NoResult = NoResult
    MaxCalls = 2
    Null = Null
    Registered <- MCRegistered
    Durable <- MCDurable
    Invalid <- MCInvalid
    Asks <- MCAsks
    Detail = Detail
    NoStep = NoStep
    MaxReplies = 3
SYMMETRY Symmetry
INVARIANTS StepTypeOK EveryCallAnswered ResultsHappened UnsafeOncePerStep UnsafeResultsAgree ReplayFaithful
