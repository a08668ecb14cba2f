SPECIFICATION DurableSpec
CONSTANTS
    Callers = {c1, c2}
    unsafeKey = unsafeKey
    readKey = readKey
    Keys = {unsafeKey}
    Effect <- MCEffect
    Outputs = {o1, o2}
    Reason = Reason
    NoResult = NoResult
    MaxCalls = 4
    NoMessage = NoMessage
    MaxSent = 2
    MaxFaults = 2
    WorkerMishaps = {"time_limit", "bad_deploy"}
SYMMETRY Symmetry
INVARIANTS DurableTypeOK CollectedOnce ReviewHasCause
PROPERTY ImplementsLedger
