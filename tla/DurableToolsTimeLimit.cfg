SPECIFICATION DurableSpec
CONSTANTS
    Callers = {c1, c2}
    unsafeKey = unsafeKey
    readKey = readKey
    Keys = {unsafeKey}
    Effect <- MCEffect
    Outputs = {o1}
    Reason = Reason
    NoResult = NoResult
    MaxCalls = 3
    NoMessage = NoMessage
    MaxSent = 2
    MaxFaults = 1
    WorkerMishaps = {"time_limit"}
INVARIANT PendingIsPromised
