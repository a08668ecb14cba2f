SPECIFICATION DurableFairSpec
CONSTANTS
    Callers = {c1, c2}
    unsafeKey = unsafeKey
    readKey = readKey
    Keys = {unsafeKey, readKey}
    Effect <- MCEffect
    Outputs = {o1}
    Reason = Reason
    NoResult = NoResult
    MaxCalls = 2
    NoMessage = NoMessage
    MaxSent = 1
    MaxFaults = 1
    WorkerMishaps = {}
INVARIANTS DispatchedIsPromised
PROPERTY EveryDispatchEnds
