SPECIFICATION Spec
CONSTANTS
    Callers = {c1, c2, c3}
    unsafeKey = unsafeKey
    readKey = readKey
    Keys = {unsafeKey, readKey}
    Effect <- MCEffect
    Outputs = {o1, o2}
    Reason = Reason
    NoResult = NoResult
    MaxCalls = 3
SYMMETRY Symmetry
INVARIANTS TypeOK UnsafeAtMostOnce AnswersHappened UnsafeAnswersAgree ReturnedMeansTerminal
PROPERTY RowsNeverReopen
