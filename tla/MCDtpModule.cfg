CONSTANTS
    PortNum = 2
    WordMod = 4
    Values = {1, 4}
    Words = {1}
    ResetMod = 3
    MinReset = 2
    Depth = 7
    MaxPending = 2
    LateMethods = {"delay", "message"}
    Clients = {c1}
    CallSets <- OneMethod
    RoundCalls = 1
SPECIFICATION Spec
INVARIANTS AllOrNothing NothingUsedAfterFree
PROPERTIES RequestsArrive AnswersBelong UnloadEnds
