CONSTANTS
    WordBytes = 2
    FifoLen = 4
    ReadReqs = 2
    LinkSpeed = 10
    MinimumIPG = 1
    Traces <- TwoTraces
    Rates = {0, 3, 7, 10}
    Counts = {0, 1, 4}
    MaxRuns = 2
SPECIFICATION Spec
INVARIANTS BufferHoldsTrace
PROPERTIES ReplaysTrace RateBounded ExactlyCount RunEnds
CHECK_DEADLOCK FALSE
