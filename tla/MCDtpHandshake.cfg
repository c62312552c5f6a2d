CONSTANTS
    Latency = 4
    Interval1 = 4
    Interval2 = 4
    Interval <- Intervals
    CycleMod = 64
    TimeMod = 128
    Busy1 = 1
    Busy2 = 0
    MaxBusy <- BusyRuns
    MaxCycle = 22
SPECIFICATION Spec
CONSTRAINT Bounded
INVARIANTS TypeOK NeverUnderestimates SyncIsMeasured
