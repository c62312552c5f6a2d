CONSTANTS
    Latency = 3
    Interval1 = 4
    Interval2 = 6
    Interval <- Intervals
    CycleMod = 1
    TimeMod = 1
    Busy1 = 0
    Busy2 = 1
    MaxBusy <- BusyRuns
    MaxCycle = 0
SPECIFICATION FairSpec
INVARIANTS AcksHaveStamps
PROPERTIES EventuallySync
