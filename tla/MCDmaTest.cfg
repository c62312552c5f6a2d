CONSTANTS
    Channels = {1, 2, 3}
    Shared = {3}
    Blocking = {2}
    Threads <- ThreadsOf
    Options <- CommandLines
    MaxSent = 2
    BurstMod = 1024
SPECIFICATION Spec
INVARIANTS WaitCountExact ExactlyNumIters BurstAsConfigured
PROPERTIES AllComplete
