CONSTANTS
    PortNum = 2
    LogMax = 2
    Commands <- ResetLogCount
    BoardDepth = 2
    PortalDepth = 2
    RoundMod = 1
    MsgMod = 8
    MaxRound = 2
    MaxArrived = 3
SPECIFICATION DaemonFairSpec
CONSTRAINT Bounded
INVARIANTS TypeOK EntriesInOrder
PROPERTIES ParamsTakeEffect
