CONSTANTS
    PortNum = 1
    LogMax = 1
    Commands <- StopAndStart
    BoardDepth = 1
    PortalDepth = 1
    RoundMod = 1
    MsgMod = 1
    MaxRound = 1
    MaxArrived = 1
SPECIFICATION DaemonFairSpec
PROPERTIES StartTakesEffect
