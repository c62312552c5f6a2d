CONSTANTS
    PortNum = 1
    LogMax = 2
    Commands <- CounterOne
    BoardDepth = 2
    PortalDepth = 1
    RoundMod = 16
    MsgMod = 16
    MaxRound = 2
    MaxArrived = 3
SPECIFICATION Spec
CONSTRAINT Bounded
INVARIANTS UserTypeOK
PROPERTIES AcceptsWhole PrintsForward
