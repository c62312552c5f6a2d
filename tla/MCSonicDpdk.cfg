CONSTANTS
    Senders = {s1, s2}
    TxCredit = 2
    TxCredTotal = 3
    TxCredThres = 2
    CredFifo = 1
    RxCredTotal = 1
    RxRoom = 1
    MaxBurst = 2
    MaxPackets = 5
    HalfPages = 2
    Sizes = {1, 3}
    Ids = {0, 1}
    Memories <- Registered
SPECIFICATION Spec
INVARIANTS CreditsConserved OverdraftBounded
PROPERTIES TransfersTranslate CreditComesBack
CHECK_DEADLOCK FALSE
