CONSTANTS
    Ports = {1, 2}
    WriteDepth = 3
    FromHostDepth = 2
    ToHostDepth = 3
    PhyDepth = 1
    ReadDepth = 2
    MaxWritten = 4
SPECIFICATION FairSpec
CONSTRAINT Bounded
INVARIANTS TypeOK JamNeedsLosses
PROPERTIES ImplementsLog EventuallyRead
