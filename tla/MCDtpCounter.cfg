CONSTANTS
    Delays = {0, 1, 3}
    Skips = {0, 2}
    MaxCount = 10
SPECIFICATION Spec
CONSTRAINT Bounded
INVARIANTS TypeOK LanesAligned
PROPERTIES NeverBackwards EveryJumpCounted
