\* A Get that takes a second or more between its clock and its answer.
SPECIFICATION Spec
CONSTANTS
    Keys = {k1}
    Messages <- UsualMessages
    Readers = {r1}
    minTTL = 0
    maxTTL = 2
    negTTL = 3
    ShardMax = 2
    Sample = 24
    UintModulus = 64
    MaxPause = 2
    MaxClock = 4
    MaxGeneration = 1
    NoEntry = NoEntry
CHECK_DEADLOCK FALSE
INVARIANTS
    TTLOnlyShrinks
