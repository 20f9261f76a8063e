\* Four names compete for three places, two of which an eviction looks at, while time passes and feeds refresh.
SPECIFICATION Spec
CONSTANTS
    Keys = {k1, k2, k3, k4}
    Messages <- UsualMessages
    Readers = {r1}
    minTTL = 0
    maxTTL = 2
    negTTL = 3
    ShardMax = 3
    Sample = 2
    UintModulus = 64
    MaxPause = 0
    MaxClock = 2
    MaxGeneration = 1
    NoEntry = NoEntry
SYMMETRY KeySymmetry
CHECK_DEADLOCK FALSE
INVARIANTS
    TypeOK
    HonoursCountedTTL
PROPERTIES
    EvictionSparesTheUsed
