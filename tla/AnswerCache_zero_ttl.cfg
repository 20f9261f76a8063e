\* An answer whose TTL is zero.
SPECIFICATION Spec
CONSTANTS
    Keys = {k1, k2, k3}
    Messages <- ZeroTTLMessages
    Readers = {r1}
    minTTL = 0
    maxTTL = 3
    negTTL = 3
    ShardMax = 2
    Sample = 24
    UintModulus = 64
    MaxPause = 0
    MaxClock = 4
    MaxGeneration = 1
    NoEntry = NoEntry
CHECK_DEADLOCK FALSE
INVARIANTS
    HonoursUpstreamTTL
