\* Every upstream asked at once; a feed
\* refresh at any moment; losers outlive their query while the route they run
\* on is replaced by an encrypted one and closed.
SPECIFICATION Spec
CONSTANTS
    None = None
    Queries = {q1, q2}
    Questions <- OneQuestion
    NumUpstreams = 2
    Mode = "race"
    EncryptedRoutes = {2}
    MaxInflight = 1
    MaxRoute = 2
    MaxGeneration = 1
SYMMETRY QuerySymmetry
INVARIANTS
    AnswerIsForThisRequest
    OneExchangePerFlight
    FollowersAreNotStranded
PROPERTIES
    RouteGateHolds
