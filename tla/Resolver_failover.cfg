\* Two legacy upstreams tried in turn under one slot, the route retired at any moment;
\* fair, so that the waits can be followed to their end.
SPECIFICATION FairSpec
CONSTANTS
    None = None
    Queries = {q1, q2}
    Questions <- TwoQuestions
    NumUpstreams = 2
    Mode = "failover"
    EncryptedRoutes = {}
    MaxInflight = 1
    MaxRoute = 1
    MaxGeneration = 0
INVARIANTS
    AnswerIsForThisRequest
    ExchangesBounded
PROPERTIES
    EveryQueryEnds
    RetiredRouteCloses
