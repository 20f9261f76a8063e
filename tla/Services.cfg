\* Each service on its own small instance.
SPECIFICATION ServicesSpec
CONSTANTS
    \* the feed manager: two feeds, two events among edits, new versions,
    \* crashes and lost copies
    f1 = f1
    f2 = f2
    u1 = u1
    u2 = u2
    Feeds = {f1, f2}
    Urls = {u1, u2}
    UrlOf <- StartUrls
    Loaders = {l1, l2}
    None = None
    Refresher = Refresher
    MaxVersion <- Published
    MaxEvents = 2
    \* the index: two names, three categories, four claims
    Names <- BlockedNames
    Categories = {"malware", "c2", "ads"}
    Severity <- CategorySeverity
    Sources = {s1, s2}
    NoClaim = NoClaim
    MaxClaims = 4
    \* managed trust anchors: one configured key and one that is introduced
    k1 = k1
    Keys = {k1, k2}
    Configured = {k1}
    AddHoldDown = 1
    RemoveHoldDown = 1
    TTLs = {0}
    Never = Never
    MaxTime = 2
    MaxFaults = 1
    \* the decision recorder
    Callers = {p1, p2}
    RecorderQueue = 2
    MaxDecisions = 4
    \* the observer and its writer
    Queriers = {q1, q2}
    Validators = {v1, v2}
    ObserverQueue = 2
    WriterQueue = 1
    BatchRows = 2
    MaxObserved = 4
    \* the provider engine: two workers, two administrators
    \* who act one at a time
    Askers = {w1, w2}
    Operators = {o1, o2}
    ProviderQueue = 1
    Nobody = Nobody
    MaxInstances = 2
    MaxSwitches = 1
    \* the iterative resolver
    Tree <- WorldTree
    Root = "root"
    Above <- WorldAbove
    Cuts <- WorldCuts
    Held <- WorldHeld
    Alias <- WorldAlias
    Nameservers <- WorldNameservers
    Old = {"nuk"}
    Questions <- WorldQuestions
    MaxQueries = 5
    MaxNSDepth = 2
    MaxDelegations = 2
    MaxCNAMEs = 2
    MaxExpiries = 1
    \* the validator
    Signed <- WorldSigned
    Anchors = {"root", "org"}
    Rank <- WorldRank
    Star <- WorldStar
    Examined <- WorldExamined
    Attacker = "attacker"
    MaxHops = 3
    MaxZones = 3
    MaxLookups = 10
    \* one query among two writes of networks and policies
    Networks = {"n_default", "alice", "bob", "carol"}
    Policies = {"standard", "monitor"}
    DefaultNetwork = "n_default"
    DefaultPolicy = "standard"
    NameRank <- NetworkNames
    Ranges = {"ten8", "ten16", "far32"}
    Bits <- Lengths
    Within <- Inside
    Clients = {"laptop", "phone"}
    Asked = {"login", "other"}
    Parents <- Ancestors
    Filed <- FiledUnder
    Absent = Absent
    Deleted = Deleted
    NoToken = NoToken
    StoredNetworks <- FirstNetworks
    StoredPolicies <- FirstPolicies
    NetworkWrites <- NetworkEdits
    PolicyWrites <- PolicyEdits
    MaxWrites = 2
    \* the administrator's credential: two starts, two passwords, three revisions
    Starters = {d1, d2}
    Browsers = {b1, b2}
    Passwords = {pw1, pw2}
    Unset = Unset
    Partial = Partial
    MaxRevision = 3
    \* the webhook outbox: three events, two changes of its settings, one failure
    Events = {e1, e2, e3}
    NoEvent = NoEvent
    MaxQueue = 2
    MaxAttempts = 2
    MaxSettings = 3
    MaxFailures = 1
INVARIANTS
    ServicesTypeOK
    NotModifiedIsSound
    SwitchedOffStopsBlocking
    BlockingIsExact
    RevocationLasts
    NoDecisionStranded
    EveryObservationAccounted
    CacheFollowsInstances
    AnswersTheQuestion
    VerdictIsEarned
    DecidedAsConfigured
    SessionsProveThePassword
    ActiveIsDelivered
    EventsAreAccounted
PROPERTIES
    ImplementsBlockIndex
    RefreshKeepsProtection
    HoldDownServed
    OnlyItselfRevokes
    NoLateCommit
    SentAsConsented
CHECK_DEADLOCK FALSE
