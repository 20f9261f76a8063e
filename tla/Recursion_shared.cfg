\* One server for a zone and for the zone below it.
SPECIFICATION RecursionSpec
CONSTANTS
    Tree <- SharedTree
    Root = "root"
    Above <- SharedAbove
    Cuts = {"root", "uk", "couk"}
    Held <- SharedHeld
    Alias <- NoAlias
    Nameservers <- SharedNameservers
    Old = {}
    Questions <- SharedQuestions
    MaxQueries = 5
    MaxNSDepth = 2
    MaxDelegations = 3
    MaxCNAMEs = 1
    MaxExpiries = 0
INVARIANTS
    AnswersTheQuestion
CHECK_DEADLOCK FALSE
