CONSTANTS
    Clients = {c1, c2}
    KeyIds = {k1, k2}
    RoleSets = {{"viewer"}}
    Cooldown = 1
    Lifetime = 2
    MaxMissing = 1
    Horizon = 4
    Requests = {r1, r2}
    Owners = {o1}
    Names = {n1, n2, n3}
    MaxPerUser = 2
    MaxIds = 3
    MaxRevision = 2
    Reviewers = {v1, v2}
    Assets = {a1}
    MergePairs = {"k1"}
    Roles = {"router"}
    MaxRevs = 2
    Grades = {0, 1, 2}
    TopKs = {1, 2}
    Overfetch = 1
    MaxOverfetch = 2
    Alpha = 5
    Candidates = 2
    Denominator = 15249024
    KindOf <- MCKindOf
    ObservedAt <- MCObservedAt
    KindSets <- MCKindSets
    DocScopes <- MCDocScopes
    Macs = {1, 2}
    Aps = {1, 2}
    Sensors = {1, 2}
    Windows = {1, 2}
    Pinned = {2}
    NodeLimits = {1, 3}
    EdgeLimits = {4}
    PageSizes = {2}
    Spans = {1, 2}
    BucketSize = 2
    BucketMinutes = 1440
    NeighbourLimit = 1
    MaxSummaries = 4
    Summaries <- MCSummaries
    Frames <- MCFrames
    Ranges <- MCRanges
    Joined <- MCJoined
    Same <- MCSame
    RowIds = {1, 2, 3}
    Times = {1, 2}
    Counts = {1, 2}
    Sizes = {1, 2}
    RowPairs <- MCRowPairs
    RowScopes <- MCRowScopes
    Nodes <- MCNodes
    Kind <- MCKind
    EdgeAt <- MCEdges
    Filters <- MCFilters
    Starts <- MCStarts
    Anchors = {0, 2}
    Hops = {1, 2}
    Limits = {3, 5}
    Budget = 3
    MaxChanges = 1
SPECIFICATION RequestsSpec
INVARIANTS RequestsTypeOK HandledKeyRecent WithinLimit DecisionsFinal SearchSound AnswersConsistent PagesSound GraphSound TreeSound
PROPERTIES FetchesApart NoLostUpdate
CHECK_DEADLOCK FALSE
