CONSTANTS
    Macs = {1, 2}
    Aps = {1}
    Sensors = {1, 2}
    Windows = {1, 2}
    Summaries <- MCSummaries
    Joined <- MCJoined
    Same <- MCSame
    Ranges <- MCRanges
    Frames <- MCFrames
    Pinned = {2}
    NodeLimits = {1, 3}
    EdgeLimits = {4}
    PageSizes = {2}
    Spans = {2}
    BucketSize = 2
    BucketMinutes = 1440
    NeighbourLimit = 1
    MaxSummaries = 2
    MaxChanges = 1
SPECIFICATION Spec
INVARIANT NodeBudget
CHECK_DEADLOCK FALSE
