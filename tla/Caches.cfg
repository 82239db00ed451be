CONSTANTS
    Callers = {p, q}
    MaxCalls = 4
    Readers = {r1, r2}
    Samples <- MCSamples
    Ttl = 1
    Stale = 1
    Gone = 2
    Horizon = 4
    Timeout = 2
    Probes = {p1, p2}
    Lifetime = 2
    MaxTime = 4
    Clients = {c1, c2}
    Texts = {"x", "y", "z"}
    Capacity = 2
SPECIFICATION CachesSpec
INVARIANTS CachesTypeOK RefreshesSound RatesOfShown ReadinessHonest CacheSound
PROPERTIES SnapshotsMonotone SharedWaitEnds
CHECK_DEADLOCK FALSE
