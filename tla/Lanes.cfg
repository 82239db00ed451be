CONSTANTS
    Calls = {c1, c2, c3}
    FailureMax = 2
    BaseBackoff = 2
    MaxBackoff = 5
    Callers = {q1, q2, w1, w2}
    WorkerCallers = {w1, w2}
    TotalSlots = 2
    ReservedSlots = 5
    CheckInterval = 1
    MaxInterval = 5
    SuccessEvery = 5
SPECIFICATION LanesSpec
INVARIANTS LanesTypeOK ProbeSlotNotLeaked SlotsAccounted
PROPERTIES CircuitProgress WaitEnds GateFollowsBackend MetricSettles
