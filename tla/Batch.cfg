SPECIFICATION FairSpec
CONSTANTS
    None = None
    c1 = c1
    c2 = c2
    c3 = c3
    c4 = c4
    c5 = c5
    Calls <- FiveCalls
    Queues <- FiveQueues
    Guarded = {c1, c3, c4, c5}
    Cycle <- Weighted
    MaxAttempts <- Attempts
    MinInFlight = 1
    MaxInFlight = 4
    UpshiftStep = 3
    DownshiftStep = 2
    RecoverySuccesses = 2
    ReduceOn = {"connector_execution_error", "circuit_open"}
    ContinueOnError = FALSE
    FailureThreshold = 1
    Cooldown = 1
    HalfOpenMaxCalls = 2
    SuccessThreshold = 2
INVARIANTS
    InFlightBounded
    NoStarvation
    NothingLost
    NoOrphanProbe
PROPERTIES
    BatchEnds
