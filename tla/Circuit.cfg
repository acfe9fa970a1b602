SPECIFICATION FairSpec
CONSTANTS
    None = None
    FailureThreshold = 3
    Cooldown = 3
    HalfOpenMaxCalls = 3
    SuccessThreshold = 3
    Callers = {p1, p2, p3, p4}
INVARIANTS
    TypeOK
    CircuitCoherent
    NoOrphanWindow
    CooldownKept
PROPERTIES
    Reprobed
