SPECIFICATION Spec
CONSTANTS
    None = None
    s1 = s1
    s2 = s2
    s3 = s3
    c1 = c1
    r1 = r1
    Callers = {p1, p2, p3}
    Traffics <- Safety
    StatusStates = {"Ready"}
    MaxSessions = 2
    BindingsEnabled = TRUE
SYMMETRY Symmetry
INVARIANTS
    TypeOK
    TurnsSerial
    ActiveTracked
    NoStuckBusy
    DrainingVisible
