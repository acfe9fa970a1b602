SPECIFICATION FairSpec
CONSTANTS
    None = None
    c1 = c1
    Clients = {c1}
    Limits = {1, 3}
    Retention = 3
    Channel = 4
    MaxEvents = 10
INVARIANTS
    OnceInOrder
PROPERTIES
    NoRetainedSkipped
    CatchesUp
