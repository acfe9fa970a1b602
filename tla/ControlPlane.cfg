SPECIFICATION FairSpec
CONSTANTS
    t1 = t1
    t2 = t2
    Turns = {t1, t2}
    Watched = t1
    Retention = 3
    Channel = 2
    Limit = 2
    TerminalRetention = 1
    MaxEvents <- MCMaxEvents
    MaxDetaches = 1
    EventRetention = 2
    MaxPolls = 2
INVARIANTS
    NoLostWakeup
PROPERTIES
    StreamFaithful
    ReaderGetsTerminal
CHECK_DEADLOCK FALSE
