SPECIFICATION FairSpec
CONSTANTS
    t1 = t1
    t2 = t2
    Turns = {t1, t2}
    Watched = t1
    Retention = 3
    Channel = 2
    Limit = 2
    TerminalRetention = 1
    MaxEvents <- MCMaxEvents
    MaxDetaches = 0
    EventRetention = 2
    MaxPolls = 0
INVARIANTS
    StreamEndsWithTerminal
CHECK_DEADLOCK FALSE
