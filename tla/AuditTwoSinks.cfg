SPECIFICATION JournalSpec
CONSTANTS
    None = None
    Sinks = {channel, delegate}
    Events = {event, legacy}
    Legacy = legacy
    Faults = {}
    MaxLines = 3
    MaxLegacy = 0
    MaxOpens = 2
INVARIANTS
    VerifyExact
CHECK_DEADLOCK FALSE
