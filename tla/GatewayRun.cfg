SPECIFICATION Spec
CONSTANTS
    None = None
    MaxStarts = 2
    MaxTrouble = 1
    Surfaces = {x1, x2}
    Modes = {"headless", "attached"}
CONSTRAINTS Tame Few
CHECK_DEADLOCK FALSE
INVARIANTS
    SlotExclusive
    StopHitsTarget
    LastPhaseTrue
PROPERTIES
    StopHonoured
