SPECIFICATION Spec
CONSTANTS
    None = None
    legacy = legacy
    Sinks = {here}
    Self = here
    Events <- MCEvents
    Legacy = legacy
    Faults = {"nothing", "part", "whole"}
    MaxLines = 3
    MaxLegacy = 1
    MaxOpens = 2
    Callers = {c1, c2}
    MaxTokens = 1
    Tasks = {k1}
    Belows = {1}
SYMMETRY Symmetry
INVARIANTS
    VerifyExact
    RevokedNeverRuns
    NextTokenValid
    TrailTrue
CHECK_DEADLOCK FALSE
