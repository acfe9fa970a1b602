CONSTANTS
    Units = {1, 2, 3}
    Owners = {w1, w2}
    Times = {0, 2}
    Ttls = {1, 3}
    Ranks = {2}
    StartStatuses = {"ready"}
    EditStatuses = {"ready", "cancelled"}
    RetryPolicy <- MCRetryPolicy
    I64Max = 2
    MaxLeases = 3
    MaxRevivals = 1
    NULL = NULL
CONSTRAINT TwoUnitsOrNoLease
SYMMETRY OwnerSymmetry
SPECIFICATION Spec
INVARIANTS
    TypeOK
    LeaseCoherent
    RetryBudget
    DependenciesAcyclic
PROPERTY ImplementsLease
CHECK_DEADLOCK FALSE
