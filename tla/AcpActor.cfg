CONSTANTS
    Tasks = {t1, t2, t3}
    Keys = {k1, k2}
    TurnTasks = {t1, t2}
    Mutexes = {m1, m2, m3, m4}
    None = None
SPECIFICATION FairSpec
INVARIANTS
    TypeOK
    ActorExclusive
    RegistryCurrent
    CountsExact
PROPERTY WaiterServed
