SPECIFICATION Spec
CONSTANTS
    m1 = m1  m2 = m2  u1 = u1  u2 = u2  w1 = w1  x1 = x1  x2 = x2
    NoSession = NoSession  NoTask = NoTask  Nobody = Nobody
    Mission <- TwoMissions
    User <- TwoUsers
    Worker <- OneWorker
    Expirer <- TwoExpirers
    PatchTo <- Completes
    MaxCommands = 2
    MaxFaults = 1
INVARIANTS LifecycleInv CompensatedOnce 
PROPERTIES LockedWritesAllowed ImplementsCompensation
SYMMETRY Symmetry
CHECK_DEADLOCK FALSE
