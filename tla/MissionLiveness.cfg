SPECIFICATION FairSpec
CONSTANTS
    m1 = m1  m2 = m2  u1 = u1  u2 = u2  w1 = w1  x1 = x1  x2 = x2
    NoSession = NoSession  NoTask = NoTask  Nobody = Nobody
    Mission <- TwoMissions
    User <- OneUser
    Worker <- OneWorker
    Expirer <- TwoExpirers
    PatchTo <- Completes
    MaxCommands = 1
    MaxFaults = 1
PROPERTIES DispatchedLeavesQueue PausedTooLongEnds
CHECK_DEADLOCK FALSE
