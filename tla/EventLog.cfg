SPECIFICATION EventSpec
CONSTANTS
    s1 = s1  s2 = s2  k1 = k1  k2 = k2  k3 = k3
    Session <- Sessions
    Key <- ThreeKeys
    MaxBatch = 2
    MaxEvents = 2
    ReplayBatch = 1
INVARIANTS EventInv ReplayComplete
PROPERTIES ImplementsStream CommittedMeansLogged
SYMMETRY Symmetry
