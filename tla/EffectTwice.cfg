SPECIFICATION Spec
CONSTANTS
    p1 = p1  p2 = p2
    NoProcess = NoProcess
    N = 1
    Hitl <- NoNode
    Irreversible <- FirstNode
    Sandbox <- NoNode
    MaxRetries = 1
    Process <- OneProcess
    MaxFaults = 1
INVARIANTS EffectFiresOnce
