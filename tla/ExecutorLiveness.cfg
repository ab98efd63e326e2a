SPECIFICATION CallSpec
CONSTANTS
    p1 = p1  p2 = p2
    NoProcess = NoProcess
    N = 2
    Hitl <- NoNode
    Irreversible <- SecondNode
    Sandbox <- FirstNode
    MaxRetries = 1
    Process <- TwoProcesses
    MaxFaults = 1
PROPERTIES CallEnds
