SPECIFICATION Spec
CONSTANTS
    p1 = p1  p2 = p2
    NoProcess = NoProcess
    N = 3
    Hitl <- SecondNode
    Irreversible <- ThirdNode
    Sandbox <- ThirdNode
    MaxRetries = 1
    Process <- TwoProcesses
    MaxFaults = 1
INVARIANTS  CompletedMeansAll
PROPERTIES  ReportedIsReplayed GateHolds 
SYMMETRY Symmetry
