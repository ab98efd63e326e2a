SPECIFICATION FairSpec
CONSTANTS
    e1 = e1  e2 = e2  r1 = r1  w1 = w1  w2 = w2  wr1 = wr1
    NoLease = NoLease  NoProc = NoProc
    Exec <- TwoExecutions
    Reclaimer <- OneReclaimer
    Worker <- Workers
    WorkerOf <- ProcessOf
    TTL = 2
    MaxClock = 4
INVARIANTS IInv ActiveLeaseExclusive
PROPERTIES UnexpiredLeaseIsTheOwners ImplementsOwnership DeadWorkersLeaseCleared ExecutionEnds
CHECK_DEADLOCK FALSE
