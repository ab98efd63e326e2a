SPECIFICATION Spec
CONSTANTS
    r1 = r1  r2 = r2  r3 = r3  b1 = b1  b2 = b2
    Nothing = Nothing
    Request <- TwoRequests
    Payload <- TwoPayloads
    TTL = 1
    MaxClock = 1
INVARIANTS ReplayIsAnswer
CHECK_DEADLOCK FALSE
