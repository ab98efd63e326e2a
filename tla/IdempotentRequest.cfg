SPECIFICATION FairSpec
CONSTANTS
    r1 = r1  r2 = r2  r3 = r3  b1 = b1  b2 = b2
    Nothing = Nothing
    Request <- ThreeRequests
    Payload <- TwoPayloads
    TTL = 1
    MaxClock = 2
INVARIANTS IdempotencyInv EffectOncePerTTL
PROPERTIES ImplementsOncePerKey RequestEnds
CHECK_DEADLOCK FALSE
